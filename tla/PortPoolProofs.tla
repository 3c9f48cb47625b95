--------------------------- MODULE PortPoolProofs ----------------------------
(***************************************************************************)
(* Theorems about PortPool, for every range of ports, every width of the   *)
(* counter and every number of clients: the walk implements the exclusive  *)
(* leases of PortLease.  A step of it hands out a port because `in_use`,   *)
(* the only thing the walk consults besides the bind, is exactly the set   *)
(* of ports that clients hold.                                             *)
(***************************************************************************)
EXTENDS PortPool, TLAPS

\* The pool's set is what the clients hold, one port each, and nobody else's.
InUseIsLeased ==
    /\ \A p \in Ports : p \in in_use <=> \E c \in Clients : lease[c] = p
    /\ \A c, d \in Clients : (lease[c] = lease[d] /\ lease[c] # NoPort) => c = d

\* Who is inside alloc holds no port, until the walk hands it one.
WalkerHoldsNone == \A c \in Clients : walker = c => lease[c] = NoPort

IInv == TypeOK /\ InUseIsLeased /\ WalkerHoldsNone
------------------------------------------------------------------------------
\* The remainder of a counter value is an offset into the range.
LEMMA Offset ==
    ASSUME NEW n \in Nat
    PROVE  n % Count \in 0 .. Count - 1 /\ (n % Count) % Count = n % Count
  BY PoolAssumption

\* Every counter value stands for a port of the range.
LEMMA CandidateIsPort == ASSUME NEW n \in Nat PROVE Candidate(n) \in Ports
<1>1. n % Count \in 0 .. Count - 1
  BY Offset
<1>2. Candidate(n % Count) = Candidate(n)
  BY Offset DEF Candidate
<1>3. QED
  BY <1>1, <1>2 DEF Ports

\* A port is a number, NoPort is not.
LEMMA NoPortIsNoPort == NoPort \notin Ports
<1>1. ASSUME NEW n \in 0 .. Count - 1 PROVE Candidate(n) \in Nat
  <2>1. n % Count \in Nat
    BY Offset, PoolAssumption
  <2>2. Base + (n % Count) \in Nat
    BY <2>1, PoolAssumption
  <2>3. QED
    BY <2>2, PoolAssumption DEF Candidate
<1>2. QED
  BY <1>1, PoolAssumption DEF Ports
------------------------------------------------------------------------------
LEMMA InitIInv == Init => IInv
<1> SUFFICES ASSUME Init PROVE IInv
  OBVIOUS
<1>1. TypeOK
  BY PoolAssumption DEF Init, TypeOK
<1>2. InUseIsLeased
  BY NoPortIsNoPort DEF Init, InUseIsLeased
<1>3. WalkerHoldsNone
  BY DEF Init, WalkerHoldsNone
<1>4. QED
  BY <1>1, <1>2, <1>3 DEF IInv

LEMMA TypeStep == TypeOK /\ [Next]_vars => TypeOK'
<1> SUFFICES ASSUME TypeOK, [Next]_vars PROVE TypeOK'
  OBVIOUS
<1> USE DEF TypeOK
<1>0. next \in Nat /\ Advance \in 0 .. CounterMod - 1 /\ Candidate(next) \in Ports
  <2>1. next \in Nat
    BY PoolAssumption
  <2>2. QED
    BY <2>1, CandidateIsPort, PoolAssumption DEF Advance
<1>1. ASSUME NEW c \in Clients, AllocBegin(c) PROVE TypeOK'
  BY <1>1, PoolAssumption DEF AllocBegin
<1>2. ASSUME NEW c \in Clients, AllocSkip(c) PROVE TypeOK'
  BY <1>0, <1>2, PoolAssumption DEF AllocSkip
<1>3. ASSUME NEW c \in Clients, AllocSome(c) PROVE TypeOK'
  BY <1>0, <1>3, PoolAssumption DEF AllocSome
<1>4. ASSUME NEW c \in Clients, AllocNone(c) PROVE TypeOK'
  BY <1>4, PoolAssumption DEF AllocNone
<1>5. ASSUME NEW c \in Clients, Release(c) PROVE TypeOK'
  BY <1>5 DEF Release
<1>6. ASSUME NEW p \in Ports, Occupy(p) \/ Vacate(p) PROVE TypeOK'
  BY <1>6 DEF Occupy, Vacate
<1>7. CASE UNCHANGED vars
  BY <1>7 DEF vars
<1>8. QED
  BY <1>1, <1>2, <1>3, <1>4, <1>5, <1>6, <1>7 DEF Next

LEMMA IInvStep == IInv /\ [Next]_vars => IInv'
<1> SUFFICES ASSUME IInv, [Next]_vars PROVE IInv'
  OBVIOUS
<1>0. TypeOK'
  BY TypeStep DEF IInv
<1> USE DEF IInv, TypeOK
<1>1. ASSUME NEW c \in Clients, AllocSome(c) PROVE InUseIsLeased'
  <2>1. Candidate(next) \in Ports \ in_use
    BY <1>1, CandidateIsPort, PoolAssumption DEF AllocSome, Free
  <2>2. in_use' = in_use \cup {Candidate(next)}
    BY <1>1 DEF AllocSome
  <2>3. lease' = [lease EXCEPT ![c] = Candidate(next)] /\ lease[c] = NoPort
    BY <1>1 DEF AllocSome, WalkerHoldsNone
  <2>4. QED
    BY <2>1, <2>2, <2>3, NoPortIsNoPort DEF InUseIsLeased
<1>2. ASSUME NEW c \in Clients, Release(c) PROVE InUseIsLeased'
  BY <1>2, NoPortIsNoPort DEF Release, InUseIsLeased
<1>3. ASSUME UNCHANGED <<in_use, lease>> PROVE InUseIsLeased'
  BY <1>3 DEF InUseIsLeased
<1>4. WalkerHoldsNone'
  BY PoolAssumption
  DEF WalkerHoldsNone, Next, vars, AllocBegin, AllocSkip, AllocSome, AllocNone, Release,
      Occupy, Vacate
<1>5. QED
  BY <1>0, <1>1, <1>2, <1>3, <1>4
  DEF Next, vars, AllocBegin, AllocSkip, AllocNone, Occupy, Vacate

LEMMA Invariance == Spec => []IInv
<1>1. QED
  BY InitIInv, IInvStep, PTL DEF Spec
------------------------------------------------------------------------------
(***************************************************************************)
(* The theorems.                                                           *)
(***************************************************************************)

\* Every variable keeps its type; in particular a walk ends after Count tries.
THEOREM TypeCorrect == Spec => []TypeOK
<1>1. IInv => TypeOK
  BY DEF IInv
<1>2. QED
  BY <1>1, Invariance, PTL

\* A step of the pool is a grant of a port nobody holds, the return of a held
\* one, or leaves the leases alone.
LEMMA StepRefines == IInv /\ [Next]_vars => [Lease!Next]_lease
<1> SUFFICES ASSUME IInv, [Next]_vars PROVE [Lease!Next]_lease
  OBVIOUS
<1>1. ASSUME NEW c \in Clients, AllocSome(c) PROVE Lease!Next
  <2>1. Candidate(next) \in Ports \ in_use
    BY <1>1, CandidateIsPort, PoolAssumption DEF AllocSome, Free, IInv, TypeOK
  <2>2. Lease!Grant(c, Candidate(next))
    BY <1>1, <2>1 DEF AllocSome, IInv, WalkerHoldsNone, InUseIsLeased, Lease!Grant
  <2>3. QED
    BY <2>1, <2>2 DEF Lease!Next
<1>2. ASSUME NEW c \in Clients, Release(c) PROVE Lease!Next
  BY <1>2 DEF Release, Lease!Next, Lease!GiveBack
<1>3. QED
  BY <1>1, <1>2
  DEF Next, vars, AllocBegin, AllocSkip, AllocNone, Occupy, Vacate

\* PortPool implements PortLease: whatever the range, the width of the counter
\* and the interleaving of walks, releases and foreign binds, a port is handed
\* out only while nobody holds it (ports.rs:78-108).
THEOREM PoolImplementsLease == Spec => LeaseSpec
<1>1. Init => Lease!Init
  BY DEF Init, Lease!Init
<1>2. QED
  BY <1>1, StepRefines, Invariance, PTL DEF Spec, LeaseSpec, Lease!Spec
------------------------------------------------------------------------------
(***************************************************************************)
(* None means exhausted, when the counter wraps at a multiple of Count.    *)
(* The argument: the remainders of the counter values that a walk takes    *)
(* are consecutive, so Count of them are all the offsets of the range.     *)
(***************************************************************************)

LEMMA RemainderUnique ==
    ASSUME NEW n \in Nat, NEW q \in Nat, NEW r \in 0 .. Count - 1, n = Count * q + r
    PROVE  n % Count = r
<1> DEFINE d == n \div Count
<1> DEFINE m == n % Count
<1>1. d \in Nat /\ m \in 0 .. Count - 1 /\ n = Count * d + m
  BY PoolAssumption
<1>2. CASE d < q
  <2>1. q = d + 1 + (q - d - 1) /\ q - d - 1 \in Nat
    BY <1>1, <1>2
  <2>2. Count * q >= Count * (d + 1)
    BY <2>1, <1>1, <1>2, PoolAssumption
  <2>3. QED
    BY <2>2, <1>1, PoolAssumption
<1>3. CASE d > q
  <2>1. Count * d >= Count * (q + 1)
    BY <1>1, <1>3, PoolAssumption
  <2>2. QED
    BY <2>1, <1>1, PoolAssumption
<1>4. QED
  BY <1>1, <1>2, <1>3, PoolAssumption

\* The remainder of the next number.
LEMMA NextRemainder ==
    ASSUME NEW n \in Nat
    PROVE  (n + 1) % Count = IF n % Count = Count - 1 THEN 0 ELSE (n % Count) + 1
<1> DEFINE d == n \div Count
<1> DEFINE m == n % Count
<1>1. d \in Nat /\ m \in 0 .. Count - 1 /\ n = Count * d + m
  BY PoolAssumption
<1>2. CASE m = Count - 1
  <2>1. n + 1 = Count * (d + 1) + 0
    BY <1>1, <1>2, PoolAssumption
  <2>2. d + 1 \in Nat /\ 0 \in 0 .. Count - 1
    BY <1>1, PoolAssumption
  <2>3. (n + 1) % Count = 0
    <3> HIDE DEF m, d
    <3>1. QED
      BY <2>1, <2>2, RemainderUnique
  <2>4. QED
    BY <2>3, <1>2
<1>3. CASE m # Count - 1
  <2>1. n + 1 = Count * d + (m + 1)
    BY <1>1, PoolAssumption
  <2>2. m + 1 \in 0 .. Count - 1
    BY <1>1, <1>3, PoolAssumption
  <2>3. (n + 1) % Count = m + 1
    <3> HIDE DEF m, d
    <3>1. QED
      BY <2>1, <2>2, <1>1, RemainderUnique
  <2>4. QED
    BY <2>3, <1>3
<1>4. QED
  BY <1>2, <1>3

\* Wrapping the counter does not disturb its remainder.
LEMMA AdvanceRemainder ==
    ASSUME CounterMod % Count = 0, next \in 0 .. CounterMod - 1
    PROVE  Advance % Count = (next + 1) % Count
<1>1. CASE next + 1 = CounterMod
  <2>1. Advance = 0
    BY <1>1, PoolAssumption DEF Advance
  <2>2. 0 % Count = 0
    BY PoolAssumption
  <2>3. QED
    BY <1>1, <2>1, <2>2
<1>2. CASE next + 1 # CounterMod
  BY <1>2, PoolAssumption DEF Advance
<1>3. QED
  BY <1>1, <1>2

\* What a walk in progress has passed over: the candidates of `tried`
\* consecutive offsets, of which the counter stands at the next.
WalkCovers ==
    \E first \in 0 .. Count - 1 :
        /\ next % Count = (first + tried) % Count
        /\ \A i \in 0 .. tried - 1 : Candidate(first + i) \in skipped

\* A walk that begins has passed over nothing.
LEMMA FreshWalk == next \in Nat /\ tried = 0 => WalkCovers
<1> SUFFICES ASSUME next \in Nat, tried = 0 PROVE WalkCovers
  OBVIOUS
<1> DEFINE m == next % Count
<1>1. m \in 0 .. Count - 1 /\ (m + tried) % Count = next % Count
  BY Offset, PoolAssumption
<1>2. \A i \in 0 .. tried - 1 : FALSE
  OBVIOUS
<1> HIDE DEF m
<1>3. QED
  BY <1>1, <1>2 DEF WalkCovers

\* One more candidate that the walk moves past.
LEMMA SkipCovers ==
    ASSUME CounterMod % Count = 0, TypeOK, WalkCovers, NEW c \in Clients, AllocSkip(c)
    PROVE  WalkCovers'
<1>1. PICK first \in 0 .. Count - 1 :
        /\ next % Count = (first + tried) % Count
        /\ \A i \in 0 .. tried - 1 : Candidate(first + i) \in skipped
  BY DEF WalkCovers
<1>2. /\ next \in 0 .. CounterMod - 1 /\ next \in Nat
      /\ first + tried \in Nat /\ tried \in Nat /\ first \in Nat
  BY PoolAssumption DEF TypeOK
<1>3. /\ next' = Advance
      /\ tried' = tried + 1
      /\ skipped' = skipped \cup {Candidate(next)}
  BY DEF AllocSkip
<1>4. next' % Count = (first + tried') % Count
  <2>1. next' % Count = (next + 1) % Count
    BY <1>2, <1>3, AdvanceRemainder
  <2>2. (next + 1) % Count = ((first + tried) + 1) % Count
    BY <1>1, <1>2, NextRemainder
  <2>3. (first + tried) + 1 = first + tried'
    BY <1>2, <1>3
  <2>4. QED
    BY <2>1, <2>2, <2>3
<1>5. Candidate(first + tried) = Candidate(next)
  BY <1>1 DEF Candidate
<1>6. ASSUME NEW i \in 0 .. tried' - 1 PROVE Candidate(first + i) \in skipped'
  <2>1. i = tried \/ i \in 0 .. tried - 1
    BY <1>2, <1>3
  <2>2. QED
    BY <2>1, <1>1, <1>3, <1>5
<1>7. QED
  BY <1>4, <1>6 DEF WalkCovers, Candidate

LEMMA CoversStep ==
    ASSUME CounterMod % Count = 0, TypeOK, WalkCovers, [Next]_vars
    PROVE  WalkCovers'
<1>1. next' \in Nat
  BY TypeStep, PoolAssumption DEF TypeOK
<1>2. CASE tried' = 0
  <2>1. (next \in Nat)' /\ (tried = 0)'
    BY <1>1, <1>2
  <2>2. QED
    BY <2>1, FreshWalk, PTL
<1>3. CASE \E c \in Clients : AllocSkip(c)
  BY <1>3, SkipCovers
<1>4. CASE UNCHANGED <<next, tried, skipped>>
  BY <1>4 DEF WalkCovers, Candidate
<1>5. QED
  BY <1>2, <1>3, <1>4
  DEF Next, vars, AllocBegin, AllocSome, AllocNone, Release, Occupy, Vacate

\* A walk of Count candidates has passed over every port of the range.
LEMMA CoversAll == WalkCovers => NoneMeansExhausted
<1> SUFFICES ASSUME WalkCovers, tried = Count, NEW p \in Ports PROVE p \in skipped
  BY DEF NoneMeansExhausted
<1>1. PICK first \in 0 .. Count - 1 :
        \A i \in 0 .. Count - 1 : Candidate(first + i) \in skipped
  BY DEF WalkCovers
<1>2. PICK n \in 0 .. Count - 1 : p = Candidate(n)
  BY DEF Ports
<1>3. CASE n >= first
  <2>1. n - first \in 0 .. Count - 1 /\ first + (n - first) = n
    BY <1>3, PoolAssumption
  <2>2. QED
    BY <1>1, <1>2, <2>1
<1>4. CASE n < first
  <2> DEFINE i == n + Count - first
  <2>1. i \in 0 .. Count - 1 /\ first + i = Count * 1 + n /\ first + i \in Nat
    BY <1>4, PoolAssumption
  <2>2. n % Count = n
    BY PoolAssumption
  <2>3. (first + i) % Count = n
    <3> HIDE DEF i
    <3>1. QED
      BY <2>1, RemainderUnique
  <2>4. Candidate(first + i) = p
    BY <1>2, <2>2, <2>3 DEF Candidate
  <2>5. QED
    BY <1>1, <2>1, <2>4
<1>5. QED
  BY <1>3, <1>4

\* If the range divides the counter's 2^16 values, alloc answers None only when
\* no port of the range was free: each is handed out, or was found bound by this
\* very walk (ports.rs:72, 78-102).  Where it does not divide them this fails,
\* as a run of PortPool shows.
THEOREM NoneIsExhaustion ==
    CounterMod % Count = 0 => (Spec => []NoneMeansExhausted)
<1> SUFFICES ASSUME CounterMod % Count = 0 PROVE Spec => []NoneMeansExhausted
  OBVIOUS
<1>1. Init => WalkCovers
  BY FreshWalk DEF Init
<1>2. TypeOK /\ WalkCovers /\ [Next]_vars => WalkCovers'
  BY CoversStep
<1>3. QED
  BY <1>1, <1>2, CoversAll, TypeCorrect, PTL DEF Spec

==============================================================================
