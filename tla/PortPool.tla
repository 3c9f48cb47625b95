------------------------------ MODULE PortPool -------------------------------
(***************************************************************************)
(* PortPool of src/src/video/ports.rs: the process-wide pool of loopback   *)
(* ports for the sessions' HTTP-FLV listeners.  `alloc` holds the `in_use` *)
(* lock over a walk of at most `count` candidates; each candidate is taken *)
(* from a wrapping atomic counter, skipped when it is handed out, probed   *)
(* with a throwaway bind otherwise.  The probes are awaits, so another     *)
(* process may take or free a port between two of them; `release` waits    *)
(* for the lock.                                                           *)
(***************************************************************************)
EXTENDS Naturals

CONSTANTS Clients,     \* the sessions that allocate and release
          NoClient,    \* "nobody is inside alloc"
          NoPort,      \* "no port held"
          Base,        \* first port of the range (20000 by default)
          Count,       \* size of the range (6000 by default)
          CounterMod,  \* the counter is an AtomicU16: 2^16 in the program
          PortSpace    \* ports are u16: 2^16 in the program

ASSUME PoolAssumption ==
    /\ Base \in Nat
    /\ Count \in Nat \ {0}          \* `count.max(1)` in PortPool::new
    /\ CounterMod \in Nat \ {0}
    /\ PortSpace \in Nat \ {0}
    /\ NoPort \notin Nat
    /\ NoClient \notin Clients

VARIABLES
    next,     \* the monotonic counter
    in_use,   \* the handed-out ports
    bound,    \* ports another process is bound to
    walker,   \* the client inside alloc (it holds the in_use lock)
    tried,    \* candidates the walk has taken from the counter
    skipped,  \* history: the ports this walk passed over
    lease     \* the port each client was handed and has not released

vars == <<next, in_use, bound, walker, tried, skipped, lease>>
------------------------------------------------------------------------------
\* The port a counter value stands for: u32 arithmetic wrapped into 16 bits.
Candidate(n) == (Base + (n % Count)) % PortSpace

Ports == {Candidate(n) : n \in 0 .. Count - 1}

\* The throwaway bind.  Binding port 0 asks for any free port: it succeeds.
ProbeBinds(p) == p = 0 \/ p \notin bound

\* Mutant of Free: the probe alone decides, handed-out ports are not skipped.
FreeByProbeOnly(p) == ProbeBinds(p)

Free(p) == p \notin in_use /\ ProbeBinds(p)

\* Mutants of Advance: a counter that saturates, and one that never wraps.
AdvanceSaturating == IF next + 1 = CounterMod THEN next ELSE next + 1
AdvanceUnbounded == next + 1

\* fetch_add(1) on the AtomicU16.
Advance == (next + 1) % CounterMod
------------------------------------------------------------------------------
Init ==
    /\ next = 0
    /\ in_use = {}
    /\ bound = {}
    /\ walker = NoClient
    /\ tried = 0
    /\ skipped = {}
    /\ lease = [c \in Clients |-> NoPort]

\* alloc takes the lock.
AllocBegin(c) ==
    /\ walker = NoClient
    /\ lease[c] = NoPort
    /\ walker' = c
    /\ tried' = 0
    /\ skipped' = {}
    /\ UNCHANGED <<next, in_use, bound, lease>>

\* One iteration that moves on: the candidate is handed out or does not bind.
AllocSkip(c) ==
    LET p == Candidate(next) IN
    /\ walker = c
    /\ tried < Count
    /\ ~Free(p)
    /\ next' = Advance
    /\ tried' = tried + 1
    /\ skipped' = skipped \cup {p}
    /\ UNCHANGED <<in_use, bound, walker, lease>>

\* The iteration that returns Some(candidate).
AllocSome(c) ==
    LET p == Candidate(next) IN
    /\ walker = c
    /\ tried < Count
    /\ Free(p)
    /\ next' = Advance
    /\ in_use' = in_use \cup {p}
    /\ lease' = [lease EXCEPT ![c] = p]
    /\ walker' = NoClient
    /\ tried' = 0
    /\ skipped' = {}
    /\ UNCHANGED bound

\* The walk is over: alloc returns None.
AllocNone(c) ==
    /\ walker = c
    /\ tried = Count
    /\ walker' = NoClient
    /\ tried' = 0
    /\ skipped' = {}
    /\ UNCHANGED <<next, in_use, bound, lease>>

\* release: removes the port, under the lock.
Release(c) ==
    /\ walker = NoClient
    /\ lease[c] # NoPort
    /\ in_use' = in_use \ {lease[c]}
    /\ lease' = [lease EXCEPT ![c] = NoPort]
    /\ UNCHANGED <<next, bound, walker, tried, skipped>>

\* Another process binds or unbinds a port of the range, at any moment.
Occupy(p) ==
    /\ p # 0
    /\ p \notin bound
    /\ bound' = bound \cup {p}
    /\ UNCHANGED <<next, in_use, walker, tried, skipped, lease>>

Vacate(p) ==
    /\ p \in bound
    /\ bound' = bound \ {p}
    /\ UNCHANGED <<next, in_use, walker, tried, skipped, lease>>

Next ==
    \/ \E c \in Clients : \/ AllocBegin(c)
                          \/ AllocSkip(c)
                          \/ AllocSome(c)
                          \/ AllocNone(c)
                          \/ Release(c)
    \/ \E p \in Ports : Occupy(p) \/ Vacate(p)

Spec == Init /\ [][Next]_vars
------------------------------------------------------------------------------
(***************************************************************************)
(* Properties.                                                             *)
(***************************************************************************)

\* The values the variables take; a walk in progress never counts past Count.
TypeOK ==
    /\ next \in 0 .. CounterMod - 1
    /\ in_use \subseteq Ports
    /\ bound \subseteq Ports
    /\ walker \in Clients \cup {NoClient}
    /\ tried \in 0 .. Count
    /\ skipped \subseteq Ports
    /\ lease \in [Clients -> Ports \cup {NoPort}]

Lease == INSTANCE PortLease

\* The pool implements exclusive leases: however allocations, releases and
\* foreign binds interleave, and wherever the counter wraps, a port is handed
\* out only while nobody holds it (ports.rs:78-108).
LeaseSpec == Lease!Spec

\* `alloc` answers None only when no port is free: each port of the range is
\* handed out, or was found taken by this walk, or is taken by another process
\* at this moment (ports.rs:72, "or `None` if the pool is exhausted").  It holds
\* when Count divides CounterMod; where the counter wraps in the middle of the
\* range, the walk repeats some candidates and misses others.
NoneMeansExhausted == tried = Count => Ports \subseteq in_use \cup skipped \cup bound

==============================================================================
