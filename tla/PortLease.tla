------------------------------ MODULE PortLease ------------------------------
(***************************************************************************)
(* What the live-port pool promises to its sessions (src/src/video/        *)
(* ports.rs:6-7, "each logged-in session allocates its own port from this  *)
(* pool"): a lease of a port is exclusive until its holder returns it.     *)
(* PortPool implements this specification with a wrapping counter, a set   *)
(* behind a lock and bind probes.                                          *)
(***************************************************************************)

CONSTANTS Clients,  \* the sessions that lease ports
          Ports,    \* the ports the pool may hand out
          NoPort    \* "no port leased"

VARIABLE lease      \* lease[c]: the port client c holds, or NoPort

Init == lease = [c \in Clients |-> NoPort]

\* A client that holds nothing gets a port nobody holds.
Grant(c, p) ==
    /\ lease[c] = NoPort
    /\ \A d \in Clients : lease[d] # p
    /\ lease' = [lease EXCEPT ![c] = p]

\* A client returns the port it holds.
GiveBack(c) ==
    /\ lease[c] # NoPort
    /\ lease' = [lease EXCEPT ![c] = NoPort]

Next ==
    \E c \in Clients : \/ \E p \in Ports : Grant(c, p)
                       \/ GiveBack(c)

Spec == Init /\ [][Next]_lease

==============================================================================
