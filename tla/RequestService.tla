--------------------------- MODULE RequestService ---------------------------
(***************************************************************************)
(* What the server promises its clients: every request it accepts is       *)
(* served, those of one client in the order of their acceptance, and the   *)
(* run is over when all the clients have closed and nothing is left to     *)
(* serve.  No buffer, no threads and no order among the clients.           *)
(***************************************************************************)
EXTENDS Naturals

CONSTANT Clients

VARIABLES
  accepted,  \* requests accepted from each client
  served,    \* requests of each client that have been served
  closed,    \* clients that will send no more
  stopped    \* the run is over

vars == <<accepted, served, closed, stopped>>

Init ==
  /\ accepted = [c \in Clients |-> 0]
  /\ served = [c \in Clients |-> 0]
  /\ closed = {}
  /\ stopped = FALSE

Accept(c) ==
  /\ c \notin closed
  /\ accepted' = [accepted EXCEPT ![c] = @ + 1]
  /\ UNCHANGED <<served, closed, stopped>>

Close(c) ==
  /\ c \notin closed
  /\ closed' = closed \cup {c}
  /\ UNCHANGED <<accepted, served, stopped>>

Serve(c) ==
  /\ served[c] < accepted[c]
  /\ served' = [served EXCEPT ![c] = @ + 1]
  /\ UNCHANGED <<accepted, closed, stopped>>

Stop ==
  /\ closed = Clients /\ served = accepted
  /\ ~stopped /\ stopped' = TRUE
  /\ UNCHANGED <<accepted, served, closed>>

Next == (\E c \in Clients : Accept(c) \/ Close(c) \/ Serve(c)) \/ Stop

Spec == Init /\ [][Next]_vars

FairSpec ==
  /\ Spec
  /\ \A c \in Clients : WF_vars(Close(c)) /\ WF_vars(Serve(c))
  /\ WF_vars(Stop)

=============================================================================
