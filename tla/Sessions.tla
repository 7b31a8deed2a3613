------------------------------ MODULE Sessions ------------------------------
(***************************************************************************)
(* What the server promises about identities, with none of its tables: a   *)
(* client id is logged in over at most one connection at a time, and a     *)
(* connection belongs to at most one id.  ClientRegistry implements this.  *)
(***************************************************************************)
CONSTANTS
  ID,   \* client ids, the first argument of ./subscriber
  FD    \* descriptors of client connections

VARIABLES
  session,   \* session[id]: the connections id is logged in over
  up         \* the server has not ended

Init == session = [id \in ID |-> {}] /\ up = TRUE

\* An id that is not logged in takes a connection nobody uses.
Login(id, fd) ==
  /\ up
  /\ session[id] = {}
  /\ \A other \in ID : fd \notin session[other]
  /\ session' = [session EXCEPT ![id] = {fd}]
  /\ UNCHANGED up

Logout(id) ==
  /\ up
  /\ session[id] # {}
  /\ session' = [session EXCEPT ![id] = {}]
  /\ UNCHANGED up

\* The server ends, in order or not, and only so ends everybody's session.
Shutdown ==
  /\ up
  /\ up' = FALSE
  /\ session' = [id \in ID |-> {}]

Next ==
  \/ \E id \in ID, fd \in FD : Login(id, fd)
  \/ \E id \in ID : Logout(id)
  \/ Shutdown

Spec == Init /\ [][Next]_<<session, up>>
=============================================================================
