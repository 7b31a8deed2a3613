-------------------------- MODULE MCClientRegistry --------------------------
(* A small instance of ClientRegistry: three ids, so that a third client can
   take a descriptor another has left, three descriptors, so that refused
   duplicates can use them all up, and four logins in a run.               *)
EXTENDS ClientRegistry, TLC

CONSTANTS A, B, C, p1, p2, p3, p4

MCID       == {A, B, C}
MCFD       == 5..7     \* 3 and 4 are the TCP and the UDP socket
MCClient   == {p1, p2, p3, p4}
MCListenFd == 4

\* Ids and heap addresses are only compared for equality.
MCSymmetry == Permutations(MCID) \cup Permutations(MCClient)
=============================================================================
