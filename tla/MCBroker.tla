------------------------------ MODULE MCBroker ------------------------------
(* A small instance of Broker.  Three ids, two descriptors and three logins,
   so that an id returns and a descriptor passes from one id to another; two
   names, of which the one that is published matches the other.             *)
EXTENDS Broker, Wildcard, TLC

CONSTANTS A, B, C, p1, p2, p3

MCID        == {A, B, C}
MCFD        == 5..6
MCClient    == {p1, p2, p3}
MCListenFd  == 4
MCName      == {<<"a">>, <<"*">>}
MCPublished == {<<"a">>}

MCSymmetry == Permutations(MCID) \cup Permutations(MCClient)
=============================================================================
