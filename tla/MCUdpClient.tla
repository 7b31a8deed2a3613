---------------------------- MODULE MCUdpClient ----------------------------
(* A small instance of UdpClient: ports on both sides of each limit, counts
   and delays on both sides of zero, and every list of at most two messages,
   decodable or not, with or without a description.                         *)
EXTENDS UdpClient

CONSTANTS a, b, Word

MCPayload == {a, b}

MCMessage ==
  {[payload |-> a, description |-> TRUE], [payload |-> b, description |-> TRUE],
   [payload |-> a, description |-> FALSE], [payload |-> Undecodable, description |-> TRUE]}

Lists == UNION {[1..n -> MCMessage] : n \in 0..2}

\* Lines whose arguments are all usable, and lines with one that is not.
Usable ==
  [server_port : {1024, 65535}, source_port : {NULL, 1024}, mode : Mode,
   count : {NULL, -1, 0, 1, 3}, delay : {NULL, -1, 10}, input_file : Lists]

Line == [server_port |-> 8080, source_port |-> NULL, mode |-> "all_once",
         count |-> NULL, delay |-> NULL,
         input_file |-> <<[payload |-> a, description |-> TRUE]>>]

Unusable ==
  {[Line EXCEPT !.server_port = p] : p \in {1023, 65536, Word}}
  \cup {[Line EXCEPT !.source_port = p] : p \in {0, 65536, Word}}
  \cup {[Line EXCEPT !.mode = "once"], [Line EXCEPT !.count = Word],
        [Line EXCEPT !.delay = Word], [Line EXCEPT !.input_file = NULL]}

MCCommandLine == Usable \cup Unusable
=============================================================================
