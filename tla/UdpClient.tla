------------------------------ MODULE UdpClient ------------------------------
(***************************************************************************)
(* The load generator: it validates its arguments, binds a socket and      *)
(* sends payloads of a JSON list as datagrams, in one of three modes.  A   *)
(* step ends at each point where the program waits, loops or can be        *)
(* interrupted: between a datagram and the line that reports it too.       *)
(***************************************************************************)
EXTENDS Integers, Sequences, Functions, Selection

CONSTANTS
  Payload,       \* decoded datagrams
  Undecodable,   \* a payload_base64 that base64 cannot decode
  NULL,          \* an argument not given, a missing description, a missing file
  CommandLine,   \* what the program is called with: a set of records
  Bound          \* bounds manual entries and the packets of an endless run

Message == [payload : Payload \cup {Undecodable}, description : BOOLEAN]
Mode    == {"all_once", "manual", "random"}

ASSUME UdpConstants == NULL \notin Int /\ Undecodable \notin Payload

\* Arguments as typed; a number that int() rejects is any value outside Int.
ASSUME CommandLineAssumption ==
  \A c \in CommandLine :
    /\ DOMAIN c = {"server_port", "source_port", "mode", "count", "delay", "input_file"}
    /\ c.input_file # NULL => c.input_file \in Seq(Message)

VARIABLES
  argv,      \* the command line
  pc,        \* "start", "bind", "menu", "loop", "report", "ended" or "failed"
  message,   \* the message being sent
  position,  \* how many elements the for loop of run_all_once has taken
  count,     \* the counter of run_random
  sent,      \* history: the datagrams handed to the network
  reported,  \* history: how many "Sent" lines have been printed
  entered    \* history: the numbers entered in manual mode

vars == <<argv, pc, message, position, count, sent, reported, entered>>

\* The list read from the file; a missing file is turned down with the arguments.
messages == IF argv.input_file = NULL THEN <<>> ELSE argv.input_file
Over     == {"ended", "failed"}

TypeOK ==
  /\ argv \in CommandLine
  /\ pc \in {"start", "bind", "menu", "loop", "report"} \cup Over
  /\ message \in Message \cup {NULL}
  /\ position \in Nat /\ count \in Nat /\ reported \in Nat
  /\ sent \in Seq(Payload)
  /\ entered \in Seq(Int)

Init ==
  /\ argv \in CommandLine
  /\ pc = "start"
  /\ message = NULL
  /\ position = 0 /\ count = 0 /\ reported = 0
  /\ sent = <<>> /\ entered = <<>>

-----------------------------------------------------------------------------
(* Arguments.                                                              *)

MIN_VALUE == 1024
MAX_VALUE == 65535

unprivileged_port_type(value) ==
  value \in Int /\ value >= MIN_VALUE /\ value <= MAX_VALUE

\* An option that is not given keeps its default, which is not validated.
int_option(value) == value = NULL \/ value \in Int

source_port == IF argv.source_port = NULL THEN 0 ELSE argv.source_port
delay       == IF argv.delay = NULL THEN 0 ELSE argv.delay

parse_args ==
  /\ unprivileged_port_type(argv.server_port)
  /\ argv.source_port = NULL \/ unprivileged_port_type(argv.source_port)
  /\ argv.mode \in Mode
  /\ int_option(argv.count) /\ int_option(argv.delay)
  /\ argv.input_file # NULL

ParseArguments ==
  /\ pc = "start"
  /\ pc' = IF parse_args THEN "bind" ELSE "failed"
  /\ UNCHANGED <<argv, message, position, count, sent, reported, entered>>

\* bind, then main picks the function of the mode.
SetupSocket ==
  /\ pc = "bind"
  /\ pc' = IF argv.mode = "manual" THEN "menu" ELSE "loop"
  /\ UNCHANGED <<argv, message, position, count, sent, reported, entered>>

-----------------------------------------------------------------------------
(* Sending one message.                                                    *)

\* Slip: the payload goes out as it stands in the file.
decode_and_send_AsIs(m) ==
  /\ sent' = Append(sent, m.payload)
  /\ message' = m
  /\ pc' = "report"

\* Slip: the payloads that cannot be decoded are tried again.
decode_and_send_Retries(m) ==
  IF m.payload = Undecodable
  THEN UNCHANGED <<pc, message, sent>>
  ELSE /\ sent' = Append(sent, m.payload)
       /\ message' = m
       /\ pc' = "report"

\* Decoding raises before anything is sent.
decode_and_send(m) ==
  IF m.payload = Undecodable
  THEN /\ pc' = "failed"
       /\ UNCHANGED <<message, sent>>
  ELSE /\ sent' = Append(sent, m.payload)
       /\ message' = m
       /\ pc' = "report"

\* Slips: the failures after the datagram are passed over; the counter stays.
ReportSent_Ignores ==
  /\ pc = "report"
  /\ reported' = IF message.description THEN reported + 1 ELSE reported
  /\ pc' = "loop"
  /\ count' = IF argv.mode = "random" THEN count + 1 ELSE count
  /\ UNCHANGED <<argv, message, position, sent, entered>>

\* The line about the datagram needs the description, and time.sleep a delay that
\* is not negative: both raise after the datagram has left.
ReportSent ==
  /\ pc = "report"
  /\ reported' = IF message.description THEN reported + 1 ELSE reported
  /\ pc' = IF message.description /\ delay >= 0 THEN "loop" ELSE "failed"
  /\ count' = IF argv.mode = "random" /\ pc' = "loop" THEN count + 1 ELSE count
  /\ UNCHANGED <<argv, message, position, sent, entered>>

-----------------------------------------------------------------------------
(* The three modes.                                                        *)

End ==
  /\ pc' = "ended"
  /\ UNCHANGED <<argv, message, position, count, sent, reported, entered>>

Fail ==
  /\ pc' = "failed"
  /\ UNCHANGED <<argv, message, position, count, sent, reported, entered>>

\* Slip: the loop stops before the last message.
run_all_once_Short ==
  /\ pc = "loop" /\ argv.mode = "all_once"
  /\ IF position + 1 < Len(messages)
     THEN /\ position' = position + 1
          /\ decode_and_send(messages[position'])
          /\ UNCHANGED <<argv, count, reported, entered>>
     ELSE End

run_all_once ==
  /\ pc = "loop" /\ argv.mode = "all_once"
  /\ IF position < Len(messages)
     THEN /\ position' = position + 1
          /\ decode_and_send(messages[position'])
          /\ UNCHANGED <<argv, count, reported, entered>>
     ELSE End

\* Slip: one packet too many.
run_random_OneMore ==
  /\ pc = "loop" /\ argv.mode = "random"
  /\ argv.count = NULL => Len(sent) < Bound
  /\ IF argv.count # NULL /\ count > argv.count
     THEN End
     ELSE IF messages = <<>> THEN Fail
     ELSE /\ \E m \in Range(messages) : decode_and_send(m)
          /\ UNCHANGED <<argv, position, count, reported, entered>>

\* random.choice raises on an empty list.  Bound stops an endless run.
run_random ==
  /\ pc = "loop" /\ argv.mode = "random"
  /\ argv.count = NULL => Len(sent) < Bound
  /\ IF argv.count # NULL /\ count >= argv.count
     THEN End
     ELSE IF messages = <<>> THEN Fail
     ELSE /\ \E m \in Range(messages) : decode_and_send(m)
          /\ UNCHANGED <<argv, position, count, reported, entered>>

\* The menu lists every description, before the first prompt.
run_manual_menu ==
  /\ pc = "menu"
  /\ pc' = IF \A m \in Range(messages) : m.description THEN "loop" ELSE "failed"
  /\ UNCHANGED <<argv, message, position, count, sent, reported, entered>>

\* Slip: Python counts a negative index from the end of the list.
Offered_Negative(choice) == choice < Len(messages) /\ messages # <<>>

\* The choices the menu offers; a list index counts from 0, or from the end.
Offered(choice) == choice >= 0 /\ choice < Len(messages)
At(choice)      == messages[(choice % Len(messages)) + 1]

run_manual(choice) ==
  /\ pc = "loop" /\ argv.mode = "manual"
  /\ Len(entered) < Bound
  /\ entered' = Append(entered, choice)
  /\ IF Offered(choice) THEN decode_and_send(At(choice))
                        ELSE UNCHANGED <<pc, message, sent>>
  /\ UNCHANGED <<argv, position, count, reported>>

\* The user types "exit".
run_manual_exit ==
  /\ pc = "loop" /\ argv.mode = "manual"
  /\ End

\* Anything else that is no number, and the end of stdin: int() or input() raises.
run_manual_raises ==
  /\ pc = "loop" /\ argv.mode = "manual"
  /\ Fail

-----------------------------------------------------------------------------
\* bind or sendto fails, or the user interrupts: at any point, sleeping too.
Raises == pc \notin Over /\ Fail

Program ==
  \/ ParseArguments \/ SetupSocket \/ ReportSent
  \/ run_all_once \/ run_random \/ run_manual_menu

User ==
  \/ \E choice \in -1..Bound : run_manual(choice)
  \/ run_manual_exit
  \/ run_manual_raises

Next == Program \/ User \/ Raises

Spec == Init /\ [][Next]_vars

\* The program goes on by itself; neither the user nor a failure has to come.
FairSpec == Spec /\ WF_vars(Program)

-----------------------------------------------------------------------------
(* Properties.                                                             *)

\* "all_once - send each payload in the list once" (udp_client.py:20): the
\* datagrams are the first payloads of the list in its order, whatever stops the
\* program, and all of them when it ends by itself.
AllOnceInOrder ==
  argv.mode = "all_once" =>
    /\ Len(sent) <= Len(messages)
    /\ \A i \in DOMAIN sent : sent[i] = messages[i].payload
    /\ pc = "ended" => Len(sent) = Len(messages)

\* "--count Number of packets to be send" (udp_client.py:56): never more, although
\* the counter moves after the datagram; exactly so many when the program ends.
RandomCount ==
  argv.mode = "random" =>
    /\ argv.count \in Int => Len(sent) <= IF argv.count > 0 THEN argv.count ELSE 0
    /\ pc = "ended" => argv.count \in Int /\ (argv.count > 0 => Len(sent) = argv.count)

\* In manual mode the datagrams are the messages of the valid choices, in the
\* order they were made (udp_client.py:93-98); only a choice whose payload cannot
\* be decoded goes unsent, and it is the last.
ManualFollowsChoices ==
  argv.mode = "manual" =>
    LET valid == Filter(entered, 0..Len(messages) - 1)
    IN  /\ Len(valid) - Len(sent) \in {0, 1}
        /\ Len(valid) # Len(sent) => pc = "failed"
        /\ \A i \in DOMAIN sent : sent[i] = messages[valid[i] + 1].payload

\* The report follows the datagram: what stops the program in between, or the
\* missing description and the negative delay that raise there, leave at most
\* one datagram unreported, and an orderly end none.
AtMostOneUnreported ==
  /\ Len(sent) - reported \in {0, 1}
  /\ pc = "ended" => Len(sent) = reported
  /\ pc \in {"loop", "ended"} /\ sent # <<>> => delay >= 0

\* A run with an end to it comes to an end: all_once, and random with a count.
Terminates ==
  (argv.mode = "all_once" \/ (argv.mode = "random" /\ argv.count # NULL)) => <>(pc \in Over)
=============================================================================
