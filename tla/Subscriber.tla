------------------------------ MODULE Subscriber ------------------------------
(***************************************************************************)
(* The subscribers: each connects, sends its id and then passes its stdin  *)
(* to the server and the server to its stdout.  TCP keeps no boundaries,   *)
(* so a recv takes all that has arrived; the pieces of a stream are kept   *)
(* apart here only to say what each program makes of them.  One turn of    *)
(* the loop is one step, taken when recv returns: what arrives later in    *)
(* the turn is seen in the next, and a line is as good as sent.            *)
(***************************************************************************)
EXTENDS Naturals, Sequences, SequencesExt

CONSTANTS
  Process,   \* runs of ./subscriber
  Line       \* what users type: <<command>> or <<command, name>>

VARIABLES
  id,           \* argv[1] of each process
  user,         \* of each, whether it is started, which lines its user may type
                \* and how many: a bound
  pc,           \* "start", "connected", "looping" or "ended"
  typed,        \* history: the lines it has read from stdin, while it runs
  eof,          \* it runs on with its stdin at the end
  to_server,    \* bytes the server has not received yet
  from_server,  \* bytes it has not received yet
  gone,         \* its end of the connection: "open", "closed" or "reset"
  closed        \* the server's end of every connection is closed

vars == <<id, user, pc, typed, eof, to_server, from_server, gone>>

TypeOK ==
  /\ user \in [Process -> [comes : BOOLEAN, lines : SUBSET Line, max : Nat]]
  /\ pc \in [Process -> {"start", "connected", "looping", "ended"}]
  /\ \A p \in Process :
       /\ typed[p] \in Seq(user[p].lines)
       /\ Range(to_server[p]) \subseteq Line \cup {<<"id", id[p]>>, <<"echo">>}
  /\ eof \in [Process -> BOOLEAN]
  /\ gone \in [Process -> {"open", "closed", "reset"}]

Init ==
  /\ pc = [p \in Process |-> "start"]
  /\ typed = [p \in Process |-> <<>>]
  /\ eof = [p \in Process |-> FALSE]
  /\ to_server = [p \in Process |-> <<>>]
  /\ from_server = [p \in Process |-> <<>>]
  /\ gone = [p \in Process |-> "open"]

-----------------------------------------------------------------------------
(* What the program makes of a text it has received.                       *)

\* printf("%s") stops at a NUL, and the server sends one with a confirmation.
Shown(text) ==
  LET n == SelectInSeq(text, LAMBDA piece : piece[1] \in {"Subscribed", "Unsubscribed"})
  IN  IF n = 0 THEN text ELSE SubSeq(text, 1, n)

\* Slip: the end of the stream is not looked for.
Final_ExitOnly(text) == text # <<>> /\ Head(text) = <<"exit">>

\* The end of the stream, or a text that begins with "exit".
Final(text) == text # <<>> => Head(text) = <<"exit">>

-----------------------------------------------------------------------------
Connect(p) ==
  /\ pc[p] = "start" /\ ~closed
  /\ user[p].comes
  /\ pc' = [pc EXCEPT ![p] = "connected"]
  /\ UNCHANGED <<id, user, typed, eof, to_server, from_server, gone>>

\* What is sent to a server that has ended is lost.
Send(p, piece) ==
  to_server' = IF closed THEN to_server ELSE [to_server EXCEPT ![p] = Append(@, piece)]

SendId(p) ==
  /\ pc[p] = "connected"
  /\ pc' = [pc EXCEPT ![p] = "looping"]
  /\ Send(p, <<"id", id[p]>>)
  /\ UNCHANGED <<id, user, typed, eof, from_server, gone>>

\* close, or the end of the process: bytes that were never received make the
\* kernel reset the connection.
Close(p, unread) ==
  /\ pc' = [pc EXCEPT ![p] = "ended"]
  /\ typed' = [typed EXCEPT ![p] = <<>>]
  /\ eof' = [eof EXCEPT ![p] = FALSE]
  /\ gone' = [gone EXCEPT ![p] = IF unread = <<>> THEN "closed" ELSE "reset"]

\* stdin is ready: a line, or the end, where fgets leaves in the buffer what recv
\* has put there.
HandleStdin(p, buffer, unread) ==
  \/ /\ ~eof[p] /\ Len(typed[p]) < user[p].max
     /\ \E line \in user[p].lines :
          /\ Send(p, line)
          /\ IF line = <<"exit">>
             THEN Close(p, unread)
             ELSE typed' = [typed EXCEPT ![p] = Append(@, line)] /\ UNCHANGED <<pc, eof, gone>>
  \/ IF buffer = <<>>
     THEN Close(p, unread) /\ UNCHANGED to_server
     ELSE /\ Send(p, <<"echo">>)
          /\ eof' = [eof EXCEPT ![p] = TRUE]
          /\ UNCHANGED <<pc, typed, gone>>

\* What a turn prints.
Prints(p) == Shown(from_server[p])

\* A turn in which the socket is readable, and stdin too or not.
ReadServer(p, stdin) ==
  LET text == from_server[p]
  IN  /\ pc[p] = "looping"
      /\ text # <<>> \/ closed
      /\ from_server' = [from_server EXCEPT ![p] = <<>>]
      /\ \/ Final(text) /\ Close(p, <<>>) /\ UNCHANGED to_server
         \/ ~Final(text) /\ ~stdin /\ UNCHANGED <<pc, typed, eof, to_server, gone>>
         \/ ~Final(text) /\ stdin /\ HandleStdin(p, text, <<>>)
      /\ UNCHANGED <<id, user>>

\* A turn in which select has seen stdin only; bytes may have come since.
ReadStdin(p) ==
  /\ pc[p] = "looping"
  /\ HandleStdin(p, <<>>, from_server[p])
  /\ from_server' = IF pc'[p] = "ended" THEN [from_server EXCEPT ![p] = <<>>] ELSE from_server
  /\ UNCHANGED <<id, user>>

\* Killed before it has sent its id; later a kill is as if its stdin had ended.
Kill(p) ==
  /\ pc[p] = "connected"
  /\ Close(p, <<>>)
  /\ UNCHANGED <<id, user, to_server, from_server>>

\* What the program does without its user: a stdin at its end is always ready.
Proceeds(p) ==
  \/ SendId(p)
  \/ ReadServer(p, eof[p])
  \/ eof[p] /\ ReadStdin(p)

\* What its user makes happen.
UserOf(p) ==
  \/ ~eof[p] /\ ReadServer(p, TRUE)
  \/ ~eof[p] /\ ReadStdin(p)
  \/ Kill(p)
=============================================================================
