--------------------------- MODULE UdpClientProofs ---------------------------
(***************************************************************************)
(* The datagrams of the load generator in its three modes, for every list  *)
(* of messages, choice, count, delay and port.                             *)
(***************************************************************************)
EXTENDS UdpClient, SelectionProofs, TLAPS

\* Where the program is, and what it has checked to get there.
Phase ==
  /\ pc \in {"start", "bind", "menu"} => sent = <<>> /\ position = 0 /\ count = 0
  /\ pc \notin {"start", "failed"} \/ sent # <<>> => parse_args
  /\ pc = "menu" => argv.mode = "manual"

\* One datagram is ahead of its report in the phase "report", and may stay so
\* when the program fails.
Reports ==
  /\ pc = "report" => message \in Message /\ Len(sent) = reported + 1
  /\ pc = "failed" => Len(sent) = reported \/ Len(sent) = reported + 1
  /\ pc \notin {"report", "failed"} => Len(sent) = reported
  /\ pc \in {"loop", "ended"} /\ sent # <<>> => delay >= 0

\* The for loop: each element it has taken but a last, undecodable one was sent.
AllOnce ==
  argv.mode = "all_once" =>
    /\ position <= Len(messages) /\ Len(sent) <= position
    /\ pc # "failed" => Len(sent) = position
    /\ pc = "ended" => position = Len(messages)
    /\ \A i \in 1..Len(sent) : sent[i] = messages[i].payload

\* The while loop: the counter is behind in the phase "report" only.
Random ==
  argv.mode = "random" =>
    /\ pc \in {"loop", "ended"} => Len(sent) = count
    /\ pc = "report" => Len(sent) = count + 1
    /\ argv.count \in Int => Len(sent) <= IF argv.count > 0 THEN argv.count ELSE 0
    /\ pc = "ended" => argv.count \in Int /\ count >= argv.count

IInv == TypeOK /\ Phase /\ Reports /\ AllOnce /\ Random

-----------------------------------------------------------------------------
LEMMA MessagesTyped ==
  ASSUME argv \in CommandLine
  PROVE  messages \in Seq(Message)
BY CommandLineAssumption DEF messages

LEMMA InitIInv == Init => IInv
<1> SUFFICES ASSUME Init PROVE IInv
  OBVIOUS
<1> USE DEF Init
<1>0. messages \in Seq(Message)
  BY MessagesTyped
<1>1. TypeOK
  BY DEF TypeOK
<1>2. Phase /\ Reports
  BY DEF Phase, Reports, Over
<1>3. AllOnce /\ Random
  BY <1>0 DEF AllOnce, Random
<1> QED
  BY <1>1, <1>2, <1>3 DEF IInv

\* What a step that ends or fails changes: only where the program is.
LEMMA FailPreserves ==
  ASSUME IInv, Fail
  PROVE  IInv'
<1> USE DEF Fail
<1>0. messages \in Seq(Message) /\ messages' = messages /\ parse_args' = parse_args
  BY MessagesTyped DEF IInv, TypeOK, messages, parse_args
<1>1. TypeOK'
  BY DEF IInv, TypeOK, Over
<1>2. Phase' /\ Reports'
  BY <1>0 DEF IInv, TypeOK, Phase, Reports, Over
<1>3. AllOnce' /\ Random'
  BY <1>0 DEF IInv, TypeOK, AllOnce, Random
<1> QED
  BY <1>1, <1>2, <1>3 DEF IInv

\* Taking a message in the loop, in any mode: what all three have in common.
LEMMA SendPreserves ==
  ASSUME IInv, pc = "loop", UNCHANGED <<argv, count, reported>>,
         NEW m \in Message, decode_and_send(m),
         position' \in Nat, entered' \in Seq(Int)
  PROVE  /\ TypeOK' /\ Phase' /\ Reports'
         /\ messages' = messages
         /\ \/ pc' = "failed" /\ sent' = sent
            \/ /\ pc' = "report"
               /\ Len(sent') = Len(sent) + 1
               /\ sent'[Len(sent) + 1] = m.payload
               /\ \A i \in 1..Len(sent) : sent'[i] = sent[i]
<1> USE DEF IInv
<1>0. messages' = messages /\ parse_args' = parse_args /\ delay' = delay
  BY DEF messages, parse_args, delay, source_port
<1>1. CASE m.payload = Undecodable
  <2>1. pc' = "failed" /\ message' = message /\ sent' = sent
    BY <1>1 DEF decode_and_send
  <2>2. TypeOK'
    BY <2>1 DEF TypeOK, Over
  <2>3. Phase' /\ Reports'
    BY <1>0, <2>1 DEF TypeOK, Phase, Reports
  <2> QED
    BY <1>0, <2>1, <2>2, <2>3
<1>2. CASE m.payload # Undecodable
  <2>1. pc' = "report" /\ message' = m /\ sent' = Append(sent, m.payload)
    BY <1>2 DEF decode_and_send
  <2>2. m.payload \in Payload
    BY <1>2 DEF Message
  <2>3. sent \in Seq(Payload) /\ reported \in Nat
    BY DEF TypeOK
  <2>4. /\ sent' \in Seq(Payload)
        /\ Len(sent') = Len(sent) + 1
        /\ sent'[Len(sent) + 1] = m.payload
        /\ \A i \in 1..Len(sent) : sent'[i] = sent[i]
    BY <2>1, <2>2, <2>3
  <2>5. TypeOK'
    BY <2>1, <2>4 DEF TypeOK
  <2>6. Phase' /\ Reports'
    BY <1>0, <2>1, <2>3, <2>4 DEF Phase, Reports
  <2> QED
    BY <1>0, <2>1, <2>4, <2>5, <2>6
<1> QED
  BY <1>1, <1>2

LEMMA StepIInv == IInv /\ [Next]_vars => IInv'
<1> SUFFICES ASSUME IInv, [Next]_vars PROVE IInv'
  OBVIOUS
<1>0. /\ messages \in Seq(Message)
      /\ argv' = argv => /\ messages' = messages /\ parse_args' = parse_args
                         /\ delay' = delay
  BY MessagesTyped DEF IInv, TypeOK, messages, parse_args, delay, source_port
<1>1. CASE ParseArguments
  <2> USE <1>1 DEF ParseArguments, IInv
  <2>1. TypeOK'
    BY DEF TypeOK, Over
  <2>2. Phase' /\ Reports'
    BY <1>0 DEF TypeOK, Phase, Reports
  <2>3. AllOnce' /\ Random'
    BY <1>0 DEF TypeOK, Phase, AllOnce, Random
  <2> QED
    BY <2>1, <2>2, <2>3
<1>2. CASE SetupSocket
  <2> USE <1>2 DEF SetupSocket, IInv
  <2>1. TypeOK'
    BY DEF TypeOK
  <2>2. Phase' /\ Reports'
    BY <1>0 DEF TypeOK, Phase, Reports
  <2>3. AllOnce' /\ Random'
    BY <1>0 DEF TypeOK, Phase, AllOnce, Random
  <2> QED
    BY <2>1, <2>2, <2>3
<1>3. CASE ReportSent
  <2> USE <1>3 DEF ReportSent, IInv
  <2>1. TypeOK'
    BY DEF TypeOK, Over
  <2>2. Phase'
    BY <1>0 DEF TypeOK, Phase
  <2>3. Reports'
    BY <1>0 DEF TypeOK, Reports, Message
  <2>4. AllOnce'
    BY <1>0 DEF TypeOK, AllOnce
  <2>5. Random'
    BY <1>0 DEF TypeOK, Random
  <2> QED
    BY <2>1, <2>2, <2>3, <2>4, <2>5
<1>4. CASE run_all_once
  <2> USE DEF IInv
  <2>1. CASE position < Len(messages)
    <3>1. /\ pc = "loop" /\ argv.mode = "all_once"
          /\ position' = position + 1 /\ decode_and_send(messages[position'])
          /\ UNCHANGED <<argv, count, reported, entered>>
      BY <1>4, <2>1 DEF run_all_once
    <3>2. position \in Nat /\ position' \in 1..Len(messages)
      BY <1>0, <2>1, <3>1 DEF TypeOK
    <3>3. messages[position'] \in Message
      BY <1>0, <3>2
    <3>4. entered' \in Seq(Int) /\ position' \in Nat
      BY <3>1, <3>2 DEF TypeOK
    <3>5. /\ TypeOK' /\ Phase' /\ Reports'
          /\ messages' = messages
          /\ \/ pc' = "failed" /\ sent' = sent
             \/ /\ pc' = "report"
                /\ Len(sent') = Len(sent) + 1
                /\ sent'[Len(sent) + 1] = messages[position'].payload
                /\ \A i \in 1..Len(sent) : sent'[i] = sent[i]
      BY <3>1, <3>3, <3>4, SendPreserves
    <3>6. AllOnce'
      <4>1. Len(sent) = position
        BY <3>1 DEF AllOnce
      <4>2. \A i \in 1..Len(sent) : sent[i] = messages[i].payload
        BY <3>1 DEF AllOnce
      <4> QED
        BY <1>0, <3>1, <3>2, <3>5, <4>1, <4>2 DEF AllOnce
    <3>7. Random'
      BY <3>1 DEF Random
    <3> QED
      BY <3>5, <3>6, <3>7
  <2>2. CASE ~(position < Len(messages))
    <3>1. pc = "loop" /\ argv.mode = "all_once" /\ End
      BY <1>4, <2>2 DEF run_all_once
    <3>2. TypeOK'
      BY <3>1 DEF End, TypeOK, Over
    <3>3. Phase' /\ Reports'
      BY <1>0, <3>1 DEF End, Phase, Reports
    <3>4. AllOnce' /\ Random'
      BY <1>0, <2>2, <3>1 DEF End, TypeOK, AllOnce, Random
    <3> QED
      BY <3>2, <3>3, <3>4
  <2> QED
    BY <2>1, <2>2
<1>5. CASE run_random
  <2> USE DEF IInv
  <2>0. parse_args
    BY <1>5 DEF run_random, Phase
  <2>1. CASE argv.count # NULL /\ count >= argv.count
    <3>1. pc = "loop" /\ argv.mode = "random" /\ End
      BY <1>5, <2>1 DEF run_random
    <3>2. TypeOK'
      BY <3>1 DEF End, TypeOK, Over
    <3>3. Phase' /\ Reports'
      BY <1>0, <3>1 DEF End, Phase, Reports
    <3>4. AllOnce' /\ Random'
      BY <1>0, <2>0, <2>1, <3>1
      DEF End, TypeOK, AllOnce, Random, parse_args, int_option
    <3> QED
      BY <3>2, <3>3, <3>4
  <2>2. CASE ~(argv.count # NULL /\ count >= argv.count) /\ messages = <<>>
    BY <1>5, <2>2, FailPreserves DEF run_random
  <2>3. CASE ~(argv.count # NULL /\ count >= argv.count) /\ messages # <<>>
    <3>1. PICK m \in Range(messages) :
            /\ pc = "loop" /\ argv.mode = "random"
            /\ decode_and_send(m)
            /\ UNCHANGED <<argv, position, count, reported, entered>>
      BY <1>5, <2>3 DEF run_random
    <3>2. m \in Message
      BY <1>0 DEF Range
    <3>3. entered' \in Seq(Int) /\ position' \in Nat
      BY <3>1 DEF TypeOK
    <3>4. /\ TypeOK' /\ Phase' /\ Reports'
          /\ \/ pc' = "failed" /\ sent' = sent
             \/ pc' = "report" /\ Len(sent') = Len(sent) + 1
      BY <3>1, <3>2, <3>3, SendPreserves
    <3>5. AllOnce'
      BY <3>1 DEF AllOnce
    <3>6. Random'
      <4>1. Len(sent) = count /\ count \in Nat
        BY <3>1 DEF Random, TypeOK
      <4>2. argv.count \in Int => count < argv.count
        BY <2>3, <4>1, UdpConstants
      <4> QED
        BY <3>1, <3>4, <4>1, <4>2 DEF Random
    <3> QED
      BY <3>4, <3>5, <3>6
  <2> QED
    BY <2>1, <2>2, <2>3
<1>6. CASE run_manual_menu
  <2> USE <1>6 DEF run_manual_menu, IInv
  <2>1. TypeOK'
    BY DEF TypeOK, Over
  <2>2. Phase' /\ Reports'
    BY <1>0 DEF TypeOK, Phase, Reports
  <2>3. AllOnce' /\ Random'
    BY DEF Phase, AllOnce, Random
  <2> QED
    BY <2>1, <2>2, <2>3
<1>7. ASSUME NEW choice \in -1..Bound, run_manual(choice)
      PROVE  IInv'
  <2> USE DEF IInv
  <2>1. /\ pc = "loop" /\ argv.mode = "manual"
        /\ UNCHANGED <<argv, position, count, reported>>
        /\ entered' = Append(entered, choice)
    BY <1>7 DEF run_manual
  <2>2. AllOnce' /\ Random'
    BY <2>1 DEF AllOnce, Random
  <2>3. choice \in Int /\ entered' \in Seq(Int) /\ position' \in Nat
    <3>1. choice \in Int
      OBVIOUS
    <3> QED
      BY <2>1, <3>1 DEF TypeOK
  <2>4. CASE Offered(choice)
    <3>1. At(choice) \in Message
      BY <1>0, <2>3, <2>4 DEF Offered, At
    <3>2. decode_and_send(At(choice))
      BY <1>7, <2>4 DEF run_manual
    <3>3. TypeOK' /\ Phase' /\ Reports'
      BY <2>1, <2>3, <3>1, <3>2, SendPreserves
    <3> QED
      BY <2>2, <3>3
  <2>5. CASE ~Offered(choice)
    <3>1. UNCHANGED <<pc, message, sent>>
      BY <1>7, <2>5 DEF run_manual
    <3>2. TypeOK'
      BY <2>1, <2>3, <3>1 DEF TypeOK
    <3>3. Phase' /\ Reports'
      BY <1>0, <2>1, <3>1 DEF Phase, Reports
    <3> QED
      BY <2>2, <3>2, <3>3
  <2> QED
    BY <2>4, <2>5
<1>8. CASE run_manual_exit
  <2> USE <1>8 DEF run_manual_exit, End, IInv
  <2>1. TypeOK'
    BY DEF TypeOK, Over
  <2>2. Phase' /\ Reports'
    BY <1>0 DEF Phase, Reports
  <2>3. AllOnce' /\ Random'
    BY DEF AllOnce, Random
  <2> QED
    BY <2>1, <2>2, <2>3
<1>9. CASE run_manual_raises \/ Raises
  BY <1>9, FailPreserves DEF run_manual_raises, Raises
<1>10. CASE UNCHANGED vars
  <2> USE <1>10 DEF vars, IInv
  <2>1. TypeOK' /\ Phase' /\ Reports'
    BY <1>0 DEF TypeOK, Phase, Reports
  <2>2. AllOnce' /\ Random'
    BY <1>0 DEF AllOnce, Random
  <2> QED
    BY <2>1, <2>2
<1> QED
  BY <1>1, <1>2, <1>3, <1>4, <1>5, <1>6, <1>7, <1>8, <1>9, <1>10
  DEF Next, Program, User

LEMMA AlwaysIInv == Spec => []IInv
BY InitIInv, StepIInv, PTL DEF Spec

-----------------------------------------------------------------------------
\* The program's variables keep their types: no step leaves an undecoded payload
\* among the datagrams.
THEOREM UdpTypeCorrect == Spec => []TypeOK
<1>1. IInv => TypeOK
  BY DEF IInv
<1> QED
  BY AlwaysIInv, <1>1, PTL

\* all_once sends the list in order, for every list and whenever it is stopped.
THEOREM AllOnceSendsTheList == Spec => []AllOnceInOrder
<1>1. IInv => AllOnceInOrder
  <2> SUFFICES ASSUME IInv, argv.mode = "all_once" PROVE AllOnceInOrder
    BY DEF AllOnceInOrder
  <2>1. messages \in Seq(Message) /\ sent \in Seq(Payload) /\ position \in Nat
    BY MessagesTyped DEF IInv, TypeOK
  <2>2. DOMAIN sent = 1..Len(sent)
    BY <2>1
  <2>3. /\ position <= Len(messages) /\ Len(sent) <= position
        /\ pc = "ended" => Len(sent) = Len(messages)
        /\ \A i \in 1..Len(sent) : sent[i] = messages[i].payload
    BY DEF IInv, AllOnce
  <2>4. Len(sent) <= Len(messages)
    BY <2>1, <2>3
  <2> QED
    BY <2>2, <2>3, <2>4 DEF AllOnceInOrder
<1> QED
  BY AlwaysIInv, <1>1, PTL

\* random never sends more than --count packets and ends with exactly so many.
THEOREM RandomSendsTheCount == Spec => []RandomCount
<1>1. IInv => RandomCount
  BY DEF IInv, TypeOK, Random, RandomCount
<1> QED
  BY AlwaysIInv, <1>1, PTL

\* Whatever stops the program, at most one datagram is unreported.
THEOREM ReportsFollow == Spec => []AtMostOneUnreported
<1>1. IInv => AtMostOneUnreported
  BY DEF IInv, TypeOK, Reports, AtMostOneUnreported
<1> QED
  BY AlwaysIInv, <1>1, PTL

-----------------------------------------------------------------------------
(* Manual mode.                                                            *)

valid == Filter(entered, 0..Len(messages) - 1)

\* A choice adds to the valid ones if it is offered, and nothing otherwise.
LEMMA ChoiceEntered ==
  ASSUME IInv, NEW choice \in Int, entered' = Append(entered, choice), argv' = argv
  PROVE  valid' = IF Offered(choice) THEN Append(valid, choice) ELSE valid
<1>1. entered \in Seq(Int) /\ messages \in Seq(Message) /\ messages' = messages
  BY MessagesTyped DEF IInv, TypeOK, messages
<1>2. choice \in 0..Len(messages) - 1 <=> Offered(choice)
  BY <1>1 DEF Offered
<1> DEFINE offered == 0..Len(messages) - 1
<1>3. valid' = Filter(Append(entered, choice), offered) /\ valid = Filter(entered, offered)
  BY <1>1 DEF valid
<1> HIDE DEF offered
<1>4. Filter(Append(entered, choice), offered) =
        IF choice \in offered THEN Append(Filter(entered, offered), choice)
                              ELSE Filter(entered, offered)
  BY <1>1, FilterAppend
<1>5. QED  BY <1>2, <1>3, <1>4 DEF offered

LEMMA ManualStep ==
  ASSUME IInv, ManualFollowsChoices, argv.mode = "manual",
         NEW choice \in -1..Bound, run_manual(choice)
  PROVE  ManualFollowsChoices'
<1>1. /\ pc = "loop" /\ argv' = argv /\ messages' = messages
      /\ entered' = Append(entered, choice) /\ choice \in Int
  BY DEF run_manual, messages
<1>2. /\ messages \in Seq(Message) /\ sent \in Seq(Payload) /\ entered \in Seq(Int)
  BY MessagesTyped DEF IInv, TypeOK
<1>3. /\ valid \in Seq(Int) /\ Len(valid) = Len(sent)
      /\ \A i \in DOMAIN sent : sent[i] = messages[valid[i] + 1].payload
  <2>1. valid \in Seq(Int)
    BY <1>2, FilterProperties DEF valid
  <2>2. QED  BY <1>1, <2>1 DEF ManualFollowsChoices, valid
<1>4. valid' = IF Offered(choice) THEN Append(valid, choice) ELSE valid
  BY <1>1, ChoiceEntered
<1>5. SUFFICES /\ Len(valid') - Len(sent') \in {0, 1}
               /\ Len(valid') # Len(sent') => pc' = "failed"
               /\ \A i \in DOMAIN sent' : sent'[i] = messages[valid'[i] + 1].payload
  BY <1>1 DEF ManualFollowsChoices, valid
<1>6. CASE ~Offered(choice)
  <2>1. sent' = sent /\ valid' = valid
    BY <1>4, <1>6 DEF run_manual
  <2>2. QED  BY <1>2, <1>3, <2>1
<1>7. CASE Offered(choice)
  <2>1. decode_and_send(At(choice)) /\ valid' = Append(valid, choice)
    BY <1>4, <1>7 DEF run_manual
  <2>2. At(choice) = messages[choice + 1]
    <3>1. choice >= 0 /\ choice < Len(messages) /\ Len(messages) \in Nat
      BY <1>2, <1>7 DEF Offered
    <3>2. choice % Len(messages) = choice
      BY <1>1, <3>1
    <3>3. QED  BY <3>2 DEF At
  <2>3. /\ Len(valid') = Len(valid) + 1 /\ valid'[Len(valid) + 1] = choice
        /\ \A i \in 1..Len(valid) : valid'[i] = valid[i]
    BY <1>1, <1>3, <2>1
  <2>4. CASE sent' = sent /\ pc' = "failed"
    BY <1>2, <1>3, <2>3, <2>4
  <2>5. CASE sent' = Append(sent, messages[choice + 1].payload)
                /\ messages[choice + 1].payload # Undecodable
    <3>1. messages[choice + 1].payload \in Payload
      <4>1. messages[choice + 1] \in Message
        BY <1>1, <1>2, <1>7 DEF Offered
      <4>2. QED  BY <2>5, <4>1 DEF Message
    <3>2. /\ Len(sent') = Len(sent) + 1 /\ DOMAIN sent' = 1..Len(sent) + 1
          /\ sent'[Len(sent) + 1] = messages[choice + 1].payload
          /\ \A i \in 1..Len(sent) : sent'[i] = sent[i]
          /\ DOMAIN sent = 1..Len(sent) /\ Len(sent) \in Nat
      BY <1>2, <2>5, <3>1
    <3>3. QED  BY <1>3, <2>3, <3>2
  <2>6. QED  BY <2>1, <2>2, <2>4, <2>5 DEF decode_and_send
<1>8. QED  BY <1>6, <1>7

\* In manual mode the datagrams are the messages of the valid choices in their
\* order, whatever else is typed, and only an undecodable one is missing.
THEOREM ChoicesAreSent == Spec => []ManualFollowsChoices
<1>1. Init => ManualFollowsChoices
  <2> SUFFICES ASSUME Init PROVE ManualFollowsChoices
    OBVIOUS
  <2>1. sent = <<>> /\ Filter(entered, 0..Len(messages) - 1) = <<>>
    BY FilterEmpty DEF Init
  <2>2. QED  BY <2>1 DEF ManualFollowsChoices
<1>2. ASSUME IInv, ManualFollowsChoices, [Next]_vars
      PROVE  ManualFollowsChoices'
  <2>1. argv' = argv
    BY <1>2 DEF Next, Program, User, vars, ParseArguments, SetupSocket, ReportSent,
       run_all_once, run_random, run_manual_menu, run_manual, run_manual_exit,
       run_manual_raises, Raises, End, Fail
  <2> SUFFICES ASSUME argv.mode = "manual" PROVE ManualFollowsChoices'
    BY <2>1 DEF ManualFollowsChoices
  <2>2. ASSUME NEW choice \in -1..Bound, run_manual(choice)
        PROVE  ManualFollowsChoices'
    BY <1>2, <2>2, ManualStep
  <2>3. CASE UNCHANGED <<sent, entered>> /\ (pc = "failed" => pc' = "failed")
    BY <1>2, <2>1, <2>3 DEF ManualFollowsChoices, messages
  <2>4. \/ \E choice \in -1..Bound : run_manual(choice)
        \/ UNCHANGED <<sent, entered>> /\ (pc = "failed" => pc' = "failed")
    BY <1>2 DEF Next, Program, User, vars, ParseArguments, SetupSocket, ReportSent,
       run_all_once, run_random, run_manual_menu, run_manual_exit,
       run_manual_raises, Raises, End, Fail, Over
  <2>5. QED  BY <2>2, <2>3, <2>4
<1>3. IInv /\ ManualFollowsChoices /\ [Next]_vars => ManualFollowsChoices'
  BY <1>2
<1>4. QED  BY <1>1, <1>3, AlwaysIInv, PTL DEF Spec
=============================================================================
