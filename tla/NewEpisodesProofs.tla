-------------------------- MODULE NewEpisodesProofs --------------------------
(***************************************************************************)
(* Proofs about NewEpisodes: for any cassette, any calls and any number of *)
(* sessions, the cassette only grows, a call is answered once, and what a  *)
(* saved session has shown of the server is in the cassette.               *)
(***************************************************************************)
EXTENDS NewEpisodes, MatchingProofs

Answers == Calls \cup {m.call : m \in Messages}
Lines == [call : 1..MaxCalls, of : Answers, live : BOOLEAN]

Busy == reader.at \in {"reply", "forward"}

TypeInv ==
    /\ TypeOK
    /\ ordering \in {"per_method", "strict", "none"}
    /\ sent \in Seq(Calls) /\ stdin \in Seq(1..MaxCalls)
    /\ inbox \in Seq(Lines) /\ outbox \in Seq(Lines) /\ shown \in Seq(Lines)
    /\ reader \in [at : {"read", "reply", "forward", "end"}, line : Lines \cup {NoLine}]
    /\ writer \in [at : {"read", "emit"}, line : Lines \cup {NoLine}]
    /\ Busy => reader.line \in Lines
    /\ writer.at = "emit" => writer.line \in Lines
    /\ \A k \in DOMAIN inbox : inbox[k].call \in DOMAIN sent
    /\ \A k \in DOMAIN outbox : outbox[k].call \in DOMAIN sent
    /\ Busy => reader.line.call \in DOMAIN sent
    /\ writer.at = "emit" => writer.line.call \in DOMAIN sent
    /\ \A k \in DOMAIN stdin : stdin[k] \in DOMAIN sent

\* The calls are taken off stdin in their order, and a live one passes through the
\* inbox, the outbox and the server loop in that order too.
Taken == Len(sent) - Len(stdin)
Behind(q) ==
    \A k \in DOMAIN q : q[k].call <= Taken /\ (Busy => q[k].call < Taken)
Increasing(q) == \A i, j \in DOMAIN q : i < j => q[i].call < q[j].call
NotShown(q) == \A i \in DOMAIN q, k \in DOMAIN shown : q[i].call # shown[k].call
Emitting == writer.at = "emit"

OrderInv ==
    /\ Len(stdin) <= Len(sent)
    /\ \A k \in DOMAIN stdin : stdin[k] = Taken + k
    /\ Busy => reader.line.call = Taken
    /\ Behind(inbox) /\ Behind(outbox) /\ Behind(shown)
    /\ Emitting => writer.line.call <= Taken /\ (Busy => writer.line.call < Taken)
    /\ Increasing(inbox) /\ Increasing(outbox)
    /\ \A i \in DOMAIN outbox, j \in DOMAIN inbox : outbox[i].call < inbox[j].call
    /\ Emitting => /\ \A i \in DOMAIN outbox : writer.line.call < outbox[i].call
                   /\ \A i \in DOMAIN inbox : writer.line.call < inbox[i].call
                   /\ \A k \in DOMAIN shown : writer.line.call # shown[k].call
    /\ NotShown(inbox) /\ NotShown(outbox)
    /\ AnsweredOnce

\* A request is on the tape before it is with the server, and its answer before it is
\* with the client; what a session that runs has loaded is still the file.
OnTape(c, n) == \E i \in DOMAIN c : c[i].kind = "request" /\ c[i].id = n
AnswerOnTape(c, n) ==
    \E i, j \in DOMAIN c :
        /\ i < j /\ c[i].kind = "request" /\ c[j].kind = "response"
        /\ c[i].id = n /\ c[j].id = n

TapeInv ==
    /\ reader.at = "reply" => ~reader.line.live
    /\ reader.at = "forward" => OnTape(tape, reader.line.call)
    /\ \A k \in DOMAIN inbox : OnTape(tape, inbox[k].call)
    /\ \A k \in DOMAIN outbox : OnTape(tape, outbox[k].call)
    /\ Emitting => AnswerOnTape(tape, writer.line.call)
    /\ \A k \in DOMAIN shown : shown[k].live => AnswerOnTape(tape, shown[k].call)
    /\ outcome = "running" => file = base
    /\ outcome = "saved" => file = base \o tape

-----------------------------------------------------------------------------
LEMMA MessageIsTyped ==
    ASSUME NEW sender \in {"client", "server"}, NEW kind \in {"request", "response"},
           NEW n \in 1..MaxCalls, sent[n] \in Calls
    PROVE  Message(sender, kind, n) \in Messages
  <1>1. Message(sender, kind, n) \in Captured
    BY DEF Message, Captured
  <1> QED
    BY <1>1 DEF Messages

LEMMA TypeStep ==
    ASSUME TypeInv, [Next]_vars
    PROVE  TypeInv'
  <1>0. /\ sent \in Seq(Calls) /\ stdin \in Seq(1..MaxCalls) /\ tape \in Seq(Messages)
        /\ inbox \in Seq(Lines) /\ outbox \in Seq(Lines) /\ shown \in Seq(Lines)
        /\ \A l \in Lines : l.call \in Nat
        /\ Busy => reader.line \in Lines
        /\ Emitting => writer.line \in Lines
    BY DEF TypeInv, TypeOK, Lines, Busy, Emitting
  <1> USE EpisodesAssumption DEF TypeInv, TypeOK, Running, Busy, world, proxy, NoLine, Lines
  <1>1. CASE Start
    BY <1>1 DEF Start, At
  <1>2. ASSUME NEW call \in Calls, ClientCall(call) PROVE TypeInv'
    <2>1. Len(sent) + 1 \in 1..MaxCalls
      BY <1>2 DEF ClientCall
    <2>2. sent' = Append(sent, call) /\ stdin' = Append(stdin, Len(sent) + 1)
      BY <1>2 DEF ClientCall
    <2> HIDE DEF TypeInv, TypeOK, Lines
    <2>3. /\ sent' \in Seq(Calls) /\ Len(sent') <= MaxCalls
          /\ DOMAIN sent' = DOMAIN sent \cup {Len(sent) + 1}
      BY <1>0, <2>1, <2>2, Appended
    <2>4. stdin' \in Seq(1..MaxCalls) /\ \A k \in DOMAIN stdin' : stdin'[k] \in DOMAIN sent'
      BY <1>0, <2>1, <2>2, <2>3, Appended DEF TypeInv
    <2>5. \A k \in DOMAIN sent' : sent'[k] \in Calls
      BY <2>3, SMTT(60)
    <2> QED
      BY <1>2, <2>3, <2>4, <2>5, ZenonT(60) DEF ClientCall, TypeInv, TypeOK, Lines
  <1>3. ASSUME NEW how \in {"done", "gone"}, ClientLeave(how) PROVE TypeInv'
    BY <1>3 DEF ClientLeave
  <1>4. CASE ServerAnswer
    <2>1. /\ inbox # <<>> /\ inbox' = Tail(inbox)
          /\ outbox' = Append(outbox, Head(inbox))
      BY <1>4 DEF ServerAnswer
    <2>2. \A k \in DOMAIN inbox : inbox[k].call \in DOMAIN sent
      OBVIOUS
    <2>3. \A k \in DOMAIN outbox : outbox[k].call \in DOMAIN sent
      OBVIOUS
    <2> HIDE DEF TypeInv, TypeOK, Lines
    <2>4. outbox' \in Seq(Lines) /\ \A k \in DOMAIN outbox' : outbox'[k].call \in DOMAIN sent
      BY <1>0, <2>1, <2>2, <2>3, HeadAndTail, Appended, SMTT(60)
    <2>5. inbox' \in Seq(Lines) /\ \A k \in DOMAIN inbox' : inbox'[k].call \in DOMAIN sent
      BY <1>0, <2>1, <2>2, HeadAndTail
    <2> QED
      BY <1>4, <2>4, <2>5, SMTT(60) DEF ServerAnswer, TypeInv, TypeOK, Lines
  <1>5. CASE ServerExit
    BY <1>5 DEF ServerExit
  <1>6. ASSUME NEW n \in 1..MaxCalls, Replay(n) PROVE TypeInv'
    <2>1. n \in DOMAIN sent /\ sent[n] \in Calls
      BY <1>6, HeadAndTail DEF Replay, Takes
    <2>2. stdin' \in Seq(1..MaxCalls) /\ \A k \in DOMAIN stdin' : stdin'[k] \in DOMAIN sent
      BY <1>6, HeadAndTail DEF Replay, Takes
    <2>3. Match(n) # None => Match(n) \in Exchanges(base)
      BY MatchIsRecordedAndFresh DEF Match
    <2>4. used' \subseteq Exchanges(base)
      BY <1>6, <2>3 DEF Replay, Matched, Consume
    <2>5. Response(base, Match(n)) \in DOMAIN base
      BY <1>6, ResponseBelongs DEF Replay, Sent
    <2>6. base[Response(base, Match(n))].call \in Answers
      BY <2>5 DEF Answers
    <2>7. reader' \in [at : {"reply"}, line : Lines] /\ reader'.line.call = n
      BY <1>6, <2>1, <2>6 DEF Replay, At, Line
    <2> QED
      BY <1>6, <2>1, <2>2, <2>4, <2>7, ZenonT(60) DEF Replay
  <1>7. ASSUME NEW n \in 1..MaxCalls, Forward(n) PROVE TypeInv'
    <2>1. n \in DOMAIN sent /\ sent[n] \in Calls
      BY <1>7, HeadAndTail DEF Forward, Takes
    <2>2. stdin' \in Seq(1..MaxCalls) /\ \A k \in DOMAIN stdin' : stdin'[k] \in DOMAIN sent
      BY <1>7, HeadAndTail DEF Forward, Takes
    <2>3. Match(n) # None => Match(n) \in Exchanges(base)
      BY MatchIsRecordedAndFresh DEF Match
    <2>4. used' \subseteq Exchanges(base)
      BY <1>7, <2>3 DEF Forward, Matched, Consume
    <2>5. tape' = Append(tape, Message("client", "request", n))
      BY <1>7 DEF Forward
    <2>6. \A k \in DOMAIN tape : tape[k].id \in DOMAIN sent
      OBVIOUS
    <2>7. reader' \in [at : {"forward"}, line : Lines] /\ reader'.line.call = n
      BY <1>7, <2>1 DEF Forward, At, Line, Answers
    <2> HIDE DEF TypeInv, TypeOK, Lines
    <2>8. Message("client", "request", n) \in Messages
      BY <1>7, <2>1, MessageIsTyped
    <2>9. Message("client", "request", n).id = n
      BY DEF Message
    <2>10. tape' \in Seq(Messages) /\ \A k \in DOMAIN tape' : tape'[k].id \in DOMAIN sent
      BY <1>0, <2>1, <2>5, <2>6, <2>8, <2>9, Appended
    <2> QED
      BY <1>7, <2>1, <2>2, <2>4, <2>7, <2>10, ZenonT(60) DEF Forward, TypeInv, TypeOK, Lines
  <1>8. CASE Reply
    BY <1>8 DEF Reply, At
  <1>9. CASE SendOn
    BY <1>9 DEF SendOn, At
  <1>10. CASE ClientEof
    BY <1>10 DEF ClientEof, At
  <1>11. CASE TapAnswer
    <2>1. Head(outbox) \in Lines /\ Head(outbox) = outbox[1] /\ 1 \in DOMAIN outbox
      BY <1>11, HeadAndTail DEF TapAnswer
    <2>2. Head(outbox).call \in DOMAIN sent /\ Head(outbox).call \in 1..MaxCalls
      BY <2>1
    <2>3. sent[Head(outbox).call] \in Calls
      BY <2>2
    <2>4. tape' = Append(tape, Message("server", "response", Head(outbox).call))
      BY <1>11 DEF TapAnswer
    <2>5. \A k \in DOMAIN tape : tape[k].id \in DOMAIN sent
      OBVIOUS
    <2>6. outbox' \in Seq(Lines) /\ \A k \in DOMAIN outbox' : outbox'[k].call \in DOMAIN sent
      BY <1>11, HeadAndTail DEF TapAnswer
    <2> HIDE DEF TypeInv, TypeOK, Lines
    <2>7. Message("server", "response", Head(outbox).call) \in Messages
      BY <2>2, <2>3, MessageIsTyped
    <2>8. Message("server", "response", Head(outbox).call).id = Head(outbox).call
      BY DEF Message
    <2>9. tape' \in Seq(Messages) /\ \A k \in DOMAIN tape' : tape'[k].id \in DOMAIN sent
      BY <1>0, <2>2, <2>4, <2>5, <2>7, <2>8, Appended, SMTT(60)
    <2> QED
      BY <1>11, <2>1, <2>2, <2>6, <2>9 DEF TapAnswer, At, TypeInv, TypeOK, Lines
  <1>12. CASE Emit
    BY <1>12 DEF Emit, At
  <1>13. CASE Finalize
    BY <1>13 DEF Finalize, Merged
  <1>14. CASE SendFails
    BY <1>14 DEF SendFails
  <1>15. CASE Kill
    BY <1>15 DEF Kill
  <1>16. CASE UNCHANGED vars
    BY <1>16 DEF vars, world, proxy
  <1> QED
    BY <1>1, <1>2, <1>3, <1>4, <1>5, <1>6, <1>7, <1>8, <1>9, <1>10, <1>11,
       <1>12, <1>13, <1>14, <1>15, <1>16
    DEF Next, Client, ClientLoop, ServerLoop, End, EndNormally, EndHard

LEMMA OrderStep ==
    ASSUME TypeInv, TypeInv', OrderInv, [Next]_vars
    PROVE  OrderInv'
  <1>0. /\ sent \in Seq(Calls) /\ stdin \in Seq(1..MaxCalls) /\ tape \in Seq(Messages)
        /\ inbox \in Seq(Lines) /\ outbox \in Seq(Lines) /\ shown \in Seq(Lines)
        /\ \A l \in Lines : l.call \in Nat
        /\ Busy => reader.line \in Lines
        /\ Emitting => writer.line \in Lines
    BY SMTT(60) DEF TypeInv, TypeOK, Lines, Busy, Emitting
  <1> USE DEF TypeInv, TypeOK, OrderInv, AnsweredOnce, Taken, Behind, Increasing, NotShown,
          Emitting, Running, Busy, world, proxy, Lines
  <1>1. CASE Start
    BY <1>1 DEF Start, At
  <1>2. ASSUME NEW call \in Calls, ClientCall(call) PROVE OrderInv'
    BY <1>2, SMTT(60) DEF ClientCall
  <1>3. ASSUME NEW how \in {"done", "gone"}, ClientLeave(how) PROVE OrderInv'
    BY <1>3 DEF ClientLeave
  <1>4. CASE ServerAnswer
    <2> HIDE DEF TypeInv, TypeOK, OrderInv, AnsweredOnce, Taken, Behind, Increasing, NotShown,
             Lines
    <2>1. inbox # <<>> /\ inbox' = Tail(inbox) /\ outbox' = Append(outbox, inbox[1])
      BY <1>4, <1>0, HeadAndTail DEF ServerAnswer
    <2>2. inbox[1] \in Lines /\ 1 \in DOMAIN inbox
      BY <1>0, <2>1, HeadAndTail
    <2>3. \A k \in DOMAIN inbox' :
             /\ inbox'[k] = inbox[k + 1]
             /\ k + 1 \in DOMAIN inbox /\ k \in Nat \ {0}
      BY <1>0, <2>1, HeadAndTail
    <2>4. \A k \in DOMAIN outbox' :
             \/ k \in DOMAIN outbox /\ outbox'[k] = outbox[k] /\ k < Len(outbox) + 1
             \/ k = Len(outbox) + 1 /\ outbox'[k] = inbox[1]
      BY <1>0, <2>1, <2>2, Appended
    <2>5. UNCHANGED <<sent, stdin, shown, reader, writer>>
      BY <1>4 DEF ServerAnswer
    <2>6. /\ \A k \in DOMAIN inbox : inbox[k].call \in Nat /\ k \in Nat
          /\ \A k \in DOMAIN outbox : outbox[k].call \in Nat /\ k \in Nat
          /\ Len(outbox) \in Nat /\ \A k \in DOMAIN outbox : k < Len(outbox) + 1
      BY <1>0
    <2>7. Taken' = Taken
      BY <2>5 DEF Taken
    <2>8. Behind(inbox)' /\ Behind(outbox)'
      BY <2>2, <2>3, <2>4, <2>5, <2>7 DEF Behind, OrderInv
    <2>9. NotShown(inbox)' /\ NotShown(outbox)'
      BY <2>2, <2>3, <2>4, <2>5 DEF NotShown, OrderInv
    <2>10. Increasing(inbox)'
      BY <2>3, <2>6 DEF OrderInv, Increasing
    <2>11. Increasing(outbox)'
      BY <2>2, <2>4, <2>6 DEF OrderInv, Increasing
    <2>12. \A i \in DOMAIN outbox', j \in DOMAIN inbox' : outbox'[i].call < inbox'[j].call
      BY <2>2, <2>3, <2>4, <2>6 DEF OrderInv, Increasing
    <2>13. Emitting' => /\ \A i \in DOMAIN outbox' : writer'.line.call < outbox'[i].call
                       /\ \A i \in DOMAIN inbox' : writer'.line.call < inbox'[i].call
      BY <2>2, <2>3, <2>4, <2>5 DEF OrderInv, Emitting
    <2> QED
      BY <2>5, <2>7, <2>8, <2>9, <2>10, <2>11, <2>12, <2>13 DEF OrderInv, AnsweredOnce, Behind
  <1>5. CASE ServerExit
    BY <1>5 DEF ServerExit
  <1>6. ASSUME NEW n \in 1..MaxCalls, Replay(n) PROVE OrderInv'
    <2> HIDE DEF TypeInv, TypeOK, OrderInv, AnsweredOnce, Behind, Increasing, NotShown, Lines
    <2>1. stdin # <<>> /\ stdin[1] = n /\ 1 \in DOMAIN stdin /\ stdin' = Tail(stdin)
      BY <1>0, <1>6, HeadAndTail DEF Replay, Takes
    <2>2. Len(stdin) <= Len(sent) /\ \A k \in DOMAIN stdin : stdin[k] = Taken + k
      BY DEF OrderInv
    <2>3. Taken + 1 = n /\ Taken \in Nat
      <3> HIDE DEF Taken
      <3>1. Taken + 1 = n
        BY <2>1, <2>2
      <3>2. Taken \in Nat
        BY <1>0, <2>2 DEF Taken
      <3> QED
        BY <3>1, <3>2
    <2>4. UNCHANGED <<sent, inbox, outbox, shown, writer>>
      BY <1>6 DEF Replay
    <2>5. Len(stdin') = Len(stdin) - 1 /\ stdin' \in Seq(1..MaxCalls) /\ Len(stdin) \in Nat
      BY <1>0, <2>1, HeadAndTail
    <2>6. Taken' = n /\ Taken' = Taken + 1
      BY <1>0, <2>3, <2>4, <2>5
    <2> HIDE DEF Taken
    <2>7. \A k \in DOMAIN stdin' : stdin'[k] = Taken' + k
      BY <1>0, <2>1, <2>2, <2>3, <2>6, HeadAndTail
    <2>8. ~Busy /\ reader'.line.call = n
      BY <1>6 DEF Replay, Takes, At, Line
    <2>9. /\ \A k \in DOMAIN inbox : inbox[k].call \in Nat
          /\ \A k \in DOMAIN outbox : outbox[k].call \in Nat
          /\ \A k \in DOMAIN shown : shown[k].call \in Nat
          /\ Emitting => writer.line.call \in Nat
      BY <1>0
    <2>10. Behind(inbox)' /\ Behind(outbox)' /\ Behind(shown)'
      BY <2>3, <2>4, <2>6, <2>8, <2>9 DEF OrderInv, Behind
    <2>11. Emitting' => writer'.line.call < Taken'
      BY <2>3, <2>4, <2>6, <2>8, <2>9 DEF OrderInv
    <2>12. Len(stdin') <= Len(sent')
      BY <1>0, <2>4, <2>5 DEF OrderInv
    <2>13. Increasing(inbox)' /\ Increasing(outbox)' /\ NotShown(inbox)' /\ NotShown(outbox)'
      BY <2>4 DEF OrderInv, NotShown, Increasing
    <2>14. AnsweredOnce'
      BY <2>4 DEF OrderInv, AnsweredOnce
    <2>15. Emitting' => writer'.line.call <= Taken'
      BY <2>3, <2>4, <2>6, <2>9, <2>11
    <2> HIDE DEF Emitting
    <2> QED
      BY <2>4, <2>6, <2>7, <2>8, <2>10, <2>11, <2>12, <2>13, <2>14, <2>15
      DEF OrderInv, Emitting
  <1>7. ASSUME NEW n \in 1..MaxCalls, Forward(n) PROVE OrderInv'
    <2> HIDE DEF TypeInv, TypeOK, OrderInv, AnsweredOnce, Behind, Increasing, NotShown, Lines
    <2>1. stdin # <<>> /\ stdin[1] = n /\ 1 \in DOMAIN stdin /\ stdin' = Tail(stdin)
      BY <1>0, <1>7, HeadAndTail DEF Forward, Takes
    <2>2. Len(stdin) <= Len(sent) /\ \A k \in DOMAIN stdin : stdin[k] = Taken + k
      BY DEF OrderInv
    <2>3. Taken + 1 = n /\ Taken \in Nat
      <3> HIDE DEF Taken
      <3>1. Taken + 1 = n
        BY <2>1, <2>2
      <3>2. Taken \in Nat
        BY <1>0, <2>2 DEF Taken
      <3> QED
        BY <3>1, <3>2
    <2>4. UNCHANGED <<sent, inbox, outbox, shown, writer>>
      BY <1>7 DEF Forward
    <2>5. Len(stdin') = Len(stdin) - 1 /\ stdin' \in Seq(1..MaxCalls) /\ Len(stdin) \in Nat
      BY <1>0, <2>1, HeadAndTail
    <2>6. Taken' = n /\ Taken' = Taken + 1
      BY <1>0, <2>3, <2>4, <2>5
    <2> HIDE DEF Taken
    <2>7. \A k \in DOMAIN stdin' : stdin'[k] = Taken' + k
      BY <1>0, <2>1, <2>2, <2>3, <2>6, HeadAndTail
    <2>8. ~Busy /\ reader'.line.call = n
      BY <1>7 DEF Forward, Takes, At, Line
    <2>9. /\ \A k \in DOMAIN inbox : inbox[k].call \in Nat
          /\ \A k \in DOMAIN outbox : outbox[k].call \in Nat
          /\ \A k \in DOMAIN shown : shown[k].call \in Nat
          /\ Emitting => writer.line.call \in Nat
      BY <1>0
    <2>10. Behind(inbox)' /\ Behind(outbox)' /\ Behind(shown)'
      BY <2>3, <2>4, <2>6, <2>8, <2>9 DEF OrderInv, Behind
    <2>11. Emitting' => writer'.line.call < Taken'
      BY <2>3, <2>4, <2>6, <2>8, <2>9 DEF OrderInv
    <2>12. Len(stdin') <= Len(sent')
      BY <1>0, <2>4, <2>5 DEF OrderInv
    <2>13. Increasing(inbox)' /\ Increasing(outbox)' /\ NotShown(inbox)' /\ NotShown(outbox)'
      BY <2>4 DEF OrderInv, NotShown, Increasing
    <2>14. AnsweredOnce'
      BY <2>4 DEF OrderInv, AnsweredOnce
    <2>15. Emitting' => writer'.line.call <= Taken'
      BY <2>3, <2>4, <2>6, <2>9, <2>11
    <2> HIDE DEF Emitting
    <2> QED
      BY <2>4, <2>6, <2>7, <2>8, <2>10, <2>11, <2>12, <2>13, <2>14, <2>15
      DEF OrderInv, Emitting
  <1>8. CASE Reply
    <2> HIDE DEF TypeInv, TypeOK, OrderInv, AnsweredOnce, Taken, Behind, Increasing, NotShown,
             Lines
    <2>1. shown' = Append(shown, reader.line) /\ reader.line \in Lines
      BY <1>8, <1>0 DEF Reply
    <2>2. \A k \in DOMAIN shown' :
             \/ k \in DOMAIN shown /\ shown'[k] = shown[k]
             \/ k = Len(shown) + 1 /\ shown'[k] = reader.line
      BY <1>0, <2>1, Appended
    <2>3. UNCHANGED <<sent, stdin, inbox, outbox>> /\ Taken' = Taken
      BY <1>8 DEF Reply, Taken
    <2>4. reader.at = "reply" /\ reader'.at = "read" /\ writer' = writer
      BY <1>8 DEF Reply, At
    <2>5. /\ \A k \in DOMAIN inbox : inbox[k].call \in Nat
          /\ \A k \in DOMAIN outbox : outbox[k].call \in Nat
          /\ \A k \in DOMAIN shown : shown[k].call \in Nat
          /\ reader.line.call \in Nat /\ Taken \in Int
          /\ Emitting => writer.line.call \in Nat
      BY <1>0, <2>1 DEF Taken
    <2>6. AnsweredOnce'
      BY <2>2, <2>4, <2>5 DEF AnsweredOnce, OrderInv, Behind
    <2>7. Behind(inbox)' /\ Behind(outbox)' /\ Behind(shown)'
      BY <2>2, <2>3, <2>4, <2>5 DEF Behind, OrderInv
    <2>8. NotShown(inbox)' /\ NotShown(outbox)'
      BY <2>2, <2>3, <2>4, <2>5 DEF NotShown, OrderInv, Behind
    <2>9. Emitting' => \A k \in DOMAIN shown' : writer'.line.call # shown'[k].call
      BY <2>2, <2>4, <2>5 DEF OrderInv
    <2> QED
      BY <2>3, <2>4, <2>6, <2>7, <2>8, <2>9 DEF OrderInv, Increasing
  <1>9. CASE SendOn
    <2> HIDE DEF TypeInv, TypeOK, OrderInv, AnsweredOnce, Taken, Behind, Increasing, NotShown,
             Lines
    <2>1. inbox' = Append(inbox, reader.line) /\ reader.line \in Lines
      BY <1>9, <1>0 DEF SendOn
    <2>2. \A k \in DOMAIN inbox' :
             \/ k \in DOMAIN inbox /\ inbox'[k] = inbox[k] /\ k < Len(inbox) + 1
             \/ k = Len(inbox) + 1 /\ inbox'[k] = reader.line
      BY <1>0, <2>1, Appended
    <2>3. UNCHANGED <<sent, stdin, outbox, shown, writer>> /\ Taken' = Taken
      BY <1>9 DEF SendOn, Taken
    <2>4. reader.at = "forward" /\ reader'.at = "read"
      BY <1>9 DEF SendOn, At
    <2>5. /\ \A k \in DOMAIN inbox : inbox[k].call \in Nat /\ k \in Nat
          /\ \A k \in DOMAIN outbox : outbox[k].call \in Nat
          /\ \A k \in DOMAIN shown : shown[k].call \in Nat
          /\ reader.line.call \in Nat /\ Taken \in Int
          /\ Len(inbox) \in Nat /\ \A k \in DOMAIN inbox : k < Len(inbox) + 1
      BY <1>0, <2>1 DEF Taken
    <2>6. Behind(inbox)' /\ Behind(outbox)' /\ Behind(shown)'
      BY <2>2, <2>3, <2>4, <2>5 DEF Behind, OrderInv
    <2>7. NotShown(inbox)'
      BY <2>2, <2>3, <2>4, <2>5 DEF NotShown, OrderInv, Behind
    <2>8. Increasing(inbox)'
      BY <2>2, <2>4, <2>5 DEF Increasing, OrderInv, Behind
    <2>9. \A i \in DOMAIN outbox', j \in DOMAIN inbox' : outbox'[i].call < inbox'[j].call
      BY <2>2, <2>3, <2>4, <2>5 DEF OrderInv, Behind
    <2>10. Emitting' => \A i \in DOMAIN inbox' : writer'.line.call < inbox'[i].call
      BY <2>2, <2>3, <2>4, <2>5 DEF OrderInv
    <2> QED
      BY <2>3, <2>4, <2>6, <2>7, <2>8, <2>9, <2>10 DEF OrderInv, Increasing, AnsweredOnce, NotShown
  <1>10. CASE ClientEof
    BY <1>10 DEF ClientEof, At
  <1>11. CASE TapAnswer
    <2> HIDE DEF TypeInv, TypeOK, OrderInv, AnsweredOnce, Taken, Behind, Increasing, NotShown,
             Lines
    <2>1. outbox # <<>> /\ outbox' = Tail(outbox) /\ writer'.line = outbox[1]
      BY <1>11, <1>0, HeadAndTail DEF TapAnswer, At
    <2>2. 1 \in DOMAIN outbox
      BY <1>0, <2>1, HeadAndTail
    <2>3. \A k \in DOMAIN outbox' :
             /\ outbox'[k] = outbox[k + 1]
             /\ k + 1 \in DOMAIN outbox /\ k \in Nat \ {0}
      BY <1>0, <2>1, HeadAndTail
    <2>4. UNCHANGED <<sent, stdin, inbox, shown, reader>> /\ Taken' = Taken
      BY <1>11 DEF TapAnswer, Taken
    <2>5. Behind(outbox)' /\ NotShown(outbox)'
      BY <2>3, <2>4 DEF OrderInv, Behind, NotShown
    <2>6. Increasing(outbox)'
      BY <2>3 DEF OrderInv, Increasing
    <2>7. \A i \in DOMAIN outbox' : writer'.line.call < outbox'[i].call
      BY <2>1, <2>2, <2>3 DEF OrderInv, Increasing
    <2>8. \A i \in DOMAIN outbox', j \in DOMAIN inbox' : outbox'[i].call < inbox'[j].call
      BY <2>3, <2>4 DEF OrderInv
    <2>9. /\ writer'.line.call <= Taken /\ (Busy => writer'.line.call < Taken)
          /\ \A i \in DOMAIN inbox : writer'.line.call < inbox[i].call
          /\ \A k \in DOMAIN shown : writer'.line.call # shown[k].call
      BY <2>1, <2>2 DEF OrderInv, Behind, NotShown
    <2> QED
      BY <2>4, <2>5, <2>6, <2>7, <2>8, <2>9 DEF OrderInv, Behind, NotShown, Increasing, AnsweredOnce
  <1>12. CASE Emit
    <2> HIDE DEF TypeInv, TypeOK, OrderInv, AnsweredOnce, Taken, Behind, Increasing, NotShown,
             Lines
    <2>1. shown' = Append(shown, writer.line) /\ writer.line \in Lines
      BY <1>12, <1>0 DEF Emit
    <2>2. \A k \in DOMAIN shown' :
             \/ k \in DOMAIN shown /\ shown'[k] = shown[k]
             \/ k = Len(shown) + 1 /\ shown'[k] = writer.line
      BY <1>0, <2>1, Appended
    <2>3. UNCHANGED <<sent, stdin, inbox, outbox>> /\ Taken' = Taken
      BY <1>12 DEF Emit, Taken
    <2>4. Emitting /\ ~Emitting' /\ reader' = reader
      BY <1>12 DEF Emit, At
    <2>5. /\ \A k \in DOMAIN inbox : inbox[k].call \in Nat
          /\ \A k \in DOMAIN outbox : outbox[k].call \in Nat
          /\ \A k \in DOMAIN shown : shown[k].call \in Nat
          /\ writer.line.call \in Nat /\ Taken \in Int
          /\ Emitting => writer.line.call \in Nat
      BY <1>0, <2>1 DEF Taken
    <2>6. AnsweredOnce'
      BY <2>2, <2>4, <2>5 DEF AnsweredOnce, OrderInv
    <2>7. Behind(inbox)' /\ Behind(outbox)' /\ Behind(shown)'
      BY <2>2, <2>3, <2>4, <2>5 DEF Behind, OrderInv
    <2>8. NotShown(inbox)' /\ NotShown(outbox)'
      BY <2>2, <2>3, <2>4, <2>5 DEF NotShown, OrderInv
    <2> QED
      BY <2>3, <2>4, <2>6, <2>7, <2>8 DEF OrderInv, Increasing
  <1>13. CASE Finalize
    BY <1>13 DEF Finalize, Merged
  <1>14. CASE SendFails
    BY <1>14 DEF SendFails
  <1>15. CASE Kill
    BY <1>15 DEF Kill
  <1>16. CASE UNCHANGED vars
    BY <1>16 DEF vars, world, proxy
  <1> QED
    BY <1>1, <1>2, <1>3, <1>4, <1>5, <1>6, <1>7, <1>8, <1>9, <1>10, <1>11,
       <1>12, <1>13, <1>14, <1>15, <1>16
    DEF Next, Client, ClientLoop, ServerLoop, End, EndNormally, EndHard

LEMMA TapeStep ==
    ASSUME TypeInv, TypeInv', TapeInv, [Next]_vars
    PROVE  TapeInv'
  <1>0. /\ sent \in Seq(Calls) /\ stdin \in Seq(1..MaxCalls) /\ tape \in Seq(Messages)
        /\ inbox \in Seq(Lines) /\ outbox \in Seq(Lines) /\ shown \in Seq(Lines)
        /\ \A l \in Lines : l.call \in Nat
        /\ Busy => reader.line \in Lines
        /\ Emitting => writer.line \in Lines
    BY SMTT(60) DEF TypeInv, TypeOK, Lines, Busy, Emitting
  <1> USE DEF TypeInv, TypeOK, TapeInv, OnTape, AnswerOnTape, Emitting, Running, Busy,
          world, proxy, Lines
  <1>1. CASE Start
    BY <1>1 DEF Start, At
  <1>2. ASSUME NEW call \in Calls, ClientCall(call) PROVE TapeInv'
    BY <1>2 DEF ClientCall
  <1>3. ASSUME NEW how \in {"done", "gone"}, ClientLeave(how) PROVE TapeInv'
    BY <1>3 DEF ClientLeave
  <1>4. CASE ServerAnswer
    <2> HIDE DEF TypeInv, TypeOK, TapeInv, OnTape, AnswerOnTape, Lines
    <2>1. inbox # <<>> /\ inbox' = Tail(inbox) /\ outbox' = Append(outbox, inbox[1])
      BY <1>4, <1>0, HeadAndTail DEF ServerAnswer
    <2>2. inbox[1] \in Lines /\ 1 \in DOMAIN inbox
      BY <1>0, <2>1, HeadAndTail
    <2>3. \A k \in DOMAIN inbox' :
             /\ inbox'[k] = inbox[k + 1]
             /\ k + 1 \in DOMAIN inbox /\ k \in Nat \ {0}
      BY <1>0, <2>1, HeadAndTail
    <2>4. \A k \in DOMAIN outbox' :
             \/ k \in DOMAIN outbox /\ outbox'[k] = outbox[k] /\ k < Len(outbox) + 1
             \/ k = Len(outbox) + 1 /\ outbox'[k] = inbox[1]
      BY <1>0, <2>1, <2>2, Appended
    <2>5. UNCHANGED <<sent, stdin, shown, reader, writer>>
      BY <1>4 DEF ServerAnswer
    <2> QED
      BY <1>4, <2>2, <2>3, <2>4 DEF ServerAnswer, TapeInv, OnTape, AnswerOnTape
  <1>5. CASE ServerExit
    BY <1>5 DEF ServerExit
  <1>6. ASSUME NEW n \in 1..MaxCalls, Replay(n) PROVE TapeInv'
    BY <1>6 DEF Replay, Takes, Matched, At, Line
  <1>7. ASSUME NEW n \in 1..MaxCalls, Forward(n) PROVE TapeInv'
    <2> HIDE DEF TypeInv, TypeOK, TapeInv, OnTape, AnswerOnTape, Lines
    <2>1. tape' = Append(tape, Message("client", "request", n))
      BY <1>7 DEF Forward
    <2>2. /\ DOMAIN tape' = DOMAIN tape \cup {Len(tape) + 1}
          /\ tape'[Len(tape) + 1] = Message("client", "request", n)
          /\ \A i \in DOMAIN tape : tape'[i] = tape[i] /\ i < Len(tape) + 1
      BY <1>0, <2>1
    <2>3. \A k : OnTape(tape, k) => OnTape(tape', k)
      BY <2>2 DEF OnTape
    <2>4. \A k : AnswerOnTape(tape, k) => AnswerOnTape(tape', k)
      BY <2>2 DEF AnswerOnTape
    <2>5. OnTape(tape', n)
      BY <2>2 DEF OnTape, Message
    <2>6. reader'.at = "forward" /\ reader'.line.call = n
      BY <1>7 DEF Forward, At, Line
    <2> QED
      BY <1>7, <2>3, <2>4, <2>5, <2>6 DEF Forward, Takes, TapeInv
  <1>8. CASE Reply
    <2> HIDE DEF TypeInv, TypeOK, TapeInv, OnTape, AnswerOnTape, Lines
    <2>1. shown' = Append(shown, reader.line) /\ reader.line \in Lines
      BY <1>8, <1>0 DEF Reply
    <2>2. \A k \in DOMAIN shown' :
             \/ k \in DOMAIN shown /\ shown'[k] = shown[k]
             \/ k = Len(shown) + 1 /\ shown'[k] = reader.line
      BY <1>0, <2>1, Appended
    <2> QED
      BY <1>8, <2>2 DEF Reply, At, TapeInv, OnTape, AnswerOnTape
  <1>9. CASE SendOn
    <2> HIDE DEF TypeInv, TypeOK, TapeInv, OnTape, AnswerOnTape, Lines
    <2>1. inbox' = Append(inbox, reader.line) /\ reader.line \in Lines
      BY <1>9, <1>0 DEF SendOn
    <2>2. \A k \in DOMAIN inbox' :
             \/ k \in DOMAIN inbox /\ inbox'[k] = inbox[k]
             \/ k = Len(inbox) + 1 /\ inbox'[k] = reader.line
      BY <1>0, <2>1, Appended
    <2> QED
      BY <1>9, <2>2 DEF SendOn, At, TapeInv, OnTape, AnswerOnTape
  <1>10. CASE ClientEof
    BY <1>10 DEF ClientEof, At
  <1>11. CASE TapAnswer
    <2> HIDE DEF TypeInv, TypeOK, TapeInv, OnTape, AnswerOnTape, Lines
    <2>1. tape' = Append(tape, Message("server", "response", Head(outbox).call))
      BY <1>11 DEF TapAnswer
    <2>2. /\ DOMAIN tape' = DOMAIN tape \cup {Len(tape) + 1}
          /\ tape'[Len(tape) + 1] = Message("server", "response", Head(outbox).call)
          /\ \A i \in DOMAIN tape : tape'[i] = tape[i] /\ i < Len(tape) + 1
      BY <1>0, <2>1
    <2>3. \A k : OnTape(tape, k) => OnTape(tape', k)
      BY <2>2 DEF OnTape
    <2>4. \A k : AnswerOnTape(tape, k) => AnswerOnTape(tape', k)
      BY <2>2 DEF AnswerOnTape
    <2>5. outbox # <<>> /\ outbox' = Tail(outbox) /\ Head(outbox) = outbox[1] /\ 1 \in DOMAIN outbox
      BY <1>11, <1>0, HeadAndTail DEF TapAnswer
    <2>6. PICK i \in DOMAIN tape : tape[i].kind = "request" /\ tape[i].id = outbox[1].call
      BY <2>5 DEF TapeInv, OnTape
    <2>7. AnswerOnTape(tape', outbox[1].call)
      BY <2>2, <2>5, <2>6 DEF AnswerOnTape, Message
    <2>8. writer'.line = outbox[1]
      BY <1>11, <2>5 DEF TapAnswer, At
    <2>9. \A k \in DOMAIN outbox' : outbox'[k] = outbox[k + 1] /\ k + 1 \in DOMAIN outbox
      BY <1>0, <2>5, HeadAndTail
    <2> QED
      BY <1>11, <2>3, <2>4, <2>7, <2>8, <2>9 DEF TapAnswer, TapeInv
  <1>12. CASE Emit
    <2> HIDE DEF TypeInv, TypeOK, TapeInv, OnTape, AnswerOnTape, Lines
    <2>1. shown' = Append(shown, writer.line) /\ writer.line \in Lines
      BY <1>12, <1>0 DEF Emit
    <2>2. \A k \in DOMAIN shown' :
             \/ k \in DOMAIN shown /\ shown'[k] = shown[k]
             \/ k = Len(shown) + 1 /\ shown'[k] = writer.line
      BY <1>0, <2>1, Appended
    <2> QED
      BY <1>12, <2>2 DEF Emit, At, TapeInv, OnTape, AnswerOnTape
  <1>13. CASE Finalize
    BY <1>13 DEF Finalize, Merged
  <1>14. CASE SendFails
    BY <1>14 DEF SendFails
  <1>15. CASE Kill
    BY <1>15 DEF Kill
  <1>16. CASE UNCHANGED vars
    BY <1>16 DEF vars, world, proxy
  <1> QED
    BY <1>1, <1>2, <1>3, <1>4, <1>5, <1>6, <1>7, <1>8, <1>9, <1>10, <1>11,
       <1>12, <1>13, <1>14, <1>15, <1>16
    DEF Next, Client, ClientLoop, ServerLoop, End, EndNormally, EndHard

-----------------------------------------------------------------------------
Inv == TypeInv /\ OrderInv /\ TapeInv

LEMMA Invariance == Spec => []Inv
  <1>1. Init => TypeInv
    <2> SUFFICES ASSUME Init PROVE TypeInv
      OBVIOUS
    <2>1. PICK s \in Setups : file = s.cassette /\ ordering = s.ordering
      BY DEF Init
    <2>2. file \in Seq(Messages) /\ ordering \in {"per_method", "strict", "none"}
      BY <2>1, EpisodesAssumption
    <2> QED
      BY <2>2, EpisodesAssumption DEF Init, TypeInv, TypeOK, At, Busy, NoLine, Lines
  <1>2. Init => OrderInv /\ TapeInv
    BY DEF Init, At, OrderInv, TapeInv, Busy, Emitting, Taken, Behind, Increasing, NotShown,
           AnsweredOnce
  <1>3. Inv /\ [Next]_vars => Inv'
    BY TypeStep, OrderStep, TapeStep DEF Inv
  <1> QED
    BY <1>1, <1>2, <1>3, PTL DEF Spec, Inv

\* Every state of every session is well typed; among it, what the matcher has consumed
\* are requests of the cassette it has loaded.
THEOREM TypeCorrect == Spec => []TypeOK
  BY Invariance, PTL DEF Inv, TypeInv

\* A call is answered from the cassette or by the server and never by both, for any
\* interleaving of the client loop with the server loop.
THEOREM AnswersOnce == Spec => []AnsweredOnce
  BY Invariance, PTL DEF Inv, OrderInv

\* _finalize never changes or drops what the cassette held: a save keeps it as a prefix,
\* and every other step leaves the file alone.
THEOREM OnlyAppends == Spec => AppendOnly
  <1>1. Inv /\ [Next]_vars => [Len(file) <= Len(file') /\ SubSeq(file', 1, Len(file)) = file]_vars
    <2> SUFFICES ASSUME Inv, [Next]_vars
                 PROVE  Len(file) <= Len(file') /\ SubSeq(file', 1, Len(file)) = file
      OBVIOUS
    <2>1. /\ file \in Seq(Messages) /\ tape \in Seq(Messages)
          /\ Running => file = base
      BY DEF Inv, TypeInv, TypeOK, TapeInv, Running
    <2>2. file' = file \/ file' = file \o tape
      <3>1. CASE Finalize
        BY <2>1, <3>1 DEF Finalize, Merged
      <3>2. CASE UNCHANGED file
        BY <3>2
      <3> QED
        BY <3>1, <3>2 DEF Next, Start, Client, ClientCall, ClientLeave, ServerAnswer, ServerExit,
           ClientLoop, Replay, Forward, Reply, SendOn, ClientEof, ServerLoop, TapAnswer, Emit,
           End, EndNormally, EndHard, SendFails, Kill, vars
    <2>3. CASE file' = file
      BY <2>1, <2>3
    <2>4. CASE file' = file \o tape
      BY <2>1, <2>4
    <2> QED
      BY <2>2, <2>3, <2>4
  <1> QED
    BY <1>1, Invariance, PTL DEF Spec, AppendOnly

\* Once a session is saved, whatever answer of the server its client has seen is in the
\* cassette, after the request it answers.
THEOREM SavesWhatWasShown == Spec => []ShownIsSaved
  <1>1. Inv => ShownIsSaved
    <2> SUFFICES ASSUME Inv, outcome = "saved", NEW n \in DOMAIN shown, shown[n].live
                 PROVE  \E i, j \in (Len(base) + 1)..Len(file) :
                            /\ i < j /\ file[i].kind = "request" /\ file[j].kind = "response"
                            /\ file[i].id = shown[n].call /\ file[j].id = shown[n].call
      BY DEF ShownIsSaved
    <2>1. PICK i, j \in DOMAIN tape :
              /\ i < j /\ tape[i].kind = "request" /\ tape[j].kind = "response"
              /\ tape[i].id = shown[n].call /\ tape[j].id = shown[n].call
      BY DEF Inv, TapeInv, AnswerOnTape
    <2>2. /\ base \in Seq(Messages) /\ tape \in Seq(Messages)
          /\ file = base \o tape
      BY DEF Inv, TypeInv, TypeOK, TapeInv
    <2>3. \A k \in DOMAIN tape : /\ Len(base) + k \in (Len(base) + 1)..Len(file)
                                 /\ file[Len(base) + k] = tape[k]
      BY <2>2
    <2>4. Len(base) + i < Len(base) + j
      BY <2>1, <2>2
    <2>5. LET a == Len(base) + i
              b == Len(base) + j
          IN  /\ a \in (Len(base) + 1)..Len(file) /\ b \in (Len(base) + 1)..Len(file) /\ a < b
              /\ file[a] = tape[i] /\ file[b] = tape[j]
      BY <2>1, <2>3, <2>4
    <2> QED
      BY <2>1, <2>5
  <1> QED
    BY <1>1, Invariance, PTL
=============================================================================
