-------------------------- MODULE StdioProxyProofs --------------------------
(***************************************************************************)
(* Theorems about StdioProxy, for every number of requests, every leftover *)
(* and whether or not writes may fail.                                     *)
(*                                                                         *)
(* The two halves of the argument do not meet: Taps relates the pipes to   *)
(* the recording, and Ends relates the files to the steps of _finalize.    *)
(***************************************************************************)
EXTENDS StdioProxy, TLAPS

\* A pump that sends has a line in hand.
Control ==
    /\ c2s = "send" => received < N
    /\ s2c = "send" => stdout # <<>>

\* A line is in the recording from its tap on: what was received or shown, what is
\* being sent, and the request of every answer on its way.
Taps ==
    /\ RecordedBeforeSeen
    /\ c2s = "send" => In(Request(received + 1), log)
    /\ s2c = "send" => In(Answer(Head(stdout)), log)
    /\ \A k \in 1..Len(stdout) : stdout[k] \in 1..received

\* Nothing happens to the cassette, the report and the claim before _finalize, which
\* takes its steps in order; and on the way out of a task group that has ended, the
\* checkpoint's thread has ended too.
Ends ==
    /\ phase \in {"run", "save"} => cassette = Before /\ ~report /\ claim
    /\ phase = "discard" => ~report /\ claim
    /\ phase \in {"discard", "report"} => cassette = log \/ log = <<>>
    /\ phase \in {"release", "exit", "exited"} => cassette = log \/ log = <<>> \/ failed
    /\ phase \in Finalizing \cup {"exit", "exited"} /\ ~hard => ckpt = "done"
    /\ phase = "exit" => ~claim
    /\ phase = "report" /\ ~hard => partial = Nothing
    /\ phase \in {"release", "exit", "exited"} /\ ~hard /\ ~failed => partial = Nothing

TypeInv == TypeOK /\ Control
TapInv == TypeInv /\ Taps
OrderInv == TapInv /\ AnswersFollowRequests
EndInv == /\ TypeInv /\ Ends /\ CassetteIsWhole /\ CassetteFirst
          /\ ExitReleasesClaim

-----------------------------------------------------------------------------
(* What a tap adds is in the recording, and what was there stays. *)
LEMMA InAppend ==
    ASSUME NEW msgs \in Seq(Message), NEW new \in Message
    PROVE  /\ Append(msgs, new) \in Seq(Message)
           /\ In(new, Append(msgs, new))
           /\ \A m : In(m, msgs) => In(m, Append(msgs, new))
<1>1. Len(Append(msgs, new)) = Len(msgs) + 1 /\ Append(msgs, new)[Len(msgs) + 1] = new
  OBVIOUS
<1>2. \A k \in 1..Len(msgs) : Append(msgs, new)[k] = msgs[k]
  OBVIOUS
<1>3. In(new, Append(msgs, new))
  BY <1>1 DEF In
<1>4. \A m : In(m, msgs) => In(m, Append(msgs, new))
  BY <1>1, <1>2 DEF In
<1> QED BY <1>3, <1>4

LEMMA MessageType ==
    ASSUME NEW i \in Id
    PROVE  Request(i) \in Message /\ Answer(i) \in Message
BY DEF Message, Request, Answer

Flags == hard \in BOOLEAN /\ report \in BOOLEAN /\ claim \in BOOLEAN /\ failed \in BOOLEAN

LEMMA FlagsStep == Flags /\ [Next]_vars => Flags'
<1> SUFFICES ASSUME Flags, [Next]_vars PROVE Flags'
  OBVIOUS
<1> USE DEF Flags, endpoints, wire, tasks, ckptVars, exitVars, disk
<1>1. CASE External
  BY <1>1 DEF External, ClientSend, ClientClose, ServerAnswer, ServerMute, ServerExit
<1>2. CASE Requests
  BY <1>2 DEF Requests, TapRequest, ForwardRequest, ForwardRequestBroken, ClientEof
<1>3. CASE Answers
  BY <1>3 DEF Answers, TapAnswer, ForwardAnswer, ForwardAnswerBroken, ServerEofLast,
              ServerEofFirst, ServerDead
<1>4. CASE Checkpoint
  BY <1>4 DEF Checkpoint, CheckpointStart, CheckpointSaved, CheckpointFailed
<1>5. CASE Unwinding
  BY <1>5 DEF Unwinding, UnwindRequests, UnwindAnswers, UnwindCheckpoint, Unwind
<1>6. CASE Finalize
  <2>1. CASE Save
    BY <2>1 DEF Save, Step
  <2>2. CASE SaveFailed
    BY <2>2 DEF SaveFailed, Step
  <2>3. CASE Discard \/ WriteReport \/ ReleaseClaim \/ Exit
    BY <2>3 DEF Discard, WriteReport, ReleaseClaim, Exit, Step
  <2> QED BY <1>6, <2>1, <2>2, <2>3 DEF Finalize
<1>7. CASE Interrupt \/ Kill
  BY <1>7 DEF Interrupt, Kill
<1>8. CASE UNCHANGED vars
  BY <1>8 DEF vars
<1> QED BY <1>1, <1>2, <1>3, <1>4, <1>5, <1>6, <1>7, <1>8 DEF Next

LEMMA TypeInit == Init => TypeInv
<1>1. Init => Flags
  BY DEF Init, Flags
<1> QED
  BY <1>1, ConstantsAssumption
  DEF Init, Flags, TypeInv, TypeOK, Control, Id, Finalizing, Gone

(* Every action keeps the types. *)
LEMMA TypeStep == TypeInv /\ [Next]_vars => TypeInv'
<1> SUFFICES ASSUME TypeInv, [Next]_vars PROVE TypeInv'
  OBVIOUS
<1>0. Flags'
  BY FlagsStep DEF Flags, TypeInv, TypeOK
<1> USE <1>0, ConstantsAssumption
    DEF Flags, TypeInv, TypeOK, Control, Finalizing, Gone, endpoints, wire, tasks, ckptVars,
        exitVars, disk
<1>1. CASE ClientSend \/ ClientClose \/ ServerMute \/ ServerExit
  BY <1>1 DEF ClientSend, ClientClose, ServerMute, ServerExit
<1>2. ASSUME NEW i \in Id, ServerAnswer(i) PROVE TypeInv'
  BY <1>2 DEF ServerAnswer
<1>3. CASE TapRequest
  <2>1. received + 1 \in Id
    BY <1>3 DEF TapRequest, Id
  <2>2. Request(received + 1) \in Message
    BY <2>1, MessageType
  <2> QED BY <1>3, <2>2 DEF TapRequest
<1>4. CASE TapAnswer
  <2>1. Head(stdout) \in Id
    BY <1>4 DEF TapAnswer
  <2>2. Answer(Head(stdout)) \in Message
    BY <2>1, MessageType
  <2> QED BY <1>4, <2>2 DEF TapAnswer
<1>5. CASE ForwardRequest \/ ForwardRequestBroken \/ ClientEof
  BY <1>5 DEF ForwardRequest, ForwardRequestBroken, ClientEof
<1>6. CASE ForwardAnswer
  <2>1. Head(stdout) \in Id /\ Tail(stdout) \in Seq(Id)
    BY <1>6 DEF ForwardAnswer
  <2> QED BY <1>6, <2>1 DEF ForwardAnswer
<1>7. CASE ForwardAnswerBroken \/ ServerEofLast \/ ServerEofFirst \/ ServerDead
  BY <1>7 DEF ForwardAnswerBroken, ServerEofLast, ServerEofFirst, ServerEof, ServerDead
<1>8. CASE Checkpoint
  BY <1>8 DEF Checkpoint, CheckpointStart, CheckpointSaved, CheckpointFailed
<1>9. CASE Unwinding
  BY <1>9 DEF Unwinding, UnwindRequests, UnwindAnswers, UnwindCheckpoint, Unwind
<1>10. CASE Save \/ SaveFailed
  BY <1>10 DEF Save, SaveFailed, Step
<1>11. CASE Discard \/ WriteReport \/ ReleaseClaim \/ Exit
  BY <1>11 DEF Discard, WriteReport, ReleaseClaim, Exit, Step
<1>12. CASE Interrupt \/ Kill
  BY <1>12 DEF Interrupt, Kill
<1>13. CASE UNCHANGED vars
  BY <1>13 DEF vars
<1> QED
  BY <1>1, <1>2, <1>3, <1>4, <1>5, <1>6, <1>7, <1>8, <1>9, <1>10, <1>11, <1>12, <1>13
  DEF Next, External, Requests, Answers, Finalize

(* Every reachable state of the recording proxy is well typed: the pumps never   *)
(* forward more than was sent, nor an answer to a request they have not taken.   *)
THEOREM TypeCorrect == Spec => []TypeOK
<1>1. TypeInv => TypeOK
  BY DEF TypeInv
<1> QED BY <1>1, TypeInit, TypeStep, PTL DEF Spec

-----------------------------------------------------------------------------
(* The recording *)

LEMMA TapInit == Init => Taps
BY DEF Init, Taps, RecordedBeforeSeen

(* A tap adds its line before anything else sees it. *)
LEMMA TapStep == TapInv /\ [Next]_vars => Taps'
<1> SUFFICES ASSUME TapInv, [Next]_vars PROVE Taps'
  OBVIOUS
<1>0. stdout \in Seq(Id) /\ log \in Seq(Message) /\ received \in 0..N /\ N \in Nat
  BY ConstantsAssumption DEF TapInv, TypeInv, TypeOK
<1> USE DEF TapInv, Taps, RecordedBeforeSeen, endpoints, wire, tasks, ckptVars, exitVars,
            disk
<1>1. CASE ClientSend \/ ClientClose \/ ServerMute \/ ServerExit
  BY <1>1 DEF ClientSend, ClientClose, ServerMute, ServerExit
<1>2. ASSUME NEW i \in Id, ServerAnswer(i) PROVE Taps'
  <2>1. s2c = "send" => stdout # <<>> /\ Head(stdout') = Head(stdout)
    BY <1>0, <1>2 DEF ServerAnswer, TypeInv, Control
  <2>2. \A k \in 1..Len(stdout') : stdout'[k] \in 1..received
    BY <1>0, <1>2 DEF ServerAnswer, Id
  <2> QED BY <1>2, <2>1, <2>2 DEF ServerAnswer
<1>3. CASE TapRequest
  <2>1. received + 1 \in Id /\ Request(received + 1) \in Message
    BY <1>3, <1>0, MessageType DEF TapRequest, TypeInv, TypeOK, Id
  <2>2. In(Request(received + 1), log') /\ \A m : In(m, log) => In(m, log')
    BY <1>3, <1>0, <2>1, InAppend DEF TapRequest
  <2> QED BY <1>3, <2>2 DEF TapRequest
<1>4. CASE TapAnswer
  <2>1. Head(stdout) \in Id /\ Answer(Head(stdout)) \in Message
    BY <1>4, <1>0, MessageType DEF TapAnswer
  <2>2. In(Answer(Head(stdout)), log') /\ \A m : In(m, log) => In(m, log')
    BY <1>4, <1>0, <2>1, InAppend DEF TapAnswer
  <2> QED BY <1>4, <2>2 DEF TapAnswer
<1>5. CASE ForwardRequest
  <2>1. received' = received + 1 /\ UNCHANGED <<stdout, shown, log, s2c>> /\ c2s' = "read"
    BY <1>5 DEF ForwardRequest
  <2>2. \A i \in 1..received' : In(Request(i), log)
    BY <1>5, <1>0, <2>1 DEF ForwardRequest
  <2>3. \A k \in 1..Len(stdout) : stdout[k] \in 1..received'
    BY <1>0, <2>1
  <2> QED BY <2>1, <2>2, <2>3
<1>6. CASE ForwardAnswer
  <2>1. stdout # <<>> /\ In(Answer(Head(stdout)), log)
    BY <1>6 DEF ForwardAnswer, TypeInv, Control
  <2>2. \A k \in 1..Len(Tail(stdout)) : Tail(stdout)[k] \in 1..received
    BY <1>0, <2>1
  <2> QED BY <1>6, <2>1, <2>2 DEF ForwardAnswer
<1>7. CASE ForwardRequestBroken \/ ClientEof \/ ForwardAnswerBroken
  BY <1>7 DEF ForwardRequestBroken, ClientEof, ForwardAnswerBroken
<1>8. CASE ServerEofLast \/ ServerEofFirst \/ ServerDead
  BY <1>8 DEF ServerEofLast, ServerEofFirst, ServerDead
<1>9. CASE Checkpoint
  BY <1>9 DEF Checkpoint, CheckpointStart, CheckpointSaved, CheckpointFailed
<1>10. CASE Unwinding
  BY <1>10 DEF Unwinding, UnwindRequests, UnwindAnswers, UnwindCheckpoint, Unwind
<1>11. CASE Finalize
  BY <1>11 DEF Finalize, Save, SaveFailed, Discard, WriteReport, ReleaseClaim, Exit, Step
<1>12. CASE Interrupt \/ Kill
  BY <1>12 DEF Interrupt, Kill
<1>13. CASE UNCHANGED vars
  BY <1>13 DEF vars
<1> QED
  BY <1>1, <1>2, <1>3, <1>4, <1>5, <1>6, <1>7, <1>8, <1>9, <1>10, <1>11, <1>12, <1>13
  DEF Next, External, Requests, Answers

(* Whatever the server has received and the client has seen is in the recording, *)
(* at every moment and however the session ends: a line is tapped before it is   *)
(* forwarded (pump_lines).                                                       *)
LEMMA RecordsBeforeForwarding == Spec => []RecordedBeforeSeen
<1>1. Init => TapInv
  BY TypeInit, TapInit DEF TapInv
<1>2. TapInv /\ [Next]_vars => TapInv'
  BY TypeStep, TapStep DEF TapInv
<1>3. TapInv => RecordedBeforeSeen
  BY DEF TapInv, Taps
<1> QED BY <1>1, <1>2, <1>3, PTL DEF Spec

(* Only the taps extend the recording: a request by itself, an answer after its  *)
(* request.                                                                      *)
LEMMA LogChanges ==
    ASSUME TapInv, [Next]_vars
    PROVE  \/ log' = log
           \/ TapRequest \/ TapAnswer
<1> USE DEF endpoints, wire, tasks, ckptVars, exitVars, disk
<1>1. CASE External
  BY <1>1 DEF External, ClientSend, ClientClose, ServerAnswer, ServerMute, ServerExit
<1>2. CASE ForwardRequest \/ ForwardRequestBroken \/ ClientEof
  BY <1>2 DEF ForwardRequest, ForwardRequestBroken, ClientEof
<1>3. CASE ForwardAnswer \/ ForwardAnswerBroken
  BY <1>3 DEF ForwardAnswer, ForwardAnswerBroken
<1>4. CASE ServerEofLast \/ ServerEofFirst \/ ServerDead
  BY <1>4 DEF ServerEofLast, ServerEofFirst, ServerDead
<1>5. CASE Checkpoint
  BY <1>5 DEF Checkpoint, CheckpointStart, CheckpointSaved, CheckpointFailed
<1>6. CASE Unwinding
  BY <1>6 DEF Unwinding, UnwindRequests, UnwindAnswers, UnwindCheckpoint, Unwind
<1>7. CASE Finalize
  BY <1>7 DEF Finalize, Save, SaveFailed, Discard, WriteReport, ReleaseClaim, Exit
<1>8. CASE Interrupt \/ Kill \/ UNCHANGED vars
  BY <1>8 DEF Interrupt, Kill, vars
<1> QED
  BY <1>1, <1>2, <1>3, <1>4, <1>5, <1>6, <1>7, <1>8 DEF Next, Requests, Answers

LEMMA OrderStep == OrderInv /\ [Next]_vars => AnswersFollowRequests'
<1> SUFFICES ASSUME OrderInv, [Next]_vars PROVE AnswersFollowRequests'
  OBVIOUS
<1>0. /\ TapInv /\ AnswersFollowRequests
      /\ stdout \in Seq(Id) /\ log \in Seq(Message) /\ received \in 0..N /\ N \in Nat
  BY ConstantsAssumption DEF OrderInv, TapInv, TypeInv, TypeOK
<1>1. ASSUME NEW new \in Message, log' = Append(log, new),
             new.from = "server" => In(Request(new.id), log)
      PROVE  AnswersFollowRequests'
  <2> SUFFICES ASSUME NEW k \in 1..Len(log'), log'[k].from = "server"
               PROVE  \E j \in 1..(k - 1) : log'[j] = Request(log'[k].id)
    BY DEF AnswersFollowRequests
  <2>1. /\ Len(log') = Len(log) + 1 /\ log'[Len(log) + 1] = new
        /\ \A j \in 1..Len(log) : log'[j] = log[j]
    BY <1>0, <1>1
  <2>2. CASE k \in 1..Len(log)
    <3>1. PICK j \in 1..(k - 1) : log[j] = Request(log[k].id)
      BY <1>0, <2>1, <2>2 DEF AnswersFollowRequests
    <3>2. j \in 1..Len(log)
      BY <1>0, <2>2
    <3> QED BY <2>1, <2>2, <3>1, <3>2
  <2>3. CASE k = Len(log) + 1
    <3>1. PICK j \in 1..Len(log) : log[j] = Request(new.id)
      BY <1>1, <2>1, <2>3 DEF In
    <3>2. j \in 1..(k - 1)
      BY <1>0, <2>3
    <3> QED BY <2>1, <2>3, <3>1, <3>2
  <2> QED BY <1>0, <2>1, <2>2, <2>3
<1>2. CASE log' = log
  BY <1>0, <1>2 DEF AnswersFollowRequests
<1>3. CASE TapRequest
  <2>1. received + 1 \in Id /\ Request(received + 1) \in Message
    BY <1>0, <1>3, MessageType DEF TapRequest, TapInv, TypeInv, TypeOK, Id
  <2>2. Request(received + 1).from # "server"
    BY DEF Request
  <2> QED BY <1>1, <1>3, <2>1, <2>2 DEF TapRequest
<1>4. CASE TapAnswer
  <2>1. Head(stdout) \in Id /\ Answer(Head(stdout)) \in Message
    BY <1>0, <1>4, MessageType DEF TapAnswer
  <2>2. Head(stdout) \in 1..received
    BY <1>0, <1>4 DEF TapAnswer, TapInv, Taps
  <2>3. In(Request(Head(stdout)), log)
    BY <1>0, <2>2 DEF TapInv, Taps, RecordedBeforeSeen
  <2>4. Answer(Head(stdout)).id = Head(stdout)
    BY DEF Answer
  <2> QED BY <1>1, <1>4, <2>1, <2>3, <2>4 DEF TapAnswer
<1> QED BY <1>0, <1>2, <1>3, <1>4, LogChanges

(* A recording never shows an answer before the request that caused it.          *)
LEMMA AnswersComeLater == Spec => []AnswersFollowRequests
<1>1. Init => OrderInv
  BY TypeInit, TapInit DEF Init, OrderInv, TapInv, AnswersFollowRequests
<1>2. OrderInv /\ [Next]_vars => OrderInv'
  BY TypeStep, TapStep, OrderStep DEF OrderInv, TapInv
<1>3. OrderInv => AnswersFollowRequests
  BY DEF OrderInv
<1> QED BY <1>1, <1>2, <1>3, PTL DEF Spec

(* The recording holds whatever the server has received and the client has seen, *)
(* each answer after its request, in every interleaving of the pumps with the    *)
(* checkpoint and the ends of the session.                                       *)
THEOREM RecordsInOrder == Spec => []RecordedInOrder
<1>1. RecordedBeforeSeen /\ AnswersFollowRequests => RecordedInOrder
  BY DEF RecordedInOrder
<1> QED BY <1>1, RecordsBeforeForwarding, AnswersComeLater, PTL

-----------------------------------------------------------------------------
(* The files *)

LEMMA EndInit == Init => Ends
BY DEF Init, Ends, Finalizing

(* The steps of the event loop leave the files alone and start no _finalize but  *)
(* over a task group whose checkpoint has ended, or on a hard path.              *)
LEMMA EndStep == EndInv /\ [Next]_vars => EndInv'
<1> SUFFICES ASSUME EndInv, [Next]_vars PROVE EndInv'
  OBVIOUS
<1>0. TypeInv'
  BY TypeStep DEF EndInv
<1> SUFFICES (Ends /\ CassetteIsWhole /\ CassetteFirst /\ ExitReleasesClaim)'
  BY <1>0 DEF EndInv
<1> USE DEF EndInv, Ends, CassetteIsWhole, CassetteFirst, ExitReleasesClaim, Finalizing,
            Gone, endpoints, wire, tasks, ckptVars, exitVars, disk
<1>1. CASE External
  BY <1>1 DEF External, ClientSend, ClientClose, ServerAnswer, ServerMute, ServerExit
<1>2. CASE Requests
  BY <1>2 DEF Requests, TapRequest, ForwardRequest, ForwardRequestBroken, ClientEof, Turn
<1>3. CASE TapAnswer \/ ForwardAnswer \/ ForwardAnswerBroken
  BY <1>3 DEF TapAnswer, ForwardAnswer, ForwardAnswerBroken, Turn
<1>4. CASE ServerEofLast \/ ServerEofFirst \/ ServerDead
  BY <1>4 DEF ServerEofLast, ServerEofFirst, ServerDead
<1>5. CASE CheckpointStart
  BY <1>5 DEF CheckpointStart, Turn
<1>6. CASE CheckpointSaved
  BY <1>6 DEF CheckpointSaved
<1>7. CASE CheckpointFailed
  BY <1>7 DEF CheckpointFailed
<1>8. CASE Unwinding
  BY <1>8 DEF Unwinding, UnwindRequests, UnwindAnswers, UnwindCheckpoint, Unwind
<1>9. CASE Save
  BY <1>9 DEF Save, Step
<1>10. CASE SaveFailed
  BY <1>10 DEF SaveFailed
<1>11. CASE Discard
  BY <1>11 DEF Discard, Step
<1>12. CASE WriteReport
  BY <1>12 DEF WriteReport, Step
<1>13. CASE ReleaseClaim
  BY <1>13 DEF ReleaseClaim, Step
<1>14. CASE Exit
  BY <1>14 DEF Exit, Step
<1>15. CASE Interrupt \/ Kill
  BY <1>15 DEF Interrupt, Kill, Turn
<1>16. CASE UNCHANGED vars
  BY <1>16 DEF vars
<1> QED
  BY <1>1, <1>2, <1>3, <1>4, <1>5, <1>6, <1>7, <1>8, <1>9, <1>10, <1>11, <1>12, <1>13,
     <1>14, <1>15, <1>16
  DEF Next, Answers, Checkpoint, Finalize

LEMMA EndInvariant == Spec => []EndInv
<1>1. Init => EndInv
  BY TypeInit, EndInit
  DEF Init, EndInv, CassetteIsWhole, CassetteFirst, ExitReleasesClaim
<1> QED BY <1>1, EndStep, PTL DEF Spec

(* At every moment, a kill at any of them included, the cassette path holds the  *)
(* old file or the whole session, and never a checkpoint.                        *)
THEOREM NeverTruncated == Spec => []CassetteIsWhole
<1>1. EndInv => CassetteIsWhole
  BY DEF EndInv
<1> QED BY <1>1, EndInvariant, PTL

(* The report and the free claim, which the next writer goes by, never come      *)
(* before the cassette; every way out of the process but a kill has released the *)
(* claim; and a session that unwound normally leaves no sidecar, although the    *)
(* checkpoint's thread cannot be cancelled.                                      *)
THEOREM EndsCleanly == Spec => []CleanEnd
<1>1. EndInv => NormalFinishLeavesNoPartial
  BY DEF EndInv, Ends, NormalFinishLeavesNoPartial
<1>2. EndInv => CassetteFirst /\ ExitReleasesClaim
  BY DEF EndInv
<1>3. EndInv => CleanEnd
  BY <1>1, <1>2 DEF CleanEnd
<1> QED BY <1>3, EndInvariant, PTL

\* No earlier recording was killed with this cassette path.
NoLeftover == Leftover = {Nothing}

\* Then a sidecar belongs to this session, which has messages.
OwnSidecar ==
    /\ partial # Nothing => log # <<>>
    /\ ckpt = "thread" => log # <<>>

LEMMA SidecarStep == TapInv /\ OwnSidecar /\ [Next]_vars => OwnSidecar'
<1> SUFFICES ASSUME TapInv, OwnSidecar, [Next]_vars PROVE OwnSidecar'
  OBVIOUS
<1>0. log # <<>> => log' # <<>>
  <2>1. CASE TapRequest \/ TapAnswer
    BY <2>1 DEF TapRequest, TapAnswer, TapInv, TypeInv, TypeOK
  <2> QED BY <2>1, LogChanges
<1> USE DEF OwnSidecar, endpoints, wire, tasks, ckptVars, exitVars, disk
<1>1. CASE External
  BY <1>1 DEF External, ClientSend, ClientClose, ServerAnswer, ServerMute, ServerExit
<1>2. CASE Requests
  BY <1>0, <1>2 DEF Requests, TapRequest, ForwardRequest, ForwardRequestBroken, ClientEof
<1>3. CASE Answers
  BY <1>0, <1>3 DEF Answers, TapAnswer, ForwardAnswer, ForwardAnswerBroken, ServerEofLast,
                    ServerEofFirst, ServerDead
<1>4. CASE Checkpoint
  BY <1>4 DEF Checkpoint, CheckpointStart, CheckpointSaved, CheckpointFailed
<1>5. CASE Unwinding
  BY <1>5 DEF Unwinding, UnwindRequests, UnwindAnswers, UnwindCheckpoint, Unwind
<1>6. CASE Finalize
  BY <1>6 DEF Finalize, Save, SaveFailed, Discard, WriteReport, ReleaseClaim, Exit
<1>7. CASE Interrupt \/ Kill \/ UNCHANGED vars
  BY <1>7 DEF Interrupt, Kill, vars
<1> QED BY <1>1, <1>2, <1>3, <1>4, <1>5, <1>6, <1>7 DEF Next

LEMMA DiscardStep ==
    EndInv /\ OwnSidecar /\ [Next]_vars
        => [partial # Nothing /\ partial' = Nothing => cassette = log /\ log # <<>>]_vars
<1> SUFFICES ASSUME EndInv, OwnSidecar, [Next]_vars, partial # Nothing, partial' = Nothing
             PROVE  cassette = log /\ log # <<>>
  OBVIOUS
<1>1. log # <<>>
  BY DEF OwnSidecar
<1> USE DEF endpoints, wire, tasks, ckptVars, exitVars, disk
<1>2. CASE Discard
  BY <1>1, <1>2 DEF Discard, Step, EndInv, Ends
<1>3. CASE CheckpointSaved
  BY <1>3, ConstantsAssumption DEF CheckpointSaved, EndInv, TypeInv, TypeOK
<1>4. CASE External
  BY <1>4 DEF External, ClientSend, ClientClose, ServerAnswer, ServerMute, ServerExit
<1>5. CASE Requests
  BY <1>5 DEF Requests, TapRequest, ForwardRequest, ForwardRequestBroken, ClientEof
<1>6. CASE Answers
  BY <1>6 DEF Answers, TapAnswer, ForwardAnswer, ForwardAnswerBroken, ServerEofLast,
              ServerEofFirst, ServerDead
<1>7. CASE CheckpointStart \/ CheckpointFailed
  BY <1>7 DEF CheckpointStart, CheckpointFailed
<1>8. CASE Unwinding
  BY <1>8 DEF Unwinding, UnwindRequests, UnwindAnswers, UnwindCheckpoint, Unwind
<1>9. CASE Save \/ SaveFailed \/ WriteReport \/ ReleaseClaim \/ Exit
  BY <1>9 DEF Save, SaveFailed, WriteReport, ReleaseClaim, Exit
<1>10. CASE Interrupt \/ Kill \/ UNCHANGED vars
  BY <1>10 DEF Interrupt, Kill, vars
<1> QED
  BY <1>2, <1>3, <1>4, <1>5, <1>6, <1>7, <1>8, <1>9, <1>10 DEF Next, Checkpoint, Finalize

(* Where no earlier recording was killed, a sidecar is removed only once a       *)
(* session with messages has been saved.  TLC refutes it with Leftover =         *)
(* {Nothing, Crashed}: _finalize discards what an earlier run left, although it  *)
(* has saved nothing.                                                            *)
THEOREM DiscardsAfterASave == NoLeftover => (Spec => DiscardsOnlyAfterASave)
<1> SUFFICES ASSUME NoLeftover PROVE Spec => DiscardsOnlyAfterASave
  OBVIOUS
<1>1. Init => TapInv /\ EndInv /\ OwnSidecar
  <2>1. Init => TapInv
    BY TypeInit, TapInit DEF TapInv
  <2>2. Init => EndInv
    BY TypeInit, EndInit
    DEF Init, EndInv, CassetteIsWhole, CassetteFirst, ExitReleasesClaim
  <2>3. Init => OwnSidecar
    BY NoLeftover DEF NoLeftover, Init, OwnSidecar
  <2> QED BY <2>1, <2>2, <2>3
<1>2. TapInv /\ EndInv /\ OwnSidecar /\ [Next]_vars
        => (TapInv /\ EndInv /\ OwnSidecar)'
  <2>1. TapInv /\ [Next]_vars => TapInv'
    BY TypeStep, TapStep DEF TapInv
  <2> QED BY <2>1, EndStep, SidecarStep
<1> QED BY <1>1, <1>2, DiscardStep, PTL DEF Spec, DiscardsOnlyAfterASave
=============================================================================
