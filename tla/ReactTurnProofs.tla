-------------------------- MODULE ReactTurnProofs --------------------------
(***************************************************************************)
(* Proofs about ReactTurn for any batches, targets, number of messages and *)
(* crash limit, with the checkpoints in the database or in memory.         *)
(***************************************************************************)
EXTENDS ReactTurn, FiniteSets, FiniteSetTheorems, TLAPS

\* A run that is in its tools has a message of the model, it has taken fewer
\* answers than it has passed calls, and its checkpoint is fresh.
RunShape ==
    run # None => /\ run.serial <= Len(issued)
                  /\ run.stage = "tools" => run.serial >= 1
                  /\ run.idx < run.pos
                  /\ ~ old

\* The checkpoint names a message of the model, and the call that asked.
CkptShape ==
    /\ ckpt.serial <= Len(issued)
    /\ ckpt.next = "tools" => ckpt.serial >= 1
    /\ ckpt.asked # 0 => /\ ckpt.next = "tools"
                         /\ ckpt.asked <= Len(issued[ckpt.serial])
                         /\ issued[ckpt.serial][ckpt.asked].kind \notin Silent

TInv == TypeOK /\ RunShape /\ CkptShape

-----------------------------------------------------------------------------
\* The values a run and a checkpoint start with.
LEMMA Zeros ==
    /\ 0 \in 0 .. MaxMessages /\ 0 \in 0 .. MaxCalls /\ 0 \in 0 .. DURABLE_CRASH_LIMIT - 1
    /\ 1 \in 1 .. MaxCalls + 1 /\ <<>> \in Seq(Texts) /\ None \in Texts \cup {None}
  BY TurnAssumption

Checkpoints == [next : {"end", "chat", "tools"}, serial : 0 .. MaxMessages,
                asked : 0 .. MaxCalls, resumes : Seq(Texts)]

LEMMA EndedType == Ended \in Checkpoints
  BY Zeros DEF Ended, Checkpoints

LEMMA StartType ==
    ASSUME NEW a \in {"chat", "tools"}, NEW n \in 0 .. MaxMessages
    PROVE  Start(a, n) \in Runs
  BY Zeros DEF Start, Runs

\* An element of a sequence.
LEMMA Element == ASSUME NEW S, NEW q \in Seq(S), NEW p \in 1 .. Len(q) PROVE q[p] \in S
  OBVIOUS

LEMMA RunFields ==
    ASSUME TypeOK, run # None
    PROVE  /\ run \in Runs
           /\ run.stage \in {"chat", "tools"} /\ run.serial \in 0 .. MaxMessages
           /\ run.pos \in 1 .. MaxCalls + 1 /\ run.idx \in 0 .. MaxCalls
           /\ run.given \in Seq(Texts) /\ run.fed \in Texts \cup {None}
<1>1. run \in Runs
  BY DEF TypeOK
<1> QED BY <1>1 DEF Runs

LEMMA CkptFields ==
    ASSUME TypeOK
    PROVE  /\ ckpt.next \in {"end", "chat", "tools"} /\ ckpt.serial \in 0 .. MaxMessages
           /\ ckpt.asked \in 0 .. MaxCalls /\ ckpt.resumes \in Seq(Texts)
  BY DEF TypeOK

\* A message of the model is one of the batches, with at most MaxCalls calls.
LEMMA BatchFacts ==
    ASSUME TypeOK, NEW s \in 1 .. Len(issued)
    PROVE  /\ issued[s] \in Batches /\ Len(issued[s]) \in 0 .. MaxCalls
           /\ \A p \in 1 .. Len(issued[s]) : /\ issued[s][p].kind \in Kinds
                                             /\ issued[s][p].target \in Targets
<1>1. issued[s] \in Batches
  BY DEF TypeOK
<1>2. issued[s] \in Seq([kind : Kinds, target : Targets]) /\ Len(issued[s]) <= MaxCalls
  BY <1>1, TurnAssumption
<1>3. Len(issued[s]) \in Nat
  BY <1>2
<1>4. ASSUME NEW p \in 1 .. Len(issued[s]) PROVE issued[s][p] \in [kind : Kinds, target : Targets]
  <2>1. PICK q \in Seq([kind : Kinds, target : Targets]) : q = issued[s]
    BY <1>2
  <2>2. q[p] \in [kind : Kinds, target : Targets]
    BY <1>4, <2>1, Element
  <2> QED BY <2>1, <2>2
<1> QED BY <1>1, <1>2, <1>3, <1>4, TurnAssumption

\* The call a run is at.
LEMMA AtCallFacts ==
    ASSUME TInv, AtCall
    PROVE  /\ run # None /\ run \in Runs /\ run.stage = "tools"
           /\ run.serial \in 1 .. Len(issued) /\ run.serial \in 1 .. MaxMessages
           /\ run.pos \in 1 .. Len(issued[run.serial]) /\ run.pos \in 1 .. MaxCalls
           /\ run.idx \in Nat /\ run.idx < run.pos
           /\ This \in Calls /\ Call.kind \in Kinds /\ Call.target \in Targets
           /\ issued[This[1]][This[2]] = Call
<1>1. run # None /\ run.stage = "tools" /\ run.pos <= Len(issued[run.serial])
  BY DEF AtCall, InTools
<1>2. /\ run \in Runs /\ run.serial \in 0 .. MaxMessages /\ run.pos \in 1 .. MaxCalls + 1
      /\ run.idx \in 0 .. MaxCalls
  BY <1>1, RunFields DEF TInv
<1>3. Len(issued) \in Nat /\ Len(issued) <= MaxMessages
  BY DEF TInv, TypeOK
<1>4. run.serial \in 1 .. Len(issued) /\ run.serial \in 1 .. MaxMessages
  BY <1>1, <1>2, <1>3, TurnAssumption DEF TInv, RunShape
<1>5. Len(issued[run.serial]) \in 0 .. MaxCalls
  BY <1>4, BatchFacts DEF TInv
<1>6. run.pos \in 1 .. Len(issued[run.serial]) /\ run.pos \in 1 .. MaxCalls
  BY <1>1, <1>2, <1>5, TurnAssumption
<1>7. Call.kind \in Kinds /\ Call.target \in Targets
  BY <1>4, <1>6, BatchFacts DEF TInv, Call
<1> QED BY <1>1, <1>2, <1>4, <1>6, <1>7 DEF TInv, RunShape, This, Calls, Call

-----------------------------------------------------------------------------
(***************************************************************************)
(* Types                                                                   *)
(***************************************************************************)
LEMMA TypeInit == Init => TInv
<1> SUFFICES ASSUME Init PROVE TInv
  OBVIOUS
<1>1. issued \in Seq(Batches) /\ Len(issued) = 0
  BY DEF Init
<1>2. ckpt \in Checkpoints /\ strikes \in 0 .. DURABLE_CRASH_LIMIT - 1 /\ Len(issued) <= MaxMessages
  BY <1>1, EndedType, Zeros, TurnAssumption DEF Init
<1>3. applied \in [Calls -> Nat]
  BY DEF Init
<1>4. TypeOK
  BY <1>1, <1>2, <1>3 DEF Init, TypeOK, Checkpoints
<1> QED BY <1>1, <1>4 DEF Init, TInv, RunShape, CkptShape, Ended

\* A resumed run starts from what the checkpoint holds.
LEMMA ResumeShape ==
    ASSUME TInv, Live, NEW answer \in Texts, Resume(answer), UNCHANGED <<issued, ckpt, old>>
    PROVE  run' \in Runs /\ RunShape' /\ CkptShape'
<1>1. /\ ckpt.next \in {"chat", "tools"} /\ ckpt.serial \in 0 .. MaxMessages
      /\ ckpt.resumes \in Seq(Texts) /\ ~ old
  BY CkptFields DEF TInv, Live, HasPause
<1>2. run' = [stage |-> ckpt.next, serial |-> ckpt.serial, pos |-> 1, idx |-> 0,
              given |-> ckpt.resumes, fed |-> answer]
  BY DEF Resume
<1>3. run' \in Runs
  BY <1>1, <1>2, TurnAssumption DEF Runs
<1>4. RunShape'
  BY <1>1, <1>2 DEF RunShape, TInv, CkptShape
<1>5. CkptShape'
  BY DEF TInv, CkptShape
<1> QED BY <1>3, <1>4, <1>5

LEMMA QuestionIsCall ==
    ASSUME TInv, ckpt.asked # 0
    PROVE  Question \in Calls /\ ckpt.serial \in 1 .. Len(issued)
           /\ ckpt.asked \in 1 .. Len(issued[ckpt.serial])
<1>1. /\ ckpt.asked \in 1 .. MaxCalls /\ ckpt.serial \in 1 .. MaxMessages
      /\ ckpt.serial <= Len(issued) /\ ckpt.asked <= Len(issued[ckpt.serial])
  BY CkptFields, TurnAssumption DEF TInv, CkptShape
<1>2. Len(issued) \in Nat
  BY DEF TInv, TypeOK
<1>3. ckpt.serial \in 1 .. Len(issued)
  BY <1>1, <1>2, TurnAssumption
<1>4. Len(issued[ckpt.serial]) \in Nat
  BY <1>3, BatchFacts, TurnAssumption DEF TInv
<1> QED BY <1>1, <1>3, <1>4, TurnAssumption DEF Question, Calls

LEMMA TypeMessage == ASSUME TInv, Message PROVE TInv'
<1>1. ASSUME NEW text \in Texts, NEW new \in BOOLEAN, TextResumes(text, new) PROVE TInv'
  <2> DEFINE answer == IF ConfirmPause /\ text # "yes" THEN "no" ELSE text
  <2>1. /\ Live /\ answer \in Texts /\ Resume(answer)
        /\ UNCHANGED <<issued, ckpt, old, strikes, applied, gone, buttons, left>>
    BY <1>1 DEF TextResumes, Texts
  <2>2. run' \in Runs /\ RunShape' /\ CkptShape'
    <3> HIDE DEF answer
    <3> QED BY <2>1, ResumeShape
  <2>3. granted' \subseteq Calls
    BY <1>1, QuestionIsCall DEF TextResumes, ConfirmPause, TInv, TypeOK
  <2>4. blind' \subseteq 0 .. MaxMessages
    BY <1>1, CkptFields DEF TextResumes, TInv, TypeOK
  <2> QED BY <2>1, <2>2, <2>3, <2>4 DEF TInv, TypeOK
<1>2. ASSUME NEW text \in Texts, NEW new \in BOOLEAN, FreshTurn(text, new) PROVE TInv'
  <2>1. /\ ckpt' = [next |-> "chat", serial |-> 0, asked |-> 0, resumes |-> <<>>]
        /\ old' = FALSE
        /\ run' = Start("chat", 0)
        /\ left' = left \cup {ckpt.serial}
        /\ UNCHANGED <<issued, strikes, applied, gone, buttons, granted, blind>>
    BY <1>2 DEF FreshTurn, Ended
  <2>2. run' \in Runs
    BY <2>1, StartType, Zeros
  <2>3. ckpt' \in Checkpoints
    BY <2>1, Zeros DEF Checkpoints
  <2>4. left' \subseteq 0 .. MaxMessages
    BY <2>1, CkptFields DEF TInv, TypeOK
  <2>5. TypeOK'
    BY <2>1, <2>2, <2>3, <2>4 DEF TInv, TypeOK, Checkpoints
  <2>6. RunShape' /\ CkptShape'
    BY <2>1 DEF TInv, TypeOK, RunShape, CkptShape, Start
  <2> QED BY <2>5, <2>6 DEF TInv
<1>3. ASSUME NEW token \in buttons, NEW answer \in {"yes", "no"}, Tap(token, answer) PROVE TInv'
  <2>1. /\ Live /\ answer \in Texts /\ Resume(answer)
        /\ UNCHANGED <<issued, ckpt, old, strikes, applied, gone, buttons, blind, left>>
    BY <1>3 DEF Tap, Texts
  <2>2. run' \in Runs /\ RunShape' /\ CkptShape'
    BY <2>1, ResumeShape
  <2>3. granted' \subseteq Calls
    BY <1>3 DEF Tap, TInv, TypeOK
  <2> QED BY <2>1, <2>2, <2>3 DEF TInv, TypeOK
<1> QED BY <1>1, <1>2, <1>3 DEF Message

\* A step inside the node that only moves the run forward keeps the shape.
LEMMA TypeMoves ==
    ASSUME TInv, AtCall, Advance \/ (Asks /\ Answered /\ TakeAnswer),
           UNCHANGED <<issued, ckpt, old>>
    PROVE  run' \in Runs /\ RunShape' /\ CkptShape'
<1>0. /\ run \in Runs /\ run.stage = "tools" /\ run.serial \in 1 .. Len(issued)
      /\ run.pos \in 1 .. MaxCalls /\ run.idx \in Nat /\ run.idx < run.pos /\ run # None
  BY AtCallFacts
<1>1. /\ run.given \in Seq(Texts) /\ run.fed \in Texts \cup {None} /\ run.idx \in 0 .. MaxCalls
  BY <1>0, RunFields DEF TInv
<1>2. CkptShape'
  BY DEF TInv, CkptShape
<1>3. CASE Advance
  <2>1. run' = [run EXCEPT !.pos = run.pos + 1]
    BY <1>3 DEF Advance
  <2>4. run.pos + 1 \in 1 .. MaxCalls + 1
    BY <1>0, TurnAssumption
  <2>2. run' \in Runs
    BY ONLY <1>0, <2>1, <2>4 DEF Runs
  <2>3. run'.stage = run.stage /\ run'.serial = run.serial /\ run'.idx = run.idx
        /\ run'.pos = run.pos + 1
    BY <1>0, <2>1 DEF Runs
  <2> QED BY <1>0, <1>2, <2>2, <2>3, TurnAssumption DEF TInv, RunShape
<1>4. CASE Asks /\ Answered /\ TakeAnswer
  <2> DEFINE g == IF Known THEN run.given ELSE Append(run.given, run.fed)
             f == IF Known THEN run.fed ELSE None
  <2>1. run' = [stage |-> "tools", serial |-> run.serial, pos |-> run.pos + 1,
                idx |-> run.idx + 1, given |-> g, fed |-> f]
    BY <1>4 DEF TakeAnswer
  <2>2. g \in Seq(Texts) /\ f \in Texts \cup {None}
    BY <1>1, <1>4 DEF Answered
  <2>3. run.idx + 1 \in 0 .. MaxCalls
    BY <1>0, TurnAssumption
  <2> HIDE DEF g, f
  <2>4. run.pos + 1 \in 1 .. MaxCalls + 1 /\ run.serial \in 0 .. MaxMessages
    BY <1>0, RunFields, TurnAssumption DEF TInv
  <2>5. run' \in Runs
    BY <2>1, <2>2, <2>3, <2>4 DEF Runs
  <2> QED BY <1>0, <1>2, <2>1, <2>5, TurnAssumption DEF TInv, RunShape
<1> QED BY <1>3, <1>4

LEMMA MutateTypes ==
    ASSUME TInv, AtCall, Mutate \/ UNCHANGED <<applied, gone>>
    PROVE  applied' \in [Calls -> Nat] /\ gone' \subseteq Targets
  BY AtCallFacts DEF TInv, TypeOK, Mutate

LEMMA TypeCall ==
    ASSUME TInv,
           Skip \/ Decline \/ \E ok \in BOOLEAN : Write(ok) \/ Confirm(ok)
    PROVE  TInv'
<1>1. /\ AtCall /\ (Advance \/ (Asks /\ Answered /\ TakeAnswer))
      /\ UNCHANGED <<issued, ckpt, old, strikes, buttons, history>>
      /\ Mutate \/ UNCHANGED <<applied, gone>>
  BY DEF Skip, Decline, Write, Confirm
<1>2. run' \in Runs /\ RunShape' /\ CkptShape'
  BY <1>1, TypeMoves
<1>3. applied' \in [Calls -> Nat] /\ gone' \subseteq Targets
  BY <1>1, MutateTypes
<1> QED BY <1>1, <1>2, <1>3 DEF TInv, TypeOK, history

LEMMA TypePause == ASSUME TInv, Pause PROVE TInv'
<1>1. /\ AtCall /\ Asks /\ run' = None /\ strikes' = 0
      /\ ckpt' = [next |-> "tools", serial |-> run.serial, asked |-> run.pos, resumes |-> run.given]
      /\ old' = (old /\ ckpt.next = "tools" /\ ckpt.serial = run.serial)
      /\ UNCHANGED <<issued, applied, gone, granted, blind, left>>
  BY DEF Pause, history
<1>2. /\ run # None /\ run.serial \in 1 .. Len(issued) /\ run.serial \in 1 .. MaxMessages
      /\ run.pos \in 1 .. Len(issued[run.serial]) /\ run.pos \in 1 .. MaxCalls /\ This \in Calls
  BY <1>1, AtCallFacts
<1>3. run.given \in Seq(Texts)
  BY <1>2, RunFields DEF TInv
<1>4. ckpt' \in Checkpoints
  BY <1>1, <1>2, <1>3, TurnAssumption DEF Checkpoints
<1>5. buttons' \subseteq Calls
  BY <1>2 DEF Pause, TInv, TypeOK
<1>6. old' \in BOOLEAN
  BY <1>1
<1>7. TypeOK'
  BY <1>1, <1>4, <1>5, <1>6, Zeros DEF TInv, TypeOK, Checkpoints
<1>8. CkptShape'
  <2>1. /\ ckpt'.serial = run.serial /\ ckpt'.asked = run.pos /\ ckpt'.next = "tools"
    BY <1>1
  <2>2. issued[run.serial][run.pos].kind \notin Silent
    BY <1>1 DEF Asks, Call
  <2> QED BY <1>1, <1>2, <2>1, <2>2 DEF CkptShape
<1>9. RunShape'
  BY <1>1 DEF RunShape
<1> QED BY <1>7, <1>8, <1>9 DEF TInv

LEMMA TypeChat ==
    ASSUME TInv,
           (\E batch \in Batches : ChatCalls(batch)) \/ ChatEnds \/ Save \/ ToolsEnd
    PROVE  TInv'
<1>0. Len(issued) \in Nat
  BY DEF TInv, TypeOK
<1>1. ASSUME NEW batch \in Batches, ChatCalls(batch) PROVE TInv'
  <2>1. /\ run # None /\ Len(issued) < MaxMessages /\ issued' = Append(issued, batch)
        /\ run' = Start("tools", Len(issued) + 1)
        /\ UNCHANGED <<ckpt, old, strikes, applied, gone, buttons, granted, blind, left>>
    BY <1>1 DEF ChatCalls, history
  <2>3. run' \in Runs
    <3>1. Len(issued) + 1 \in 0 .. MaxMessages
      BY <1>0, <2>1, TurnAssumption
    <3> QED BY <2>1, <3>1, StartType
  <2>4. /\ issued' \in Seq(Batches) /\ Len(issued') = Len(issued) + 1
        /\ \A s \in 1 .. Len(issued) : issued'[s] = issued[s]
    BY <2>1 DEF TInv, TypeOK
  <2>5. TypeOK'
    BY <1>0, <2>1, <2>3, <2>4, TurnAssumption DEF TInv, TypeOK
  <2>6. RunShape'
    <3>1. run'.serial = Len(issued) + 1 /\ run'.idx = 0 /\ run'.pos = 1
      BY <2>1 DEF Start
    <3> QED BY <1>0, <2>1, <2>4, <3>1 DEF TInv, RunShape
  <2>7. CkptShape'
    <3>1. ckpt.serial \in Nat
      BY CkptFields, TurnAssumption DEF TInv
    <3>2. ckpt.serial >= 1 => issued'[ckpt.serial] = issued[ckpt.serial]
      BY <1>0, <2>4, <3>1 DEF TInv, CkptShape
    <3> QED BY <1>0, <2>1, <2>4, <3>1, <3>2 DEF TInv, CkptShape
  <2> QED BY <2>5, <2>6, <2>7 DEF TInv
<1>2. CASE ChatEnds
  <2>1. /\ ckpt' = [next |-> "end", serial |-> 0, asked |-> 0, resumes |-> <<>>]
        /\ old' = FALSE /\ run' = None /\ strikes' = 0
        /\ UNCHANGED <<issued, applied, gone, buttons, granted, blind, left>>
    BY <1>2 DEF ChatEnds, Ended, history
  <2>2. TypeOK'
    BY <2>1, EndedType, Zeros DEF TInv, TypeOK, Ended, Checkpoints
  <2> QED BY <1>0, <2>1, <2>2 DEF TInv, RunShape, CkptShape
<1>3. CASE Save
  <2>1. /\ run # None /\ UNCHANGED <<issued, run, strikes, applied, gone, buttons, granted, blind, left>>
        /\ ckpt' = [next |-> run.stage, serial |-> run.serial, asked |-> 0, resumes |-> <<>>]
        /\ old' = FALSE
    BY <1>3 DEF Save, history
  <2>2. run.stage \in {"chat", "tools"} /\ run.serial \in 0 .. MaxMessages
    BY <2>1, RunFields DEF TInv
  <2>3. ckpt' \in Checkpoints
    BY <2>1, <2>2, Zeros DEF Checkpoints
  <2>4. TypeOK'
    BY <2>1, <2>3 DEF TInv, TypeOK, Checkpoints
  <2>5. RunShape' /\ CkptShape'
    BY <2>1 DEF TInv, RunShape, CkptShape
  <2> QED BY <2>4, <2>5 DEF TInv
<1>4. CASE ToolsEnd
  <2>1. /\ run # None
        /\ run' = Start("chat", run.serial)
        /\ UNCHANGED <<issued, ckpt, old, strikes, applied, gone, buttons, granted, blind, left>>
    BY <1>4 DEF ToolsEnd, InTools, history
  <2>3. run' \in Runs
    BY <2>1, StartType, RunFields DEF TInv
  <2>4. TypeOK'
    BY <2>1, <2>3 DEF TInv, TypeOK
  <2>5. run'.stage = "chat" /\ run'.serial = run.serial /\ run'.idx = 0 /\ run'.pos = 1
    BY <2>1 DEF Start
  <2> QED BY <2>1, <2>4, <2>5 DEF TInv, RunShape, CkptShape
<1> QED BY <1>1, <1>2, <1>3, <1>4

LEMMA TypeFault == ASSUME TInv, Fault PROVE TInv'
<1>1. /\ run' = None /\ UNCHANGED <<issued, applied, gone, buttons, granted, blind, left>>
      /\ LoseThread \/ ClearPending \/ UNCHANGED <<ckpt, old>>
  BY DEF Fault, Crash, Fails, history
<1>2. strikes' \in 0 .. DURABLE_CRASH_LIMIT - 1
  <2>1. strikes \in 0 .. DURABLE_CRASH_LIMIT - 1
    BY DEF TInv, TypeOK
  <2>2. \/ strikes' = 0 \/ strikes' = strikes
        \/ ~ (strikes + 1 >= DURABLE_CRASH_LIMIT) /\ strikes' = strikes + 1
    BY DEF Fault, Crash, Fails
  <2> QED BY <2>1, <2>2, TurnAssumption
<1>3. RunShape'
  BY <1>1 DEF RunShape
<1>4. CASE LoseThread
  <2>1. ckpt' = [next |-> "end", serial |-> 0, asked |-> 0, resumes |-> <<>>] /\ old' = FALSE
    BY <1>4 DEF LoseThread, Ended
  <2>2. TypeOK'
    BY <1>1, <1>2, <2>1, EndedType DEF TInv, TypeOK, Ended, Checkpoints
  <2> QED BY <1>1, <1>3, <2>1, <2>2 DEF TInv, TypeOK, CkptShape
<1>5. CASE ClearPending
  <2>1. ckpt' = [ckpt EXCEPT !.asked = 0, !.resumes = <<>>] /\ UNCHANGED old
    BY <1>5 DEF ClearPending
  <2>2. TypeOK'
    <3>1. ckpt' \in Checkpoints
      BY <2>1, Zeros DEF TInv, TypeOK, Checkpoints
    <3> QED BY <1>1, <1>2, <2>1, <3>1 DEF TInv, TypeOK, Checkpoints
  <2>3. ckpt'.asked = 0 /\ ckpt'.next = ckpt.next /\ ckpt'.serial = ckpt.serial
    BY <2>1 DEF TInv, TypeOK
  <2> QED BY <1>1, <1>3, <2>2, <2>3 DEF TInv, CkptShape
<1>6. CASE UNCHANGED <<ckpt, old>>
  BY <1>1, <1>2, <1>3, <1>6 DEF TInv, TypeOK, CkptShape
<1> QED BY <1>1, <1>4, <1>5, <1>6

LEMMA TypeStep == TInv /\ [Next]_vars => TInv'
<1> SUFFICES ASSUME TInv, [Next]_vars PROVE TInv'
  OBVIOUS
<1>1. CASE Graph
  BY <1>1, TypeChat, TypeCall, TypePause DEF Graph
<1>2. CASE Expire
  <2>1. /\ run = None /\ old' = TRUE /\ left' = left \cup {ckpt.serial}
        /\ UNCHANGED <<issued, ckpt, run, strikes, applied, gone, buttons, granted, blind>>
    BY <1>2 DEF Expire
  <2>2. left' \subseteq 0 .. MaxMessages
    BY <2>1, CkptFields DEF TInv, TypeOK
  <2> QED BY <2>1, <2>2 DEF TInv, TypeOK, RunShape, CkptShape
<1>3. ASSUME NEW target \in Targets, Vanish(target) PROVE TInv'
  BY <1>3 DEF Vanish, history, TInv, TypeOK, RunShape, CkptShape
<1>4. CASE UNCHANGED vars
  BY <1>4 DEF vars, history, TInv, TypeOK, RunShape, CkptShape
<1> QED BY <1>1, <1>2, <1>3, <1>4, TypeMessage, TypeFault DEF Next

\* The state of a turn, its checkpoint and its history keep their types.
THEOREM Typing == Spec => []TypeOK
<1>1. TInv => TypeOK
  BY DEF TInv
<1> QED BY <1>1, TypeInit, TypeStep, PTL DEF Spec

-----------------------------------------------------------------------------
(***************************************************************************)
(* Exact replay                                                            *)
(***************************************************************************)
\* What has been carried out was asked for, and more than once only what
\* stores no result.
Kept(c) == applied[c] > 0 => c[1] <= Len(issued) /\ c[2] <= Len(issued[c[1]])

ReplayInv == AppliedOnce /\ \A c \in Calls : Kept(c)

\* What a message asks for is never changed.
LEMMA IssuedGrows ==
    ASSUME TInv, [Next]_vars
    PROVE  /\ Len(issued) \in Nat /\ Len(issued') \in Nat /\ Len(issued) <= Len(issued')
           /\ \A s \in 1 .. Len(issued) : issued'[s] = issued[s]
<1>1. issued \in Seq(Batches) /\ Len(issued) \in Nat
  BY DEF TInv, TypeOK
<1>2. ASSUME NEW batch \in Batches, issued' = Append(issued, batch)
      PROVE  /\ Len(issued') = Len(issued) + 1
             /\ \A s \in 1 .. Len(issued) : issued'[s] = issued[s]
  BY <1>1, <1>2
<1>3. issued' = issued \/ \E batch \in Batches : issued' = Append(issued, batch)
  BY DEF Next, Message, TextResumes, FreshTurn, Tap, Graph, ChatCalls, ChatEnds, Save, Skip,
         Pause, Decline, ToolsEnd, Write, Confirm, Fault, Crash, Fails, Expire, Vanish, vars
<1>4. CASE issued' = issued
  BY <1>1, <1>4
<1>5. CASE \E batch \in Batches : issued' = Append(issued, batch)
  BY <1>1, <1>2, <1>5
<1> QED BY <1>3, <1>4, <1>5

\* The only steps that mutate are a write and a confirmed call.
Mutates ==
    /\ AtCall /\ Mutate /\ issued' = issued /\ UNCHANGED history
    /\ Call.kind \in Recorded => ~ Committed
    /\ Call.kind \in Silent \/ (Asks /\ Answered /\ Call.kind \in Confirming /\ IsYes(Answer))

LEMMA OnlyCallsMutate ==
    ASSUME TInv, [Next]_vars PROVE applied' = applied \/ Mutates
<1>1. ASSUME NEW ok \in BOOLEAN, Write(ok) \/ Confirm(ok) PROVE applied' = applied \/ Mutates
  BY <1>1 DEF Mutates, Write, Confirm, Asks, Returns, Declines
<1>2. CASE \E ok \in BOOLEAN : Write(ok) \/ Confirm(ok)
  BY <1>1, <1>2
<1>3. CASE ~ \E ok \in BOOLEAN : Write(ok) \/ Confirm(ok)
  BY <1>3 DEF Next, Message, TextResumes, FreshTurn, Tap, Graph, ChatCalls, ChatEnds, Save, Skip,
         Pause, Decline, ToolsEnd, Fault, Crash, Fails, Expire, Vanish, vars
<1> QED BY <1>2, <1>3

\* The stored result of a call, and nothing else, keeps it from being carried
\* out again.
LEMMA ReplayStep == ASSUME TInv, ReplayInv, [Next]_vars PROVE ReplayInv'
<1>0. ASSUME NEW c \in Calls, applied[c] > 0
      PROVE  /\ c[1] <= Len(issued') /\ c[2] <= Len(issued'[c[1]])
             /\ issued'[c[1]] = issued[c[1]]
  <2>1. Kept(c) /\ c[1] \in Nat \ {0}
    BY TurnAssumption DEF ReplayInv, Calls
  <2>2. c[1] \in 1 .. Len(issued)
    BY <1>0, <2>1, IssuedGrows DEF Kept
  <2> QED BY <1>0, <2>1, <2>2, IssuedGrows DEF Kept
<1>t. applied \in [Calls -> Nat]
  BY DEF TInv, TypeOK
<1>1. CASE applied' = applied
  <2>1. ASSUME NEW c \in Calls PROVE Kept(c)'
    BY <1>0, <1>1, <2>1 DEF Kept
  <2>2. ASSUME NEW c \in Calls, applied[c] > 1 PROVE issued'[c[1]][c[2]].kind \notin Recorded
    <3>1. applied[c] > 0
      BY <1>t, <2>2
    <3> QED BY <1>0, <2>2, <3>1 DEF ReplayInv, AppliedOnce
  <2> QED BY <1>1, <2>1, <2>2 DEF ReplayInv, AppliedOnce
<1>2. CASE Mutates
  <2>1. /\ This \in Calls /\ issued[This[1]][This[2]] = Call /\ issued' = issued
        /\ This[1] <= Len(issued) /\ This[2] <= Len(issued[This[1]])
        /\ Call.kind \in Recorded => ~ Committed
    BY <1>2, AtCallFacts DEF This, Mutates
  <2>2. applied' = [applied EXCEPT ![This] = applied[This] + 1]
    BY <1>2 DEF Mutates, Mutate
  <2>3. Call.kind \in Recorded => applied[This] = 0
    BY <1>t, <2>1 DEF Committed
  <2>4. ASSUME NEW c \in Calls, c # This
        PROVE  Kept(c)' /\ (applied'[c] > 1 => issued'[c[1]][c[2]].kind \notin Recorded)
    BY <1>t, <2>1, <2>2, <2>4 DEF ReplayInv, AppliedOnce, Kept
  <2>5. ASSUME NEW c, c = This
        PROVE  Kept(c)' /\ (applied'[c] > 1 => issued'[c[1]][c[2]].kind \notin Recorded)
    <3>1. Call.kind \in Recorded => applied'[This] = 1
      BY <1>t, <2>1, <2>2, <2>3
    <3> QED BY <2>1, <2>5, <3>1 DEF Kept
  <2>6. ASSUME NEW c \in Calls
        PROVE  Kept(c)' /\ (applied'[c] > 1 => issued'[c[1]][c[2]].kind \notin Recorded)
    BY <2>4, <2>5
  <2> QED BY <2>6 DEF ReplayInv, AppliedOnce
<1> QED BY <1>1, <1>2, OnlyCallsMutate

\* However often the node is run again, a call that stores its result mutates
\* its target at most once.
THEOREM ExactReplay == Spec => []AppliedOnce
<1>1. Init => ReplayInv
  BY DEF Init, ReplayInv, AppliedOnce, Kept
<1>2. TInv /\ ReplayInv /\ [Next]_vars => ReplayInv'
  BY ReplayStep
<1>3. ReplayInv => AppliedOnce
  BY DEF ReplayInv
<1> QED BY <1>1, <1>2, <1>3, TypeInit, TypeStep, PTL DEF Spec

-----------------------------------------------------------------------------
(***************************************************************************)
(* A pause that is over                                                    *)
(***************************************************************************)
\* No run is about a message that was left, and a checkpoint that still is
\* about one is too old to be resumed.
LeftInv ==
    /\ left \subseteq 0 .. Len(issued)
    /\ run # None => run.serial = 0 \/ run.serial \notin left
    /\ ckpt.serial # 0 /\ ckpt.serial \in left => old

LEMMA LeftStep == ASSUME TInv, LeftInv, [Next]_vars PROVE LeftInv'
<1> USE DEF LeftInv, history
<1>0. /\ Len(issued) \in Nat /\ ckpt.serial \in Nat /\ ckpt.serial <= Len(issued)
      /\ run # None => run.serial \in Nat
  BY CkptFields, RunFields, TurnAssumption DEF TInv, TypeOK, CkptShape
<1>1. ASSUME NEW answer \in Texts, Live, Resume(answer), UNCHANGED <<issued, ckpt, old, left>>
      PROVE  LeftInv'
  BY <1>1 DEF Resume, Live
<1>2. ASSUME NEW text \in Texts, NEW new \in BOOLEAN, TextResumes(text, new) PROVE LeftInv'
  BY <1>1, <1>2 DEF TextResumes, Texts
<1>3. ASSUME NEW token \in buttons, NEW answer \in {"yes", "no"}, Tap(token, answer) PROVE LeftInv'
  BY <1>1, <1>3 DEF Tap, Texts
<1>4. ASSUME NEW text \in Texts, NEW new \in BOOLEAN, FreshTurn(text, new) PROVE LeftInv'
  BY <1>0, <1>4 DEF FreshTurn, Start, Ended
<1>5. ASSUME NEW batch \in Batches, ChatCalls(batch) PROVE LeftInv'
  <2>1. Len(issued') = Len(issued) + 1 /\ run'.serial = Len(issued) + 1
    BY <1>0, <1>5 DEF ChatCalls, Start, TInv, TypeOK
  <2> QED BY <1>0, <1>5, <2>1 DEF ChatCalls
<1>6. CASE ChatEnds
  BY <1>6 DEF ChatEnds, Ended
<1>7. CASE Save
  BY <1>7 DEF Save
<1>8. CASE Skip \/ Decline \/ \E ok \in BOOLEAN : Write(ok) \/ Confirm(ok)
  <2>1. /\ AtCall /\ (Advance \/ (Asks /\ Answered /\ TakeAnswer))
        /\ UNCHANGED <<issued, ckpt, old, left>>
    BY <1>8 DEF Skip, Decline, Write, Confirm
  <2>2. run # None /\ run \in Runs
    BY <2>1, AtCallFacts
  <2>3. run'.serial = run.serial
    BY <2>1, <2>2 DEF Advance, TakeAnswer, Runs
  <2> QED BY <2>1, <2>2, <2>3
<1>9. CASE Pause
  <2>1. run # None /\ ckpt'.serial = run.serial /\ run' = None /\ UNCHANGED <<issued, left>>
    BY <1>9, AtCallFacts DEF Pause
  <2> QED BY <2>1
<1>10. CASE ToolsEnd
  BY <1>10 DEF ToolsEnd, InTools, Start
<1>11. CASE Fault
  <2>1. /\ run' = None /\ UNCHANGED <<issued, left>>
        /\ LoseThread \/ ClearPending \/ UNCHANGED <<ckpt, old>>
    BY <1>11 DEF Fault, Crash, Fails
  <2>2. ClearPending => ckpt'.serial = ckpt.serial /\ old' = old
    BY DEF ClearPending, TInv, TypeOK
  <2> QED BY <2>1, <2>2 DEF LoseThread, Ended
<1>12. CASE Expire
  <2>1. /\ run' = None /\ old' = TRUE /\ left' = left \cup {ckpt.serial} /\ UNCHANGED <<issued, ckpt>>
    BY <1>12 DEF Expire
  <2>2. ckpt.serial \in 0 .. Len(issued)
    BY <1>0
  <2> QED BY <2>1, <2>2
<1>13. ASSUME NEW target \in Targets, Vanish(target) PROVE LeftInv'
  BY <1>13 DEF Vanish
<1>14. CASE UNCHANGED vars
  BY <1>14 DEF vars
<1> QED BY <1>2, <1>3, <1>4, <1>5, <1>6, <1>7, <1>8, <1>9, <1>10, <1>11, <1>12, <1>13, <1>14
           DEF Next, Message, Graph

LEMMA LeftAlways == Spec => [](TInv /\ LeftInv)
<1>1. Init => LeftInv
  BY DEF Init, LeftInv, Ended
<1>2. TInv /\ LeftInv /\ [Next]_vars => LeftInv'
  BY LeftStep
<1> QED BY <1>1, <1>2, TypeInit, TypeStep, PTL DEF Spec

\* A pause that expired or was put aside is never acted upon.
THEOREM LeftForGood == Spec => LeftIsLeft
<1>1. TInv /\ LeftInv /\ [Next]_vars =>
          \A c \in Calls : c[1] \in left => applied'[c] = applied[c]
  <2> SUFFICES ASSUME TInv, LeftInv, [Next]_vars, NEW c \in Calls, c[1] \in left
               PROVE  applied'[c] = applied[c]
    OBVIOUS
  <2>1. CASE Mutates
    <3>1. run # None /\ run.serial # 0
      BY <2>1, AtCallFacts DEF Mutates
    <3>2. c # This
      BY <3>1 DEF LeftInv, This
    <3> QED BY <2>1, <3>2, AtCallFacts DEF Mutates, Mutate, TInv, TypeOK
  <2> QED BY <2>1, OnlyCallsMutate
<1>2. (\A c \in Calls : c[1] \in left => applied'[c] = applied[c])
         => [\A c \in Calls : c[1] \in left => applied'[c] = applied[c]]_vars
  OBVIOUS
<1> QED BY <1>1, <1>2, LeftAlways, PTL DEF Spec, LeftIsLeft

-----------------------------------------------------------------------------
(***************************************************************************)
(* Confirmation.  The answers are handed out by position, so that a call   *)
(* gets the answer to its own question only if every execution of the node *)
(* asks in the same places.  A guarded call that has been carried out, or  *)
(* whose target is gone, does not ask again: it must be the last to ask of *)
(* its message.  Without that the property fails (run react_chain).        *)
(***************************************************************************)
GuardedLast ==
    \A batch \in Batches : \A p, q \in 1 .. Len(batch) :
        batch[p].kind = "guarded" /\ batch[q].kind \notin Silent => q <= p

\* The number of calls before place p that ask.
Before(batch, p) == {q \in 1 .. p - 1 : batch[q].kind \notin Silent}
Rank(batch, p) == Cardinality(Before(batch, p))

LEMMA RankType ==
    ASSUME NEW batch, NEW p \in Nat \ {0}
    PROVE  IsFiniteSet(Before(batch, p)) /\ Rank(batch, p) \in Nat
<1>1. IsFiniteSet(1 .. p - 1)
  BY FS_Interval
<1>2. Before(batch, p) \subseteq 1 .. p - 1
  BY DEF Before
<1>3. IsFiniteSet(Before(batch, p))
  BY <1>1, <1>2, FS_Subset
<1> QED BY <1>3, FS_CardinalityType DEF Rank

LEMMA RankStart == ASSUME NEW batch PROVE Rank(batch, 1) = 0
<1>1. Before(batch, 1) = {}
  BY DEF Before
<1> QED BY <1>1, FS_EmptySet DEF Rank

LEMMA RankStep ==
    ASSUME NEW batch, NEW p \in Nat \ {0}
    PROVE  Rank(batch, p + 1) = IF batch[p].kind \in Silent THEN Rank(batch, p) ELSE Rank(batch, p) + 1
<1>1. CASE batch[p].kind \in Silent
  <2>1. Before(batch, p + 1) = Before(batch, p)
    BY <1>1 DEF Before
  <2> QED BY <1>1, <2>1 DEF Rank
<1>2. CASE batch[p].kind \notin Silent
  <2>1. Before(batch, p + 1) = Before(batch, p) \cup {p} /\ p \notin Before(batch, p)
    BY <1>2 DEF Before
  <2> QED BY <1>2, <2>1, RankType, FS_AddElement DEF Rank
<1> QED BY <1>1, <1>2

\* No two calls that ask have the same rank.
LEMMA RankGrows ==
    ASSUME NEW batch, NEW p \in Nat \ {0}, NEW q \in Nat \ {0}, p < q, batch[p].kind \notin Silent
    PROVE  Rank(batch, p) < Rank(batch, q)
<1>1. Before(batch, p + 1) \subseteq Before(batch, q)
  BY DEF Before
<1>2. IsFiniteSet(Before(batch, q)) /\ Rank(batch, q) \in Nat /\ Rank(batch, p) \in Nat
  BY RankType
<1>3. Rank(batch, p + 1) <= Rank(batch, q)
  BY <1>1, <1>2, FS_Subset DEF Rank
<1>4. Rank(batch, p + 1) = Rank(batch, p) + 1
  BY RankStep
<1> QED BY <1>2, <1>3, <1>4

LEMMA RankOne ==
    ASSUME NEW batch, NEW p \in Nat \ {0}, NEW q \in Nat \ {0},
           batch[p].kind \notin Silent, batch[q].kind \notin Silent, Rank(batch, p) = Rank(batch, q)
    PROVE  p = q
<1>1. Rank(batch, p) \in Nat
  BY RankType
<1>2. ~ (p < q) /\ ~ (q < p)
  BY <1>1, RankGrows
<1> QED BY <1>2

-----------------------------------------------------------------------------
\* A run that still has a question ahead has taken the answers of the calls
\* that ask before it; the pause has the answers before its question.
OnTrack(batch, pos, idx) ==
    idx = Rank(batch, pos) \/ \A q \in pos .. Len(batch) : batch[q].kind \in Silent

RunOnTrack ==
    run # None /\ run.stage = "tools" =>
        run.idx <= Len(run.given) /\ OnTrack(issued[run.serial], run.pos, run.idx)

PauseOnTrack ==
    /\ ckpt.asked # 0 => Len(ckpt.resumes) = Rank(issued[ckpt.serial], ckpt.asked)
    /\ ckpt.asked = 0 => ckpt.resumes = <<>>

PosInv == RunOnTrack /\ PauseOnTrack

\* A call that asks is on track.
LEMMA AskingRank ==
    ASSUME TInv, PosInv, AtCall, Call.kind \notin Silent
    PROVE  run.idx = Rank(issued[run.serial], run.pos)
<1>1. /\ run # None /\ run.stage = "tools" /\ issued[run.serial][run.pos] = Call
      /\ run.pos \in 1 .. Len(issued[run.serial]) /\ Len(issued[run.serial]) \in Nat
  BY AtCallFacts, BatchFacts DEF This, TInv
<1>2. run.pos \in run.pos .. Len(issued[run.serial])
  BY <1>1
<1> QED BY <1>1, <1>2 DEF PosInv, RunOnTrack, OnTrack

\* The call that is passed is the last to ask, or it is counted.
LEMMA TrackCall ==
    ASSUME GuardedLast, TInv, PosInv, AtCall, issued' = issued,
           \/ Advance /\ (Call.kind \in Silent \/ Returns)
           \/ TakeAnswer /\ Call.kind \notin Silent
    PROVE  RunOnTrack'
<1> DEFINE batch == issued[run.serial]
<1>1. /\ run # None /\ run.stage = "tools" /\ run \in Runs /\ batch[run.pos] = Call
      /\ run.pos \in 1 .. Len(batch) /\ run.serial \in 1 .. Len(issued) /\ run.idx \in Nat
  BY AtCallFacts DEF This
<1>2. Len(batch) \in Nat /\ run.pos \in Nat \ {0} /\ batch \in Batches /\ run.given \in Seq(Texts)
  BY <1>1, BatchFacts, RunFields DEF TInv
<1>3. run.idx <= Len(run.given) /\ OnTrack(batch, run.pos, run.idx)
  BY <1>1 DEF PosInv, RunOnTrack
<1>4. Rank(batch, run.pos + 1) = IF Call.kind \in Silent THEN Rank(batch, run.pos) ELSE Rank(batch, run.pos) + 1
  BY <1>1, <1>2, RankStep
<1> HIDE DEF batch
<1>5. CASE Advance /\ (Call.kind \in Silent \/ Returns)
  <2>1. run'.pos = run.pos + 1 /\ run'.idx = run.idx /\ run'.given = run.given /\ run'.serial = run.serial
    BY <1>1, <1>5 DEF Advance, Runs
  <2>2. OnTrack(batch, run.pos + 1, run.idx)
    <3>1. CASE Call.kind \in Silent
      BY <1>2, <1>3, <1>4, <3>1 DEF OnTrack
    <3>2. CASE Call.kind \notin Silent
      <4>1. Call.kind = "guarded"
        BY <1>5, <3>2 DEF Returns, Recorded, Silent
      <4>2. ASSUME NEW q \in run.pos + 1 .. Len(batch) PROVE batch[q].kind \in Silent
        <5>1. q \in 1 .. Len(batch) /\ ~ (q <= run.pos)
          BY <1>1, <1>2
        <5> QED BY <1>1, <1>2, <4>1, <5>1 DEF GuardedLast
      <4> QED BY <4>2 DEF OnTrack
    <3> QED BY <3>1, <3>2
  <2> QED BY <1>3, <2>1, <2>2 DEF RunOnTrack, batch
<1>6. CASE TakeAnswer /\ Call.kind \notin Silent
  <2>1. run.idx = Rank(batch, run.pos)
    BY <1>6, AskingRank DEF batch
  <2>2. OnTrack(batch, run.pos + 1, run.idx + 1)
    BY <1>4, <1>6, <2>1 DEF OnTrack
  <2>3. /\ run'.pos = run.pos + 1 /\ run'.idx = run.idx + 1 /\ run'.serial = run.serial
        /\ run'.given = IF Known THEN run.given ELSE Append(run.given, run.fed)
    BY <1>6 DEF TakeAnswer
  <2>4. run.idx + 1 <= Len(run'.given)
    <3>1. CASE Known
      BY <1>1, <1>2, <2>3, <3>1 DEF Known
    <3>2. CASE ~ Known
      <4>1. Len(Append(run.given, run.fed)) = Len(run.given) + 1
        BY <1>2
      <4> QED BY <1>1, <1>2, <1>3, <2>3, <3>2, <4>1
    <3> QED BY <3>1, <3>2
  <2> QED BY <2>2, <2>3, <2>4 DEF RunOnTrack, batch
<1> QED BY <1>5, <1>6

\* A node that is run from the beginning is on track.
LEMMA TrackStart ==
    ASSUME NEW batch PROVE OnTrack(batch, 1, 0)
  BY RankStart DEF OnTrack

LEMMA TrackStep == ASSUME GuardedLast, TInv, PosInv, [Next]_vars PROVE PosInv'
<1>0. /\ run # None => run.serial \in Nat /\ run.serial <= Len(issued)
      /\ ckpt.serial \in Nat /\ ckpt.serial <= Len(issued)
      /\ ckpt.next = "tools" => ckpt.serial \in 1 .. Len(issued)
      /\ run # None /\ run.stage = "tools" => run.serial \in 1 .. Len(issued)
      /\ ckpt.asked # 0 => ckpt.next = "tools"
  BY RunFields, CkptFields, TurnAssumption DEF TInv, RunShape, CkptShape, TypeOK
<1>1. UNCHANGED run => RunOnTrack'
  <2>1. run # None /\ run.stage = "tools" => issued'[run.serial] = issued[run.serial]
    BY <1>0, IssuedGrows
  <2> QED BY <2>1 DEF PosInv, RunOnTrack
<1>2. UNCHANGED ckpt => PauseOnTrack'
  <2>1. ckpt.asked # 0 => issued'[ckpt.serial] = issued[ckpt.serial]
    BY <1>0, IssuedGrows
  <2> QED BY <2>1 DEF PosInv, PauseOnTrack
<1>3. ckpt'.asked = 0 /\ ckpt'.resumes = <<>> => PauseOnTrack'
  BY DEF PauseOnTrack
<1>4. run' = None \/ run'.stage # "tools" => RunOnTrack'
  BY DEF RunOnTrack
<1>5. ASSUME NEW answer, Resume(answer) PROVE RunOnTrack'
  <2>1. run'.pos = 1 /\ run'.idx = 0 /\ run'.given = ckpt.resumes /\ Len(ckpt.resumes) \in Nat
    BY <1>5, CkptFields DEF Resume, TInv
  <2> QED BY <2>1, TrackStart DEF RunOnTrack
<1>6. ASSUME NEW text, NEW new, TextResumes(text, new) \/ FreshTurn(text, new) PROVE PosInv'
  <2>1. CASE TextResumes(text, new)
    BY <1>2, <1>5, <2>1 DEF TextResumes, PosInv
  <2>2. CASE FreshTurn(text, new)
    <3>1. ckpt'.asked = 0 /\ ckpt'.resumes = <<>> /\ run'.stage = "chat"
      BY <2>2 DEF FreshTurn, Start, Ended
    <3> QED BY <1>3, <1>4, <3>1 DEF PosInv
  <2> QED BY <1>6, <2>1, <2>2
<1>7. ASSUME NEW token, NEW answer, Tap(token, answer) PROVE PosInv'
  BY <1>2, <1>5, <1>7 DEF Tap, PosInv
<1>8. ASSUME NEW batch \in Batches, ChatCalls(batch) PROVE PosInv'
  <2>1. run'.pos = 1 /\ run'.idx = 0 /\ run'.given = <<>> /\ ckpt' = ckpt
    BY <1>8 DEF ChatCalls, Start
  <2>2. 0 <= Len(<<>>)
    OBVIOUS
  <2> QED BY <1>2, <2>1, <2>2, TrackStart DEF RunOnTrack, PosInv
<1>9. CASE ChatEnds
  BY <1>3, <1>4, <1>9 DEF ChatEnds, Ended, PosInv
<1>10. CASE Save
  <2>1. run' = run /\ ckpt'.asked = 0 /\ ckpt'.resumes = <<>>
    BY <1>10 DEF Save
  <2> QED BY <1>1, <1>3, <2>1 DEF PosInv
<1>11. CASE Skip \/ Decline \/ \E ok \in BOOLEAN : Write(ok) \/ Confirm(ok)
  <2>1. /\ AtCall /\ ckpt' = ckpt /\ issued' = issued
        /\ \/ Advance /\ (Call.kind \in Silent \/ Returns)
           \/ TakeAnswer /\ Call.kind \notin Silent
    BY <1>11 DEF Skip, Decline, Write, Confirm, Asks
  <2> QED BY <1>2, <2>1, TrackCall DEF PosInv
<1>12. CASE Pause
  <2>1. /\ AtCall /\ Call.kind \notin Silent /\ ~ Known /\ run' = None
        /\ ckpt'.serial = run.serial /\ ckpt'.asked = run.pos /\ ckpt'.resumes = run.given /\ issued' = issued
    BY <1>12 DEF Pause, Asks, Answered
  <2>2. run.idx = Rank(issued[run.serial], run.pos)
    BY <2>1, AskingRank
  <2>3. /\ run # None /\ run.stage = "tools" /\ run.idx \in Nat /\ run.pos # 0
    BY <2>1, AtCallFacts
  <2>4. Len(run.given) \in Nat
    BY <2>3, RunFields DEF TInv
  <2>5. run.idx = Len(run.given)
    BY <2>1, <2>3, <2>4 DEF PosInv, RunOnTrack, Known
  <2> QED BY <1>4, <2>1, <2>2, <2>3, <2>5 DEF PosInv, PauseOnTrack
<1>13. CASE ToolsEnd
  <2>1. run'.stage = "chat" /\ ckpt' = ckpt
    BY <1>13 DEF ToolsEnd, Start
  <2> QED BY <1>2, <1>4, <2>1 DEF PosInv
<1>14. CASE Fault
  <2>1. run' = None /\ (LoseThread \/ ClearPending \/ UNCHANGED ckpt)
    BY <1>14 DEF Fault, Crash, Fails
  <2>2. LoseThread => ckpt'.asked = 0 /\ ckpt'.resumes = <<>>
    BY DEF LoseThread, Ended
  <2>3. ClearPending => ckpt'.asked = 0 /\ ckpt'.resumes = <<>>
    BY DEF ClearPending, TInv, TypeOK
  <2> QED BY <1>2, <1>3, <1>4, <2>1, <2>2, <2>3 DEF PosInv
<1>15. CASE Expire \/ (\E target \in Targets : Vanish(target)) \/ UNCHANGED vars
  <2>1. UNCHANGED <<run, ckpt>>
    BY <1>15 DEF Expire, Vanish, vars
  <2> QED BY <1>1, <1>2, <2>1 DEF PosInv
<1> QED BY <1>6, <1>7, <1>8, <1>9, <1>10, <1>11, <1>12, <1>13, <1>14, <1>15 DEF Next, Message, Graph

-----------------------------------------------------------------------------
\* What interrupt() returns to the call of a rank.
AnswerAt(k, answers, fed) ==
    IF k + 1 \in 1 .. Len(answers) THEN answers[k + 1]
    ELSE IF k = Len(answers) THEN fed ELSE None

\* A `yes' that a call of message s will get was given to its own question.
Covered(s, answers, fed, messages, given, texts) ==
    \A p \in 1 .. Len(messages[s]) :
        /\ messages[s][p].kind \in Confirming
        /\ IsYes(AnswerAt(Rank(messages[s], p), answers, fed))
        => <<s, p>> \in given \/ s \in texts

RunCovered ==
    run # None /\ run.stage = "tools" =>
        Covered(run.serial, run.given, run.fed, issued, granted, blind)

PauseCovered ==
    ckpt.next = "tools" =>
        Covered(ckpt.serial, ckpt.resumes, None, issued, granted, blind)

GrantInv == OnlyWhenGranted /\ RunCovered /\ PauseCovered

\* The history of answers only grows, and messages do not change.
LEMMA HistoryGrows == ASSUME [Next]_vars PROVE granted \subseteq granted' /\ blind \subseteq blind'
  BY DEF Next, Message, TextResumes, FreshTurn, Tap, Graph, ChatCalls, ChatEnds, Save, Skip,
         Pause, Decline, ToolsEnd, Write, Confirm, Fault, Crash, Fails, Expire, Vanish, vars, history

LEMMA CoveredKept ==
    ASSUME TInv, [Next]_vars, NEW s \in 1 .. Len(issued), NEW answers, NEW fed,
           Covered(s, answers, fed, issued, granted, blind)
    PROVE  Covered(s, answers, fed, issued', granted', blind')
<1>1. issued'[s] = issued[s]
  BY IssuedGrows
<1> QED BY <1>1, HistoryGrows DEF Covered

LEMMA NoneIsNotYes == ~ IsYes(None)
  BY TurnAssumption DEF IsYes, Texts

\* Without an answer nothing has to be covered.
LEMMA NothingToCover ==
    ASSUME NEW s, NEW messages, NEW given, NEW texts
    PROVE  Covered(s, <<>>, None, messages, given, texts)
<1>1. \A k : AnswerAt(k, <<>>, None) = None
  <2>1. \A k : k + 1 \notin 1 .. Len(<<>>)
    OBVIOUS
  <2> QED BY <2>1 DEF AnswerAt
<1> QED BY <1>1, NoneIsNotYes DEF Covered

\* The message of a checkpoint or of a run in its tools.
LEMMA MessageOf ==
    ASSUME TInv
    PROVE  /\ ckpt.next = "tools" => ckpt.serial \in 1 .. Len(issued)
           /\ run # None /\ run.stage = "tools" => run.serial \in 1 .. Len(issued)
<1>1. Len(issued) \in Nat /\ ckpt.serial \in Nat /\ (run # None => run.serial \in Nat)
  BY CkptFields, RunFields, TurnAssumption DEF TInv, TypeOK
<1> QED BY <1>1 DEF TInv, CkptShape, RunShape

\* An answer to the question of the pause, or to no question, covers the run
\* it starts: it goes to the call that asked.
LEMMA ResumeCovered ==
    ASSUME TInv, PosInv, PauseCovered, [Next]_vars, ckpt.next = "tools",
           NEW answer \in Texts, UNCHANGED issued,
           IsYes(answer) => \/ ckpt.asked = 0 /\ ckpt.serial \in blind'
                            \/ ConfirmPause /\ Question \in granted'
                            \/ ckpt.asked # 0 /\ ~ ConfirmPause
    PROVE  Covered(ckpt.serial, ckpt.resumes, answer, issued', granted', blind')
<1> DEFINE s == ckpt.serial
           batch == issued[s]
<1>1. s \in 1 .. Len(issued) /\ ckpt.resumes \in Seq(Texts) /\ Len(ckpt.resumes) \in Nat
  BY MessageOf, CkptFields DEF TInv
<1>2. Covered(s, ckpt.resumes, None, issued', granted', blind')
  BY <1>1, CoveredKept DEF PauseCovered
<1> SUFFICES ASSUME NEW p \in 1 .. Len(batch), batch[p].kind \in Confirming,
                    IsYes(AnswerAt(Rank(batch, p), ckpt.resumes, answer))
             PROVE  <<s, p>> \in granted' \/ s \in blind'
  BY DEF Covered
<1>3. Len(batch) \in Nat /\ p \in Nat \ {0} /\ batch[p].kind \notin Silent
  BY <1>1, BatchFacts DEF TInv, Confirming, Silent
<1>4. CASE IsYes(AnswerAt(Rank(batch, p), ckpt.resumes, None))
  BY <1>2, <1>4 DEF Covered
<1>5. CASE ~ IsYes(AnswerAt(Rank(batch, p), ckpt.resumes, None))
  <2>1. Rank(batch, p) = Len(ckpt.resumes) /\ IsYes(answer)
    BY <1>5, NoneIsNotYes DEF AnswerAt
  <2>2. ASSUME ckpt.asked # 0 PROVE p = ckpt.asked
    <3>1. /\ ckpt.asked \in 1 .. Len(batch) /\ batch[ckpt.asked].kind \notin Silent
          /\ Len(ckpt.resumes) = Rank(batch, ckpt.asked)
      BY <2>2, QuestionIsCall DEF TInv, CkptShape, PosInv, PauseOnTrack
    <3>2. ckpt.asked \in Nat \ {0}
      BY <1>3, <3>1
    <3> HIDE DEF batch
    <3> QED BY <1>3, <2>1, <3>1, <3>2, RankOne
  <2>3. ckpt.asked # 0 => ConfirmPause /\ Question = <<s, p>>
    BY <2>2 DEF ConfirmPause, Question
  <2> QED BY <2>1, <2>3 DEF ConfirmPause
<1> QED BY <1>4, <1>5

LEMMA GrantMessage ==
    ASSUME TInv, PosInv, GrantInv, Message
    PROVE  RunCovered' /\ PauseCovered'
<1>0. [Next]_vars
  BY DEF Next
<1>1. ASSUME NEW answer \in Texts, Resume(answer), UNCHANGED <<issued, ckpt>>,
             IsYes(answer) => \/ ckpt.asked = 0 /\ ckpt.serial \in blind'
                              \/ ConfirmPause /\ Question \in granted'
                              \/ ckpt.asked # 0 /\ ~ ConfirmPause
      PROVE  RunCovered' /\ PauseCovered'
  <2>1. /\ run'.stage = ckpt.next /\ run'.serial = ckpt.serial
        /\ run'.given = ckpt.resumes /\ run'.fed = answer
    BY <1>1 DEF Resume
  <2>2. ckpt.next = "tools" => Covered(ckpt.serial, ckpt.resumes, answer, issued', granted', blind')
    BY <1>0, <1>1, ResumeCovered DEF GrantInv
  <2>3. ckpt.next = "tools" => Covered(ckpt.serial, ckpt.resumes, None, issued', granted', blind')
    BY <1>0, MessageOf, CoveredKept DEF GrantInv, PauseCovered
  <2> QED BY <1>1, <2>1, <2>2, <2>3 DEF RunCovered, PauseCovered
<1>2. ASSUME NEW text \in Texts, NEW new \in BOOLEAN, TextResumes(text, new)
      PROVE  RunCovered' /\ PauseCovered'
  <2> DEFINE answer == IF ConfirmPause /\ text # "yes" THEN "no" ELSE text
  <2>1. answer \in Texts /\ Resume(answer) /\ UNCHANGED <<issued, ckpt>>
    BY <1>2 DEF TextResumes, Texts
  <2>2. IsYes(answer) => \/ ckpt.asked = 0 /\ ckpt.serial \in blind'
                         \/ ConfirmPause /\ Question \in granted'
                         \/ ckpt.asked # 0 /\ ~ ConfirmPause
    BY <1>2 DEF TextResumes, IsYes
  <2> HIDE DEF answer
  <2> QED BY <2>1, <2>2, <1>1
<1>3. ASSUME NEW text \in Texts, NEW new \in BOOLEAN, FreshTurn(text, new)
      PROVE  RunCovered' /\ PauseCovered'
  BY <1>3 DEF FreshTurn, Start, Ended, RunCovered, PauseCovered
<1>4. ASSUME NEW token \in buttons, NEW answer \in {"yes", "no"}, Tap(token, answer)
      PROVE  RunCovered' /\ PauseCovered'
  <2>1. answer \in Texts /\ Resume(answer) /\ UNCHANGED <<issued, ckpt>>
    BY <1>4 DEF Tap, Texts
  <2>2. IsYes(answer) => ConfirmPause /\ Question \in granted'
    BY <1>4 DEF Tap, SameToken, IsYes
  <2> QED BY <2>1, <2>2, <1>1
<1> QED BY <1>2, <1>3, <1>4 DEF Message

\* An answer that is taken is kept in its place.
LEMMA AnswersStay ==
    ASSUME TInv, PosInv, AtCall, Advance \/ (Answered /\ TakeAnswer), NEW k \in Nat
    PROVE  AnswerAt(k, run'.given, run'.fed) = AnswerAt(k, run.given, run.fed)
<1>1. /\ run # None /\ run \in Runs /\ run.stage = "tools" /\ run.idx \in Nat
      /\ run.given \in Seq(Texts) /\ Len(run.given) \in Nat /\ run.fed \in Texts \cup {None}
  BY AtCallFacts, RunFields DEF TInv
<1>2. CASE Advance
  BY <1>1, <1>2 DEF Advance, Runs
<1>3. CASE TakeAnswer /\ Known
  BY <1>3 DEF TakeAnswer
<1>4. CASE TakeAnswer /\ Answered /\ ~ Known
  <2>1. run'.given = Append(run.given, run.fed) /\ run'.fed = None /\ run.fed \in Texts
    BY <1>1, <1>4 DEF TakeAnswer, Answered
  <2> DEFINE more == Append(run.given, run.fed)
  <2>2. /\ Len(more) = Len(run.given) + 1 /\ more[Len(run.given) + 1] = run.fed
        /\ \A i \in 1 .. Len(run.given) : more[i] = run.given[i]
    BY <1>1, <2>1
  <2> HIDE DEF more
  <2>3. AnswerAt(k, more, None) = AnswerAt(k, run.given, run.fed)
    BY <1>1, <2>2 DEF AnswerAt
  <2> QED BY <2>1, <2>3 DEF more
<1> QED BY <1>2, <1>3, <1>4

LEMMA GrantCall ==
    ASSUME TInv, PosInv, GrantInv, [Next]_vars, AtCall, Advance \/ (Answered /\ TakeAnswer)
    PROVE  RunCovered'
<1>1. run # None /\ run \in Runs /\ run.stage = "tools" /\ run.serial \in 1 .. Len(issued)
  BY AtCallFacts
<1>2. Covered(run.serial, run.given, run.fed, issued', granted', blind')
  BY <1>1, CoveredKept DEF GrantInv, RunCovered
<1>3. run'.serial = run.serial
  BY <1>1 DEF Advance, TakeAnswer, Runs
<1>4. issued'[run.serial] = issued[run.serial] /\ Len(issued[run.serial]) \in Nat
  BY <1>1, IssuedGrows, BatchFacts DEF TInv
<1>5. ASSUME NEW p \in 1 .. Len(issued'[run.serial])
      PROVE  AnswerAt(Rank(issued'[run.serial], p), run'.given, run'.fed)
               = AnswerAt(Rank(issued'[run.serial], p), run.given, run.fed)
  <2>1. p \in Nat \ {0}
    BY <1>4
  <2>2. Rank(issued'[run.serial], p) \in Nat
    BY <2>1, RankType
  <2> QED BY <2>2, AnswersStay
<1> QED BY <1>2, <1>3, <1>5 DEF Covered, RunCovered

\* The pause has the answers of the run that asked, which had no other.
LEMMA GrantPause ==
    ASSUME TInv, GrantInv, [Next]_vars, Pause
    PROVE  RunCovered' /\ PauseCovered'
<1>1. /\ AtCall /\ run' = None /\ ~ Answered
      /\ ckpt'.serial = run.serial /\ ckpt'.resumes = run.given
  BY DEF Pause
<1>2. Covered(run.serial, run.given, run.fed, issued', granted', blind')
  BY <1>1, AtCallFacts, CoveredKept DEF GrantInv, RunCovered
<1>3. run.fed = None
  BY <1>1 DEF Answered
<1> QED BY <1>1, <1>2, <1>3 DEF RunCovered, PauseCovered

LEMMA GrantRest ==
    ASSUME TInv, PosInv, GrantInv, [Next]_vars, ~ Message
    PROVE  RunCovered' /\ PauseCovered'
<1>1. UNCHANGED run => RunCovered'
  BY MessageOf, CoveredKept DEF GrantInv, RunCovered
<1>2. UNCHANGED ckpt => PauseCovered'
  BY MessageOf, CoveredKept DEF GrantInv, PauseCovered
<1>3. ckpt'.next # "tools" \/ ckpt'.resumes = <<>> => PauseCovered'
  BY NothingToCover DEF PauseCovered
<1>4. run' = None \/ run'.stage # "tools" => RunCovered'
  BY DEF RunCovered
<1>5. ASSUME NEW batch \in Batches, ChatCalls(batch) PROVE RunCovered' /\ PauseCovered'
  <2>1. run'.given = <<>> /\ run'.fed = None /\ UNCHANGED ckpt
    BY <1>5 DEF ChatCalls, Start
  <2>2. RunCovered'
    BY <2>1, NothingToCover DEF RunCovered
  <2> QED BY <1>2, <2>1, <2>2
<1>6. CASE ChatEnds
  BY <1>3, <1>4, <1>6 DEF ChatEnds, Ended
<1>7. CASE Save
  <2>1. ckpt'.resumes = <<>> /\ UNCHANGED run
    BY <1>7 DEF Save
  <2> QED BY <1>1, <1>3, <2>1
<1>8. CASE Skip \/ Decline \/ \E ok \in BOOLEAN : Write(ok) \/ Confirm(ok)
  <2>1. AtCall /\ (Advance \/ (Answered /\ TakeAnswer)) /\ UNCHANGED ckpt
    BY <1>8 DEF Skip, Decline, Write, Confirm
  <2> QED BY <1>2, <2>1, GrantCall
<1>9. CASE Pause
  BY <1>9, GrantPause
<1>10. CASE ToolsEnd
  <2>1. run'.stage = "chat" /\ UNCHANGED ckpt
    BY <1>10 DEF ToolsEnd, Start
  <2> QED BY <1>2, <1>4, <2>1
<1>11. CASE Fault
  <2>1. run' = None /\ (LoseThread \/ ClearPending \/ UNCHANGED ckpt)
    BY <1>11 DEF Fault, Crash, Fails
  <2>2. LoseThread => ckpt'.next # "tools"
    BY DEF LoseThread, Ended
  <2>3. ClearPending => ckpt'.resumes = <<>>
    BY DEF ClearPending, TInv, TypeOK
  <2> QED BY <1>2, <1>3, <1>4, <2>1, <2>2, <2>3
<1>12. CASE Expire \/ (\E target \in Targets : Vanish(target)) \/ UNCHANGED vars
  <2>1. UNCHANGED <<run, ckpt>>
    BY <1>12 DEF Expire, Vanish, vars
  <2> QED BY <1>1, <1>2, <2>1
<1> QED BY <1>5, <1>6, <1>7, <1>8, <1>9, <1>10, <1>11, <1>12 DEF Next, Graph

\* The call that mutates has got a `yes', and it is the call the answer was for.
LEMMA CallCovered ==
    ASSUME TInv, PosInv, GrantInv, AtCall, Asks, Answered, Call.kind \in Confirming, IsYes(Answer)
    PROVE  This \in granted \/ run.serial \in blind
<1>1. /\ run # None /\ run.stage = "tools" /\ run.idx \in Nat /\ issued[run.serial][run.pos] = Call
      /\ run.pos \in 1 .. Len(issued[run.serial])
  BY AtCallFacts DEF This
<1>2. run.idx = Rank(issued[run.serial], run.pos)
  BY AskingRank DEF Asks
<1>3. run.idx <= Len(run.given) /\ Len(run.given) \in Nat
  BY <1>1, RunFields DEF TInv, PosInv, RunOnTrack
<1>4. Answer = AnswerAt(run.idx, run.given, run.fed)
  BY <1>1, <1>3 DEF Answer, Known, AnswerAt
<1> QED BY <1>1, <1>2, <1>4 DEF GrantInv, RunCovered, Covered, This

LEMMA GrantCalls ==
    ASSUME TInv, PosInv, ReplayInv, GrantInv, [Next]_vars
    PROVE  OnlyWhenGranted'
<1> SUFFICES ASSUME NEW c \in Calls, applied'[c] > 0, issued'[c[1]][c[2]].kind \in Confirming
             PROVE  c \in granted' \/ c[1] \in blind'
  BY DEF OnlyWhenGranted
<1>1. CASE applied'[c] = applied[c]
  <2>1. c[1] \in 1 .. Len(issued)
    BY <1>1, TurnAssumption, IssuedGrows DEF ReplayInv, Kept, Calls
  <2>2. issued'[c[1]] = issued[c[1]]
    BY <2>1, IssuedGrows
  <2> QED BY <1>1, <2>2, HistoryGrows DEF GrantInv, OnlyWhenGranted
<1>2. CASE applied'[c] # applied[c]
  <2>1. /\ AtCall /\ Mutate /\ issued' = issued
        /\ Call.kind \in Silent \/ (Asks /\ Answered /\ Call.kind \in Confirming /\ IsYes(Answer))
    BY <1>2, OnlyCallsMutate DEF Mutates
  <2>0. c = This
    BY <1>2, <2>1, AtCallFacts DEF Mutate, TInv, TypeOK
  <2>2. c = This /\ issued[c[1]][c[2]] = Call /\ c[1] = run.serial
    BY <2>0, <2>1, AtCallFacts DEF This
  <2>3. Asks /\ Answered /\ Call.kind \in Confirming /\ IsYes(Answer)
    BY <2>1, <2>2 DEF Confirming, Silent
  <2> QED BY <2>1, <2>2, <2>3, CallCovered, HistoryGrows
<1> QED BY <1>1, <1>2

\* What the two theorems about confirmation rest on.
LEMMA GrantAlways == ASSUME GuardedLast PROVE Spec => [](TInv /\ PosInv /\ ReplayInv /\ GrantInv)
<1>1. Init => TInv /\ PosInv /\ ReplayInv /\ GrantInv
  <2>1. Init => PosInv
    BY DEF Init, PosInv, RunOnTrack, PauseOnTrack, Ended
  <2>2. Init => GrantInv /\ ReplayInv
    BY DEF Init, GrantInv, OnlyWhenGranted, RunCovered, PauseCovered, Ended, ReplayInv, AppliedOnce, Kept
  <2> QED BY <2>1, <2>2, TypeInit
<1>2. TInv /\ PosInv /\ ReplayInv /\ GrantInv /\ [Next]_vars => GrantInv'
  <2> SUFFICES ASSUME TInv, PosInv, ReplayInv, GrantInv, [Next]_vars PROVE GrantInv'
    OBVIOUS
  <2>1. OnlyWhenGranted'
    BY GrantCalls
  <2>2. RunCovered' /\ PauseCovered'
    BY GrantMessage, GrantRest
  <2> QED BY <2>1, <2>2 DEF GrantInv
<1>3. TInv /\ ReplayInv /\ [Next]_vars => ReplayInv'
  BY ReplayStep
<1>4. TInv /\ PosInv /\ [Next]_vars => PosInv'
  BY GuardedLast, TrackStep
<1> QED BY <1>1, <1>2, <1>3, <1>4, TypeStep, PTL DEF Spec

\* A destructive call is carried out only after a `yes' to its own question,
\* however many questions its message has.
THEOREM Confirmed == ASSUME GuardedLast PROVE Spec => []OnlyWhenGranted
<1>1. GrantInv => OnlyWhenGranted
  BY DEF GrantInv
<1>2. Spec => [](TInv /\ PosInv /\ ReplayInv /\ GrantInv)
  BY GuardedLast, GrantAlways
<1> QED BY <1>1, <1>2, PTL

-----------------------------------------------------------------------------
(***************************************************************************)
(* The promise of the confirmation                                         *)
(***************************************************************************)
\* The question that can be answered is the one of the pause, about a call
\* that was asked for and a message that was not left.
OpenInv ==
    \A c \in Answerable :
        /\ run = None /\ Answerable = {c} /\ c = Question
        /\ c \in Needing /\ c[1] \notin left

LEMMA OpenIsPause == TInv /\ LeftInv => OpenInv
<1> SUFFICES ASSUME TInv, LeftInv, NEW c \in Answerable
             PROVE  /\ run = None /\ Answerable = {c} /\ c = Question
                    /\ c \in Needing /\ c[1] \notin left
  BY DEF OpenInv
<1>1. run = None /\ Live /\ ConfirmPause /\ Answerable = {Question} /\ c = Question
  BY DEF Answerable
<1>2. /\ c \in Calls /\ c[1] = ckpt.serial /\ c[2] = ckpt.asked
      /\ ckpt.serial \in 1 .. Len(issued) /\ ckpt.asked \in 1 .. Len(issued[ckpt.serial])
  BY <1>1, QuestionIsCall DEF ConfirmPause, Question
<1>3. c \in Needing
  <2>1. Len(issued[ckpt.serial]) \in Nat /\ Len(issued) \in Nat
    BY <1>2, BatchFacts DEF TInv, TypeOK
  <2> QED BY <1>1, <1>2, <2>1 DEF ConfirmPause, Needing, Issued
<1>4. c[1] \notin left
  BY <1>1, <1>2 DEF LeftInv, Live
<1> QED BY <1>1, <1>3, <1>4

\* A step of the confirmation, or none.
Promised == Promise!Next \/ UNCHANGED <<Needing, Once, Answerable, granted, blind, left, applied>>

LEMMA NeedingStays == ASSUME issued' = issued PROVE Needing' = Needing /\ Once' = Once
  BY DEF Needing, Once, Issued

\* While a run is under way no question is open.
LEMMA RunCloses ==
    /\ run # None => Answerable = {}
    /\ run' \in Runs => Answerable' = {}
  BY TurnAssumption DEF Answerable

\* A step that leaves the history alone stutters or puts a question.
LEMMA QuietStep ==
    ASSUME OpenInv', UNCHANGED <<issued, granted, blind, left, applied>>, Answerable = {}
    PROVE  Promised
<1>1. Needing' = Needing /\ Once' = Once
  BY NeedingStays
<1>2. CASE Answerable' = {}
  BY <1>1, <1>2 DEF Promised
<1>3. ASSUME NEW c \in Answerable' PROVE Promised
  <2>1. Answerable' = {c} /\ c \in Needing /\ c[1] \notin left
    BY <1>1, <1>3 DEF OpenInv
  <2>2. c \in Calls
    BY <2>1 DEF Needing, Issued
  <2>3. Promise!Ask(c)
    BY <1>1, <2>1 DEF Promise!Ask
  <2> QED BY <2>2, <2>3 DEF Promised, Promise!Next
<1> QED BY <1>2, <1>3

\* An answer to the question of the pause takes it.
LEMMA AnswerStep ==
    ASSUME TInv, OpenInv, run = None, Live, ConfirmPause, run' \in Runs,
           UNCHANGED <<issued, blind, left, applied>>,
           granted' \in {granted, granted \cup {Question}}
    PROVE  Promised
<1>1. Question \in Answerable /\ Question \in Calls
  BY QuestionIsCall DEF Answerable, ConfirmPause
<1>2. Needing' = Needing /\ Once' = Once /\ Answerable' = {}
  BY NeedingStays, RunCloses
<1>3. Promise!Answer(Question)
  BY <1>1, <1>2 DEF Promise!Answer
<1> QED BY <1>1, <1>3 DEF Promised, Promise!Next

LEMMA PromiseMessage == ASSUME TInv, OpenInv, Message PROVE Promised
<1>1. ASSUME NEW text \in Texts, NEW new \in BOOLEAN, TextResumes(text, new) PROVE Promised
  <2>1. /\ run = None /\ Live /\ UNCHANGED <<issued, ckpt, old, left, applied>>
        /\ granted' = IF ConfirmPause /\ text = "yes" THEN granted \cup {Question} ELSE granted
        /\ blind' = IF ckpt.asked = 0 THEN blind \cup {ckpt.serial} ELSE blind
    BY <1>1 DEF TextResumes
  <2>2. run' \in Runs
    <3> DEFINE answer == IF ConfirmPause /\ text # "yes" THEN "no" ELSE text
    <3>1. answer \in Texts /\ Resume(answer)
      BY <1>1 DEF TextResumes, Texts
    <3> HIDE DEF answer
    <3> QED BY <2>1, <3>1, ResumeShape
  <2>3. CASE ConfirmPause
    BY <2>1, <2>2, <2>3, AnswerStep DEF ConfirmPause
  <2>4. CASE ~ ConfirmPause
    <3>1. Answerable = {} /\ Answerable' = {} /\ Needing' = Needing /\ Once' = Once /\ granted' = granted
      BY <2>1, <2>2, <2>4, RunCloses, NeedingStays DEF Answerable
    <3>2. CASE ckpt.asked # 0
      BY <2>1, <3>1, <3>2 DEF Promised
    <3>3. CASE ckpt.asked = 0
      <4>1. ckpt.serial \in 0 .. MaxMessages
        BY CkptFields DEF TInv
      <4>2. Promise!GoOn(ckpt.serial)
        BY <2>1, <3>1, <3>3 DEF Promise!GoOn
      <4> QED BY <4>1, <4>2 DEF Promised, Promise!Next
    <3> QED BY <3>2, <3>3
  <2> QED BY <2>3, <2>4
<1>2. ASSUME NEW text \in Texts, NEW new \in BOOLEAN, FreshTurn(text, new) PROVE Promised
  <2>1. /\ ckpt'.asked = 0 /\ left' = left \cup {ckpt.serial}
        /\ UNCHANGED <<issued, applied, granted, blind>>
    BY <1>2 DEF FreshTurn, Ended
  <2>2. Answerable' = {} /\ Needing' = Needing /\ Once' = Once /\ ckpt.serial \in 0 .. MaxMessages
    BY <2>1, NeedingStays, CkptFields DEF Answerable, ConfirmPause, TInv
  <2>3. Promise!Close(ckpt.serial)
    BY <2>1, <2>2 DEF Promise!Close
  <2> QED BY <2>2, <2>3 DEF Promised, Promise!Next
<1>3. ASSUME NEW token \in buttons, NEW answer \in {"yes", "no"}, Tap(token, answer) PROVE Promised
  <2>1. /\ run = None /\ Live /\ ConfirmPause /\ Resume(answer) /\ answer \in Texts
        /\ UNCHANGED <<issued, ckpt, old, blind, left, applied>>
        /\ granted' \in {granted, granted \cup {Question}}
    BY <1>3 DEF Tap, SameToken, Texts
  <2>2. run' \in Runs
    BY <2>1, ResumeShape
  <2> QED BY <2>1, <2>2, AnswerStep
<1> QED BY <1>1, <1>2, <1>3 DEF Message

\* A message of the model needs a `yes' for nothing that was carried out.
LEMMA PromiseChat ==
    ASSUME TInv, ReplayInv, [Next]_vars, NEW batch \in Batches, ChatCalls(batch)
    PROVE  Promised
<1>1. /\ run # None /\ run' = Start("tools", Len(issued) + 1)
      /\ Len(issued) < MaxMessages
      /\ UNCHANGED <<applied, granted, blind, left>>
  BY DEF ChatCalls, history
<1>2. run' \in Runs
  <2>1. Len(issued) + 1 \in 0 .. MaxMessages
    BY <1>1, TurnAssumption DEF TInv, TypeOK
  <2> QED BY <1>1, <2>1, StartType
<1>3. Answerable = {} /\ Answerable' = {}
  BY <1>1, <1>2, RunCloses
<1>4. ASSUME NEW c \in Calls, c[1] <= Len(issued)
      PROVE  issued'[c[1]] = issued[c[1]] /\ c[1] <= Len(issued')
  <2>1. c[1] \in 1 .. Len(issued)
    BY <1>4, IssuedGrows, TurnAssumption DEF Calls
  <2> QED BY <2>1, IssuedGrows
<1>5. Needing \subseteq Needing' /\ Once \subseteq Once'
  BY <1>4 DEF Needing, Once, Issued
<1>6. ASSUME NEW c \in (Needing' \ Needing) \cup (Once' \ Once) PROVE applied[c] = 0
  <2>1. c \in Calls /\ applied[c] \in Nat
    BY <1>6 DEF Needing, Once, Issued, TInv, TypeOK
  <2>2. ~ (applied[c] > 0)
    BY <1>4, <1>6, <2>1 DEF ReplayInv, Kept, Needing, Once, Issued
  <2> QED BY <2>1, <2>2
<1>7. Needing' \in SUBSET Calls /\ Once' \in SUBSET Calls
  BY DEF Needing, Once, Issued
<1>8. Promise!Request
  BY <1>1, <1>3, <1>5, <1>6, <1>7 DEF Promise!Request
<1> QED BY <1>8 DEF Promised, Promise!Next

\* The call that is carried out has not been before, if it stores its result; it
\* is not of a message that was left, and it has its `yes'.
LEMMA PromisePerform ==
    ASSUME TInv, PosInv, ReplayInv, GrantInv, LeftInv, OpenInv', [Next]_vars,
           NEW ok \in BOOLEAN, Write(ok) \/ Confirm(ok)
    PROVE  Promised
<1>1. /\ AtCall /\ (Advance \/ (Asks /\ Answered /\ TakeAnswer))
      /\ UNCHANGED <<issued, ckpt, old, granted, blind, left>>
  BY DEF Write, Confirm, history
<1>2. /\ run # None /\ run' \in Runs /\ This \in Calls /\ This[1] = run.serial /\ run.serial \in Nat \ {0}
      /\ issued[This[1]][This[2]] = Call
  BY <1>1, AtCallFacts, TypeMoves, TurnAssumption DEF This
<1>3. Answerable = {} /\ Answerable' = {} /\ Needing' = Needing /\ Once' = Once
  BY <1>1, <1>2, RunCloses, NeedingStays
<1>4. CASE applied' = applied
  BY <1>1, <1>3, <1>4 DEF Promised
<1>5. CASE Mutates
  <2>1. This \in Once => applied[This] = 0
    <3>1. applied[This] \in Nat
      BY <1>2 DEF TInv, TypeOK
    <3> QED BY <1>2, <1>5, <3>1 DEF Mutates, Once, Issued, Committed
  <2>2. applied' = [applied EXCEPT ![This] = @ + 1]
    BY <1>5 DEF Mutates, Mutate
  <2>3. This[1] \notin left
    BY <1>2 DEF LeftInv
  <2>4. This \in Needing => This \in granted \/ This[1] \in blind
    <3>1. CASE Call.kind \in Silent
      BY <1>2, <3>1 DEF Needing, Issued, Confirming, Silent
    <3>2. CASE Call.kind \notin Silent
      BY <1>1, <1>2, <1>5, <3>2, CallCovered DEF Mutates
    <3> QED BY <3>1, <3>2
  <2>5. Promise!Perform(This)
    BY <1>1, <1>3, <2>1, <2>2, <2>3, <2>4 DEF Promise!Perform
  <2> QED BY <1>2, <2>5 DEF Promised, Promise!Next
<1> QED BY <1>4, <1>5, OnlyCallsMutate

LEMMA PromiseStep ==
    ASSUME TInv, PosInv, ReplayInv, GrantInv, LeftInv, OpenInv, OpenInv', [Next]_vars
    PROVE  Promised
<1>1. ASSUME NEW batch \in Batches, ChatCalls(batch) PROVE Promised
  BY <1>1, PromiseChat
<1>2. ASSUME NEW ok \in BOOLEAN, Write(ok) \/ Confirm(ok) PROVE Promised
  BY <1>2, PromisePerform
<1>3. CASE ChatEnds \/ Save \/ Skip \/ Pause \/ Decline \/ ToolsEnd \/ Fault
  <2>1. run # None /\ UNCHANGED <<issued, granted, blind, left, applied>>
    BY <1>3 DEF ChatEnds, Save, Skip, Pause, Decline, ToolsEnd, InTools, AtCall, Fault, Crash, Fails, history
  <2> QED BY <2>1, RunCloses, QuietStep
<1>4. CASE Expire
  <2>1. old' = TRUE /\ left' = left \cup {ckpt.serial} /\ UNCHANGED <<issued, applied, granted, blind>>
    BY <1>4 DEF Expire
  <2>2. Answerable' = {} /\ Needing' = Needing /\ Once' = Once /\ ckpt.serial \in 0 .. MaxMessages
    BY <2>1, NeedingStays, CkptFields DEF Answerable, Live, TInv
  <2>3. Promise!Close(ckpt.serial)
    BY <2>1, <2>2 DEF Promise!Close
  <2> QED BY <2>2, <2>3 DEF Promised, Promise!Next
<1>5. CASE (\E target \in Targets : Vanish(target)) \/ UNCHANGED vars
  <2>1. UNCHANGED <<issued, ckpt, old, run, granted, blind, left, applied>>
    BY <1>5 DEF Vanish, vars, history
  <2>2. Answerable' = Answerable /\ Needing' = Needing /\ Once' = Once
    BY <2>1, NeedingStays DEF Answerable, Live, HasPause, ConfirmPause, Question
  <2> QED BY <2>1, <2>2 DEF Promised
<1> QED BY <1>1, <1>2, <1>3, <1>4, <1>5, PromiseMessage DEF Next, Graph

\* The turn implements the confirmation: through pauses, replays of the node,
\* exceptions and crashes, a destructive call is carried out only on a `yes' to
\* its own open question and not after its message was put aside, and a call
\* that stores its result at most once.
THEOREM Refinement == ASSUME GuardedLast PROVE Spec => ImplementsConfirmation
<1>1. Init => Promise!Init
  <2>1. Init => Needing = {} /\ Once = {} /\ Answerable = {}
    BY TurnAssumption DEF Init, Needing, Once, Issued, Answerable, ConfirmPause, Ended, Calls
  <2> QED BY <2>1 DEF Init, Promise!Init
<1>2. TInv /\ PosInv /\ ReplayInv /\ GrantInv /\ LeftInv /\ OpenInv /\ OpenInv' /\ [Next]_vars
        => [Promise!Next]_<<Needing, Once, Answerable, granted, blind, left, applied>>
  BY PromiseStep DEF Promised
<1>3. Spec => [](TInv /\ PosInv /\ ReplayInv /\ GrantInv)
  BY GuardedLast, GrantAlways
<1>4. Spec => [](TInv /\ LeftInv)
  BY LeftAlways
<1>5. TInv /\ LeftInv => OpenInv
  BY OpenIsPause
<1> QED
  BY <1>1, <1>2, <1>3, <1>4, <1>5, PTL
     DEF Spec, ImplementsConfirmation, Promise!Spec, Promise!vars

=============================================================================
