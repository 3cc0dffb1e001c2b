----------------------------- MODULE KvCpuRefines -----------------------------
(***************************************************************************)
(* The interpreter implements a call stack, for every program, depth limit *)
(* and number of crashes: under Safe every step of KvCpu is a move, a call, *)
(* a return or an end of CallStack, or changes nothing there.  And what is  *)
(* left of that when a debugger pauses at any moment.                       *)
(***************************************************************************)
EXTENDS KvCpuProofs, SequenceTheorems

(* The pc about to be written is one its instruction may go to. *)
LEMMA GoalStep ==
  ASSUME IInv, GoalInv, [Next]_vars
  PROVE  GoalInv'
<1> SUFFICES ASSUME at' = "goto" PROVE GoalInv'
  BY DEF GoalInv
<1>1. CASE Native \/ SetStatus
  <2>1. /\ Row.op \in {"native", "status"} /\ next' = Behind(cur)
        /\ UNCHANGED <<cur, ctx>>
    BY <1>1 DEF Native, SetStatus, NextPc
  <2>2. QED
    BY <2>1 DEF GoalInv, Row, Behind, At
<1>2. CASE Jump
  <2>1. /\ Row.op = "jump" /\ \E j \in Row.to : next' = At(cur.d, j)
        /\ UNCHANGED <<cur, ctx>>
    BY <1>2 DEF Jump, NextPc
  <2>2. QED
    BY <2>1 DEF GoalInv, Row, At
<1>3. CASE Return
  <2>1. /\ at = "exec" /\ Row.op = "return" /\ cur.d > 1 /\ next' = ReturnTo
        /\ UNCHANGED <<frame, cur, ctx>>
    BY <1>3 DEF Return, NextPc
  <2>2. cur.d \in Depths
    BY <2>1, ExecFacts
  <2>3. ReturnTo = frame[cur.d].ret
    BY <2>2 DEF ReturnTo, IInv, ParkInv, ParkCoherent
  <2>4. QED
    BY <2>1, <2>3 DEF GoalInv, Row
<1>4. CASE BindArgs
  <2>1. /\ at = "bind"
        /\ frame' = [frame EXCEPT ![CalleeD].site = SiteToWrite]
        /\ next' = At(CalleeD, 1) /\ UNCHANGED <<cur, ctx>>
    BY <1>4 DEF BindArgs, NextPc
  <2>2. /\ Row.op \in Calls /\ frame[CalleeD].lib = Row.fn
        /\ frame[CalleeD].ret = Behind(cur)
    BY <2>1 DEF IInv, CallInv, Callee
  <2>3. CalleeD \in Depths /\ CalleeD = cur.d + 1 /\ frame \in [Depths -> Frames]
    BY <2>1, ExecFacts DEF IInv, TypeOK
  <2>4. /\ frame'[cur.d + 1].lib = frame[CalleeD].lib
        /\ frame'[cur.d + 1].ret = frame[CalleeD].ret
    BY <2>1, <2>3 DEF Frames
  <2>5. QED
    BY <2>1, <2>2, <2>3, <2>4 DEF GoalInv, Row, Behind, At
<1>5. CASE Pause \/ Resume \/ UNCHANGED vars
  <2>1. UNCHANGED <<frame, at, cur, ctx, next>>
    BY <1>5 DEF Pause, Resume, vars, kvvars, procvars
  <2>2. QED
    BY <2>1 DEF GoalInv, Row, Behind, At
<1>6. CASE Start \/ Stop \/ Overflow \/ NoLib \/ Fetch \/ OpFails
           \/ CallReuse \/ CallBuild \/ WriteReturnPc \/ WriteLib \/ CallFails \/ Done
           \/ DropFrame \/ WritePc \/ WriteStatus \/ Yield \/ HostGate \/ Dispatch
           \/ DispatchFails \/ Advance \/ Exit \/ Crash
  BY <1>6 DEF Start, Stop, Overflow, NoLib, Fetch, OpFails, CallReuse, CallBuild,
       WriteReturnPc, WriteLib, CallFails, Done, DropFrame, WritePc, WriteStatus,
       AfterNextPc, Yield, HostGate, Dispatch, DispatchFails, Advance, Exit, Crash,
       Raise, EndProcess
<1>7. QED
  BY <1>1, <1>2, <1>3, <1>4, <1>5, <1>6 DEF Next, Drive, Execute

(***************************************************************************)
(* The abstract stack                                                      *)
(***************************************************************************)
Entry(k) == [fn |-> frame[k].lib,
             i  |-> IF k = pc.d THEN pc.i ELSE frame[k + 1].ret.i]

(* The same behind the step. *)
Later(k) == [fn |-> frame'[k].lib,
             i  |-> IF k = pc'.d THEN pc'.i ELSE frame'[k + 1].ret.i]

Entries == [fn : Funcs, i : Nat]

(* The frames up to the pc are a stack with the running instruction on top. *)
LEMMA StackFacts ==
  ASSUME IInv, Running
  PROVE  /\ AbsStack \in Seq(Entries) /\ Len(AbsStack) = pc.d
         /\ \A k \in 1 .. pc.d : AbsStack[k] = Entry(k)
         /\ AbsOutcome = "live"
         /\ Abs!Live /\ Abs!Here = [fn |-> frame[pc.d].lib, i |-> pc.i]
         /\ Abs!Row = Code[frame[pc.d].lib][pc.i]
<1>1. pc.d \in Nat /\ pc.i \in Nat /\ pc.d >= 1 /\ pc.d <= MaxDepth + 1 /\ pc.d \in 1 .. pc.d
  BY ChainFacts
<1>2. AbsStack = [k \in 1 .. pc.d |-> Entry(k)]
  BY DEF AbsStack, Entry
<1>3. ASSUME NEW k \in 1 .. pc.d PROVE Entry(k) \in Entries
  <2>1. frame[k].lib \in Funcs
    BY <1>1, <1>3 DEF IInv, StackInv, LinkedUp, Linked
  <2>2. CASE k = pc.d
    BY <2>1, <2>2, <1>1 DEF Entry, Entries
  <2>3. CASE k # pc.d
    <3>1. k + 1 \in Depths
      BY <1>1, <1>3, <2>3, CodeAssumption DEF Depths
    <3>2. frame[k + 1].ret.i \in Nat
      BY <3>1 DEF IInv, TypeOK, Frames, Pcs
    <3>3. QED
      BY <2>1, <2>3, <3>2 DEF Entry, Entries
  <2>4. QED
    BY <2>2, <2>3
<1>4. AbsStack \in [1 .. pc.d -> Entries]
  BY <1>2, <1>3
<1>5. AbsStack \in Seq(Entries) /\ Len(AbsStack) = pc.d
  BY <1>1, <1>4, LenProperties
<1>6. \A k \in 1 .. pc.d : AbsStack[k] = Entry(k)
  BY <1>2
<1>7. AbsOutcome = "live"
  BY DEF AbsOutcome
<1>8. Abs!Here = [fn |-> frame[pc.d].lib, i |-> pc.i]
  BY <1>1, <1>5, <1>6 DEF Abs!Here, Entry
<1>9. QED
  BY <1>5, <1>6, <1>7, <1>8 DEF Abs!Live, Abs!Row

(* A step that moves no pc leaves the stack as it is. *)
LEMMA StackKept ==
  ASSUME IInv, Uniform, Exit => Safe, [Next]_vars, Running, Running', pc' = pc
  PROVE  UNCHANGED <<AbsStack, AbsOutcome>>
<1>1. pc.d \in Nat /\ pc.d >= 1 /\ pc.d <= MaxDepth + 1 /\ MaxDepth \in Nat
  BY ChainFacts, CodeAssumption
<1>2. \A k \in 1 .. pc.d : k \in Depths /\ k <= pc.d /\ k <= pc'.d
  BY <1>1 DEF Depths
<1>3. \A k \in 1 .. pc.d : Identity(frame'[k]) = Identity(frame[k])
  BY <1>2, KeptStep
<1>4. \A k \in 1 .. pc.d : Entry(k)' = Entry(k)
  <2>1. SUFFICES ASSUME NEW k \in 1 .. pc.d PROVE Entry(k)' = Entry(k)
    OBVIOUS
  <2>2. frame'[k].lib = frame[k].lib
    BY <1>3 DEF Identity
  <2>3. k # pc.d => k + 1 \in 1 .. pc.d
    BY <1>1
  <2>4. k # pc.d => frame'[k + 1].ret = frame[k + 1].ret
    BY <2>3, <1>3 DEF Identity
  <2>5. QED
    BY <2>2, <2>4 DEF Entry
<1>5. AbsStack' = AbsStack
  BY <1>4 DEF AbsStack, Entry
<1>6. QED
  BY <1>5 DEF AbsOutcome

(* Nor does one of a vthread that has ended. *)
LEMMA HaltedKept ==
  ASSUME ~ Running, status' = status
  PROVE  UNCHANGED <<AbsStack, AbsOutcome>>
BY DEF AbsStack, AbsOutcome, Running

(***************************************************************************)
(* Steps of the call stack                                                 *)
(***************************************************************************)
(* The next pc is in the same frame: the top of the stack moves. *)
LEMMA MoveRefined ==
  ASSUME IInv, Uniform, Exit => Safe, [Next]_vars, Running, Running',
         pc.d <= MaxDepth, pc'.d = pc.d,
         NEW row, row = Code[frame[pc.d].lib][pc.i],
         \/ row.op \in {"native", "status", "host"} /\ pc'.i = pc.i + 1
         \/ row.op = "jump" /\ pc'.i \in row.to
  PROVE  Abs!Next
<1>1. /\ pc.d \in Nat /\ pc.d >= 1 /\ pc.d <= MaxDepth + 1 /\ MaxDepth \in Nat
      /\ pc.d \in 1 .. pc.d
  BY ChainFacts, CodeAssumption
<1>2. \A k \in 1 .. pc.d : k \in Depths /\ k <= pc.d /\ k <= pc'.d
  BY <1>1 DEF Depths
<1>3. \A k \in 1 .. pc.d : Identity(frame'[k]) = Identity(frame[k])
  BY <1>2, KeptStep
<1>4. /\ AbsStack \in Seq(Entries) /\ Len(AbsStack) = pc.d
      /\ \A k \in 1 .. pc.d : AbsStack[k] = Entry(k)
      /\ Abs!Live /\ Abs!Here = [fn |-> frame[pc.d].lib, i |-> pc.i] /\ Abs!Row = row
  BY StackFacts
<1>5. /\ AbsStack' = [k \in 1 .. pc.d |-> Entry(k)']
      /\ AbsOutcome' = AbsOutcome
  BY DEF AbsStack, AbsOutcome, Entry
<1>6. AbsStack = [k \in 1 .. pc.d |-> AbsStack[k]]
  BY <1>1, <1>4, LenProperties
<1>7. ASSUME NEW k \in 1 .. pc.d, k # pc.d PROVE Entry(k)' = Entry(k)
  <2>1. k + 1 \in 1 .. pc.d
    BY <1>1, <1>7
  <2>2. frame'[k].lib = frame[k].lib /\ frame'[k + 1].ret = frame[k + 1].ret
    BY <2>1, <1>3 DEF Identity
  <2>3. QED
    BY <2>2, <1>7 DEF Entry
<1>8. Entry(pc.d)' = [AbsStack[pc.d] EXCEPT !.i = pc'.i]
  <2>1. frame'[pc.d].lib = frame[pc.d].lib
    BY <1>1, <1>3 DEF Identity
  <2>2. QED
    BY <2>1, <1>1, <1>4 DEF Entry
<1>9. AbsStack' = [AbsStack EXCEPT ![pc.d] = [AbsStack[pc.d] EXCEPT !.i = pc'.i]]
  BY <1>1, <1>4, <1>5, <1>6, <1>7, <1>8
<1>10. Abs!GoTo(pc'.i)
  BY <1>4, <1>9 DEF Abs!GoTo
<1>11. Abs!Move
  BY <1>1, <1>4, <1>5, <1>10 DEF Abs!Move
<1>12. QED
  BY <1>11 DEF Abs!Next

(* The next pc is the callee's first row: a frame is pushed. *)
LEMMA PushRefined ==
  ASSUME IInv, Uniform, Exit => Safe, [Next]_vars, Running, Running',
         pc.d <= MaxDepth, pc'.d = pc.d + 1, pc'.i = 1,
         NEW row, row = Code[frame[pc.d].lib][pc.i], row.op \in Calls,
         frame'[pc.d + 1].lib = row.fn, frame'[pc.d + 1].ret.i = pc.i + 1
  PROVE  Abs!Next
<1>1. /\ pc.d \in Nat /\ pc.d >= 1 /\ pc.d <= MaxDepth + 1 /\ MaxDepth \in Nat
      /\ pc.d \in 1 .. pc.d /\ pc.i \in Nat
  BY ChainFacts, CodeAssumption
<1>2. \A k \in 1 .. pc.d : k \in Depths /\ k <= pc.d /\ k <= pc'.d
  BY <1>1 DEF Depths
<1>3. \A k \in 1 .. pc.d : Identity(frame'[k]) = Identity(frame[k])
  BY <1>2, KeptStep
<1>4. /\ AbsStack \in Seq(Entries) /\ Len(AbsStack) = pc.d
      /\ \A k \in 1 .. pc.d : AbsStack[k] = Entry(k)
      /\ Abs!Live /\ Abs!Here = [fn |-> frame[pc.d].lib, i |-> pc.i] /\ Abs!Row = row
  BY StackFacts
<1>5. /\ AbsStack' = [k \in 1 .. pc.d + 1 |-> Later(k)]
      /\ AbsOutcome' = AbsOutcome
  BY DEF AbsStack, AbsOutcome, Later
<1>6. ASSUME NEW k \in 1 .. pc.d, k # pc.d PROVE Later(k) = AbsStack[k]
  <2>1. k + 1 \in 1 .. pc.d /\ k # pc'.d
    BY <1>1, <1>6
  <2>2. frame'[k].lib = frame[k].lib /\ frame'[k + 1].ret = frame[k + 1].ret
    BY <2>1, <1>3 DEF Identity
  <2>3. QED
    BY <2>1, <2>2, <1>4, <1>6 DEF Entry, Later
<1> DEFINE marked == [AbsStack EXCEPT ![pc.d].i = pc.i + 1]
           top == [fn |-> row.fn, i |-> 1]
<1>7. Later(pc.d) = [AbsStack[pc.d] EXCEPT !.i = pc.i + 1]
  <2>1. frame'[pc.d].lib = frame[pc.d].lib /\ pc.d # pc'.d
    BY <1>1, <1>3 DEF Identity
  <2>2. QED
    BY <2>1, <1>1, <1>4 DEF Entry, Later
<1>8. Later(pc.d + 1) = top
  BY <1>1 DEF Later
<1>9. marked \in Seq(Entries) /\ Len(marked) = pc.d
  <2>1. [AbsStack[pc.d] EXCEPT !.i = pc.i + 1] \in Entries
    <3>1. AbsStack[pc.d] \in Entries
      BY <1>1, <1>4, LenProperties
    <3>2. QED
      BY <3>1, <1>1 DEF Entries
  <2>2. QED
    BY <1>1, <1>4, <2>1, ExceptSeq
<1>10. top \in Entries
  <2>1. row.fn \in Funcs
    BY ChainFacts, RowFacts
  <2>2. QED
    BY <2>1 DEF Entries
<1>11. \A k \in 1 .. pc.d : marked[k] = Later(k)
  BY <1>1, <1>4, <1>6, <1>7, LenProperties
<1>12. AbsStack' = Append(marked, top)
  <2>1. /\ Append(marked, top) \in Seq(Entries)
        /\ Len(Append(marked, top)) = pc.d + 1
        /\ \A k \in 1 .. pc.d : Append(marked, top)[k] = marked[k]
        /\ Append(marked, top)[pc.d + 1] = top
    <3> HIDE DEF marked, top
    <3>1. QED
      BY <1>9, <1>10, AppendProperties
  <2>2. AbsStack' \in Seq(Entries) /\ Len(AbsStack') = pc.d + 1
    <3>1. ASSUME NEW k \in 1 .. pc.d + 1 PROVE Later(k) \in Entries
      <4>1. CASE k = pc.d + 1
        BY <4>1, <1>8, <1>10
      <4>2. CASE k # pc.d + 1
        <5>1. k \in 1 .. pc.d
          BY <4>2, <1>1
        <5>2. marked[k] \in Entries
          <6> HIDE DEF marked
          <6>1. QED
            BY <5>1, <1>9, LenProperties
        <5>3. QED
          BY <5>1, <5>2, <1>11
      <4>3. QED
        BY <4>1, <4>2
    <3>2. AbsStack' \in [1 .. pc.d + 1 -> Entries]
      BY <1>5, <3>1
    <3>3. QED
      BY <3>2, <1>1, LenProperties
  <2>3. \A k \in 1 .. pc.d + 1 : AbsStack'[k] = Append(marked, top)[k]
    <3> HIDE DEF marked, top
    <3>1. SUFFICES ASSUME NEW k \in 1 .. pc.d + 1 PROVE AbsStack'[k] = Append(marked, top)[k]
      OBVIOUS
    <3>2. AbsStack'[k] = Later(k)
      BY <1>5
    <3>3. CASE k = pc.d + 1
      BY <3>2, <3>3, <2>1, <1>8
    <3>4. CASE k # pc.d + 1
      BY <3>2, <3>4, <2>1, <1>1, <1>11
    <3>5. QED
      BY <3>3, <3>4
  <2>4. QED
    <3> HIDE DEF marked, top
    <3>1. QED
      BY <2>1, <2>2, <2>3, SeqEqual
<1>13. Abs!Push
  BY <1>1, <1>4, <1>5, <1>12 DEF Abs!Push, Calls
<1>14. QED
  BY <1>13 DEF Abs!Next

(* The next pc is the return pc of the top frame: it is popped. *)
LEMMA PopRefined ==
  ASSUME IInv, Uniform, Exit => Safe, [Next]_vars, Running, Running',
         pc.d \in 2 .. MaxDepth, pc' = frame[pc.d].ret,
         Code[frame[pc.d].lib][pc.i].op = "return"
  PROVE  Abs!Next
<1>1. /\ pc.d \in Nat /\ pc.d >= 1 /\ pc.d <= MaxDepth + 1 /\ MaxDepth \in Nat
      /\ pc.d \in 1 .. pc.d /\ pc.i \in Nat
  BY ChainFacts, CodeAssumption
<1>2. pc'.d = pc.d - 1
  BY <1>1 DEF IInv, StackInv, LinkedUp, Linked
<1>3. \A k \in 1 .. pc.d - 1 : k \in Depths /\ k <= pc.d /\ k <= pc'.d
  BY <1>1, <1>2 DEF Depths
<1>4. \A k \in 1 .. pc.d - 1 : Identity(frame'[k]) = Identity(frame[k])
  BY <1>3, KeptStep
<1>5. /\ AbsStack \in Seq(Entries) /\ Len(AbsStack) = pc.d
      /\ \A k \in 1 .. pc.d : AbsStack[k] = Entry(k)
      /\ Abs!Live /\ Abs!Row = Code[frame[pc.d].lib][pc.i]
  BY StackFacts
<1>6. /\ AbsStack' = [k \in 1 .. pc.d - 1 |-> Entry(k)']
      /\ AbsOutcome' = AbsOutcome
  BY <1>2 DEF AbsStack, AbsOutcome, Entry
<1>7. ASSUME NEW k \in 1 .. pc.d - 1 PROVE Entry(k)' = AbsStack[k]
  <2>1. frame'[k].lib = frame[k].lib /\ k \in 1 .. pc.d /\ k # pc.d
    BY <1>1, <1>4, <1>7 DEF Identity
  <2>2. CASE k = pc.d - 1
    BY <2>1, <2>2, <1>1, <1>2, <1>5 DEF Entry
  <2>3. CASE k # pc.d - 1
    <3>1. k + 1 \in 1 .. pc.d - 1
      BY <2>3, <1>1, <1>7
    <3>2. frame'[k + 1].ret = frame[k + 1].ret
      BY <3>1, <1>4 DEF Identity
    <3>3. QED
      BY <3>2, <2>1, <2>3, <1>2, <1>5 DEF Entry
  <2>4. QED
    BY <2>2, <2>3
<1>8. AbsStack' = SubSeq(AbsStack, 1, Len(AbsStack) - 1)
  BY <1>1, <1>5, <1>6, <1>7
<1>9. Abs!Pop
  BY <1>1, <1>5, <1>6, <1>8 DEF Abs!Pop
<1>10. QED
  BY <1>9 DEF Abs!Next

(* The vthread ends. *)
LEMMA EndRefined ==
  ASSUME IInv, Running,
         \/ /\ status' = "ok" /\ pc.d = 1
            /\ Code[frame[pc.d].lib][pc.i].op = "return"
         \/ /\ status' = "error"
            /\ pc.d > MaxDepth \/ Code[frame[pc.d].lib][pc.i].op # "return"
  PROVE  Abs!Next
<1>1. /\ Len(AbsStack) = pc.d /\ Abs!Live /\ Abs!Row = Code[frame[pc.d].lib][pc.i]
  BY StackFacts
<1>2. AbsStack' = <<>> /\ AbsOutcome' = status'
  BY DEF AbsStack, AbsOutcome, Running, Terminal
<1>3. Abs!Finish \/ Abs!Abort
  BY <1>1, <1>2 DEF Abs!Finish, Abs!Abort
<1>4. QED
  BY <1>3 DEF Abs!Next

(***************************************************************************)
(* The refinement                                                          *)
(***************************************************************************)
(* What each action that writes a pc or ends the vthread is on the stack. *)
LEMMA WritePcRefined ==
  ASSUME IInv, Uniform, GoalInv, WritePc
  PROVE  Abs!Next
<1>1. /\ at = "goto" /\ pc' = next /\ status' = status
      /\ UNCHANGED frame
  BY DEF WritePc
<1>2. /\ Running /\ pc = cur /\ cur.d \in Nat /\ cur.i \in Nat /\ cur.d >= 1
      /\ cur.d <= MaxDepth /\ Row = Code[frame[cur.d].lib][cur.i] /\ MaxDepth \in Nat
      /\ frame[cur.d].lib \in Funcs /\ HasRow(frame[cur.d].lib, cur.i)
  BY <1>1, ExecFacts, CodeAssumption
<1>3. Running' /\ [Next]_vars /\ ~ Exit
  BY <1>1, <1>2 DEF Running, Next, Drive, Execute, Exit
<1>4. CASE Row.op \in {"native", "status"} /\ next = Behind(cur)
  <2>1. pc'.d = pc.d /\ pc'.i = pc.i + 1
    BY <1>1, <1>2, <1>4 DEF Behind, At
  <2>2. QED
    BY <2>1, <1>2, <1>3, <1>4, MoveRefined
<1>5. CASE Row.op = "jump" /\ \E j \in Row.to : next = At(cur.d, j)
  <2>1. pc'.d = pc.d /\ pc'.i \in Row.to
    BY <1>1, <1>2, <1>5 DEF At
  <2>2. QED
    BY <2>1, <1>2, <1>3, <1>5, MoveRefined
<1>6. CASE /\ Row.op \in Calls /\ next = At(cur.d + 1, 1)
           /\ frame[cur.d + 1].lib = Row.fn /\ frame[cur.d + 1].ret = Behind(cur)
  <2>1. /\ pc'.d = pc.d + 1 /\ pc'.i = 1
        /\ frame'[pc.d + 1].lib = Row.fn /\ frame'[pc.d + 1].ret.i = pc.i + 1
    BY <1>1, <1>2, <1>6 DEF Behind, At
  <2>2. QED
    BY <2>1, <1>2, <1>3, <1>6, PushRefined
<1>7. CASE Row.op = "return" /\ cur.d > 1 /\ next = frame[cur.d].ret
  <2>1. pc.d \in 2 .. MaxDepth /\ pc' = frame[pc.d].ret
    BY <1>1, <1>2, <1>7
  <2>2. QED
    BY <2>1, <1>2, <1>3, <1>7, PopRefined
<1>8. QED
  BY <1>1, <1>4, <1>5, <1>6, <1>7 DEF GoalInv

(* Passing a host instruction is a move. *)
LEMMA AdvanceRefined ==
  ASSUME IInv, Uniform, Advance
  PROVE  Abs!Next
<1>1. /\ at = "advance" /\ pc' = Behind(cur) /\ status' = status
  BY DEF Advance
<1>2. /\ Running /\ pc = cur /\ cur.d <= MaxDepth
      /\ Code[frame[cur.d].lib][cur.i].op = "host"
  BY <1>1 DEF IInv, HostInv
<1>3. pc.d \in Nat /\ pc.i \in Nat
  BY <1>2, ChainFacts
<1>4. Running' /\ [Next]_vars /\ ~ Exit
  BY <1>1, <1>2 DEF Running, Next, Drive, Exit
<1>5. pc'.d = pc.d /\ pc'.i = pc.i + 1
  BY <1>1, <1>2 DEF Behind, At
<1>6. QED
  BY <1>2, <1>4, <1>5, MoveRefined

(* A step that ends the vthread ends the call stack. *)
LEMMA ErrorRefined ==
  ASSUME IInv, Overflow \/ OpFails \/ CallFails \/ DispatchFails \/ Done
  PROVE  Abs!Next
<1>1. CASE Overflow
  <2>1. /\ Running /\ pc.d > MaxDepth /\ status' = "error"
    BY <1>1 DEF Overflow, Gate, Live, Running, Terminal, TooDeep, Raise, SetError
  <2>2. QED
    BY <2>1, EndRefined
<1>2. CASE OpFails
  <2>1. at = "exec" /\ Row.op # "return" /\ status' = "error"
    BY <1>2 DEF OpFails, Raise, SetError
  <2>2. Running /\ pc = cur /\ Row = Code[frame[cur.d].lib][cur.i]
    BY <2>1, ExecFacts
  <2>3. QED
    BY <2>1, <2>2, EndRefined
<1>3. CASE CallFails
  <2>1. at = "bind" /\ Row.op \in Calls /\ status' = "error"
    BY <1>3 DEF CallFails, SetError, IInv, CallInv
  <2>2. Running /\ pc = cur /\ Row = Code[frame[cur.d].lib][cur.i]
    BY <2>1, ExecFacts
  <2>3. Row.op # "return"
    BY <2>1 DEF Calls
  <2>4. QED
    BY <2>1, <2>2, <2>3, EndRefined
<1>4. CASE DispatchFails
  <2>1. at = "dispatch" /\ status' = "error"
    BY <1>4 DEF DispatchFails, SetError
  <2>2. Running /\ pc = cur /\ Code[frame[pc.d].lib][pc.i].op # "return"
    BY <2>1 DEF IInv, HostInv
  <2>3. QED
    BY <2>1, <2>2, EndRefined
<1>5. CASE Done
  <2>1. at = "exec" /\ Row.op = "return" /\ status' = "ok" /\ cur.d = 1
    BY <1>5 DEF Done
  <2>2. Running /\ pc = cur /\ Row = Code[frame[cur.d].lib][cur.i]
    BY <2>1, ExecFacts
  <2>3. QED
    BY <2>1, <2>2, EndRefined
<1>6. QED
  BY <1>1, <1>2, <1>3, <1>4, <1>5

(* Every other step leaves the pc alone and the vthread as alive as it was. *)
LEMMA OtherStep ==
  ASSUME IInv, [Next]_vars,
         ~ WritePc, ~ Advance, ~ (Overflow \/ OpFails \/ CallFails \/ DispatchFails \/ Done)
  PROVE  /\ pc' = pc /\ (Running' <=> Running)
         /\ ~ Running => status' = status
<1>1. CASE Fetch
  <2>1. Running /\ ~ TooDeep
    BY <1>1 DEF Fetch, Gate, Running, Live, Terminal
  <2>2. UNCHANGED <<pc, status>>
    BY <1>1, <2>1, ResolvedLib DEF Fetch
  <2>3. QED
    BY <2>2 DEF Running
<1>2. CASE Return
  <2>1. at' = "goto" \/ at' = "exit"
    BY <1>2 DEF Return, NextPc
  <2>2. at' = "goto" => UNCHANGED <<pc, status>>
    BY <1>2 DEF Return, NextPc, SetError
  <2>3. at' = "exit" => msg' = "brokenReturn"
    BY <1>2 DEF Return, NextPc, SetError
  <2>4. IInv'
    BY <1>2, ReturnInv
  <2>5. at' # "exit"
    BY <2>3, <2>4 DEF IInv, NoChainError, ChainErrors
  <2>6. QED
    BY <2>1, <2>2, <2>5 DEF Running
<1>3. CASE WriteStatus
  <2>1. pc' = pc /\ status' \in {"running", "wait", "paused"} /\ Running
    BY <1>3 DEF WriteStatus, IInv, MarkInv, TypeOK
  <2>2. QED
    BY <2>1 DEF Running, Terminal
<1>4. CASE Pause \/ Resume
  BY <1>4 DEF Pause, Resume, Running, Live, Terminal
<1>5. CASE NoLib
  BY <1>5, NoLibInv
<1>6. CASE \/ Start \/ Stop \/ Native \/ Jump \/ SetStatus
           \/ CallReuse \/ CallBuild \/ WriteReturnPc \/ WriteLib \/ BindArgs
           \/ DropFrame \/ Yield \/ HostGate \/ Dispatch \/ Exit \/ Crash \/ UNCHANGED vars
  <2>1. UNCHANGED <<pc, status>>
    BY <1>6 DEF Start, Stop, Native, Jump, SetStatus, CallReuse, CallBuild, WriteReturnPc,
         WriteLib, BindArgs, DropFrame, Yield, HostGate, Dispatch, Exit, Crash, vars, kvvars
  <2>2. QED
    BY <2>1 DEF Running
<1>7. QED
  BY <1>1, <1>2, <1>3, <1>4, <1>5, <1>6 DEF Next, Drive, Execute

(* Every step is one of CallStack, or changes nothing there. *)
LEMMA StepRefined ==
  ASSUME IInv, Uniform, Exit => Safe, GoalInv, [Next]_vars
  PROVE  [Abs!Next]_<<AbsStack, AbsOutcome>>
<1>1. CASE WritePc
  BY <1>1, WritePcRefined
<1>2. CASE Advance
  BY <1>2, AdvanceRefined
<1>3. CASE Overflow \/ OpFails \/ CallFails \/ DispatchFails \/ Done
  BY <1>3, ErrorRefined
<1>4. CASE /\ ~ WritePc /\ ~ Advance
           /\ ~ (Overflow \/ OpFails \/ CallFails \/ DispatchFails \/ Done)
  <2>1. /\ pc' = pc /\ (Running' <=> Running)
        /\ ~ Running => status' = status
    BY <1>4, OtherStep
  <2>2. UNCHANGED <<AbsStack, AbsOutcome>>
    BY <2>1, StackKept, HaltedKept
  <2>3. QED
    BY <2>2
<1>5. QED
  BY <1>1, <1>2, <1>3, <1>4

(* A vthread starts with its entry function alone on the stack. *)
LEMMA InitRefined ==
  ASSUME Init
  PROVE  Abs!Init
<1>1. 1 \in Depths
  BY CodeAssumption DEF Depths
<1>2. /\ pc.d = 1 /\ pc.i = 1 /\ frame[1].lib = Main /\ status = "init"
  BY <1>1 DEF Init, At, Root, Absent
<1>3. AbsStack = << [fn |-> Main, i |-> 1] >> /\ AbsOutcome = "live"
  BY <1>2 DEF AbsStack, AbsOutcome, Running, Terminal
<1>4. QED
  BY <1>3 DEF Abs!Init

(* The pc about to be written is always one its instruction may go to. *)
LEMMA GoalAlways ==
  ASSUME Safe
  PROVE  Spec => []GoalInv
<1>1. Init => GoalInv
  BY DEF Init, NoProcess, GoalInv
<1>2. IInv /\ GoalInv /\ [Next]_vars => GoalInv'
  BY GoalStep
<1>3. QED
  BY <1>1, <1>2, Invariant, PTL DEF Spec

(* The interpreter implements the call stack: through parked frames, host     *)
(* batches, crashes between any two writes, restarts and pauses, handle_call, *)
(* handle_return and kvlangVthreadNextPc push, pop and move one stack.        *)
THEOREM RefinesCallStack ==
  ASSUME Safe
  PROVE  Spec => ImplementsCallStack
<1>1. Init => Abs!Init
  BY InitRefined
<1>2. IInv /\ GoalInv /\ [Next]_vars => [Abs!Next]_<<AbsStack, AbsOutcome>>
  BY StepRefined DEF Safe, Uniform
<1>3. QED
  BY <1>1, <1>2, Invariant, GoalAlways, PTL DEF Spec, ImplementsCallStack, Abs!Spec

(***************************************************************************)
(* A debugger that pauses at any moment, where every function is parked    *)
(* between calls or none is (Uniform).  A pause may then cost the frame at *)
(* the pc (KvCpu_pause_resume shows it); what these theorems say is that   *)
(* nothing worse happens.                                                  *)
(***************************************************************************)

(***************************************************************************)
(* Which frames of the chain are warm                                      *)
(***************************************************************************)
ChainWarm == Running => \A j, k \in Depths : j < k /\ k <= pc.d /\ IsWarm(j) =>
                          IsWarm(k) \/ (k = MaxDepth + 1 /\ last = MaxDepth)
PushWarm  == at = "goto" /\ next.d = cur.d + 1 => IsWarm(next.d) \/ cur.d = MaxDepth

(* A step that moves the pc no deeper and parks nothing above it. *)
LEMMA ChainWarmKept ==
  ASSUME IInv, ChainWarm, Running' => Running, pc'.d \in Nat, pc'.d <= pc.d,
         last' = last \/ pc.d <= MaxDepth,
         \A k \in Depths : k <= pc.d => (IsWarm(k)' <=> IsWarm(k))
  PROVE  ChainWarm'
<1> SUFFICES ASSUME Running', NEW j \in Depths, NEW k \in Depths,
                    j < k, k <= pc'.d, IsWarm(j)'
             PROVE  IsWarm(k)' \/ (k = MaxDepth + 1 /\ last' = MaxDepth)
  BY DEF ChainWarm
<1>1. /\ Running /\ pc.d \in Nat /\ pc.d >= 1 /\ pc.d <= MaxDepth + 1
      /\ MaxDepth \in Nat /\ k \in Nat /\ j \in Nat
  BY ChainFacts, CodeAssumption DEF Depths
<1>2. k <= pc.d /\ j <= pc.d /\ IsWarm(j)
  BY <1>1
<1>3. CASE IsWarm(k)
  BY <1>2, <1>3
<1>4. CASE k = MaxDepth + 1 /\ last = MaxDepth
  BY <1>1, <1>2, <1>4
<1>5. QED
  BY <1>1, <1>2, <1>3, <1>4 DEF ChainWarm

(* A new process has parked nothing. *)
LEMMA NobodyWarm ==
  ASSUME EndProcess
  PROVE  ChainWarm' /\ PushWarm'
<1>1. at' = "idle" /\ \A k \in Depths : ~ IsWarm(k)'
  BY DEF EndProcess, Cold, IsWarm
<1>2. QED
  BY <1>1 DEF ChainWarm, PushWarm

(* The frames a process has pushed stay the upper part of the chain. *)
LEMMA WarmStep ==
  ASSUME IInv, WarmInv, [Next]_vars
  PROVE  WarmInv'
<1> SUFFICES ASSUME Parkable = Funcs PROVE ChainWarm' /\ PushWarm'
  BY DEF WarmInv, ChainWarm, PushWarm
<1>w. ChainWarm /\ PushWarm
  BY DEF WarmInv, ChainWarm, PushWarm
<1>t. /\ pc \in Pcs /\ pc.d \in Nat /\ cur \in Pcs /\ cur.d \in Nat
      /\ park \in [Depths -> Parks] /\ MaxDepth \in Nat
  BY CodeAssumption DEF IInv, TypeOK, Pcs
<1>1. CASE \/ Start \/ Stop \/ Overflow \/ OpFails \/ CallReuse \/ WriteLib \/ Done
           \/ WriteStatus \/ Dispatch
  <2>1. /\ UNCHANGED <<park, last>> /\ at' # "goto" /\ pc'.d = pc.d
        /\ Running' => Running
    <3>1. CASE Overflow \/ OpFails
      <4>1. UNCHANGED <<park, last>> /\ at' = "exit" /\ status' = "error" /\ (pc' = pc \/ pc' = cur)
        BY <3>1 DEF Overflow, OpFails, Raise, SetError
      <4>2. pc' = cur => pc' = pc
        BY <3>1, <1>t, ExecFacts DEF Overflow, OpFails, Raise, SetError
      <4>3. QED
        BY <4>1, <4>2 DEF Running, Terminal
    <3>2. CASE WriteStatus
      <4>1. Running
        BY <3>2 DEF WriteStatus, IInv, MarkInv
      <4>2. QED
        BY <3>2, <4>1 DEF WriteStatus, AfterNextPc
    <3>3. CASE Done
      <4>1. Running
        BY <3>3, ExecFacts DEF Done
      <4>2. QED
        BY <3>3, <4>1 DEF Done
    <3>4. CASE Start \/ Stop \/ CallReuse \/ WriteLib \/ Dispatch
      BY <3>4 DEF Start, Stop, CallReuse, WriteLib, Dispatch, kvvars, Running
    <3>5. QED
      BY <1>1, <3>1, <3>2, <3>3, <3>4
  <2>2. \A k \in Depths : IsWarm(k)' <=> IsWarm(k)
    BY <2>1 DEF IsWarm
  <2>3. QED
    BY <2>1, <2>2, <1>t, <1>w, ChainWarmKept DEF PushWarm
<1>2. CASE Native \/ Jump \/ SetStatus \/ Return
  <2>1. /\ at = "exec" /\ UNCHANGED <<park, last, cur>>
    BY <1>2 DEF Native, Jump, SetStatus, Return
  <2>2. Running /\ cur = pc /\ cur.d \in Depths
    BY <2>1, ExecFacts
  <2>3. pc' = pc /\ (at' = "goto" => next'.d <= cur.d)
    <3>1. CASE Native \/ Jump \/ SetStatus
      BY <3>1, <1>t DEF Native, Jump, SetStatus, NextPc, Behind, At, kvvars
    <3>2. CASE Return
      <4>1. ReturnTo = frame[cur.d].ret
        BY <2>2 DEF ReturnTo, IInv, ParkInv, ParkCoherent
      <4>2. frame[cur.d].ret.d = cur.d - 1
        <5>1. cur.d > 1 /\ cur.d \in 1 .. pc.d
          BY <3>2, <2>2, <1>t DEF Return
        <5>2. LinkedUp(cur.d)
          BY <5>1, <2>2 DEF IInv, StackInv
        <5>3. QED
          BY <5>1, <5>2 DEF LinkedUp, Linked
      <4>3. QED
        BY <3>2, <4>1, <4>2, <2>2, <1>t DEF Return, NextPc, SetError
    <3>3. QED
      BY <3>1, <3>2, <1>2
  <2>4. \A k \in Depths : IsWarm(k)' <=> IsWarm(k)
    BY <2>1 DEF IsWarm
  <2>5. ChainWarm'
    BY <2>1, <2>2, <2>3, <2>4, <1>t, <1>w, ChainWarmKept
  <2>6. PushWarm'
    BY <2>1, <2>3, <1>t DEF PushWarm
  <2>7. QED
    BY <2>5, <2>6
<1>3. CASE Fetch
  <2>1. /\ Running /\ pc.d <= MaxDepth /\ UNCHANGED <<pc, park>> /\ at' # "goto"
    <3>1. Running /\ ~ TooDeep
      BY <1>3 DEF Fetch, Gate, Running, Live, Terminal
    <3>2. UNCHANGED <<pc, park>> /\ at' # "goto"
      BY <1>3, <3>1, ResolvedLib DEF Fetch
    <3>3. QED
      BY <3>1, <3>2, <1>t DEF TooDeep
  <2>2. \A k \in Depths : IsWarm(k)' <=> IsWarm(k)
    BY <2>1 DEF IsWarm
  <2>3. QED
    BY <2>1, <2>2, <1>t, <1>w, ChainWarmKept DEF PushWarm
<1>4. CASE CallBuild \/ WriteReturnPc \/ BindArgs
  <2>1. /\ at \in {"exec", "retpc", "bind"} /\ UNCHANGED <<pc, status, cur, last>>
    BY <1>4 DEF CallBuild, WriteReturnPc, BindArgs
  <2>2. Running /\ cur = pc /\ CalleeD = cur.d + 1 /\ CalleeD \in Depths
    BY <2>1, ExecFacts
  <2>3. \A k \in Depths : k <= pc.d => park'[k] = park[k]
    <3>1. \A k \in Depths : k <= pc.d => k # CalleeD
      BY <2>2, <1>t DEF Depths
    <3>2. QED
      BY <3>1, <1>4, <1>t DEF CallBuild, WriteReturnPc, BindArgs
  <2>4. ChainWarm'
    <3>1. \A k \in Depths : k <= pc.d => (IsWarm(k)' <=> IsWarm(k))
      BY <2>3 DEF IsWarm
    <3>2. Running' => Running
      BY <2>1 DEF Running
    <3>3. QED
      BY <2>1, <3>1, <3>2, <1>t, <1>w, ChainWarmKept
  <2>5. PushWarm'
    <3>1. CASE CallBuild \/ WriteReturnPc
      <4>1. at' # "goto"
        BY <3>1 DEF CallBuild, WriteReturnPc
      <4>2. QED
        BY <4>1 DEF PushWarm
    <3>2. CASE BindArgs
      <4>1. next' = At(cur.d + 1, 1) /\ cur' = cur
        BY <3>2, <2>2 DEF BindArgs, NextPc
      <4>2. Callee \in Funcs /\ Callee # None
        BY <3>2, CallFacts DEF BindArgs, IInv, CallInv
      <4>3. CASE CanPark
        <5>1. park'[CalleeD] = EntryPark
          BY <3>2, <4>3, <2>2, <1>t DEF BindArgs
        <5>2. IsWarm(CalleeD)'
          <6>1. EntryPark.f = Callee
            BY DEF EntryPark
          <6>2. CalleeD' = CalleeD
            BY <4>1 DEF CalleeD
          <6>3. QED
            BY <5>1, <6>1, <6>2, <4>2 DEF IsWarm
        <5>3. next'.d = CalleeD'
          BY <4>1 DEF At, CalleeD
        <5>4. QED
          BY <5>2, <5>3 DEF PushWarm, IsWarm
      <4>4. CASE ~ CanPark
        <5>1. ~ (CalleeD <= MaxDepth)
          BY <4>2, <4>4 DEF CanPark
        <5>2. cur.d = MaxDepth
          BY <5>1, <2>2, <1>t DEF Depths
        <5>3. QED
          BY <5>2, <4>1 DEF PushWarm
      <4>5. QED
        BY <4>3, <4>4
    <3>3. QED
      BY <3>1, <3>2, <1>4
  <2>6. QED
    BY <2>4, <2>5
<1>5. CASE CallFails
  <2>1. status' = "error" /\ at' = "exit"
    BY <1>5 DEF CallFails, SetError
  <2>2. QED
    BY <2>1 DEF ChainWarm, PushWarm, Running, Terminal
<1>6. CASE DropFrame
  <2>1. /\ at' = "fetch" /\ UNCHANGED <<pc, status, last>>
        /\ park' = [k \in Depths |-> IF k \in Doomed THEN Cold ELSE park[k]]
    BY <1>6 DEF DropFrame
  <2>2. CASE Running
    <3>1. pc.d < cur.d /\ pc.d >= 1
      BY <1>6, <2>2, ChainFacts DEF DropFrame, IInv, DropInv, Running, Terminal
    <3>2. \A k \in Depths : k <= pc.d => k \notin Doomed
      BY <3>1, <1>t DEF Doomed, Depths
    <3>3. \A k \in Depths : k <= pc.d => (IsWarm(k)' <=> IsWarm(k))
      BY <2>1, <3>2 DEF IsWarm
    <3>4. QED
      BY <2>1, <2>2, <3>3, <1>t, <1>w, ChainWarmKept DEF PushWarm
  <2>3. CASE ~ Running
    BY <2>1, <2>3 DEF Running, ChainWarm, PushWarm
  <2>4. QED
    BY <2>2, <2>3
<1>7. CASE WritePc
  <2>1. /\ at = "goto" /\ pc' = next /\ at' # "goto" /\ UNCHANGED <<status, park, last>>
    BY <1>7 DEF WritePc, AfterNextPc
  <2>2. /\ Running /\ cur = pc /\ last = cur.d /\ cur.d <= MaxDepth
        /\ next.d <= cur.d + 1 /\ next.d \in Nat
    BY <2>1, ExecFacts, NextPcOk
  <2>3. \A k \in Depths : IsWarm(k)' <=> IsWarm(k)
    BY <2>1 DEF IsWarm
  <2>4. CASE next.d <= cur.d
    BY <2>1, <2>2, <2>3, <2>4, <1>t, <1>w, ChainWarmKept DEF PushWarm
  <2>5. CASE next.d = cur.d + 1
    <3>1. SUFFICES ASSUME NEW j \in Depths, NEW k \in Depths,
                          j < k, k <= next.d, IsWarm(j)'
                   PROVE  IsWarm(k)' \/ (k = MaxDepth + 1 /\ last' = MaxDepth)
      BY <2>1 DEF ChainWarm, PushWarm
    <3>2. IsWarm(j) /\ k \in Nat /\ j \in Nat
      BY <2>3, <3>1 DEF Depths
    <3>3. CASE k <= cur.d
      <4>1. IsWarm(k)
        BY <3>1, <3>2, <3>3, <2>2, <1>t, <1>w DEF ChainWarm
      <4>2. QED
        BY <4>1, <2>3
    <3>4. CASE k = cur.d + 1
      <4>1. IsWarm(k) \/ cur.d = MaxDepth
        BY <2>1, <2>5, <3>4, <1>w DEF PushWarm
      <4>2. QED
        BY <4>1, <3>4, <2>1, <2>2, <2>3
    <3>5. QED
      BY <3>1, <3>2, <3>3, <3>4, <2>5, <1>t
  <2>6. QED
    BY <2>2, <2>4, <2>5, <1>t
<1>8. CASE Yield
  <2>1. /\ at = "exec" /\ at' = "host" /\ UNCHANGED <<pc, status>>
        /\ park' = [k \in Depths |-> IF k > cur.d THEN Cold ELSE park[k]]
    BY <1>8 DEF Yield, CleanupAbove, YieldDepth
  <2>2. Running /\ cur = pc /\ cur.d <= MaxDepth
    BY <2>1, ExecFacts
  <2>3. \A k \in Depths : k <= pc.d => (IsWarm(k)' <=> IsWarm(k))
    BY <2>1, <2>2, <1>t DEF IsWarm, Depths
  <2>4. QED
    BY <2>1, <2>2, <2>3, <1>t, <1>w, ChainWarmKept DEF PushWarm
<1>9. CASE HostGate /\ Gate
  <2>1. UNCHANGED <<park, last, pc, status>> /\ at' # "goto"
    BY <1>9 DEF HostGate, kvvars
  <2>2. \A k \in Depths : IsWarm(k)' <=> IsWarm(k)
    BY <2>1 DEF IsWarm
  <2>3. QED
    BY <2>1, <2>2, <1>t, <1>w, ChainWarmKept DEF PushWarm, Running
<1>10. CASE Advance
  <2>1. UNCHANGED <<park, last, status>> /\ at' # "goto" /\ pc' = Behind(cur)
    BY <1>10 DEF Advance
  <2>2. pc'.d = pc.d
    BY <1>10, <2>1, HostFacts DEF Advance
  <2>3. \A k \in Depths : IsWarm(k)' <=> IsWarm(k)
    BY <2>1 DEF IsWarm
  <2>4. QED
    BY <2>1, <2>2, <2>3, <1>t, <1>w, ChainWarmKept DEF PushWarm, Running
<1>11. CASE (HostGate /\ ~ Gate) \/ DispatchFails \/ Exit \/ Crash
  <2>1. EndProcess
    BY <1>11 DEF HostGate, DispatchFails, Exit, Crash
  <2>2. QED
    BY <2>1, NobodyWarm
<1>12. CASE Pause \/ Resume \/ UNCHANGED vars
  <2>1. UNCHANGED <<park, last, pc, at, cur, next>> /\ (Running' => Running)
    BY <1>12 DEF Pause, Resume, vars, kvvars, procvars, Running, Live, Terminal
  <2>2. \A k \in Depths : IsWarm(k)' <=> IsWarm(k)
    BY <2>1 DEF IsWarm
  <2>3. PushWarm'
    BY <2>1, <1>w DEF PushWarm, IsWarm
  <2>4. QED
    BY <2>1, <2>2, <2>3, <1>t, <1>w, ChainWarmKept
<1>13. CASE NoLib
  BY <1>13, NoLibInv
<1>14. QED
  BY <1>1, <1>2, <1>3, <1>4, <1>5, <1>6, <1>7, <1>8, <1>9, <1>10, <1>11, <1>12, <1>13
  DEF Next, Drive, Execute

(***************************************************************************)
(* What a cleanup brought forward by a pause leaves                        *)
(***************************************************************************)
(* The loop may end before it has entered the frame the pc is in; if that    *)
(* costs the chain anything, it costs it the frame at the pc.                *)
LEMMA ExitCuts ==
  ASSUME IInv, WarmInv, Uniform, Exit
  PROVE  IInv' \/ CutInv'
<1>1. /\ at = "exit" /\ EndProcess /\ UNCHANGED <<pc, status, msg, crashes>>
      /\ frame' = [k \in Depths |-> IF k > ExitDepth /\ IsWarm(k) THEN Absent ELSE frame[k]]
  BY DEF Exit
<1>t. /\ frame \in [Depths -> Frames] /\ last \in Nat /\ MaxDepth \in Nat /\ pc.d \in Nat
      /\ last <= MaxDepth
  BY CodeAssumption DEF IInv, TypeOK, Pcs
<1>2. Absent \in Frames
  BY DEF Absent, Frames, Nowhere, Pcs
<1>3. /\ pc' \in Pcs /\ status' \in Statuses /\ msg' \in Messages /\ NoChainError'
      /\ frame' \in [Depths -> Frames] /\ crashes' \in 0 .. MaxCrashes
  BY <1>1, <1>t, <1>2 DEF IInv, TypeOK, NoChainError
<1>4. CASE ~ Running
  <2>1. StackInv'
    BY <1>1, <1>4 DEF StackInv, Running
  <2>2. QED
    BY <1>1, <1>3, <2>1, EndInv DEF IInv
<1>5. CASE Running /\ \A k \in Depths : k <= pc.d => ~ (k > ExitDepth /\ IsWarm(k))
  <2>1. \A k \in Depths : k <= pc.d => frame'[k] = frame[k]
    BY <1>1, <1>5
  <2>2. StackInv'
    BY <2>1, <1>1, KeepStack DEF IInv, Running
  <2>3. QED
    BY <1>1, <1>3, <2>2, EndInv DEF IInv
<1>6. CASE Running /\ \E k \in Depths : k <= pc.d /\ k > ExitDepth /\ IsWarm(k)
  <2>1. PICK k \in Depths : k <= pc.d /\ k > ExitDepth /\ IsWarm(k)
    BY <1>6
  <2>2. /\ k \in Nat /\ ExitDepth \in Nat /\ ExitDepth >= 1 /\ last <= ExitDepth
        /\ pc.d \in Depths /\ pc.d <= MaxDepth + 1
    BY <2>1, <1>t, <1>6, ChainFacts DEF Depths, ExitDepth
  <2>3. Parkable = Funcs
    BY <2>1 DEF Uniform, IInv, ParkInv
  <2>4. k <= MaxDepth
    BY <2>1 DEF IInv, ParkInv, ParkCoherent
  <2>5. last < MaxDepth
    BY <2>1, <2>2, <2>4, <1>t
  <2>6. IsWarm(pc.d)
    <3>1. CASE k = pc.d
      BY <2>1, <3>1
    <3>2. CASE k < pc.d
      BY <3>2, <1>6, <2>1, <2>2, <2>3, <2>5, <1>t DEF WarmInv
    <3>3. QED
      BY <3>1, <3>2, <2>1, <2>2, <1>t
  <2>7. pc.d \in 2 .. MaxDepth /\ frame'[pc.d] = Absent
    BY <2>1, <2>2, <2>6, <1>1, <1>t DEF IInv, ParkInv, ParkCoherent
  <2>8. TypeOK'
    BY <1>1, <1>3, CodeAssumption
    DEF EndProcess, TypeOK, Phases, Pcs, Nowhere, Cold, Parks, Depths
  <2>9. QED
    BY <1>1, <2>7, <2>8 DEF CutInv, EndProcess
<1>7. QED
  BY <1>4, <1>5, <1>6

(* Nobody can enter a frame that is gone: the next process to run the vthread *)
(* reports it, or is paused before it looks.                                  *)
LEMMA CutStep ==
  ASSUME CutInv, [Next]_vars
  PROVE  CutInv' /\ (~ Running => status' = status)
<1>1. /\ TypeOK /\ at \in {"idle", "fetch", "exit"}
      /\ last = 0 /\ ctx = [k \in Depths |-> None] /\ park = [k \in Depths |-> Cold]
      /\ Running => pc.d \in 2 .. MaxDepth /\ frame[pc.d] = Absent
      /\ MaxDepth \in Nat
  BY CodeAssumption DEF CutInv
<1>2. Running => ~ TooDeep /\ Resolved = None
  <2>1. SUFFICES ASSUME Running PROVE ~ TooDeep /\ Resolved = None
    OBVIOUS
  <2>2. pc.d \in Nat /\ pc.d >= 2 /\ pc.d <= MaxDepth /\ pc.d \in Depths
    BY <1>1, <2>1 DEF Depths
  <2>3. park[pc.d].f = None /\ frame[pc.d].lib = None
    BY <1>1, <2>1, <2>2 DEF Cold, Absent
  <2>4. QED
    BY <1>1, <2>2, <2>3 DEF TooDeep, Resolved, IsWarm
<1>3. Gate => Running
  BY DEF Gate, Running, Live, Terminal
<1>4. CASE Start \/ Stop
  <2>1. /\ at' \in {"fetch", "exit"}
        /\ UNCHANGED <<pc, status, msg, frame, cur, known, last, ctx, park, next, nstat, crashes>>
    BY <1>4 DEF Start, Stop, kvvars
  <2>2. TypeOK'
    BY <1>1, <2>1 DEF TypeOK, Phases
  <2>3. QED
    BY <1>1, <2>1, <2>2 DEF CutInv, Running
<1>5. CASE NoLib
  <2>1. /\ at' = "exit" /\ status' = "error" /\ msg' = "noLib" /\ Running
        /\ UNCHANGED <<pc, frame, cur, known, last, ctx, park, next, nstat, crashes>>
    BY <1>3, <1>5 DEF NoLib, Raise, SetError
  <2>2. TypeOK'
    BY <1>1, <2>1 DEF TypeOK, Phases, Statuses, Terminal, Messages, ChainErrors
  <2>3. QED
    BY <1>1, <2>1, <2>2 DEF CutInv, Running, Terminal
<1>6. CASE Overflow \/ Fetch
  BY <1>2, <1>3, <1>6 DEF Overflow, Fetch
<1>7. CASE Execute \/ Yield \/ HostGate \/ Dispatch \/ DispatchFails \/ Advance
  BY <1>1, <1>7 DEF Execute, Native, Jump, SetStatus, OpFails, CallReuse, CallBuild,
     WriteReturnPc, WriteLib, BindArgs, CallFails, Return, Done, DropFrame, WritePc,
     WriteStatus, Yield, HostGate, Dispatch, DispatchFails, Advance
<1>8. CASE Exit \/ Crash
  <2>1. \A k \in Depths : ~ IsWarm(k)
    BY <1>1 DEF IsWarm, Cold
  <2>2. frame' = frame
    <3>1. CASE Exit
      <4>1. frame' = [k \in Depths |-> frame[k]]
        BY <2>1, <3>1 DEF Exit
      <4>2. QED
        BY <4>1, <1>1 DEF TypeOK
    <3>2. CASE Crash
      BY <3>2 DEF Crash, kvvars
    <3>3. QED
      BY <1>8, <3>1, <3>2
  <2>3. EndProcess /\ UNCHANGED <<pc, status, msg>> /\ crashes' \in 0 .. MaxCrashes
    BY <1>1, <1>8, CodeAssumption DEF Exit, Crash, kvvars, TypeOK
  <2>4. TypeOK'
    BY <1>1, <2>2, <2>3, CodeAssumption
    DEF TypeOK, EndProcess, Phases, Pcs, Nowhere, Cold, Parks, Depths
  <2>5. QED
    BY <1>1, <2>2, <2>3, <2>4 DEF CutInv, EndProcess, Running
<1>9. CASE Pause \/ Resume \/ UNCHANGED vars
  <2>1. UNCHANGED <<pc, msg, frame, at, cur, known, last, ctx, park, next, nstat, crashes>>
    BY <1>9 DEF Pause, Resume, vars, kvvars, procvars
  <2>2. \/ status' = status
        \/ Running /\ Running' /\ status' \in {"paused", "running"}
    BY <1>9 DEF Pause, Resume, vars, kvvars, Running, Terminal, Live
  <2>3. TypeOK'
    BY <1>1, <2>1, <2>2 DEF TypeOK, Statuses, Live
  <2>4. Running' => Running
    BY <2>2 DEF Running
  <2>5. QED
    BY <1>1, <2>1, <2>2, <2>3, <2>4 DEF CutInv
<1>10. QED
  BY <1>4, <1>5, <1>6, <1>7, <1>8, <1>9 DEF Next, Drive

(* Nothing is warm and no instruction is under way on a chain cut short. *)
LEMMA CutQuiet ==
  ASSUME CutInv
  PROVE  WarmInv /\ GoalInv
<1>1. at # "goto" /\ \A k \in Depths : ~ IsWarm(k)
  BY DEF CutInv, IsWarm, Cold
<1>2. QED
  BY <1>1 DEF WarmInv, GoalInv

(* Every step leaves the chain intact, or cut at the pc. *)
LEMMA UStep ==
  ASSUME UInv, Uniform, [Next]_vars
  PROVE  UInv'
<1>1. CASE IInv
  <2>1. WarmInv /\ GoalInv
    BY DEF UInv
  <2>2. WarmInv' /\ GoalInv'
    BY <1>1, <2>1, WarmStep, GoalStep
  <2>3. CASE Exit
    BY <1>1, <2>1, <2>2, <2>3, ExitCuts DEF UInv
  <2>4. CASE ~ Exit
    BY <1>1, <2>2, <2>4, NextInv DEF UInv
  <2>5. QED
    BY <2>3, <2>4
<1>2. CASE CutInv
  <2>1. CutInv'
    BY <1>2, CutStep
  <2>2. WarmInv' /\ GoalInv'
    <3>1. at' # "goto" /\ \A k \in Depths : ~ IsWarm(k)'
      BY <2>1 DEF CutInv, IsWarm, Cold
    <3>2. QED
      BY <3>1 DEF WarmInv, GoalInv
  <2>3. QED
    BY <2>1, <2>2 DEF UInv
<1>3. QED
  BY <1>1, <1>2 DEF UInv

(* With a debugger or without one: the chain is intact, or only the frame at *)
(* the pc is known to be gone and the vthread is not being executed.         *)
THEOREM IntactOrCut ==
  ASSUME Uniform
  PROVE  Spec => []UInv
<1>1. Init => UInv
  <2>1. SUFFICES ASSUME Init PROVE UInv
    OBVIOUS
  <2>2. IInv
    BY <2>1, InitInv
  <2>3. at = "idle" /\ \A k \in Depths : ~ IsWarm(k)
    BY <2>1 DEF Init, NoProcess, IsWarm, Cold
  <2>4. QED
    BY <2>2, <2>3 DEF UInv, WarmInv, GoalInv
<1>2. UInv /\ [Next]_vars => UInv'
  BY UStep
<1>3. QED
  BY <1>1, <1>2, PTL DEF Spec

(***************************************************************************)
(* Theorems                                                                *)
(***************************************************************************)
(* Every variable keeps its type. *)
THEOREM TypeCorrect ==
  ASSUME Uniform
  PROVE  Spec => []TypeOK
<1>1. UInv => TypeOK
  BY DEF UInv, IInv, CutInv
<1>2. QED
  BY <1>1, IntactOrCut, PTL

(* switch_frame_ctx always resolves to the function the tree names. *)
THEOREM FramesLibIsRun ==
  ASSUME Uniform
  PROVE  Spec => []RunsFramesLib
<1>1. UInv => RunsFramesLib
  BY DEF UInv, IInv, CutInv, ExecInv, RunsFramesLib
<1>2. QED
  BY <1>1, IntactOrCut, PTL

(* A parked frame's entry in memory and its frame in the tree agree. *)
THEOREM ParksAlwaysCoherent ==
  ASSUME Uniform
  PROVE  Spec => []ParkCoherent
<1>1. CutInv => ParkCoherent
  BY DEF CutInv, ParkCoherent, IsWarm, Cold
<1>2. UInv => ParkCoherent
  BY <1>1 DEF UInv, IInv, ParkInv
<1>3. QED
  BY <1>2, IntactOrCut, PTL

(* Whenever a debugger pauses and resumes the vthread: what is executed is at *)
(* the top of a chain of calls that are all there.                            *)
THEOREM RunsAlwaysOnIntactChain ==
  ASSUME Uniform
  PROVE  Spec => []RunsOnIntactChain
<1>1. UInv => RunsOnIntactChain
  BY DEF UInv, IInv, CutInv, ExecInv, StackInv, LinkedUp, RunsOnIntactChain
<1>2. QED
  BY <1>1, IntactOrCut, PTL

(* The cleanup at the end of the loop, where it deletes nothing of the chain. *)
LEMMA ExitKept ==
  ASSUME IInv, Exit, Running, \A k \in 1 .. pc.d : frame'[k] = frame[k]
  PROVE  UNCHANGED <<AbsStack, AbsOutcome>>
<1>1. pc' = pc /\ status' = status /\ Running'
  BY DEF Exit, Running
<1>2. pc.d \in Nat
  BY ChainFacts
<1>3. \A k \in 1 .. pc.d : k # pc.d => k + 1 \in 1 .. pc.d
  BY <1>2
<1>4. \A k \in 1 .. pc.d : k # pc.d => frame'[k + 1].ret = frame[k + 1].ret
  BY <1>3
<1>5. AbsStack' = AbsStack
  BY <1>1, <1>4 DEF AbsStack
<1>6. QED
  BY <1>1, <1>5 DEF AbsOutcome

(* What is not a step of CallStack is a cleanup after a pause. *)
LEMMA DamageStep ==
  ASSUME UInv, Uniform, [Next]_vars, ChainIntact
  PROVE  \/ Abs!Next
         \/ UNCHANGED <<AbsStack, AbsOutcome>>
         \/ at = "exit" /\ pc.d > last /\ ~ ChainIntact'
<1>1. CASE CutInv
  <2>1. ~ Running
    <3>1. SUFFICES ASSUME Running PROVE FALSE
      OBVIOUS
    <3>2. pc.d \in 2 .. MaxDepth /\ frame[pc.d].lib = None /\ MaxDepth \in Nat
      BY <1>1, <3>1, CodeAssumption DEF CutInv, Absent
    <3>3. pc.d \in 1 .. pc.d
      BY <3>2
    <3>4. QED
      BY <3>1, <3>2, <3>3, CodeAssumption DEF ChainIntact, Linked
  <2>2. status' = status
    BY <1>1, <2>1, CutStep
  <2>3. QED
    BY <2>1, <2>2, HaltedKept
<1>2. CASE IInv /\ ~ Exit
  BY <1>2, StepRefined DEF UInv
<1>3. CASE IInv /\ Exit
  <2>1. /\ at = "exit" /\ pc' = pc /\ status' = status
        /\ frame' = [k \in Depths |-> IF k > ExitDepth /\ IsWarm(k) THEN Absent ELSE frame[k]]
    BY <1>3 DEF Exit
  <2>2. CASE ~ Running
    BY <2>1, <2>2, HaltedKept
  <2>3. CASE Running
    <3>1. /\ pc.d \in Nat /\ pc.d >= 1 /\ last \in Nat
          /\ \A k \in 1 .. pc.d : k \in Depths
      BY <1>3, <2>3, ChainFacts, CodeAssumption DEF Depths, IInv, TypeOK
    <3>2. CASE pc.d <= last
      <4>1. \A k \in 1 .. pc.d : frame'[k] = frame[k]
        BY <2>1, <3>1, <3>2 DEF ExitDepth
      <4>2. QED
        BY <1>3, <2>3, <4>1, ExitKept
    <3>3. CASE ChainIntact'
      <4>1. Running'
        BY <2>1, <2>3 DEF Running
      <4>2. \A k \in 1 .. pc.d : frame'[k].lib \in Funcs
        BY <2>1, <3>3, <4>1 DEF ChainIntact, Linked
      <4>3. \A k \in 1 .. pc.d : frame'[k] # Absent
        BY <4>2, CodeAssumption DEF Absent
      <4>4. \A k \in 1 .. pc.d : frame'[k] = frame[k]
        BY <2>1, <3>1, <4>3
      <4>5. QED
        BY <1>3, <2>3, <4>4, ExitKept
    <3>4. CASE pc.d > last /\ ~ ChainIntact'
      BY <2>1, <3>4
    <3>5. QED
      BY <3>1, <3>2, <3>3, <3>4
  <2>4. QED
    BY <2>2, <2>3
<1>4. QED
  BY <1>1, <1>2, <1>3 DEF UInv

(* A debugger can cost a vthread a frame in one way only: the loop it has     *)
(* stopped cleans up a frame it had not yet entered (kvcpu.c's loop exit).    *)
(* Every other step on an intact chain is one of the call stack's.            *)
THEOREM OnlyCutShortAlwaysDamages ==
  ASSUME Uniform
  PROVE  Spec => OnlyCutShortDamages
<1>1. UInv /\ [Next]_vars =>
        [ChainIntact => \/ Abs!Next
                        \/ UNCHANGED <<AbsStack, AbsOutcome>>
                        \/ at = "exit" /\ pc.d > last /\ ~ ChainIntact']_vars
  BY DamageStep
<1>2. QED
  BY <1>1, IntactOrCut, PTL DEF Spec, OnlyCutShortDamages
===============================================================================
