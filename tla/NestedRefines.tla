----------------------------- MODULE NestedRefines -----------------------------
(***************************************************************************)
(* Each vthread of a thread that runs several is a call stack of its own,  *)
(* as if it ran alone: creating and running others is a native instruction *)
(* to it, and what the others do to the shared parked frames is nothing.   *)
(***************************************************************************)
EXTENDS NestedProofs

Entries == [fn : Funcs, i : Nat]

Entry(v, k) == [fn |-> frame[v][k].lib,
                i  |-> IF k = pc[v].d THEN pc[v].i ELSE frame[v][k + 1].ret]

(* The same behind the step. *)
Later(v, k) == [fn |-> frame'[v][k].lib,
                i  |-> IF k = pc'[v].d THEN pc'[v].i ELSE frame'[v][k + 1].ret]

(* The row the call stack sees where the interpreter sees a row. *)
Seen(row) == IF row.op \in {"create", "run"} THEN [row EXCEPT !.op = "native"] ELSE row

(* CallStack sees the rows of Nested. *)
LEMMA SeenRow ==
  ASSUME NEW f \in Funcs, NEW i, HasRow(f, i)
  PROVE  AbsCode[f][i] = Seen(Code[f][i])
BY DEF AbsCode, Seen, HasRow

(* What CallStack sees of a row. *)
LEMMA SeenFacts ==
  ASSUME NEW row \in Rows
  PROVE  /\ Seen(row).fn = row.fn
         /\ Seen(row).op = IF row.op \in {"create", "run"} THEN "native" ELSE row.op
BY DEF Seen, Rows

(* The frames up to the pc are a stack with the running instruction on top. *)
LEMMA StackFacts ==
  ASSUME IInv, NEW v \in Vids, Unfinished(v)
  PROVE  /\ AbsStack(v) \in Seq(Entries) /\ Len(AbsStack(v)) = pc[v].d
         /\ \A k \in 1 .. pc[v].d : AbsStack(v)[k] = Entry(v, k)
         /\ AbsOutcome(v) = "live" /\ Stack(v)!Live
         /\ Stack(v)!Here = [fn |-> frame[v][pc[v].d].lib, i |-> pc[v].i]
         /\ Stack(v)!Row = Seen(Code[frame[v][pc[v].d].lib][pc[v].i])
<1>1. /\ pc[v].d \in Nat /\ pc[v].i \in Nat /\ pc[v].d >= 1 /\ pc[v].d <= MaxDepth + 1
      /\ pc[v].d \in 1 .. pc[v].d
      /\ \A k \in 1 .. pc[v].d : k \in Depths /\ frame[v][k].lib \in Funcs
      /\ HasRow(frame[v][pc[v].d].lib, pc[v].i)
  BY ChainFacts DEF Linked
<1>2. AbsStack(v) = [k \in 1 .. pc[v].d |-> Entry(v, k)]
  BY DEF AbsStack, Entry
<1>3. ASSUME NEW k \in 1 .. pc[v].d PROVE Entry(v, k) \in Entries
  <2>1. CASE k = pc[v].d
    BY <1>1, <2>1 DEF Entry, Entries
  <2>2. CASE k # pc[v].d
    <3>1. k + 1 \in Depths
      BY <1>1, <1>3, <2>2, NestedAssumption DEF Depths
    <3>2. frame[v][k + 1].ret \in Nat
      BY <3>1 DEF IInv, TypeOK, Frames
    <3>3. QED
      BY <1>1, <2>2, <3>2 DEF Entry, Entries
  <2>3. QED
    BY <2>1, <2>2
<1>4. AbsStack(v) \in [1 .. pc[v].d -> Entries]
  BY <1>2, <1>3
<1>5. AbsStack(v) \in Seq(Entries) /\ Len(AbsStack(v)) = pc[v].d
  BY <1>1, <1>4, LenProperties
<1>6. \A k \in 1 .. pc[v].d : AbsStack(v)[k] = Entry(v, k)
  BY <1>2
<1>7. AbsOutcome(v) = "live" /\ Stack(v)!Live
  BY DEF AbsOutcome, Stack!Live
<1>8. Stack(v)!Here = [fn |-> frame[v][pc[v].d].lib, i |-> pc[v].i]
  BY <1>1, <1>5, <1>6 DEF Stack!Here, Entry
<1>9. Stack(v)!Row = Seen(Code[frame[v][pc[v].d].lib][pc[v].i])
  BY <1>1, <1>8, SeenRow DEF Stack!Row
<1>10. QED
  BY <1>5, <1>6, <1>7, <1>8, <1>9

(* The stack behind a step a vthread survives. *)
LEMMA StackLater ==
  ASSUME NEW v \in Vids, Unfinished(v), Unfinished(v)'
  PROVE  /\ AbsStack(v)' = [k \in 1 .. pc'[v].d |-> Later(v, k)]
         /\ AbsOutcome(v)' = AbsOutcome(v)
BY DEF AbsStack, AbsOutcome, Later

(* The frames such a step leaves alone. *)
LEMMA FramesLater ==
  ASSUME IInv, [Next]_vars, NEW v \in Vids, Unfinished(v), Unfinished(v)',
         NEW m \in Nat, m <= pc[v].d, m <= pc'[v].d, NEW k \in 1 .. m
  PROVE  frame'[v][k] = frame[v][k]
<1>1. pc[v].d \in Nat /\ pc'[v].d \in Nat
  BY ChainFacts, TypeStep, NestedAssumption DEF TypeOK, Unfinished, Depths
<1>2. k \in 1 .. pc[v].d /\ k <= pc[v].d /\ k <= pc'[v].d
  BY <1>1
<1>3. k \in Depths
  BY <1>2, ChainFacts
<1>4. QED
  BY <1>2, <1>3, KeptStep

(* A step that moves no pc leaves the stack as it is. *)
LEMMA StackKept ==
  ASSUME IInv, [Next]_vars, NEW v \in Vids, Unfinished(v), Unfinished(v)', pc'[v] = pc[v]
  PROVE  UNCHANGED <<AbsStack(v), AbsOutcome(v)>>
<1>1. pc[v].d \in Nat
  BY ChainFacts
<1>2. \A k \in 1 .. pc[v].d : frame'[v][k] = frame[v][k]
  BY <1>1, FramesLater
<1>3. \A k \in 1 .. pc[v].d : Later(v, k) = Entry(v, k)
  <2>1. SUFFICES ASSUME NEW k \in 1 .. pc[v].d PROVE Later(v, k) = Entry(v, k)
    OBVIOUS
  <2>2. k # pc[v].d => k + 1 \in 1 .. pc[v].d
    BY <1>1
  <2>3. QED
    BY <1>2, <2>2 DEF Later, Entry
<1>4. AbsStack(v) = [k \in 1 .. pc[v].d |-> Entry(v, k)]
  BY DEF AbsStack, Entry
<1>5. AbsStack(v)' = AbsStack(v)
  BY <1>3, <1>4, StackLater
<1>6. QED
  BY <1>5, StackLater

(* The parts of a pc. *)
LEMMA PcParts ==
  ASSUME NEW d, NEW i
  PROVE  At(d, i).d = d /\ At(d, i).i = i
BY DEF At

(* The row of an entry. *)
LEMMA EntryRow ==
  ASSUME NEW f, NEW i
  PROVE  [fn |-> f, i |-> i].i = i
OBVIOUS

(* An entry moves to another row. *)
LEMMA EntryMoves ==
  ASSUME NEW f, NEW i, NEW j
  PROVE  [[fn |-> f, i |-> i] EXCEPT !.i = j] = [fn |-> f, i |-> j]
OBVIOUS

(* The next pc is in the same frame: the top of the stack moves. *)
LEMMA MoveRefined ==
  ASSUME IInv, [Next]_vars, NEW v \in Vids, Unfinished(v), Unfinished(v)',
         pc[v].d <= MaxDepth, pc'[v] = At(pc[v].d, pc[v].i + 1),
         Code[frame[v][pc[v].d].lib][pc[v].i].op \in {"native", "status", "host", "create", "run"}
  PROVE  Stack(v)!Next
<1>1. PICK d \in Nat, i \in Nat : d = pc[v].d /\ i = pc[v].i
  BY ChainFacts
<1>2. d \in 1 .. d /\ pc'[v].d = d /\ pc'[v].i = i + 1
  <2>1. d >= 1
    BY <1>1, ChainFacts
  <2>2. d \in 1 .. d
    BY <2>1
  <2>3. pc'[v] = At(d, i + 1)
    BY <1>1
  <2>4. QED
    BY <2>2, <2>3, PcParts
<1>3. \A k \in 1 .. d : frame'[v][k] = frame[v][k]
  BY <1>1, <1>2, FramesLater
<1>4. /\ AbsStack(v) \in Seq(Entries) /\ Len(AbsStack(v)) = d
      /\ \A k \in 1 .. d : AbsStack(v)[k] = Entry(v, k)
      /\ Stack(v)!Live /\ Stack(v)!Here = [fn |-> frame[v][d].lib, i |-> i]
      /\ Stack(v)!Row = Seen(Code[frame[v][d].lib][i])
  BY <1>1, StackFacts
<1>5. AbsStack(v)' = [k \in 1 .. d |-> Later(v, k)] /\ AbsOutcome(v)' = AbsOutcome(v)
  BY <1>2, StackLater
<1>6. AbsStack(v) = [k \in 1 .. d |-> AbsStack(v)[k]]
  BY <1>4, LenProperties
<1>7. ASSUME NEW k \in 1 .. d, k # d PROVE Later(v, k) = AbsStack(v)[k]
  <2>1. k + 1 \in 1 .. d
    BY <1>7
  <2>2. QED
    BY <1>1, <1>2, <1>3, <1>4, <1>7, <2>1 DEF Later, Entry
<1>8. Later(v, d) = [AbsStack(v)[d] EXCEPT !.i = i + 1]
  <2>1. AbsStack(v)[d] = [fn |-> frame[v][d].lib, i |-> i]
    BY <1>1, <1>2, <1>4 DEF Entry
  <2>2. Later(v, d) = [fn |-> frame[v][d].lib, i |-> i + 1]
    BY <1>2, <1>3 DEF Later
  <2>3. [[fn |-> frame[v][d].lib, i |-> i] EXCEPT !.i = i + 1]
          = [fn |-> frame[v][d].lib, i |-> i + 1]
    BY EntryMoves
  <2>4. QED
    BY <2>1, <2>2, <2>3
<1>9. AbsStack(v)' = [AbsStack(v) EXCEPT ![d] = [AbsStack(v)[d] EXCEPT !.i = i + 1]]
  BY <1>5, <1>6, <1>7, <1>8
<1>10. Stack(v)!GoTo(Stack(v)!Here.i + 1)
  <2>1. /\ Stack(v)!Here.i = i /\ Len(AbsStack(v)) = d
        /\ AbsStack(v)' = [AbsStack(v) EXCEPT ![d] = [AbsStack(v)[d] EXCEPT !.i = i + 1]]
    <3>1. Stack(v)!Here.i = i
      <4>1. [fn |-> frame[v][d].lib, i |-> i].i = i
        BY EntryRow
      <4>2. QED
        BY <1>4, <4>1
    <3>2. QED
      BY <1>4, <1>9, <3>1
  <2>2. QED
    BY <2>1 DEF Stack!GoTo
<1>11. Stack(v)!Row.op \in {"native", "status", "host"}
  <2>1. Code[frame[v][d].lib][i] \in Rows
    BY <1>1, ChainFacts
  <2>2. QED
    BY <1>1, <1>4, <2>1, SeenFacts
<1>12. Stack(v)!Move
  <2>1. Len(AbsStack(v)) <= MaxDepth
    BY <1>1, <1>4
  <2>2. QED
    BY <1>4, <1>5, <1>10, <1>11, <2>1 DEF Stack!Move
<1>13. QED
  BY <1>12 DEF Stack!Next

(* A call: a frame is pushed. *)
LEMMA PushRefined ==
  ASSUME IInv, Call, NEW v \in Vids, v = Me, Unfinished(v)'
  PROVE  Stack(v)!Next
<1>1. PICK d \in Nat, i \in Nat, row \in Rows : d = pc[v].d /\ i = pc[v].i /\ row = Row
  <2>1. Unfinished(v)
    BY CallFacts, ExecFacts
  <2>2. Row \in Rows
    BY CallFacts, ExecFacts
  <2>3. QED
    BY <2>1, <2>2, ChainFacts
<1>2. /\ InExec /\ Row.op = "call" /\ Row.fn \in Funcs
      /\ frame'[Me][CalleeD] = [lib |-> Row.fn, ret |-> Here.i + 1]
  BY CallFacts
<1>3. /\ Unfinished(v) /\ d <= MaxDepth /\ CalleeD = d + 1 /\ row \in Rows
      /\ row = Code[frame[v][d].lib][i] /\ d >= 1
  BY <1>1, <1>2, ExecFacts DEF Here
<1>4. pc'[v].d = d + 1 /\ pc'[v].i = 1
  BY <1>3 DEF Call, At, IInv, TypeOK
<1>5. frame'[v][d + 1].lib = row.fn /\ frame'[v][d + 1].ret = i + 1 /\ row.fn \in Funcs
      /\ row.op = "call"
  <2>1. Me = v /\ Here.i = i /\ Row = row /\ CalleeD = d + 1
    BY <1>1, <1>3 DEF Here
  <2>2. QED
    BY <1>2, <2>1
<1>6. \A k \in 1 .. d : frame'[v][k] = frame[v][k]
  <2>1. [Next]_vars /\ d <= pc[v].d /\ d <= pc'[v].d
    BY <1>1, <1>4 DEF Next, Drive
  <2>2. QED
    BY <1>3, <2>1, FramesLater
<1>7. /\ AbsStack(v) \in Seq(Entries) /\ Len(AbsStack(v)) = d
      /\ \A k \in 1 .. d : AbsStack(v)[k] = Entry(v, k)
      /\ Stack(v)!Live /\ Stack(v)!Here = [fn |-> frame[v][d].lib, i |-> i]
      /\ Stack(v)!Row = Seen(row)
  BY <1>1, <1>3, StackFacts
<1>8. AbsStack(v)' = [k \in 1 .. d + 1 |-> Later(v, k)] /\ AbsOutcome(v)' = AbsOutcome(v)
  BY <1>3, <1>4, StackLater
<1>9. ASSUME NEW k \in 1 .. d, k # d PROVE Later(v, k) = AbsStack(v)[k]
  <2>1. k + 1 \in 1 .. d /\ k # d + 1
    BY <1>9
  <2>2. QED
    BY <1>1, <1>4, <1>6, <1>7, <1>9, <2>1 DEF Later, Entry
<1> DEFINE marked == [AbsStack(v) EXCEPT ![d].i = i + 1]
           top == [fn |-> row.fn, i |-> 1]
<1>10. d \in 1 .. d
  BY <1>3
<1>11. Later(v, d) = [AbsStack(v)[d] EXCEPT !.i = i + 1]
  BY <1>1, <1>4, <1>5, <1>6, <1>7, <1>10 DEF Later, Entry
<1>12. Later(v, d + 1) = top
  BY <1>4, <1>5 DEF Later
<1>13. marked \in Seq(Entries) /\ Len(marked) = d
  <2>1. AbsStack(v)[d] \in Entries
    BY <1>7, <1>10, LenProperties
  <2>2. [AbsStack(v)[d] EXCEPT !.i = i + 1] \in Entries
    BY <2>1 DEF Entries
  <2>3. QED
    BY <1>7, <1>10, <2>2, ExceptSeq
<1>14. top \in Entries
  BY <1>5 DEF Entries
<1>15. \A k \in 1 .. d : marked[k] = Later(v, k)
  BY <1>7, <1>9, <1>11, LenProperties
<1>16. AbsStack(v)' = Append(marked, top)
  <2> HIDE DEF marked, top
  <2>1. /\ Append(marked, top) \in Seq(Entries)
        /\ Len(Append(marked, top)) = d + 1
        /\ \A k \in 1 .. d : Append(marked, top)[k] = marked[k]
        /\ Append(marked, top)[d + 1] = top
    BY <1>13, <1>14, AppendProperties
  <2>2. ASSUME NEW k \in 1 .. d + 1 PROVE Later(v, k) \in Entries /\ Later(v, k) = Append(marked, top)[k]
    <3>1. CASE k = d + 1
      BY <3>1, <1>12, <1>14, <2>1
    <3>2. CASE k # d + 1
      <4>1. k \in 1 .. d
        BY <3>2
      <4>2. marked[k] \in Entries
        BY <4>1, <1>13, LenProperties
      <4>3. QED
        BY <4>1, <4>2, <1>15, <2>1
    <3>3. QED
      BY <3>1, <3>2
  <2>3. AbsStack(v)' \in Seq(Entries) /\ Len(AbsStack(v)') = d + 1
    <3>1. AbsStack(v)' \in [1 .. d + 1 -> Entries]
      BY <1>8, <2>2
    <3>2. QED
      BY <3>1, LenProperties
  <2>4. \A k \in 1 .. d + 1 : AbsStack(v)'[k] = Append(marked, top)[k]
    BY <1>8, <2>2
  <2>5. QED
    BY <2>1, <2>3, <2>4, SeqEqual
<1>17. Stack(v)!Row.op = "call" /\ Stack(v)!Row.fn = row.fn
  BY <1>3, <1>5, <1>7, SeenFacts
<1>18. Stack(v)!Push
  <2>1. /\ Stack(v)!Live /\ Len(AbsStack(v)) <= MaxDepth /\ Stack(v)!Row.op = "call"
        /\ AbsOutcome(v)' = AbsOutcome(v)
    BY <1>3, <1>7, <1>8, <1>17
  <2>2. AbsStack(v)' = Append([AbsStack(v) EXCEPT ![Len(AbsStack(v))].i = Stack(v)!Here.i + 1],
                              [fn |-> Stack(v)!Row.fn, i |-> 1])
    BY <1>7, <1>16, <1>17
  <2>3. QED
    BY <2>1, <2>2 DEF Stack!Push
<1>19. QED
  BY <1>18 DEF Stack!Next

(* A return: the top frame is popped. *)
LEMMA PopRefined ==
  ASSUME IInv, Return, NEW v \in Vids, v = Me, Unfinished(v)'
  PROVE  Stack(v)!Next
<1>1. /\ InExec /\ Row.op = "return" /\ Here.d > 1
      /\ ReturnTo = frame[Me][Here.d].ret
      /\ pc'[Me] = At(Here.d - 1, ReturnTo)
  BY ReturnFacts
<1>2. PICK d \in Nat, i \in Nat, row \in Rows : d = pc[v].d /\ i = pc[v].i /\ row = Row
  <2>1. Unfinished(v)
    BY <1>1, ExecFacts
  <2>2. Row \in Rows
    BY <1>1, ExecFacts
  <2>3. QED
    BY <2>1, <2>2, ChainFacts
<1>3. /\ Unfinished(v) /\ d <= MaxDepth /\ d > 1 /\ row \in Rows /\ row.op = "return"
      /\ row = Code[frame[v][d].lib][i]
  BY <1>1, <1>2, ExecFacts DEF Here
<1>4. pc'[v].d = d - 1 /\ pc'[v].i = frame[v][d].ret
  BY <1>1, <1>2 DEF Here, At
<1>5. d - 1 \in Nat /\ \A k \in 1 .. d - 1 : frame'[v][k] = frame[v][k]
  <2>1. [Next]_vars /\ d - 1 \in Nat /\ d - 1 <= pc[v].d /\ d - 1 <= pc'[v].d
    BY <1>2, <1>3, <1>4 DEF Next, Drive
  <2>2. QED
    BY <1>3, <2>1, FramesLater
<1>6. /\ AbsStack(v) \in Seq(Entries) /\ Len(AbsStack(v)) = d
      /\ \A k \in 1 .. d : AbsStack(v)[k] = Entry(v, k)
      /\ Stack(v)!Live /\ Stack(v)!Row = Seen(row)
  BY <1>2, <1>3, StackFacts
<1>7. AbsStack(v)' = [k \in 1 .. d - 1 |-> Later(v, k)] /\ AbsOutcome(v)' = AbsOutcome(v)
  BY <1>3, <1>4, StackLater
<1>8. ASSUME NEW k \in 1 .. d - 1 PROVE Later(v, k) = AbsStack(v)[k]
  <2>1. frame'[v][k] = frame[v][k] /\ k \in 1 .. d /\ k # d
    BY <1>3, <1>5, <1>8
  <2>2. CASE k = d - 1
    <3>1. k + 1 = d
      BY <1>3, <2>2
    <3>2. QED
      BY <1>2, <1>4, <1>6, <2>1, <2>2, <3>1 DEF Later, Entry
  <2>3. CASE k # d - 1
    <3>1. k + 1 \in 1 .. d - 1
      BY <1>3, <1>8, <2>3
    <3>2. frame'[v][k + 1] = frame[v][k + 1]
      BY <1>5, <3>1
    <3>3. QED
      BY <1>2, <1>4, <1>6, <2>1, <2>3, <3>2 DEF Later, Entry
  <2>4. QED
    BY <2>2, <2>3
<1>9. AbsStack(v)' = SubSeq(AbsStack(v), 1, Len(AbsStack(v)) - 1)
  BY <1>3, <1>6, <1>7, <1>8
<1>10. Stack(v)!Row.op = "return"
  BY <1>3, <1>6, SeenFacts
<1>11. Stack(v)!Pop
  <2>1. Len(AbsStack(v)) \in 2 .. MaxDepth
    BY <1>3, <1>6, NestedAssumption
  <2>2. QED
    BY <1>6, <1>7, <1>9, <1>10, <2>1 DEF Stack!Pop
<1>12. QED
  BY <1>11 DEF Stack!Next

(* The vthread ends. *)
LEMMA EndRefined ==
  ASSUME IInv, NEW v \in Vids, Unfinished(v), ~ Unfinished(v)',
         NEW op, op = Code[frame[v][pc[v].d].lib][pc[v].i].op,
         \/ status'[v] = "ok" /\ pc[v].d = 1 /\ op = "return"
         \/ status'[v] = "error" /\ (pc[v].d > MaxDepth \/ op # "return")
  PROVE  Stack(v)!Next
<1>1. /\ Len(AbsStack(v)) = pc[v].d /\ Stack(v)!Live
      /\ Stack(v)!Row = Seen(Code[frame[v][pc[v].d].lib][pc[v].i])
  BY StackFacts
<1>2. op = "return" <=> Stack(v)!Row.op = "return"
  <2>1. Code[frame[v][pc[v].d].lib][pc[v].i] \in Rows
    BY ChainFacts
  <2>2. QED
    BY <1>1, <2>1, SeenFacts
<1>3. AbsStack(v)' = <<>> /\ AbsOutcome(v)' = status'[v]
  BY DEF AbsStack, AbsOutcome
<1>4. Stack(v)!Finish \/ Stack(v)!Abort
  BY <1>1, <1>2, <1>3 DEF Stack!Finish, Stack!Abort
<1>5. QED
  BY <1>4 DEF Stack!Next

(***************************************************************************)
(* The steps                                                               *)
(***************************************************************************)
(* A vthread that still runs behind a step moves on its own stack or not at all. *)
LEMMA SurvivorStep ==
  ASSUME IInv, [Next]_vars, NEW v \in Vids, Unfinished(v), Unfinished(v)'
  PROVE  UNCHANGED <<AbsStack(v), AbsOutcome(v)>> \/ Stack(v)!Next
<1>1. CASE pc'[v] = pc[v]
  BY <1>1, StackKept
<1>2. CASE v = Me /\ (Native \/ SetStatus \/ Continue)
  <2>1. InExec /\ \E st \in {"running", "paused"} : NextPc(st)
    BY <1>2 DEF Native, SetStatus, Continue, Exec, InExec
  <2>2. Row.op \in {"native", "status", "create", "run"}
    BY <1>2 DEF Native, SetStatus, Continue, Exec, IInv, ExecInv
  <2>3. pc'[v] = At(pc[v].d, pc[v].i + 1)
    BY <1>2, <2>1, MoveTo DEF Here
  <2>4. pc[v].d <= MaxDepth /\ Row = Code[frame[v][pc[v].d].lib][pc[v].i]
    BY <1>2, <2>1, ExecFacts DEF Here
  <2>5. QED
    BY <2>2, <2>3, <2>4, MoveRefined
<1>3. CASE v = Me /\ Call
  BY <1>3, PushRefined
<1>4. CASE v = Me /\ Return
  BY <1>4, PopRefined
<1>5. CASE v = host.vid /\ Advance
  <2>1. /\ host.p = pc[v] /\ host.p.d \in 1 .. MaxDepth
        /\ Code[frame[v][pc[v].d].lib][pc[v].i].op = "host"
    BY <1>5, HostFacts DEF Advance
  <2>2. pc'[v] = At(pc[v].d, pc[v].i + 1)
    BY <1>5, <2>1 DEF Advance, Owner, IInv, TypeOK
  <2>3. pc[v].d <= MaxDepth
    BY <2>1, NestedAssumption
  <2>4. QED
    BY <2>1, <2>2, <2>3, MoveRefined
<1>6. QED
  BY <1>1, <1>2, <1>3, <1>4, <1>5, Mover

(* A vthread ends where its entry function returns, or at an instruction that *)
(* may fail, or under a stack that is too deep.                               *)
LEMMA EndStep ==
  ASSUME IInv, [Next]_vars, NEW v \in Vids, Unfinished(v), ~ Unfinished(v)'
  PROVE  Stack(v)!Next
<1>1. PICK op : op = Code[frame[v][pc[v].d].lib][pc[v].i].op
  OBVIOUS
<1>2. /\ pc[v] # Nowhere /\ pc'[v] # Nowhere /\ status \in [Vids -> Statuses]
      /\ status[v] \in Live \cup {"paused"} /\ status'[v] \notin Live \cup {"paused"}
  BY PcStays DEF Unfinished, IInv, TypeOK
<1>3. ASSUME InExec, v = Me PROVE Row.op = op /\ pc[v].d = Here.d
  BY <1>1, <1>3, ExecFacts DEF Here
<1>4. CASE Done
  <2>1. InExec /\ Row.op = "return" /\ Here.d = 1 /\ status' = [status EXCEPT ![Me] = "ok"]
    BY <1>4 DEF Done, Exec, InExec
  <2>2. v = Me /\ status'[v] = "ok"
    BY <1>2, <2>1
  <2>3. QED
    BY <1>1, <1>3, <2>1, <2>2, EndRefined
<1>5. CASE Fails
  <2>1. InLoop /\ status[Me] \in Live /\ status' = [status EXCEPT ![Me] = "error"] /\ Broken
    BY <1>5 DEF Fails, Broken, Exec, InLoop
  <2>2. v = Me /\ status'[v] = "error"
    BY <1>2, <2>1
  <2>3. pc[v].d > MaxDepth \/ op # "return"
    <3>1. CASE at = "loop" /\ ~ Fetchable
      <4>1. ~ (Here.d <= MaxDepth)
        BY <2>2, <3>1, ResolvesToOwn
      <4>2. Here.d \in Nat
        BY <2>2, ChainFacts DEF Here
      <4>3. QED
        BY <2>2, <4>1, <4>2, NestedAssumption DEF Here
    <3>2. CASE Exec("return") /\ Here.d > 1 /\ ReturnTo = 0
      <4>1. InExec
        BY <3>2 DEF Exec, InExec
      <4>2. Here.d \in Depths /\ Here.d \in 1 .. pc[v].d
        BY <2>2, <4>1, ExecFacts DEF Here
      <4>3. frame[v][Here.d].ret > 1
        BY <3>2, <4>2, ChainFacts DEF Linked
      <4>4. ReturnTo = frame[v][Here.d].ret
        <5>1. Mine(Here.d) => frame[v][Here.d] = [lib |-> park[Here.d].f, ret |-> park[Here.d].ret]
          BY <2>2, <4>2 DEF Mine, IInv, ParkInv, Vids, NoVid
        <5>2. QED
          BY <2>2, <5>1 DEF ReturnTo
      <4>5. QED
        BY <3>2, <4>3, <4>4
    <3>3. CASE Exec("run") \/ (at = "exec" /\ Row.op \in {"native", "call"})
      BY <1>3, <2>2, <3>3 DEF Exec, InExec
    <3>4. CASE at = "fail"
      <4>1. InExec /\ Row.op = "create"
        BY <3>4 DEF IInv, ExecInv, InExec
      <4>2. QED
        BY <1>3, <2>2, <4>1
    <3>5. QED
      BY <2>1, <3>1, <3>2, <3>3, <3>4 DEF Broken
  <2>4. QED
    BY <1>1, <2>2, <2>3, EndRefined
<1>6. CASE DispatchFails
  <2>1. /\ host.vid \in Vids /\ host.p = pc[host.vid]
        /\ Code[frame[host.vid][pc[host.vid].d].lib][pc[host.vid].i].op = "host"
    BY <1>6, HostFacts DEF DispatchFails
  <2>2. v = host.vid /\ status'[v] = "error"
    BY <1>2, <1>6 DEF DispatchFails
  <2>3. QED
    BY <1>1, <2>1, <2>2, EndRefined
<1>7. CASE BootFails
  <2>1. v # seq
    BY <1>2, <1>7 DEF BootFails, IInv, SpawnInv, Live
  <2>2. QED
    BY <1>2, <1>7, <2>1 DEF BootFails
<1>8. CASE Native \/ SetStatus \/ Continue \/ Call \/ Return \/ SetInit \/ (\E u \in Vids : Resume(u))
  <2>1. status'[v] \in {status[v], "running", "paused", "init"}
    BY <1>2, <1>8 DEF Native, SetStatus, Continue, NextPc, Call, Return, SetInit, Resume
  <2>2. QED
    BY <1>2, <2>1 DEF Live
<1>9. CASE \/ \E u \in Vids : Start(u)
           \/ Fetch \/ Create \/ Bootstrap \/ Emit \/ Run
           \/ Leave \/ Yield \/ Dispatch \/ Advance \/ Crash \/ UNCHANGED vars
  <2>1. status' = status
    BY <1>9, RunFacts DEF Start, Fetch, Create, Bootstrap, Emit, Leave, Yield, Dispatch, Advance,
       Crash, kvvars, vars
  <2>2. QED
    BY <1>2, <2>1
<1>10. QED
  BY <1>4, <1>5, <1>6, <1>7, <1>8, <1>9 DEF Next, Drive

(* Before a vthread has a pc it can only get one or fail to; behind its end *)
(* nothing happens to it.                                                   *)
LEMMA OtherStep ==
  ASSUME IInv, [Next]_vars, NEW v \in Vids, ~ Unfinished(v)
  PROVE  \/ UNCHANGED <<AbsStack(v), AbsOutcome(v)>>
         \/ AbsOutcome(v) = "none" /\ (AbsOutcome(v)' = "error" \/ Spawned(v)')
<1>1. pc \in [Vids -> LivePcs \cup {Nowhere}] /\ status \in [Vids -> Statuses]
  BY DEF IInv, TypeOK, LivePcs
<1>2. AbsStack(v) = <<>> /\ AbsOutcome(v) = status[v]
  BY DEF AbsStack, AbsOutcome
<1>3. CASE Unfinished(v)'
  <2>1. SetInit /\ v = seq
    BY <1>3, Born
  <2>2. /\ status[v] = "none" /\ pc'[v] = EntryPc /\ frame' = frame /\ frame[v][1].lib \in Funcs
    BY <1>1, <2>1 DEF SetInit, IInv, SpawnInv
  <2>3. pc'[v].d = 1 /\ pc'[v].i = 1
    BY <2>2 DEF EntryPc, At
  <2>4. AbsStack(v)' = [k \in 1 .. 1 |-> Later(v, k)]
    BY <1>3, <2>3 DEF AbsStack, Later
  <2>5. PICK f \in Funcs : f = frame[v][1].lib
    BY <2>2
  <2>6. Later(v, 1) = [fn |-> f, i |-> 1]
    BY <2>2, <2>3, <2>5 DEF Later
  <2>7. AbsStack(v)' = << [fn |-> f, i |-> 1] >>
    BY <2>4, <2>6
  <2>8. QED
    BY <1>2, <2>2, <2>7 DEF Spawned
<1>4. CASE ~ Unfinished(v)'
  <2>1. AbsStack(v)' = <<>> /\ AbsOutcome(v)' = status'[v]
    BY <1>4 DEF AbsStack, AbsOutcome
  <2>2. CASE status'[v] = status[v]
    BY <1>2, <2>1, <2>2
  <2>3. CASE status'[v] # status[v]
    <3>1. ASSUME Unfinished(Me) \/ Unfinished(host.vid), NEW u, u \in {Me, host.vid}, Unfinished(u),
                 NEW st, status' = [status EXCEPT ![u] = st]
          PROVE  FALSE
      BY <1>1, <2>3, <3>1
    <3>2. CASE BootFails
      <4>1. v = seq /\ status'[v] = "error" /\ status[v] = "none"
        BY <1>1, <2>3, <3>2 DEF BootFails, IInv, SpawnInv
      <4>2. QED
        BY <1>2, <2>1, <4>1
    <3>3. CASE SetInit
      <4>1. v = seq
        BY <1>1, <2>3, <3>3 DEF SetInit
      <4>2. Unfinished(v)'
        BY <1>1, <3>3, <4>1 DEF SetInit, Unfinished, EntryPc, At, Nowhere, Live
      <4>3. QED
        BY <1>4, <4>2
    <3>4. CASE Native \/ SetStatus \/ Continue \/ Call \/ Return \/ Done
      <4>1. Unfinished(Me)
        BY <3>4, ExecFacts DEF InExec, Native, SetStatus, Call, Return, Continue, Done, Exec
      <4>2. \E st \in {"running", "paused", "ok"} : status' = [status EXCEPT ![Me] = st]
        BY <3>4 DEF Native, SetStatus, Call, Return, Continue, Done, NextPc
      <4>3. QED
        BY <3>1, <4>1, <4>2
    <3>5. CASE Fails
      <4>1. InLoop /\ status[Me] \in Live /\ status' = [status EXCEPT ![Me] = "error"]
        BY <3>5 DEF Fails, Broken, Exec, InLoop
      <4>2. Unfinished(Me)
        BY <4>1, LoopFacts DEF Unfinished
      <4>3. QED
        BY <3>1, <4>1, <4>2
    <3>6. CASE DispatchFails
      <4>1. Unfinished(host.vid) /\ status' = [status EXCEPT ![host.vid] = "error"]
        BY <3>6, HostFacts DEF DispatchFails
      <4>2. QED
        BY <3>1, <4>1
    <3>7. CASE \E u \in Vids : Resume(u)
      <4>1. status[v] = "paused"
        BY <1>1, <2>3, <3>7 DEF Resume
      <4>2. Unfinished(v)
        BY <4>1 DEF IInv, SpawnInv, Unfinished
      <4>3. QED
        BY <4>2
    <3>8. CASE \/ \E u \in Vids : Start(u)
               \/ Fetch \/ Create \/ Bootstrap \/ Emit \/ Run
               \/ Leave \/ Yield \/ Dispatch \/ Advance \/ Crash \/ UNCHANGED vars
      BY <2>3, <3>8, RunFacts DEF Start, Fetch, Create, Bootstrap, Emit, Leave, Yield, Dispatch,
         Advance, Crash, kvvars, vars
    <3>9. QED
      BY <3>2, <3>3, <3>4, <3>5, <3>6, <3>7, <3>8 DEF Next, Drive
  <2>4. QED
    BY <2>2, <2>3
<1>5. QED
  BY <1>3, <1>4

(* Every vthread is one call stack of CallStack from the moment it has a pc *)
(* to its end, for any number of vthreads and nested loops: what it shares  *)
(* with the vthreads around it in one thread is invisible to it.            *)
THEOREM EachAlwaysACallStack ==
  ASSUME EntryOnly
  PROVE  Spec => EachIsACallStack
<1>1. ASSUME IInv, [Next]_vars, NEW v \in Vids
      PROVE  \/ UNCHANGED <<AbsStack(v), AbsOutcome(v)>>
             \/ Stack(v)!Next
             \/ AbsOutcome(v) = "none" /\ (AbsOutcome(v)' = "error" \/ Spawned(v)')
  <2>1. CASE Unfinished(v) /\ Unfinished(v)'
    BY <1>1, <2>1, SurvivorStep
  <2>2. CASE Unfinished(v) /\ ~ Unfinished(v)'
    BY <1>1, <2>2, EndStep
  <2>3. CASE ~ Unfinished(v)
    BY <1>1, <2>3, OtherStep
  <2>4. QED
    BY <2>1, <2>2, <2>3
<1>2. IInv /\ [Next]_vars =>
        [\A v \in Vids :
           \/ UNCHANGED <<AbsStack(v), AbsOutcome(v)>>
           \/ Stack(v)!Next
           \/ AbsOutcome(v) = "none" /\ (AbsOutcome(v)' = "error" \/ Spawned(v)')]_vars
  BY <1>1
<1>3. QED
  BY <1>2, Invariant, PTL DEF Spec, EachIsACallStack
===============================================================================
