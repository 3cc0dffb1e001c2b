----------------------------- MODULE NestedProofs -----------------------------
(***************************************************************************)
(* What Nested promises of vthreads that run others, proved for every      *)
(* program that keeps vthread.run and vthread.status in entry functions,   *)
(* for every depth limit and for any number of vthreads and crashes.       *)
(***************************************************************************)
EXTENDS NestedInv, SequenceTheorems, TLAPS

(***************************************************************************)
(* The phases of an instruction, and what is known in them                 *)
(***************************************************************************)
InLoop  == at \notin {"idle", "host", "advance"}
InExec  == at \in {"exec", "boot", "init", "emit", "fail", "next", "ran"}
LivePcs == [d : Depths, i : Nat \ {0}]

(* The pc of a vthread that is somewhere is a row of a frame. *)
LEMMA PcFacts ==
  ASSUME IInv, NEW v \in Vids, pc[v] # Nowhere
  PROVE  /\ pc[v] \in LivePcs
         /\ pc[v].d \in Depths /\ pc[v].i \in Nat \ {0}
         /\ pc[v].d \in 1 .. pc[v].d /\ pc[v].d \in Nat /\ pc[v].d >= 1
BY NestedAssumption DEF IInv, TypeOK, LivePcs, Depths

(* Inside a loop: its vthread, and the loops around it. *)
LEMMA LoopFacts ==
  ASSUME IInv, InLoop
  PROVE  /\ loops \in Seq(Loops) /\ Len(loops) \in 1 .. MaxVids /\ Len(loops) \in 1 .. Len(loops)
         /\ Top \in Loops /\ Me \in Vids /\ Me >= Len(loops)
         /\ pc[Me] # Nowhere
         /\ Outer \in Seq(Loops) /\ Len(Outer) = Len(loops) - 1
         /\ \A n \in 1 .. Len(loops) - 1 : Outer[n] = loops[n]
         /\ driven \in Vids /\ loops[1].vid = driven
         /\ host = NoHost
<1>1. loops \in Seq(Loops) /\ Len(loops) >= 1 /\ Len(loops) <= MaxVids /\ MaxVids \in Nat
  BY NestedAssumption DEF IInv, TypeOK, PhaseInv, InLoop
<1>2. Len(loops) \in Nat /\ \A n \in 1 .. Len(loops) : loops[n] \in Loops
  BY <1>1, ElementOfSeq, LenProperties
<1>3. Len(loops) \in 1 .. Len(loops) /\ Len(loops) \in 1 .. MaxVids
  BY <1>1, <1>2
<1>4. Top \in Loops /\ Me \in Vids
  BY <1>2, <1>3 DEF Top, Me, Loops
<1>5. pc[Me] # Nowhere /\ Me >= Len(loops)
  BY <1>3 DEF IInv, LoopInv, Top, Me
<1>6. /\ Outer \in Seq(Loops)
      /\ Len(Outer) = IF 1 <= Len(loops) - 1 THEN Len(loops) - 1 - 1 + 1 ELSE 0
      /\ \A n \in 1 .. Len(loops) - 1 - 1 + 1 : Outer[n] = loops[1 + n - 1]
  <2>1. \A n \in 1 .. Len(loops) - 1 : loops[n] \in Loops
    BY <1>2
  <2>2. 1 \in Int /\ Len(loops) - 1 \in Int
    BY <1>2
  <2>3. QED
    BY <2>1, <2>2, SubSeqProperties DEF Outer
<1>7. Len(Outer) = Len(loops) - 1 /\ \A n \in 1 .. Len(loops) - 1 : Outer[n] = loops[n]
  <2>1. Len(Outer) = Len(loops) - 1
    <3>1. ASSUME NEW N \in Nat, NEW M, N >= 1, M = IF 1 <= N - 1 THEN N - 1 - 1 + 1 ELSE 0
          PROVE  M = N - 1
      BY <3>1
    <3>2. QED
      BY <3>1, <1>1, <1>2, <1>6
  <2>2. ASSUME NEW n \in 1 .. Len(loops) - 1 PROVE Outer[n] = loops[n]
    <3>1. n \in 1 .. Len(loops) - 1 - 1 + 1 /\ 1 + n - 1 = n
      BY <1>2, <2>2
    <3>2. QED
      BY <3>1, <1>6
  <2>3. QED
    BY <2>1, <2>2
<1>8. driven \in Vids /\ loops[1].vid = driven /\ host = NoHost
  <2>1. loops[1].vid = driven /\ host = NoHost
    BY DEF IInv, PhaseInv, InLoop
  <2>2. 1 \in 1 .. Len(loops)
    BY <1>1, <1>2
  <2>3. QED
    BY <2>1, <2>2, <1>2 DEF Loops
<1>9. QED
  BY <1>1, <1>3, <1>4, <1>5, <1>6, <1>7, <1>8

(* A row of a function, and what the layout promises of it. *)
LEMMA RowFacts ==
  ASSUME NEW f \in Funcs, NEW i, HasRow(f, i)
  PROVE  /\ Code[f][i] \in Rows /\ i \in Nat \ {0}
         /\ Code[f][i].op # "return" => HasRow(f, i + 1)
         /\ Code[f][i].op \in {"call", "create"} => Code[f][i].fn \in Funcs
<1>1. Code[f] \in Seq(Rows)
  BY NestedAssumption
<1>2. i \in 1 .. Len(Code[f]) /\ Len(Code[f]) \in Nat
  BY <1>1, LenProperties DEF HasRow
<1>3. Code[f][i] \in Rows
  BY <1>1, <1>2, ElementOfSeq
<1>4. Code[f][i].op # "return" => i < Len(Code[f])
  BY <1>2, NestedAssumption
<1>5. Code[f][i].op \in {"call", "create"} => Code[f][i].fn \in Funcs
  BY <1>2, NestedAssumption
<1>6. QED
  BY <1>2, <1>3, <1>4, <1>5 DEF HasRow

(* The frames of a vthread that may still run. *)
LEMMA ChainFacts ==
  ASSUME IInv, NEW v \in Vids, Unfinished(v)
  PROVE  /\ pc[v] \in LivePcs /\ pc[v].d \in Nat /\ pc[v].d >= 1 /\ pc[v].d <= MaxDepth + 1
         /\ pc[v].i \in Nat
         /\ \A k \in 1 .. pc[v].d : k \in Depths /\ Linked(v, k)
         /\ frame[v][pc[v].d].lib \in Funcs
         /\ HasRow(frame[v][pc[v].d].lib, pc[v].i)
         /\ Code[frame[v][pc[v].d].lib][pc[v].i] \in Rows
<1>1. pc[v] # Nowhere
  BY DEF Unfinished
<1>2. pc[v].d \in Depths /\ pc[v].d \in 1 .. pc[v].d /\ pc[v] \in LivePcs /\ MaxDepth \in Nat
  BY <1>1, PcFacts, NestedAssumption
<1>3. /\ \A k \in 1 .. pc[v].d : Linked(v, k)
      /\ HasRow(frame[v][pc[v].d].lib, pc[v].i)
  BY DEF IInv, ChainInv
<1>4. frame[v][pc[v].d].lib \in Funcs
  BY <1>2, <1>3 DEF Linked
<1>5. Code[frame[v][pc[v].d].lib][pc[v].i] \in Rows
  BY <1>3, <1>4, RowFacts
<1>6. \A k \in 1 .. pc[v].d : k \in Depths
  BY <1>2 DEF Depths
<1>7. QED
  BY <1>2, <1>3, <1>4, <1>5, <1>6 DEF LivePcs, Depths

(* The running instruction. *)
LEMMA ExecFacts ==
  ASSUME IInv, InExec
  PROVE  /\ Me \in Vids /\ Unfinished(Me) /\ status[Me] \in Live
         /\ Row = Code[frame[Me][Here.d].lib][Here.i] /\ Row \in Rows
         /\ frame[Me][Here.d].lib \in Funcs /\ HasRow(frame[Me][Here.d].lib, Here.i)
         /\ Here.d = Top.last /\ Here.d >= 1 /\ Here.d <= MaxDepth
         /\ Here.d \in Depths /\ Here.d \in Nat /\ Here.i \in Nat \ {0}
         /\ CalleeD \in Depths /\ CalleeD = Here.d + 1
<1>1. InLoop
  BY DEF InExec, InLoop
<1>2. Me \in Vids /\ Top \in Loops
  BY <1>1, LoopFacts
<1>3. /\ Unfinished(Me) /\ status[Me] \in Live
      /\ Here.d = Top.last /\ Top.ctx[Here.d] = frame[Me][Here.d].lib
  BY DEF IInv, ExecInv, InExec
<1>4. /\ Here \in LivePcs /\ Here.d >= 1 /\ Here.i \in Nat
      /\ frame[Me][Here.d].lib \in Funcs
      /\ HasRow(frame[Me][Here.d].lib, Here.i)
      /\ Code[frame[Me][Here.d].lib][Here.i] \in Rows
  BY <1>2, <1>3, ChainFacts DEF Here
<1>5. Here.d <= MaxDepth /\ Here.d \in Nat /\ MaxDepth \in Nat
  BY <1>2, <1>3, NestedAssumption DEF Loops
<1>6. QED
  BY <1>2, <1>3, <1>4, <1>5 DEF Row, LivePcs, Depths, CalleeD

(* A vthread at a vthread.run or vthread.status is in its entry function. *)
LEMMA EntryRows ==
  ASSUME IInv, EntryOnly, NEW v \in Vids, Unfinished(v),
         Code[frame[v][pc[v].d].lib][pc[v].i].op \in {"run", "status"}
  PROVE  pc[v].d = 1
<1>1. /\ pc[v].d \in Nat /\ pc[v].d >= 1
      /\ Linked(v, pc[v].d) /\ frame[v][pc[v].d].lib \in Funcs
      /\ HasRow(frame[v][pc[v].d].lib, pc[v].i)
  BY ChainFacts
<1>2. SUFFICES ASSUME pc[v].d > 1 PROVE FALSE
  BY <1>1
<1>3. PICK g, j : /\ g = frame[v][pc[v].d - 1].lib /\ j = frame[v][pc[v].d].ret - 1
  OBVIOUS
<1>4. /\ HasRow(g, j) /\ Code[g][j] = [op |-> "call", fn |-> frame[v][pc[v].d].lib]
  BY <1>1, <1>2, <1>3 DEF Linked, CallsAt, At
<1>5. g \in Funcs
  <2>1. pc[v].d - 1 \in 1 .. pc[v].d
    BY <1>1, <1>2
  <2>2. Linked(v, pc[v].d - 1)
    BY <2>1, ChainFacts
  <2>3. QED
    BY <1>3, <2>2 DEF Linked
<1>6. PICK f \in Funcs, i \in Nat : /\ f = frame[v][pc[v].d].lib /\ i = pc[v].i
                                   /\ i \in 1 .. Len(Code[f])
  BY <1>1 DEF HasRow
<1>7. Code[f][i].op \in {"run", "status"}
  BY <1>6
<1>8. j \in 1 .. Len(Code[g]) /\ Code[g][j].op = "call" /\ Code[g][j].fn = f
  BY <1>4, <1>6 DEF HasRow
<1>9. Code[g][j].fn # f
  BY ONLY EntryOnly, <1>5, <1>6, <1>7, <1>8 DEF EntryOnly
<1>10. QED
  BY <1>8, <1>9

(* While a vthread executes an instruction that runs no other, no frame of *)
(* another vthread is parked on its own chain.                             *)
LEMMA OnlyMe ==
  ASSUME IInv, InExec, NEW w \in Vids, Hot(w), Row.op # "run"
  PROVE  w = Me
<1>1. PICK C \in SUBSET Vids : LeadsTo(w, C)
  BY DEF IInv, HotInv
<1>2. InLoop /\ Me \in C
  <2>1. InLoop
    BY DEF InExec, InLoop
  <2>2. QED
    BY <2>1, <1>1, LoopFacts DEF LeadsTo, Me, Top
<1>3. SUFFICES ASSUME w # Me PROVE FALSE
  OBVIOUS
<1>4. AtRun(Me)
  BY <1>1, <1>2, <1>3 DEF LeadsTo, Blocked
<1>5. QED
  BY <1>4, ExecFacts DEF AtRun, Here

(***************************************************************************)
(* What the steps do to frames, parked frames and loops                    *)
(***************************************************************************)
FrameSpace == [Vids -> [Depths -> Frames]]
ParkSpace  == [Depths -> Parks]

(* A deleted frame and an empty entry have their types. *)
LEMMA EmptyFrames == Absent \in Frames /\ Cold \in Parks
BY DEF Absent, Frames, Cold, Parks

(* A loop just entered has been in no frame yet. *)
LEMMA EnterFacts ==
  ASSUME NEW v \in Vids
  PROVE  /\ Enter(v) \in Loops /\ Enter(v).vid = v /\ Enter(v).last = 0
         /\ \A k \in Depths : Enter(v).ctx[k] = None
         /\ << Enter(v) >> \in Seq(Loops) /\ Len(<< Enter(v) >>) = 1
         /\ << Enter(v) >>[1] = Enter(v)
BY NestedAssumption DEF Enter, Loops

(* A cleanup takes parked frames out of the tree with their entries. *)
FramesTrimmed(S) ==
  frame' = [v \in Vids |-> [k \in Depths |->
              IF k \in Cleared(S) /\ park[k].vid = v THEN Absent ELSE frame[v][k]]]

(* A cleanup deletes only frames that are parked. *)
LEMMA TrimFacts ==
  ASSUME IInv, NEW S, FramesTrimmed(S)
  PROVE  /\ frame' \in FrameSpace
         /\ \A v \in Vids, k \in Depths :
              frame'[v][k] # frame[v][k] =>
                park[k].vid = v /\ \E l \in S : l.vid = v /\ k > l.m
         /\ \A v \in Vids, k \in Depths : k \notin Cleared(S) => frame'[v][k] = frame[v][k]
<1>1. frame \in FrameSpace
  BY DEF IInv, TypeOK, FrameSpace
<1>2. \A v \in Vids, k \in Depths :
        frame'[v][k] = IF k \in Cleared(S) /\ park[k].vid = v THEN Absent ELSE frame[v][k]
  BY DEF FramesTrimmed
<1>3. frame' \in FrameSpace
  <2>1. \A v \in Vids, k \in Depths :
          (IF k \in Cleared(S) /\ park[k].vid = v THEN Absent ELSE frame[v][k]) \in Frames
    BY <1>1, EmptyFrames DEF FrameSpace
  <2>2. QED
    BY <2>1 DEF FramesTrimmed, FrameSpace
<1>4. QED
  BY <1>2, <1>3 DEF Cleared

(* What stays parked behind a step was parked before it. *)
ParkTrimmed == \A k \in Depths : park'[k] = park[k] \/ park'[k] = Cold

(* A loop that ends: into the loop around it, or out of the process. *)
LEMMA PopFacts ==
  ASSUME IInv, InLoop, Pop
  PROVE  /\ frame' \in FrameSpace /\ park' \in ParkSpace /\ ParkTrimmed
         /\ \A v \in Vids, k \in Depths :
              frame'[v][k] # frame[v][k] =>
                v = Me /\ park[k].vid = Me /\ k > AboveLast(Top).m /\ park'[k] = Cold
         /\ \/ EndProcess
            \/ /\ at' = "ran" /\ loops' = Outer /\ UNCHANGED <<driven, host>>
               /\ Len(loops) > 1
<1>1. FramesTrimmed({AboveLast(Top)})
  BY DEF Pop, FramesTrimmed
<1>2. /\ frame' \in FrameSpace
      /\ \A v \in Vids, k \in Depths :
           frame'[v][k] # frame[v][k] =>
             park[k].vid = v /\ \E l \in {AboveLast(Top)} : l.vid = v /\ k > l.m
      /\ \A v \in Vids, k \in Depths :
           k \notin Cleared({AboveLast(Top)}) => frame'[v][k] = frame[v][k]
  BY <1>1, TrimFacts
<1>3. park \in ParkSpace
  BY DEF IInv, TypeOK, ParkSpace
<1>4. \/ park' = [k \in Depths |-> Cold]
      \/ park' = [k \in Depths |-> IF k \in Cleared({AboveLast(Top)}) THEN Cold ELSE park[k]]
  BY DEF Pop, EndProcess
<1>5. park' \in ParkSpace /\ ParkTrimmed
  BY <1>3, <1>4, EmptyFrames DEF ParkSpace, ParkTrimmed
<1>6. \A k \in Depths : k \in Cleared({AboveLast(Top)}) => park'[k] = Cold
  BY <1>4
<1>7. ASSUME NEW v \in Vids, NEW k \in Depths, frame'[v][k] # frame[v][k]
      PROVE  v = Me /\ park[k].vid = Me /\ k > AboveLast(Top).m /\ park'[k] = Cold
  <2>1. v = Me /\ park[k].vid = Me /\ k > AboveLast(Top).m
    BY <1>2, <1>7 DEF AboveLast, Me
  <2>2. k \in Cleared({AboveLast(Top)})
    BY <1>2, <1>7
  <2>3. QED
    BY <2>1, <2>2, <1>6
<1>8. \/ EndProcess
      \/ at' = "ran" /\ loops' = Outer /\ UNCHANGED <<driven, host>> /\ Len(loops) > 1
  <2>1. CASE Outer = <<>>
    BY <2>1 DEF Pop
  <2>2. CASE Outer # <<>>
    <3>1. Outer \in Seq(Loops) /\ Len(Outer) = Len(loops) - 1 /\ Len(loops) \in Nat
          /\ Len(Outer) # 0
      BY <2>2, LoopFacts, EmptySeq, LenProperties
    <3>2. Len(loops) > 1
      <4>1. ASSUME NEW N \in Nat, NEW M, M = N - 1, M # 0, M \in Nat PROVE N > 1
        BY <4>1
      <4>2. Len(Outer) \in Nat
        BY <3>1, LenProperties
      <4>3. QED
        BY <4>1, <4>2, <3>1
    <3>3. QED
      BY <2>2, <3>2 DEF Pop
  <2>3. QED
    BY <2>1, <2>2
<1>9. QED
  BY <1>2, <1>5, <1>7, <1>8

(***************************************************************************)
(* Types                                                                   *)
(***************************************************************************)
(* Moving the pc of a vthread that has one. *)
LEMMA MoveTyped ==
  ASSUME IInv, NEW v \in Vids, NEW p \in LivePcs, pc' = [pc EXCEPT ![v] = p]
  PROVE  pc' \in [Vids -> LivePcs \cup {Nowhere}]
BY DEF IInv, TypeOK, LivePcs

(* Writing the next pc keeps the types. *)
LEMMA NextPcTyped ==
  ASSUME IInv, InExec, NEW st \in {"running", "paused"}, NextPc(st)
  PROVE  /\ pc' \in [Vids -> LivePcs \cup {Nowhere}]
         /\ status' \in [Vids -> Statuses] /\ at' = "loop"
         /\ pc'[Me] = At(Here.d, Here.i + 1) /\ pc'[Me] \in LivePcs
<1>1. Me \in Vids /\ Here \in LivePcs
  BY ExecFacts, PcFacts DEF Here, Unfinished
<1>2. [Here EXCEPT !.i = @ + 1] \in LivePcs /\ [Here EXCEPT !.i = @ + 1] = At(Here.d, Here.i + 1)
  BY <1>1 DEF LivePcs, At
<1>3. pc' = [pc EXCEPT ![Me] = [Here EXCEPT !.i = @ + 1]]
  BY DEF NextPc, Here
<1>4. pc' \in [Vids -> LivePcs \cup {Nowhere}]
  BY <1>1, <1>2, <1>3, MoveTyped
<1>5. status' \in [Vids -> Statuses]
  BY <1>1 DEF NextPc, IInv, TypeOK, Statuses, Live
<1>6. pc'[Me] = At(Here.d, Here.i + 1)
  BY <1>1, <1>2, <1>3 DEF IInv, TypeOK
<1>7. QED
  BY <1>1, <1>2, <1>4, <1>5, <1>6 DEF NextPc

(* A row is fetched from some function. *)
LEMMA Resolves ==
  ASSUME IInv, at = "loop", Fetchable
  PROVE  Here.d \in 1 .. MaxDepth /\ Resolved \in Funcs
<1>1. InLoop
  BY DEF InLoop
<1>2. /\ Me \in Vids /\ Here \in LivePcs /\ Top \in Loops /\ Here.d \in 1 .. MaxDepth
  <2>1. Me \in Vids /\ pc[Me] # Nowhere /\ Top \in Loops
    BY <1>1, LoopFacts
  <2>2. Here \in LivePcs
    BY <2>1, PcFacts DEF Here
  <2>3. QED
    BY <2>1, <2>2, NestedAssumption DEF Fetchable, LivePcs, Depths
<1>3. Here.d \in Depths
  BY <1>2 DEF LivePcs
<1>4. /\ Top.ctx[Here.d] \in Funcs \cup {None}
      /\ park[Here.d].f \in Funcs \cup {None} /\ frame[Me][Here.d].lib \in Funcs \cup {None}
  BY <1>2, <1>3 DEF Loops, IInv, TypeOK, Parks, Frames
<1>5. QED
  BY <1>2, <1>4 DEF Resolved, Fetchable

(* A call writes the frame above its own and the entry for it; the frame it *)
(* takes from another vthread is the one that vthread had parked there.     *)
LEMMA CallFacts ==
  ASSUME IInv, Call
  PROVE  /\ InExec /\ Row.op = "call" /\ Row.fn \in Funcs
         /\ frame' \in FrameSpace /\ park' \in ParkSpace
         /\ frame'[Me][CalleeD] = [lib |-> Row.fn, ret |-> Here.i + 1]
         /\ \A v \in Vids, k \in Depths :
              frame'[v][k] # frame[v][k] =>
                k = CalleeD /\ (v = Me \/ (CalleeD <= MaxDepth /\ park[k].vid = v))
         /\ \A k \in Depths : park'[k] = IF k = CalleeD /\ CanPark
              THEN [vid |-> Me, f |-> Row.fn, ret |-> Here.i + 1] ELSE park[k]
<1>1. InExec /\ Row.op = "call"
  BY DEF Call, Exec, InExec
<1>2. /\ Me \in Vids /\ Here.i \in Nat \ {0} /\ CalleeD \in Depths /\ CalleeD = Here.d + 1
      /\ Here.d >= 1 /\ Here.d \in Nat
  BY <1>1, ExecFacts
<1>3. Row.fn \in Funcs
  BY <1>1, ExecFacts, RowFacts
<1>4. frame \in FrameSpace /\ park \in ParkSpace
  BY DEF IInv, TypeOK, FrameSpace, ParkSpace
<1>5. DEFINE new == [lib |-> Row.fn, ret |-> Here.i + 1]
             old == [frame[Me][CalleeD] EXCEPT !.ret = Here.i + 1]
<1>6. WarmHit => old = new
  <2>1. SUFFICES ASSUME WarmHit PROVE old = new
    OBVIOUS
  <2>2. park[CalleeD].vid = Me /\ park[CalleeD].f = Row.fn
    BY <2>1 DEF WarmHit, Mine
  <2>3. frame[Me][CalleeD] = [lib |-> Row.fn, ret |-> park[CalleeD].ret]
    BY <2>2, <1>2 DEF IInv, ParkInv, Vids, NoVid
  <2>4. QED
    BY <2>3
<1>7. new \in Frames /\ (WarmHit => old \in Frames)
  BY <1>2, <1>3, <1>6 DEF Frames
<1>8. \A v \in Vids, k \in Depths : frame'[v][k] =
        IF k # CalleeD THEN frame[v][k]
        ELSE IF v = Me THEN IF WarmHit THEN old ELSE new
        ELSE IF v \in Evicted THEN Absent ELSE frame[v][k]
  BY DEF Call
<1>9. frame' = [v \in Vids |-> [k \in Depths |-> frame'[v][k]]]
  <2>1. frame' = [v \in Vids |-> [k \in Depths |->
          IF k # CalleeD THEN frame[v][k]
          ELSE IF v = Me THEN IF WarmHit THEN old ELSE new
          ELSE IF v \in Evicted THEN Absent ELSE frame[v][k]]]
    BY DEF Call
  <2>2. QED
    BY <2>1
<1>10. \A v \in Vids, k \in Depths : frame'[v][k] \in Frames
  BY <1>4, <1>7, <1>8, EmptyFrames DEF FrameSpace
<1>11. frame' \in FrameSpace
  BY <1>9, <1>10 DEF FrameSpace
<1>12. frame'[Me][CalleeD] = new
  BY <1>2, <1>6, <1>8
<1>13. \A v \in Vids, k \in Depths :
         frame'[v][k] # frame[v][k] =>
           k = CalleeD /\ (v = Me \/ (CalleeD <= MaxDepth /\ park[k].vid = v))
  <2>1. \A v \in Evicted : CalleeD <= MaxDepth /\ park[CalleeD].vid = v
    BY DEF Evicted, CanPark
  <2>2. SUFFICES ASSUME NEW v \in Vids, NEW k \in Depths, frame'[v][k] # frame[v][k]
        PROVE  k = CalleeD /\ (v = Me \/ (CalleeD <= MaxDepth /\ park[k].vid = v))
    OBVIOUS
  <2>3. k = CalleeD
    BY <1>8, <2>2
  <2>4. v # Me => v \in Evicted
    BY <1>8, <2>2, <2>3
  <2>5. v # Me => CalleeD <= MaxDepth
    BY <2>1, <2>4
  <2>6. v # Me => park[k].vid = v
    BY <2>1, <2>3, <2>4
  <2>7. QED
    BY <2>3, <2>5, <2>6
<1>14. \A k \in Depths : park'[k] = IF k = CalleeD /\ CanPark
         THEN [vid |-> Me, f |-> Row.fn, ret |-> Here.i + 1] ELSE park[k]
  BY <1>4 DEF Call, ParkSpace
<1>15. park' \in ParkSpace
  <2>1. [vid |-> Me, f |-> Row.fn, ret |-> Here.i + 1] \in Parks
    BY <1>2, <1>3 DEF Parks
  <2>2. QED
    BY <2>1, <1>4 DEF Call, ParkSpace
<1>16. QED
  BY <1>1, <1>3, <1>11, <1>12, <1>13, <1>14, <1>15

(* Where a return goes. *)
LEMMA ReturnFacts ==
  ASSUME IInv, Return
  PROVE  /\ InExec /\ Row.op = "return" /\ Here.d > 1
         /\ ReturnTo = frame[Me][Here.d].ret /\ ReturnTo > 1
         /\ At(Here.d - 1, ReturnTo) \in LivePcs /\ Here.d - 1 >= 1
         /\ pc'[Me] = At(Here.d - 1, ReturnTo)
         /\ frame' \in FrameSpace
         /\ \A v \in Vids, k \in Depths :
              frame'[v][k] # frame[v][k] => k = Here.d /\ v = Me /\ park[k].vid # v
<1>1. InExec /\ Row.op = "return" /\ Here.d > 1
  BY DEF Return, Exec, InExec
<1>2. /\ Me \in Vids /\ Unfinished(Me) /\ Here.d \in Depths /\ Here.d \in Nat /\ Here.d <= MaxDepth
  BY <1>1, ExecFacts
<1>3. Linked(Me, Here.d)
  BY <1>1, <1>2, ChainFacts DEF Here
<1>4. ReturnTo = frame[Me][Here.d].ret
  <2>1. Mine(Here.d) => frame[Me][Here.d] = [lib |-> park[Here.d].f, ret |-> park[Here.d].ret]
    BY <1>2 DEF Mine, IInv, ParkInv, Vids, NoVid
  <2>2. QED
    BY <2>1 DEF ReturnTo
<1>5. ReturnTo > 1 /\ ReturnTo \in Nat
  BY <1>1, <1>2, <1>3, <1>4 DEF Linked, IInv, TypeOK, Frames
<1>6. Here.d - 1 >= 1 /\ Here.d - 1 \in Depths
  BY <1>1, <1>2, NestedAssumption DEF Depths
<1>7. At(Here.d - 1, ReturnTo) \in LivePcs
  BY <1>5, <1>6 DEF At, LivePcs
<1>8. pc'[Me] = At(Here.d - 1, ReturnTo)
  BY <1>2 DEF Return, IInv, TypeOK
<1>9. frame \in FrameSpace
  BY DEF IInv, TypeOK, FrameSpace
<1>10. frame' = IF Mine(Here.d) THEN frame ELSE [frame EXCEPT ![Me][Here.d] = Absent]
  BY DEF Return
<1>11. frame' \in FrameSpace
  BY <1>2, <1>9, <1>10, EmptyFrames DEF FrameSpace
<1>12. \A v \in Vids, k \in Depths :
         frame'[v][k] # frame[v][k] => k = Here.d /\ v = Me /\ park[k].vid # v
  BY <1>2, <1>9, <1>10 DEF FrameSpace, Mine
<1>13. QED
  BY <1>1, <1>4, <1>5, <1>6, <1>7, <1>8, <1>11, <1>12

(* The innermost loop remembers the function it is in. *)
LEMMA FetchFacts ==
  ASSUME IInv, Fetch
  PROVE  /\ loops' \in Seq(Loops) /\ Len(loops') = Len(loops)
         /\ \A n \in 1 .. Len(loops) - 1 : loops'[n] = loops[n]
         /\ loops'[Len(loops)] = [Top EXCEPT !.last = Here.d, !.ctx[Here.d] = Resolved]
         /\ Top' = loops'[Len(loops)] /\ Me' = Me /\ Top'.last = Here.d
         /\ \A k \in Depths : Top'.ctx[k] = IF k = Here.d THEN Resolved ELSE Top.ctx[k]
<1>1. InLoop /\ at = "loop" /\ Fetchable
  BY DEF Fetch, InLoop
<1>2. /\ Outer \in Seq(Loops) /\ Len(Outer) = Len(loops) - 1 /\ Top \in Loops
      /\ \A n \in 1 .. Len(loops) - 1 : Outer[n] = loops[n]
      /\ Len(loops) \in Nat
  BY <1>1, LoopFacts
<1>3. DEFINE new == [Top EXCEPT !.last = Here.d, !.ctx[Here.d] = Resolved]
<1>4. Here.d \in 0 .. MaxDepth /\ Here.d \in Depths /\ Resolved \in Funcs
  BY <1>1, Resolves, NestedAssumption DEF Depths
<1>5. /\ new \in Loops /\ new.vid = Top.vid /\ new.last = Here.d
      /\ \A k \in Depths : new.ctx[k] = IF k = Here.d THEN Resolved ELSE Top.ctx[k]
  BY <1>2, <1>4 DEF Loops
<1>6. loops' = Append(Outer, new)
  BY DEF Fetch
<1>7. /\ loops' \in Seq(Loops) /\ Len(loops') = Len(Outer) + 1
      /\ \A n \in 1 .. Len(Outer) : loops'[n] = Outer[n]
      /\ loops'[Len(Outer) + 1] = new
  BY <1>2, <1>5, <1>6, AppendProperties
<1>8. Len(Outer) + 1 = Len(loops)
  BY <1>2
<1>9. /\ Len(loops') = Len(loops) /\ loops'[Len(loops)] = new
      /\ \A n \in 1 .. Len(loops) - 1 : loops'[n] = loops[n]
  BY <1>2, <1>7, <1>8
<1>10. Top' = new /\ Me' = Me
  BY <1>5, <1>9 DEF Top, Me
<1>11. QED
  BY <1>5, <1>7, <1>9, <1>10

(* vthread.run: the handle has a pc, and one more loop begins. *)
LEMMA RunFacts ==
  ASSUME IInv, Run
  PROVE  /\ InExec /\ at = "exec" /\ Row.op = "run" /\ kid[Me] # NoVid
         /\ kid[Me] \in Vids /\ HasPc(kid[Me]) /\ kid[Me] > Me
         /\ UNCHANGED <<seq, pc, status, frame, kid, driven, host, park, crashes>>
         /\ at' = "loop"
         /\ loops' \in Seq(Loops) /\ Len(loops') = Len(loops) + 1
         /\ \A n \in 1 .. Len(loops) : loops'[n] = loops[n]
         /\ loops'[Len(loops) + 1] = Enter(kid[Me])
         /\ Top' = Enter(kid[Me]) /\ Me' = kid[Me]
<1>1. InExec /\ InLoop /\ at = "exec" /\ Row.op = "run" /\ kid[Me] # NoVid
  BY DEF Run, Exec, InExec, InLoop
<1>2. Me \in Vids /\ loops \in Seq(Loops)
  BY <1>1, LoopFacts
<1>3. kid[Me] \in Vids /\ HasPc(kid[Me]) /\ kid[Me] > Me
  BY <1>1, <1>2 DEF IInv, TypeOK, SpawnInv, HasPc
<1>4. /\ UNCHANGED <<seq, pc, status, frame, kid, driven, host, park, crashes>>
      /\ at' = "loop" /\ loops' = Append(loops, Enter(kid[Me]))
  BY <1>3 DEF Run
<1>5. Enter(kid[Me]) \in Loops /\ Enter(kid[Me]).vid = kid[Me]
  BY <1>3, EnterFacts
<1>6. /\ loops' \in Seq(Loops) /\ Len(loops') = Len(loops) + 1
      /\ \A n \in 1 .. Len(loops) : loops'[n] = loops[n]
      /\ loops'[Len(loops) + 1] = Enter(kid[Me])
  BY <1>2, <1>4, <1>5, AppendProperties
<1>7. Top' = Enter(kid[Me]) /\ Me' = kid[Me]
  <2>1. Top' = Enter(kid[Me])
    BY <1>6 DEF Top
  <2>2. QED
    BY <2>1, <1>5 DEF Me
<1>8. QED
  BY <1>1, <1>3, <1>4, <1>6, <1>7

(* The first state is typed. *)
LEMMA TypeInit ==
  ASSUME Init
  PROVE  TypeOK
<1>1. /\ 1 \in 0 .. MaxVids /\ EntryPc \in LivePcs /\ Main \in Funcs /\ Nowhere \in Pcs
  BY NestedAssumption DEF EntryPc, At, LivePcs, Depths, Nowhere, Pcs
<1>2. seq \in 0 .. MaxVids /\ pc \in [Vids -> LivePcs \cup {Nowhere}]
  BY <1>1 DEF Init
<1>3. status \in [Vids -> Statuses] /\ kid \in [Vids -> Vids \cup {NoVid}]
  BY DEF Init, Statuses, Live
<1>4. frame \in [Vids -> [Depths -> Frames]]
  BY <1>1, EmptyFrames DEF Init, Frames, Absent
<1>5. loops \in Seq(Loops) /\ Len(loops) <= MaxVids
  BY NestedAssumption, EmptySeq DEF Init, NoProcess
<1>6. host \in Hosts /\ park \in [Depths -> Parks]
  BY <1>1, EmptyFrames DEF Init, NoProcess, Hosts, NoHost
<1>7. at = "idle" /\ driven \in Vids \cup {NoVid} /\ crashes \in 0 .. MaxCrashes
  BY NestedAssumption DEF Init, NoProcess
<1>8. QED
  BY <1>2, <1>3, <1>4, <1>5, <1>6, <1>7 DEF TypeOK, LivePcs

(* The host instruction the drive loop is at. *)
LEMMA HostFacts ==
  ASSUME IInv, at \in {"host", "advance"}
  PROVE  /\ host.vid \in Vids /\ Unfinished(host.vid) /\ status[host.vid] \in Live
         /\ host.p = pc[host.vid] /\ host.p \in LivePcs /\ host.p.d \in 1 .. MaxDepth
         /\ host.p.i \in Nat
         /\ Code[frame[host.vid][host.p.d].lib][host.p.i].op = "host"
         /\ At(host.p.d, host.p.i + 1) \in LivePcs
         /\ HasRow(frame[host.vid][host.p.d].lib, host.p.i + 1)
         /\ driven \in Vids /\ pc[driven] # Nowhere /\ loops = <<>>
<1>1. /\ host.vid # NoVid /\ Unfinished(host.vid) /\ status[host.vid] \in Live
      /\ host.p = pc[host.vid] /\ host.p.d <= MaxDepth
      /\ HostRowAt(host.vid, host.p)
  BY DEF IInv, HostInv
<1>2. host.vid \in Vids
  BY <1>1 DEF IInv, TypeOK, Hosts
<1>3. /\ host.p \in LivePcs /\ host.p.d >= 1 /\ host.p.d \in Nat /\ host.p.i \in Nat
      /\ frame[host.vid][host.p.d].lib \in Funcs
      /\ HasRow(frame[host.vid][host.p.d].lib, host.p.i)
  BY <1>1, <1>2, ChainFacts
<1>4. Code[frame[host.vid][host.p.d].lib][host.p.i].op = "host"
  BY <1>1 DEF HostRowAt
<1>5. At(host.p.d, host.p.i + 1) \in LivePcs
  BY <1>3 DEF At, LivePcs
<1>6. HasRow(frame[host.vid][host.p.d].lib, host.p.i + 1)
  BY <1>3, <1>4, RowFacts
<1>7. driven \in Vids /\ pc[driven] # Nowhere /\ loops = <<>>
  BY DEF IInv, TypeOK, PhaseInv
<1>8. host.p.d \in 1 .. MaxDepth
  BY <1>1, <1>3, NestedAssumption
<1>9. QED
  BY <1>1, <1>2, <1>3, <1>4, <1>5, <1>6, <1>7, <1>8

(* Every step keeps the types. *)
LEMMA TypeStep ==
  ASSUME IInv, [Next]_vars
  PROVE  TypeOK'
<1> USE DEF IInv, TypeOK, LivePcs
<1>1. CASE \E v \in Vids : Start(v)
  <2>1. PICK v \in Vids : Start(v)
    BY <1>1
  <2>2. loops' \in Seq(Loops) /\ Len(loops') = 1
    BY <2>1, EnterFacts DEF Start
  <2>3. /\ at' = "loop" /\ driven' = v
        /\ UNCHANGED <<seq, pc, status, frame, kid, host, park, crashes>>
    BY <2>1 DEF Start, kvvars
  <2>4. QED
    BY <2>2, <2>3, NestedAssumption
<1>2. CASE \E v \in Vids : Resume(v)
  <2>1. status' \in [Vids -> Statuses]
    BY <1>2 DEF Resume, Statuses, Live
  <2>2. UNCHANGED <<seq, pc, frame, kid, at, driven, loops, host, park, crashes>>
    BY <1>2 DEF Resume, procvars
  <2>3. QED
    BY <2>1, <2>2
<1>3. CASE Fetch
  <2>1. loops' \in Seq(Loops) /\ Len(loops') = Len(loops)
    BY <1>3, FetchFacts
  <2>2. /\ at' = "exec"
        /\ UNCHANGED <<seq, pc, status, frame, kid, driven, host, park, crashes>>
    BY <1>3 DEF Fetch, kvvars
  <2>3. QED
    BY <2>1, <2>2
<1>4. CASE Native \/ SetStatus \/ Continue
  <2>1. InExec /\ \E st \in {"running", "paused"} : NextPc(st)
    BY <1>4 DEF Native, SetStatus, Continue, Exec, InExec
  <2>2. pc' \in [Vids -> LivePcs \cup {Nowhere}] /\ status' \in [Vids -> Statuses] /\ at' = "loop"
    BY <2>1, NextPcTyped
  <2>3. UNCHANGED <<seq, frame, kid, driven, loops, host, park, crashes>>
    BY <1>4 DEF Native, SetStatus, Continue
  <2>4. QED
    BY <2>2, <2>3
<1>5. CASE Call
  <2>1. frame' \in FrameSpace /\ park' \in ParkSpace /\ InExec
    BY <1>5, CallFacts
  <2>2. Me \in Vids /\ At(CalleeD, 1) \in LivePcs
    BY <2>1, ExecFacts DEF At
  <2>3. pc' \in [Vids -> LivePcs \cup {Nowhere}]
    BY <1>5, <2>2, MoveTyped DEF Call
  <2>4. /\ status' = [status EXCEPT ![Me] = "running"] /\ at' = "loop"
        /\ UNCHANGED <<seq, kid, driven, loops, host, crashes>>
    BY <1>5 DEF Call
  <2>5. QED
    BY <2>1, <2>3, <2>4 DEF FrameSpace, ParkSpace, Statuses, Live
<1>6. CASE Return
  <2>1. frame' \in FrameSpace /\ InExec /\ At(Here.d - 1, ReturnTo) \in LivePcs
    BY <1>6, ReturnFacts
  <2>2. Me \in Vids
    BY <2>1, ExecFacts
  <2>3. pc' \in [Vids -> LivePcs \cup {Nowhere}]
    BY <1>6, <2>1, <2>2, MoveTyped DEF Return
  <2>4. /\ status' = [status EXCEPT ![Me] = "running"] /\ at' = "loop"
        /\ UNCHANGED <<seq, kid, driven, loops, host, park, crashes>>
    BY <1>6 DEF Return
  <2>5. QED
    BY <2>1, <2>3, <2>4 DEF FrameSpace, Statuses, Live
<1>7. CASE Done
  <2>1. /\ status' = [status EXCEPT ![Me] = "ok"] /\ at' = "loop"
        /\ UNCHANGED <<seq, pc, kid, driven, loops, host, crashes>>
    BY <1>7 DEF Done
  <2>2. frame' \in FrameSpace /\ park' \in ParkSpace
    BY <1>7, EmptyFrames DEF Done, FrameSpace, ParkSpace
  <2>3. QED
    BY <2>1, <2>2 DEF FrameSpace, ParkSpace, Statuses, Live
<1>8. CASE Create
  BY <1>8, NestedAssumption DEF Create, NewVid
<1>9. CASE Bootstrap
  <2>1. InExec /\ Row.op = "create"
    BY <1>9 DEF Bootstrap, InExec, ExecInv
  <2>2. Row.fn \in Funcs
    BY <2>1, ExecFacts, RowFacts
  <2>3. [Absent EXCEPT !.lib = Row.fn] \in Frames
    BY <2>2 DEF Absent, Frames
  <2>4. frame' \in FrameSpace
    BY <1>9, <2>3 DEF Bootstrap, FrameSpace
  <2>5. /\ at' = "init"
        /\ UNCHANGED <<seq, pc, status, kid, driven, loops, host, park, crashes>>
    BY <1>9 DEF Bootstrap
  <2>6. QED
    BY <2>4, <2>5 DEF FrameSpace
<1>10. CASE BootFails
  BY <1>10 DEF BootFails, Statuses, Live
<1>11. CASE SetInit
  <2>1. EntryPc \in LivePcs /\ status' \in [Vids -> Statuses] /\ seq \in Vids
    BY <1>11, NestedAssumption DEF SetInit, EntryPc, At, Depths, Statuses, Live, SpawnInv, Vids
  <2>2. pc' \in [Vids -> LivePcs \cup {Nowhere}]
    BY <1>11, <2>1, MoveTyped DEF SetInit
  <2>3. at' = "emit" /\ UNCHANGED <<seq, frame, kid, driven, loops, host, park, crashes>>
    BY <1>11 DEF SetInit
  <2>4. QED
    BY <2>1, <2>2, <2>3
<1>12. CASE Emit
  <2>1. seq \in Vids
    BY <1>12, NestedAssumption DEF Emit, SpawnInv, Vids
  <2>2. kid' \in [Vids -> Vids \cup {NoVid}] /\ at' = "next"
        /\ UNCHANGED <<seq, pc, status, frame, driven, loops, host, park, crashes>>
    BY <1>12, <2>1 DEF Emit
  <2>3. QED
    BY <2>2
<1>13. CASE Run
  <2>1. /\ kid[Me] \in Vids /\ kid[Me] > Me /\ InExec
        /\ UNCHANGED <<seq, pc, status, frame, kid, driven, host, park, crashes>>
        /\ at' = "loop" /\ loops' \in Seq(Loops) /\ Len(loops') = Len(loops) + 1
    BY <1>13, RunFacts
  <2>2. InLoop
    BY <2>1 DEF InExec, InLoop
  <2>3. Me >= Len(loops) /\ Len(loops) \in Nat /\ Me \in Nat /\ kid[Me] <= MaxVids
    BY <2>1, <2>2, LoopFacts DEF Vids
  <2>4. Len(loops') <= MaxVids
    BY <2>1, <2>3, NestedAssumption DEF Vids
  <2>5. QED
    BY <2>1, <2>4
<1>14. CASE Leave \/ Fails
  <2>1. InLoop /\ Pop
    BY <1>14 DEF Leave, Fails, Broken, Exec, InLoop
  <2>2. frame' \in FrameSpace /\ park' \in ParkSpace
    BY <2>1, PopFacts
  <2>3. status' \in [Vids -> Statuses] /\ UNCHANGED <<seq, pc, kid, crashes>>
    BY <1>14 DEF Leave, Fails, Statuses, Live
  <2>4. CASE EndProcess
    <3>1. loops' \in Seq(Loops) /\ Len(loops') <= MaxVids /\ Nowhere \in Pcs
      BY <2>4, EmptySeq, NestedAssumption DEF EndProcess, Nowhere, Pcs
    <3>2. at' = "idle" /\ driven' = NoVid /\ host' \in Hosts
      BY <2>4, <3>1 DEF EndProcess, NoHost, Hosts
    <3>3. QED
      BY <2>2, <2>3, <3>1, <3>2 DEF FrameSpace, ParkSpace
  <2>5. CASE at' = "ran" /\ loops' = Outer /\ UNCHANGED <<driven, host>>
    <3>1. Outer \in Seq(Loops) /\ Len(Outer) = Len(loops) - 1 /\ Len(loops) \in 1 .. MaxVids
      BY <2>1, LoopFacts
    <3>2. loops' \in Seq(Loops) /\ Len(loops') <= MaxVids
      BY <2>5, <3>1, NestedAssumption
    <3>3. QED
      BY <2>2, <2>3, <2>5, <3>2 DEF FrameSpace, ParkSpace
  <2>6. QED
    BY <2>1, <2>4, <2>5, PopFacts
<1>15. CASE Yield
  <2>1. InExec /\ CleanupAbove({AboveLast(loops[n]) : n \in 1 .. Len(loops)})
    BY <1>15 DEF Yield, Exec, InExec
  <2>2. frame' \in FrameSpace
    BY <2>1, TrimFacts DEF CleanupAbove, FramesTrimmed
  <2>3. park' \in ParkSpace
    BY <2>1, EmptyFrames DEF CleanupAbove, ParkSpace
  <2>4. Me \in Vids /\ Here \in Pcs
    <3>1. Me \in Vids /\ Here \in LivePcs
      BY <2>1, ExecFacts, PcFacts DEF Here, Unfinished
    <3>2. QED
      BY <3>1, NestedAssumption DEF Pcs, Depths
  <2>5. host' \in Hosts /\ loops' \in Seq(Loops) /\ Len(loops') <= MaxVids /\ at' = "host"
    BY <1>15, <2>4, EmptySeq, NestedAssumption DEF Yield, Hosts
  <2>6. UNCHANGED <<seq, pc, status, kid, driven, crashes>>
    BY <1>15 DEF Yield, PcAtYield
  <2>7. QED
    BY <2>2, <2>3, <2>5, <2>6 DEF FrameSpace, ParkSpace
<1>16. CASE Dispatch \/ UNCHANGED vars
  BY <1>16 DEF Dispatch, vars, kvvars, procvars
<1>17. CASE DispatchFails \/ Crash
  <2>1. EndProcess /\ UNCHANGED <<seq, pc, frame, kid>>
    BY <1>17 DEF DispatchFails, Crash, kvvars
  <2>2. status' \in [Vids -> Statuses]
    BY <1>17 DEF DispatchFails, Crash, kvvars, Statuses, Live
  <2>3. crashes' \in 0 .. MaxCrashes
    BY <1>17, NestedAssumption DEF DispatchFails, Crash
  <2>4. /\ loops' \in Seq(Loops) /\ Len(loops') <= MaxVids /\ Nowhere \in Pcs
        /\ park' \in [Depths -> Parks]
    BY <2>1, EmptySeq, EmptyFrames, NestedAssumption DEF EndProcess, Nowhere, Pcs
  <2>5. at' = "idle" /\ driven' = NoVid /\ host' \in Hosts
    BY <2>1, <2>4 DEF EndProcess, NoHost, Hosts
  <2>6. QED
    BY <2>1, <2>2, <2>3, <2>4, <2>5
<1>18. CASE Advance
  <2>1. /\ at = "advance" /\ UNCHANGED <<seq, status, frame, kid, driven, park, crashes>>
        /\ pc' = [pc EXCEPT ![host.vid] = At(host.p.d, host.p.i + 1)]
    BY <1>18 DEF Advance, Owner
  <2>2. /\ host.vid \in Vids /\ At(host.p.d, host.p.i + 1) \in LivePcs
        /\ driven \in Vids
    BY <2>1, HostFacts
  <2>3. pc' \in [Vids -> LivePcs \cup {Nowhere}]
    BY <2>1, <2>2, MoveTyped
  <2>4. At(host.p.d, host.p.i + 1) \in Pcs /\ Nowhere \in Pcs
    BY <2>2, NestedAssumption DEF Pcs, Depths, Nowhere
  <2>5. host' \in Hosts /\ at' \in {"host", "loop"}
    BY <1>18, <2>4 DEF Advance, Hosts, NoHost
  <2>6. loops' \in Seq(Loops) /\ Len(loops') <= MaxVids
    <3>1. loops' = loops \/ loops' = << Enter(driven) >>
      BY <1>18 DEF Advance
    <3>2. << Enter(driven) >> \in Seq(Loops) /\ Len(<< Enter(driven) >>) = 1
      BY <2>2, EnterFacts
    <3>3. 1 <= MaxVids
      BY NestedAssumption
    <3>4. QED
      BY <3>1, <3>2, <3>3
  <2>7. QED
    BY <2>1, <2>3, <2>5, <2>6
<1>19. QED
  BY <1>1, <1>2, <1>3, <1>4, <1>5, <1>6, <1>7, <1>8, <1>9, <1>10, <1>11, <1>12, <1>13,
     <1>14, <1>15, <1>16, <1>17, <1>18 DEF Next, Drive

(***************************************************************************)
(* Who moves, who is born, who stands still                                *)
(***************************************************************************)
LEMMA MoveTo ==
  ASSUME IInv, InExec, NEW st, NextPc(st)
  PROVE  /\ pc'[Me] = At(Here.d, Here.i + 1)
         /\ \A v \in Vids : v # Me => pc'[v] = pc[v] /\ status'[v] = status[v]
         /\ status'[Me] = st
<1>1. Me \in Vids /\ Here \in LivePcs
  BY ExecFacts, PcFacts DEF Here, Unfinished
<1>2. pc'[Me] = [Here EXCEPT !.i = @ + 1]
  BY <1>1 DEF NextPc, Here, IInv, TypeOK
<1>3. [Here EXCEPT !.i = @ + 1] = At(Here.d, Here.i + 1)
  BY <1>1 DEF LivePcs, At
<1>4. QED
  BY <1>1, <1>2, <1>3 DEF NextPc, IInv, TypeOK

(* The pc of a vthread that may still run is moved by the instruction it is *)
(* at: by its own loop, or by the drive loop behind its host instruction.   *)
LEMMA Mover ==
  ASSUME IInv, [Next]_vars, NEW v \in Vids, Unfinished(v), pc'[v] # pc[v]
  PROVE  \/ v = Me /\ (Native \/ SetStatus \/ Call \/ Return \/ Continue)
         \/ v = host.vid /\ Advance
<1>1. pc # pc' /\ pc \in [Vids -> LivePcs \cup {Nowhere}]
  BY DEF IInv, TypeOK, LivePcs
<1>2. CASE SetInit
  BY <1>1, <1>2 DEF SetInit, IInv, SpawnInv, Unfinished, Live
<1>3. CASE Run
  BY <1>1, <1>3, RunFacts
<1>4. CASE Native \/ SetStatus \/ Call \/ Return \/ Continue
  BY <1>1, <1>4 DEF Native, SetStatus, Call, Return, Continue, NextPc
<1>5. CASE Advance
  BY <1>1, <1>5 DEF Advance, Owner
<1>6. CASE \/ \E u \in Vids : Start(u) \/ Resume(u)
           \/ Fetch \/ Done \/ Create \/ Bootstrap \/ BootFails \/ Emit
           \/ Leave \/ Fails \/ Yield \/ Dispatch \/ DispatchFails \/ Crash
           \/ UNCHANGED vars
  BY <1>1, <1>6 DEF Start, Resume, Fetch, Done, Create, Bootstrap, BootFails, Emit, Leave,
     Fails, Yield, PcAtYield, Dispatch, DispatchFails, Crash, kvvars, vars
<1>7. QED
  BY <1>2, <1>3, <1>4, <1>5, <1>6 DEF Next, Drive

(* A vthread begins to run when vthread.create has written its ..pc. *)
LEMMA Born ==
  ASSUME IInv, [Next]_vars, NEW v \in Vids, Unfinished(v)', ~ Unfinished(v)
  PROVE  SetInit /\ v = seq
<1>1. /\ pc \in [Vids -> LivePcs \cup {Nowhere}] /\ status \in [Vids -> Statuses]
  BY DEF IInv, TypeOK, LivePcs
<1>2. CASE SetInit
  BY <1>1, <1>2 DEF SetInit, Unfinished
<1>3. CASE Native \/ SetStatus \/ Call \/ Return \/ Continue \/ Done
  <2>1. Unfinished(Me)
    BY <1>3, ExecFacts DEF InExec, Native, SetStatus, Call, Return, Continue, Done, Exec
  <2>2. v # Me
    BY <2>1
  <2>3. pc'[v] = pc[v] /\ status'[v] = status[v]
    BY <1>1, <1>3, <2>2 DEF Native, SetStatus, Call, Return, Continue, Done, NextPc
  <2>4. QED
    BY <2>3 DEF Unfinished
<1>4. CASE Advance
  <2>1. Unfinished(host.vid) /\ v # host.vid
    BY <1>4, HostFacts DEF Advance
  <2>2. pc'[v] = pc[v] /\ status' = status
    BY <1>1, <1>4, <2>1 DEF Advance, Owner
  <2>3. QED
    BY <2>2 DEF Unfinished
<1>5. CASE \E u \in Vids : Resume(u)
  <2>1. PICK u \in Vids : Resume(u)
    BY <1>5
  <2>2. status[u] = "paused" /\ status' = [status EXCEPT ![u] = "running"] /\ pc' = pc
    BY <2>1 DEF Resume
  <2>3. CASE v = u
    <3>1. Unfinished(v)
      BY <2>2, <2>3 DEF IInv, SpawnInv, Unfinished
    <3>2. QED
      BY <3>1
  <2>4. CASE v # u
    BY <1>1, <2>2, <2>4 DEF Unfinished
  <2>5. QED
    BY <2>3, <2>4
<1>6. CASE Fails \/ BootFails \/ DispatchFails
  <2>1. pc' = pc /\ \E u \in Vids \cup {seq, Me, host.vid} : status' = [status EXCEPT ![u] = "error"]
    BY <1>6 DEF Fails, BootFails, DispatchFails
  <2>2. status'[v] \in {status[v], "error"}
    BY <1>1, <2>1
  <2>3. QED
    BY <2>1, <2>2 DEF Unfinished, Live
<1>7. CASE Run
  BY <1>7, RunFacts DEF Unfinished
<1>8. CASE \/ \E u \in Vids : Start(u)
           \/ Fetch \/ Create \/ Bootstrap \/ Emit
           \/ Leave \/ Yield \/ Dispatch \/ Crash \/ UNCHANGED vars
  BY <1>8 DEF Start, Fetch, Create, Bootstrap, Emit, Leave,
     Yield, PcAtYield, Dispatch, Crash, kvvars, vars, Unfinished
<1>9. QED
  BY <1>2, <1>3, <1>4, <1>5, <1>6, <1>7, <1>8 DEF Next, Drive

(* The instruction a vthread stands at while its loop executes it. *)
LEMMA Acting ==
  ASSUME IInv, InExec, Row.op # "run"
  PROVE  ~ Blocked(Me)
BY ExecFacts DEF Blocked, AtRun, Here

(* Whoever moves, the frames of a vthread that may still run stay what they *)
(* are, up to the one it runs in before and behind the step.                *)
LEMMA KeptStep ==
  ASSUME IInv, [Next]_vars, NEW v \in Vids, NEW k \in Depths,
         Unfinished(v), Unfinished(v)', k <= pc[v].d, k <= pc'[v].d
  PROVE  frame'[v][k] = frame[v][k]
<1> SUFFICES ASSUME frame'[v][k] # frame[v][k] PROVE FALSE
  OBVIOUS
<1>1. park[k].vid = v => Hot(v)
  BY DEF Hot
<1>2. CASE Call
  <2>1. InExec /\ Row.op = "call" /\ k = CalleeD /\ (v = Me \/ park[k].vid = v)
    BY <1>2, CallFacts
  <2>2. v = Me
    BY <1>1, <2>1, OnlyMe
  <2>3. CalleeD = Here.d + 1 /\ Here.d \in Nat /\ k <= Here.d
    BY <2>1, <2>2, ExecFacts DEF Here
  <2>4. QED
    BY <2>1, <2>3
<1>3. CASE Return
  <2>1. /\ InExec /\ k = Here.d /\ v = Me /\ pc'[Me] = At(Here.d - 1, ReturnTo)
    BY <1>3, ReturnFacts
  <2>2. Here.d \in Nat /\ pc'[v].d = Here.d - 1
    BY <2>1, ExecFacts DEF At
  <2>3. QED
    BY <2>1, <2>2
<1>4. CASE Done
  <2>1. frame'[v][k] = IF (k \in Cleared({[vid |-> Me, m |-> 1]}) /\ park[k].vid = v) \/ (v = Me /\ k = 1)
                       THEN Absent ELSE frame[v][k]
    BY <1>4 DEF Done
  <2>2. v = Me
    BY <2>1 DEF Cleared
  <2>3. status'[v] = "ok"
    BY <1>4, <2>2 DEF Done, IInv, TypeOK
  <2>4. QED
    BY <2>3 DEF Unfinished, Live
<1>5. CASE Bootstrap
  <2>1. v = seq
    BY <1>5 DEF Bootstrap, IInv, TypeOK
  <2>2. QED
    BY <1>5, <2>1 DEF Bootstrap, IInv, SpawnInv, Unfinished, Live
<1>6. CASE Leave \/ Fails
  <2>1. InLoop /\ Pop
    BY <1>6 DEF Leave, Fails, Broken, Exec, InLoop
  <2>2. v = Me /\ Hot(v)
    BY <1>1, <2>1, PopFacts
  <2>3. status[v] \in Live
    BY <2>2 DEF IInv, HotInv
  <2>4. Fails
    BY <1>6, <2>2, <2>3 DEF Leave
  <2>5. status'[v] = "error"
    BY <2>2, <2>4 DEF Fails, IInv, TypeOK
  <2>6. QED
    BY <2>5 DEF Unfinished, Live
<1>7. CASE Yield
  <2>1. InExec /\ Row.op = "host" /\ FramesTrimmed({AboveLast(loops[n]) : n \in 1 .. Len(loops)})
    BY <1>7 DEF Yield, Exec, InExec, CleanupAbove, FramesTrimmed
  <2>2. /\ park[k].vid = v
        /\ \E l \in {AboveLast(loops[n]) : n \in 1 .. Len(loops)} : l.vid = v /\ k > l.m
    BY <2>1, TrimFacts
  <2>3. PICK n \in 1 .. Len(loops) : loops[n].vid = v /\ k > AboveLast(loops[n]).m
    BY <2>2 DEF AboveLast
  <2>4. v = Me
    BY <1>1, <2>1, <2>2, OnlyMe
  <2>5. ~ (n < Len(loops))
    BY <2>1, <2>3, <2>4, Acting DEF IInv, LoopInv
  <2>6. n = Len(loops)
    <3>1. Len(loops) \in Nat
      BY <2>1, LoopFacts DEF InExec, InLoop
    <3>2. QED
      BY <2>5, <3>1
  <2>7. Top.last = Here.d /\ Here.d >= 1 /\ Here.d \in Nat /\ k <= Here.d
    BY <2>1, <2>4, ExecFacts DEF Here
  <2>8. AboveLast(loops[n]).m = Here.d
    BY <2>6, <2>7 DEF AboveLast, Top
  <2>9. QED
    BY <2>3, <2>7, <2>8 DEF Depths
<1>8. CASE Run
  BY <1>8, RunFacts
<1>9. CASE \/ \E u \in Vids : Start(u) \/ Resume(u)
           \/ Fetch \/ Native \/ SetStatus \/ Create \/ BootFails \/ SetInit \/ Emit
           \/ Continue \/ Dispatch \/ DispatchFails \/ Advance \/ Crash \/ UNCHANGED vars
  BY <1>9 DEF Start, Resume, Fetch, Native, SetStatus, Create, BootFails, SetInit, Emit,
     Continue, Dispatch, DispatchFails, Advance, Crash, kvvars, vars
<1>10. QED
  BY <1>2, <1>3, <1>4, <1>5, <1>6, <1>7, <1>8, <1>9 DEF Next, Drive

(* A loop finds the function it is in. *)
LEMMA ResolvesToOwn ==
  ASSUME IInv, at = "loop", Unfinished(Me), Here.d <= MaxDepth
  PROVE  Resolved = frame[Me][Here.d].lib /\ Fetchable
<1>1. InLoop
  BY DEF InLoop
<1>2. Me \in Vids /\ Len(loops) \in 1 .. Len(loops)
  BY <1>1, LoopFacts
<1>3. /\ Here.d \in Depths /\ Here.d <= pc[Me].d
      /\ frame[Me][Here.d].lib \in Funcs /\ HasRow(frame[Me][Here.d].lib, Here.i)
  BY <1>2, ChainFacts DEF Here, LivePcs, Depths
<1>4. Here.d <= Top.last /\ Top.ctx[Here.d] # None => Top.ctx[Here.d] = frame[Me][Here.d].lib
  BY <1>2, <1>3 DEF IInv, LoopInv, Top, Me
<1>5. Mine(Here.d) => park[Here.d].f = frame[Me][Here.d].lib
  <2>1. SUFFICES ASSUME Mine(Here.d) PROVE park[Here.d].f = frame[Me][Here.d].lib
    OBVIOUS
  <2>2. park[Here.d].vid = Me /\ Me # NoVid
    BY <1>2, <2>1 DEF Mine, Vids, NoVid
  <2>3. frame[Me][Here.d] = [lib |-> park[Here.d].f, ret |-> park[Here.d].ret]
    BY <1>3, <2>2 DEF IInv, ParkInv
  <2>4. QED
    BY <2>3
<1>6. Resolved = frame[Me][Here.d].lib
  BY <1>4, <1>5 DEF Resolved
<1>7. QED
  BY <1>3, <1>6, NestedAssumption DEF Fetchable

(* A vthread at its vthread.run stays there until the loop it runs is left. *)
LEMMA BlockedStays ==
  ASSUME IInv, [Next]_vars, NEW u \in Vids, Blocked(u)
  PROVE  \/ Blocked(u)' /\ kid'[u] = kid[u]
         \/ at = "ran" /\ u = Me /\ Continue
<1>1. /\ Unfinished(u) /\ frame[u][pc[u].d].lib # None /\ pc[u].d = 1 /\ status[u] \in Live
      /\ HasRow(frame[u][pc[u].d].lib, pc[u].i)
      /\ Code[frame[u][pc[u].d].lib][pc[u].i].op = "run"
  BY DEF Blocked, AtRun
<1> SUFFICES ASSUME ~ (at = "ran" /\ u = Me /\ Continue)
    PROVE  Blocked(u)' /\ kid'[u] = kid[u]
  OBVIOUS
<1>2. ASSUME InExec, Row.op # "run" PROVE u # Me
  BY <1>2, Acting
<1>3. ASSUME at \in {"host", "advance"} PROVE u # host.vid
  BY <1>1, <1>3, HostFacts
<1>4. /\ pc \in [Vids -> LivePcs \cup {Nowhere}] /\ status \in [Vids -> Statuses]
      /\ kid \in [Vids -> Vids \cup {NoVid}]
  BY DEF IInv, TypeOK, LivePcs
<1>5. pc'[u] = pc[u]
  <2>1. SUFFICES ASSUME pc'[u] # pc[u] PROVE FALSE
    OBVIOUS
  <2>2. \/ u = Me /\ (Native \/ SetStatus \/ Call \/ Return \/ Continue)
        \/ u = host.vid /\ Advance
    BY <1>1, <2>1, Mover
  <2>3. ~ Advance
    BY <1>3, <2>2 DEF Advance, Native, SetStatus, Call, Return, Continue, Exec
  <2>4. u = Me /\ (Native \/ SetStatus \/ Call \/ Return \/ Continue)
    BY <2>2, <2>3
  <2>5. CASE Continue
    <3>1. at = "next"
      BY <2>4, <2>5 DEF Continue
    <3>2. Row.op = "create" /\ InExec
      BY <3>1 DEF IInv, ExecInv, InExec
    <3>3. QED
      BY <1>2, <2>4, <3>2
  <2>6. CASE Native \/ SetStatus \/ Call \/ Return
    <3>1. InExec /\ Row.op # "run"
      BY <2>6 DEF Native, SetStatus, Call, Return, Exec, InExec
    <3>2. QED
      BY <1>2, <2>4, <3>1
  <2>7. QED
    BY <2>4, <2>5, <2>6
<1>6. status'[u] \in Live
  <2>1. CASE Native \/ Call \/ Return \/ Continue
    BY <1>1, <1>4, <2>1 DEF Native, Call, Return, Continue, NextPc, Live
  <2>2. CASE SetStatus \/ Done
    <3>1. u # Me
      BY <1>2, <2>2 DEF SetStatus, Done, Exec, InExec
    <3>2. QED
      BY <1>1, <1>4, <2>2, <3>1 DEF SetStatus, Done, NextPc
  <2>3. CASE BootFails
    <3>1. u # seq
      BY <1>1, <2>3 DEF BootFails, IInv, SpawnInv, Live
    <3>2. QED
      BY <1>1, <1>4, <2>3, <3>1 DEF BootFails
  <2>4. CASE SetInit
    BY <1>1, <1>4, <2>4 DEF SetInit, Live
  <2>5. CASE Fails
    <3>1. u # Me
      <4>1. CASE at = "loop" /\ ~ Fetchable
        BY <1>1, <4>1, ResolvesToOwn, NestedAssumption DEF Here
      <4>2. CASE at = "fail"
        BY <1>2, <4>2 DEF IInv, ExecInv, InExec
      <4>3. CASE Exec("return") \/ (at = "exec" /\ Row.op \in {"native", "call"})
        BY <1>2, <4>3 DEF Exec, InExec
      <4>4. CASE Exec("run") /\ kid[Me] = NoVid
        BY <4>4 DEF Blocked
      <4>5. QED
        BY <2>5, <4>1, <4>2, <4>3, <4>4 DEF Fails, Broken
    <3>2. QED
      BY <1>1, <1>4, <2>5, <3>1 DEF Fails
  <2>6. CASE DispatchFails
    BY <1>1, <1>3, <1>4, <2>6 DEF DispatchFails
  <2>7. CASE \E v \in Vids : Resume(v)
    BY <1>1, <1>4, <2>7 DEF Resume, Live
  <2>8. CASE Run
    BY <1>1, <2>8, RunFacts
  <2>9. CASE \/ \E v \in Vids : Start(v)
             \/ Fetch \/ Create \/ Bootstrap \/ Emit
             \/ Leave \/ Yield \/ Dispatch \/ Advance \/ Crash \/ UNCHANGED vars
    BY <1>1, <2>9 DEF Start, Fetch, Create, Bootstrap, Emit, Leave, Yield, Dispatch,
       Advance, Crash, kvvars, vars
  <2>10. QED
    BY <2>1, <2>2, <2>3, <2>4, <2>5, <2>6, <2>7, <2>8, <2>9 DEF Next, Drive
<1>7. kid'[u] = kid[u]
  <2>1. CASE Emit
    <3>1. u # Me
      BY <1>2, <2>1 DEF Emit, IInv, ExecInv, InExec
    <3>2. QED
      BY <1>4, <2>1, <3>1 DEF Emit
  <2>2. CASE Run
    BY <2>2, RunFacts
  <2>3. CASE ~ Emit /\ ~ Run
    <3>1. kid' = kid
      BY <2>3 DEF Next, Drive, Start, Resume, Fetch, Native, SetStatus, Call, Return, Done,
         Create, Bootstrap, BootFails, SetInit, Leave, Fails, Continue, Yield, Dispatch,
         DispatchFails, Advance, Crash, kvvars, vars
    <3>2. QED
      BY <3>1
  <2>4. QED
    BY <2>1, <2>2, <2>3
<1>8. Unfinished(u)'
  BY <1>1, <1>5, <1>6 DEF Unfinished
<1>9. frame'[u][1] = frame[u][1]
  <2>1. 1 \in Depths /\ 1 <= pc[u].d /\ 1 <= pc'[u].d
    BY <1>1, <1>5, NestedAssumption DEF Depths
  <2>2. QED
    BY <1>1, <1>8, <2>1, KeptStep
<1>10. QED
  BY <1>1, <1>5, <1>6, <1>7, <1>8, <1>9 DEF Blocked, AtRun

(***************************************************************************)
(* The conjuncts of the invariant, one by one                              *)
(***************************************************************************)
LEMMA SpawnStep ==
  ASSUME IInv, [Next]_vars
  PROVE  SpawnInv'
<1>1. /\ pc \in [Vids -> LivePcs \cup {Nowhere}] /\ status \in [Vids -> Statuses]
      /\ kid \in [Vids -> Vids \cup {NoVid}] /\ seq \in 0 .. MaxVids /\ MaxVids \in Nat
      /\ SpawnInv
  BY NestedAssumption DEF IInv, TypeOK, LivePcs
<1>2. Nowhere \notin LivePcs
  BY DEF Nowhere, LivePcs
<1>3. ASSUME NEW v \in Vids, pc[v] # Nowhere, \E p \in LivePcs : pc' = [pc EXCEPT ![v] = p] \/ pc' = pc,
             NEW st \in Statuses \ {"none"}, status' = [status EXCEPT ![v] = st],
             UNCHANGED <<seq, kid>>, at' \notin {"boot", "init", "emit"}
      PROVE  SpawnInv'
  <2>1. \A u \in Vids : pc'[u] = Nowhere <=> pc[u] = Nowhere
    BY <1>1, <1>2, <1>3
  <2>2. \A u \in Vids : u # v => status'[u] = status[u]
    BY <1>1, <1>3
  <2>3. status'[v] = st /\ status[v] # "none"
    BY <1>1, <1>3 DEF SpawnInv
  <2>4. QED
    BY <1>1, <1>3, <2>1, <2>2, <2>3 DEF SpawnInv
<1>4. CASE Native \/ SetStatus \/ Continue
  <2>1. InExec /\ \E st \in {"running", "paused"} : NextPc(st)
    BY <1>4 DEF Native, SetStatus, Continue, Exec, InExec
  <2>2. Me \in Vids /\ pc[Me] # Nowhere
    BY <2>1, ExecFacts DEF Unfinished
  <2>3. Here \in LivePcs
    BY <2>2, PcFacts DEF Here
  <2>4. \E p \in LivePcs : pc' = [pc EXCEPT ![Me] = p]
    <3>1. [Here EXCEPT !.i = @ + 1] \in LivePcs
      BY <2>3 DEF LivePcs
    <3>2. pc' = [pc EXCEPT ![Me] = [Here EXCEPT !.i = @ + 1]]
      BY <2>1 DEF NextPc, Here
    <3>3. QED
      BY <3>1, <3>2
  <2>5. UNCHANGED <<seq, kid>> /\ at' = "loop"
    BY <1>4 DEF Native, SetStatus, Continue, NextPc
  <2>6. QED
    BY <1>3, <2>1, <2>2, <2>4, <2>5 DEF NextPc, Statuses, Live
<1>5. CASE Call \/ Return
  <2>1. InExec /\ UNCHANGED <<seq, kid>> /\ at' = "loop"
        /\ status' = [status EXCEPT ![Me] = "running"]
    BY <1>5 DEF Call, Return, Exec, InExec
  <2>2. Me \in Vids /\ pc[Me] # Nowhere /\ At(CalleeD, 1) \in LivePcs
    BY <2>1, ExecFacts DEF Unfinished, At, LivePcs
  <2>3. \E p \in LivePcs : pc' = [pc EXCEPT ![Me] = p]
    BY <1>5, <2>2, ReturnFacts DEF Call, Return
  <2>4. QED
    BY <1>3, <2>1, <2>2, <2>3 DEF Statuses, Live
<1>6. CASE Done \/ Fails
  <2>1. InLoop /\ UNCHANGED <<seq, pc, kid>>
    BY <1>6 DEF Done, Fails, Broken, Exec, InLoop
  <2>2. at' \in {"loop", "ran", "idle"}
    BY <1>6, <2>1, PopFacts DEF Done, Fails, EndProcess
  <2>3. Me \in Vids /\ pc[Me] # Nowhere /\ \E p \in LivePcs : pc' = pc
    BY <2>1, LoopFacts, PcFacts
  <2>4. \E st \in {"ok", "error"} : status' = [status EXCEPT ![Me] = st]
    BY <1>6 DEF Done, Fails
  <2>5. QED
    BY <1>3, <2>1, <2>2, <2>3, <2>4 DEF Statuses, Live
<1>7. CASE DispatchFails \/ Advance
  <2>1. at \in {"host", "advance"} /\ UNCHANGED <<seq, kid>> /\ at' \in {"idle", "host", "loop"}
    BY <1>7 DEF DispatchFails, Advance, EndProcess
  <2>2. host.vid \in Vids /\ pc[host.vid] # Nowhere /\ status[host.vid] \in Live
        /\ At(host.p.d, host.p.i + 1) \in LivePcs
    BY <2>1, HostFacts DEF Unfinished
  <2>3. \E p \in LivePcs : pc' = [pc EXCEPT ![host.vid] = p] \/ pc' = pc
    BY <1>7, <2>2 DEF DispatchFails, Advance, Owner
  <2>4. \E st \in {"error", status[host.vid]} : status' = [status EXCEPT ![host.vid] = st]
    BY <1>1, <1>7 DEF DispatchFails, Advance
  <2>5. \A st \in {"error", status[host.vid]} : st \in Statuses \ {"none"}
    BY <2>2 DEF Statuses, Live
  <2>6. QED
    BY <1>3, <2>1, <2>2, <2>3, <2>4, <2>5
<1>8. CASE \E v \in Vids : Resume(v)
  <2>1. PICK v \in Vids : Resume(v)
    BY <1>8
  <2>2. /\ status[v] = "paused" /\ status' = [status EXCEPT ![v] = "running"]
        /\ UNCHANGED <<seq, pc, frame, kid, at, loops>>
    BY <2>1 DEF Resume, procvars
  <2>3. /\ status'[v] = "running" /\ \A u \in Vids : u # v => status'[u] = status[u]
    BY <1>1, <2>2
  <2>4. Me' = Me
    BY <2>2 DEF Me, Top
  <2>5. QED
    BY <1>1, <2>2, <2>3, <2>4 DEF SpawnInv
<1>9. CASE Create
  <2>1. /\ at' = "boot" /\ seq' = seq + 1 /\ seq < MaxVids
        /\ UNCHANGED <<pc, status, kid>>
    BY <1>9 DEF Create, NewVid
  <2>2. seq + 1 \in Vids /\ seq + 1 >= 1
    BY <1>1, <2>1 DEF Vids
  <2>3. status[seq + 1] = "none"
    BY <1>1, <2>2 DEF SpawnInv
  <2>4. \A v \in Vids : v > seq + 1 => v > seq
    BY <1>1 DEF Vids
  <2>5. QED
    BY <1>1, <2>1, <2>2, <2>3, <2>4 DEF SpawnInv
<1>10. CASE Bootstrap
  <2>1. at = "boot" /\ at' = "init" /\ UNCHANGED <<seq, pc, status, kid>>
    BY <1>10 DEF Bootstrap
  <2>2. InExec /\ Row.op = "create"
    BY <2>1 DEF InExec, IInv, ExecInv
  <2>3. Row.fn \in Funcs
    BY <2>2, ExecFacts, RowFacts
  <2>4. seq \in Vids /\ 1 \in Depths
    BY <1>1, <2>1, NestedAssumption DEF SpawnInv, Vids, Depths
  <2>5. frame'[seq][1].lib = Row.fn
    BY <1>10, <2>4 DEF Bootstrap, IInv, TypeOK, Absent
  <2>6. QED
    BY <1>1, <2>1, <2>3, <2>5 DEF SpawnInv
<1>11. CASE BootFails
  <2>1. at = "boot" /\ at' = "fail" /\ UNCHANGED <<seq, pc, kid>>
        /\ status' = [status EXCEPT ![seq] = "error"]
    BY <1>11 DEF BootFails
  <2>2. seq \in Vids
    BY <1>1, <2>1 DEF SpawnInv, Vids
  <2>3. status'[seq] = "error" /\ \A u \in Vids : u # seq => status'[u] = status[u]
    BY <1>1, <2>1, <2>2
  <2>4. ~ (seq > seq)
    BY <1>1
  <2>5. QED
    BY <1>1, <2>1, <2>2, <2>3, <2>4 DEF SpawnInv
<1>12. CASE SetInit
  <2>1. at = "init" /\ at' = "emit" /\ UNCHANGED <<seq, kid, loops>>
        /\ status' = [status EXCEPT ![seq] = "init"] /\ pc' = [pc EXCEPT ![seq] = EntryPc]
    BY <1>12 DEF SetInit
  <2>2. seq \in Vids /\ seq >= 1
    BY <1>1, <2>1 DEF SpawnInv, Vids
  <2>3. /\ status'[seq] = "init" /\ \A u \in Vids : u # seq => status'[u] = status[u]
        /\ pc'[seq] = EntryPc /\ \A u \in Vids : u # seq => pc'[u] = pc[u]
    BY <1>1, <2>1, <2>2
  <2>4. EntryPc # Nowhere /\ ~ (seq > seq)
    BY <1>1 DEF EntryPc, At, Nowhere
  <2>5. Me' = Me /\ Me \in Vids /\ status[Me] \in Live /\ status[seq] = "none"
    BY <2>1, ExecFacts DEF Me, Top, InExec, IInv, SpawnInv
  <2>6. Me < seq
    <3>1. ~ (Me > seq) /\ Me # seq
      BY <1>1, <2>5 DEF SpawnInv, Live
    <3>2. QED
      BY <3>1, <2>2, <2>5 DEF Vids
  <2>7. QED
    BY <1>1, <2>1, <2>2, <2>3, <2>4, <2>5, <2>6 DEF SpawnInv
<1>13. CASE Emit
  <2>1. at = "emit" /\ at' = "next" /\ UNCHANGED <<seq, pc, status>>
        /\ kid' = [kid EXCEPT ![Me] = seq]
    BY <1>13 DEF Emit
  <2>2. Me \in Vids /\ Me < seq /\ seq \in Vids /\ pc[seq] # Nowhere
    BY <1>1, <2>1, ExecFacts DEF SpawnInv, InExec, Vids
  <2>3. kid'[Me] = seq /\ \A u \in Vids : u # Me => kid'[u] = kid[u]
    BY <1>1, <2>1, <2>2
  <2>4. ~ (Me > seq) /\ seq > Me
    BY <1>1, <2>2 DEF Vids
  <2>5. QED
    BY <1>1, <2>1, <2>2, <2>3, <2>4 DEF SpawnInv
<1>14. CASE \/ \E v \in Vids : Start(v)
            \/ Fetch \/ Run \/ Leave \/ Yield \/ Dispatch \/ Crash
  <2>1. UNCHANGED <<seq, pc, status, kid>>
    BY <1>14, RunFacts DEF Start, Fetch, Leave, Yield, PcAtYield, Dispatch, Crash, kvvars
  <2>2. at' \notin {"boot", "init", "emit"}
    <3>1. CASE Leave
      BY <3>1, PopFacts DEF Leave, InLoop, EndProcess
    <3>2. CASE ~ Leave
      BY <1>14, <3>2, RunFacts DEF Start, Fetch, Yield, Dispatch, Crash, EndProcess
    <3>3. QED
      BY <3>1, <3>2
  <2>3. QED
    BY <1>1, <2>1, <2>2 DEF SpawnInv
<1>15. CASE UNCHANGED vars
  BY <1>1, <1>15 DEF SpawnInv, vars, kvvars, procvars, Me, Top
<1>16. QED
  BY <1>4, <1>5, <1>6, <1>7, <1>8, <1>9, <1>10, <1>11, <1>12, <1>13, <1>14, <1>15 DEF Next, Drive

(* The end of a process empties its memory. *)
LEMMA EndProcessFacts ==
  ASSUME EndProcess
  PROVE  /\ at' = "idle" /\ driven' = NoVid /\ loops' = <<>> /\ host' = NoHost
         /\ \A k \in Depths : park'[k].vid = NoVid
BY DEF EndProcess, Cold

(* A parked entry goes on agreeing with the tree. *)
LEMMA ParkStep ==
  ASSUME IInv, [Next]_vars
  PROVE  ParkInv'
<1> SUFFICES ASSUME NEW k \in Depths, park'[k].vid # NoVid
    PROVE  /\ k \in 2 .. MaxDepth /\ park'[k].f \in Funcs
           /\ frame'[park'[k].vid][k] = [lib |-> park'[k].f, ret |-> park'[k].ret]
  BY DEF ParkInv
<1>1. park[k].vid # NoVid =>
        /\ k \in 2 .. MaxDepth /\ park[k].f \in Funcs /\ park[k].vid \in Vids
        /\ frame[park[k].vid][k] = [lib |-> park[k].f, ret |-> park[k].ret]
  BY DEF IInv, ParkInv, TypeOK, Parks
<1>2. ASSUME park'[k] = park[k],
             park[k].vid \in Vids => frame'[park[k].vid][k] = frame[park[k].vid][k]
      PROVE  /\ k \in 2 .. MaxDepth /\ park'[k].f \in Funcs
             /\ frame'[park'[k].vid][k] = [lib |-> park'[k].f, ret |-> park'[k].ret]
  BY <1>1, <1>2
<1>3. CASE Call
  <2>1. /\ InExec /\ Row.fn \in Funcs
        /\ frame'[Me][CalleeD] = [lib |-> Row.fn, ret |-> Here.i + 1]
        /\ \A v \in Vids : frame'[v][k] # frame[v][k] => k = CalleeD
        /\ park'[k] = IF k = CalleeD /\ CanPark
             THEN [vid |-> Me, f |-> Row.fn, ret |-> Here.i + 1] ELSE park[k]
    BY <1>3, CallFacts
  <2>2. CASE k = CalleeD /\ CanPark
    <3>1. k \in 2 .. MaxDepth
      BY <2>1, <2>2, ExecFacts, NestedAssumption DEF CanPark
    <3>2. QED
      BY <2>1, <2>2, <3>1
  <2>3. CASE ~ (k = CalleeD /\ CanPark)
    <3>1. park'[k] = park[k]
      BY <2>1, <2>3
    <3>2. k \in 2 .. MaxDepth
      BY <1>1, <3>1
    <3>3. k # CalleeD
      BY <2>3, <3>2, NestedAssumption DEF CanPark
    <3>4. QED
      BY <1>2, <2>1, <3>1, <3>3
  <2>4. QED
    BY <2>2, <2>3
<1>4. CASE Return
  <2>1. /\ \A v \in Vids : frame'[v][k] # frame[v][k] => park[k].vid # v
    BY <1>4, ReturnFacts
  <2>2. park' = park
    BY <1>4 DEF Return
  <2>3. QED
    BY <1>2, <2>1, <2>2
<1>5. CASE Done
  <2>1. k \notin Cleared({[vid |-> Me, m |-> 1]}) /\ park'[k] = park[k]
    BY <1>5 DEF Done, Cold
  <2>2. k # 1
    BY <1>1, <2>1
  <2>3. \A v \in Vids : frame'[v][k] = frame[v][k]
    BY <1>5, <2>1, <2>2 DEF Done
  <2>4. QED
    BY <1>2, <2>1, <2>3
<1>6. CASE Bootstrap
  <2>1. park' = park
    BY <1>6 DEF Bootstrap
  <2>2. k # 1
    BY <1>1, <2>1
  <2>3. \A v \in Vids : frame'[v][k] = frame[v][k]
    BY <1>6, <2>2 DEF Bootstrap, IInv, TypeOK
  <2>4. QED
    BY <1>2, <2>1, <2>3
<1>7. CASE Leave \/ Fails
  <2>1. InLoop /\ Pop
    BY <1>7 DEF Leave, Fails, Broken, Exec, InLoop
  <2>2. /\ park'[k] = park[k] \/ park'[k] = Cold
        /\ \A v \in Vids : frame'[v][k] # frame[v][k] => park'[k] = Cold
    BY <2>1, PopFacts DEF ParkTrimmed
  <2>3. park'[k] # Cold
    BY DEF Cold
  <2>4. QED
    BY <1>2, <2>2, <2>3
<1>8. CASE Yield
  <2>1. DEFINE S == {AboveLast(loops[n]) : n \in 1 .. Len(loops)}
  <2>2. FramesTrimmed(S) /\ park' = [j \in Depths |-> IF j \in Cleared(S) THEN Cold ELSE park[j]]
    BY <1>8 DEF Yield, CleanupAbove, FramesTrimmed
  <2> HIDE DEF S
  <2>3. k \notin Cleared(S) /\ park'[k] = park[k]
    BY <2>2 DEF Cold
  <2>4. \A v \in Vids : frame'[v][k] = frame[v][k]
    BY <2>2, <2>3, TrimFacts
  <2>5. QED
    BY <1>2, <2>3, <2>4
<1>9. CASE Crash \/ DispatchFails
  <2>1. EndProcess
    BY <1>9 DEF Crash, DispatchFails
  <2>2. QED
    BY <2>1, EndProcessFacts
<1>10. CASE \/ \E u \in Vids : Start(u) \/ Resume(u)
            \/ Fetch \/ Native \/ SetStatus \/ Create \/ BootFails \/ SetInit \/ Emit
            \/ Run \/ Continue \/ Dispatch \/ Advance \/ UNCHANGED vars
  <2>1. park' = park /\ frame' = frame
    BY <1>10, RunFacts DEF Start, Resume, Fetch, Native, SetStatus, Create, BootFails, SetInit,
       Emit, Continue, Dispatch, Advance, kvvars, procvars, vars
  <2>2. QED
    BY <1>2, <2>1
<1>11. QED
  BY <1>3, <1>4, <1>5, <1>6, <1>7, <1>8, <1>9, <1>10 DEF Next, Drive

(* A return or a step leaves the frames under it linked as they were. *)
LEMMA LinkKept ==
  ASSUME IInv, NEW v \in Vids, NEW k \in Nat, k >= 1, Linked(v, k),
         frame'[v][k] = frame[v][k],
         k > 1 => frame'[v][k - 1] = frame[v][k - 1]
  PROVE  Linked(v, k)'
BY DEF Linked, CallsAt, At

(* Every step keeps the chain of every unfinished vthread. *)
LEMMA ChainStep ==
  ASSUME IInv, [Next]_vars
  PROVE  ChainInv'
<1> SUFFICES ASSUME NEW v \in Vids, Unfinished(v)'
    PROVE  /\ \A k \in 1 .. pc'[v].d : Linked(v, k)'
           /\ HasRow(frame'[v][pc'[v].d].lib, pc'[v].i)
  BY DEF ChainInv
<1>1. CASE ~ Unfinished(v)
  <2>1. SetInit /\ v = seq
    BY <1>1, Born
  <2>2. pc'[v] = EntryPc /\ frame' = frame /\ frame[v][1].lib \in Funcs
    BY <2>1 DEF SetInit, IInv, TypeOK, SpawnInv
  <2>3. pc'[v].d = 1 /\ pc'[v].i = 1
    BY <2>2 DEF EntryPc, At
  <2>4. HasRow(frame'[v][1].lib, 1)
    BY <2>2, NestedAssumption, LenProperties DEF HasRow
  <2>5. Linked(v, 1)'
    BY <2>2 DEF Linked
  <2>6. QED
    BY <2>3, <2>4, <2>5
<1>2. CASE Unfinished(v)
  <2>1. /\ pc[v].d \in Nat /\ pc[v].d >= 1 /\ pc[v].i \in Nat
        /\ \A k \in 1 .. pc[v].d : k \in Depths /\ Linked(v, k)
        /\ frame[v][pc[v].d].lib \in Funcs
        /\ HasRow(frame[v][pc[v].d].lib, pc[v].i)
    BY <1>2, ChainFacts
  <2>2. ASSUME NEW m \in 1 .. pc[v].d, m <= pc'[v].d
        PROVE  /\ \A k \in 1 .. m : Linked(v, k)' /\ frame'[v][k] = frame[v][k]
    <3>1. SUFFICES ASSUME NEW k \in 1 .. m PROVE Linked(v, k)' /\ frame'[v][k] = frame[v][k]
      OBVIOUS
    <3>2. k \in Nat /\ k >= 1 /\ k \in 1 .. pc[v].d /\ k <= pc[v].d
      BY <2>1, <2>2
    <3>3. k <= pc'[v].d
      <4>1. pc'[v].d \in Nat
        BY TypeStep, NestedAssumption DEF TypeOK, Unfinished, Depths
      <4>2. QED
        BY <2>1, <2>2, <4>1
    <3>4. frame'[v][k] = frame[v][k]
      BY <1>2, <2>1, <3>2, <3>3, KeptStep
    <3>5. k > 1 => frame'[v][k - 1] = frame[v][k - 1]
      <4>1. SUFFICES ASSUME k > 1 PROVE frame'[v][k - 1] = frame[v][k - 1]
        OBVIOUS
      <4>2. k - 1 \in 1 .. pc[v].d /\ k - 1 <= pc[v].d
        BY <2>1, <3>2, <4>1
      <4>3. k - 1 <= pc'[v].d
        <5>1. pc'[v].d \in Nat
          BY TypeStep, NestedAssumption DEF TypeOK, Unfinished, Depths
        <5>2. QED
          BY <3>2, <3>3, <5>1
      <4>4. QED
        BY <1>2, <2>1, <4>2, <4>3, KeptStep
    <3>6. QED
      BY <2>1, <3>2, <3>4, <3>5, LinkKept
  <2>3. CASE pc'[v] = pc[v]
    <3>1. pc[v].d \in 1 .. pc[v].d /\ pc[v].d <= pc'[v].d
      BY <2>1, <2>3
    <3>2. QED
      BY <2>1, <2>2, <2>3, <3>1
  <2>4. ASSUME pc'[v] = At(pc[v].d, pc[v].i + 1),
               Code[frame[v][pc[v].d].lib][pc[v].i].op # "return"
        PROVE  /\ \A k \in 1 .. pc'[v].d : Linked(v, k)'
               /\ HasRow(frame'[v][pc'[v].d].lib, pc'[v].i)
    <3>1. pc'[v].d = pc[v].d /\ pc'[v].i = pc[v].i + 1
      BY <2>4 DEF At
    <3>2. pc[v].d \in 1 .. pc[v].d /\ pc[v].d <= pc'[v].d
      BY <2>1, <3>1
    <3>3. HasRow(frame[v][pc[v].d].lib, pc[v].i + 1)
      BY <2>1, <2>4, RowFacts
    <3>4. QED
      BY <2>2, <3>1, <3>2, <3>3
  <2>5. CASE v = Me /\ (Native \/ SetStatus \/ Continue)
    <3>1. InExec /\ \E st \in {"running", "paused"} : NextPc(st)
      BY <2>5 DEF Native, SetStatus, Continue, Exec, InExec
    <3>2. Row.op # "return"
      BY <2>5 DEF Native, SetStatus, Continue, Exec, IInv, ExecInv
    <3>3. pc'[v] = At(pc[v].d, pc[v].i + 1)
      BY <2>5, <3>1, MoveTo DEF Here
    <3>4. QED
      BY <2>4, <2>5, <3>1, <3>2, <3>3, ExecFacts DEF Here
  <2>6. CASE v = host.vid /\ Advance
    <3>1. /\ host.p = pc[v] /\ Code[frame[v][pc[v].d].lib][pc[v].i].op = "host"
      BY <2>6, HostFacts DEF Advance
    <3>2. pc'[v] = At(pc[v].d, pc[v].i + 1)
      BY <2>6, <3>1 DEF Advance, Owner, IInv, TypeOK
    <3>3. QED
      BY <2>4, <3>1, <3>2
  <2>7. CASE v = Me /\ Call
    <3>1. /\ InExec /\ Row.op = "call" /\ Row.fn \in Funcs
          /\ frame'[Me][CalleeD] = [lib |-> Row.fn, ret |-> Here.i + 1]
      BY <2>7, CallFacts
    <3>2. /\ pc'[v] = At(CalleeD, 1) /\ CalleeD = pc[v].d + 1 /\ Row \in Rows
          /\ Row = Code[frame[v][pc[v].d].lib][pc[v].i]
      BY <2>7, <3>1, ExecFacts DEF Call, IInv, TypeOK, Here
    <3>3. pc'[v].d = pc[v].d + 1 /\ pc'[v].i = 1
      BY <3>2 DEF At
    <3>4. pc[v].d \in 1 .. pc[v].d /\ pc[v].d <= pc'[v].d
      BY <2>1, <3>3
    <3>5. \A k \in 1 .. pc[v].d : Linked(v, k)' /\ frame'[v][k] = frame[v][k]
      BY <2>2, <3>4
    <3>6. frame'[v][pc[v].d + 1] = [lib |-> Row.fn, ret |-> pc[v].i + 1]
      BY <2>7, <3>1, <3>2 DEF Here
    <3>7. Row = [op |-> "call", fn |-> Row.fn]
      BY <3>1, <3>2 DEF Rows
    <3>8. PICK d \in Nat, i \in Nat : d = pc[v].d /\ i = pc[v].i
      BY <2>1
    <3>9. Linked(v, d + 1)'
      <4>1. frame'[v][d + 1].lib = Row.fn /\ frame'[v][d + 1].ret = i + 1
        BY <3>6, <3>8
      <4>2. d + 1 - 1 = d /\ i + 1 - 1 = i /\ i + 1 > 1
        BY <2>1, <3>8 DEF HasRow
      <4>3. frame'[v][d] = frame[v][d]
        BY <3>4, <3>5, <3>8
      <4>4. HasRow(frame'[v][d].lib, i) /\ Code[frame'[v][d].lib][i] = [op |-> "call", fn |-> Row.fn]
        BY <2>1, <3>2, <3>7, <3>8, <4>3
      <4>5. QED
        BY <3>1, <4>1, <4>2, <4>4 DEF Linked, CallsAt, At
    <3>10. HasRow(Row.fn, 1)
      BY <3>1, NestedAssumption, LenProperties DEF HasRow
    <3>11. \A k \in 1 .. pc'[v].d : Linked(v, k)'
      <4>1. SUFFICES ASSUME NEW k \in 1 .. d + 1 PROVE Linked(v, k)'
        BY <3>3, <3>8
      <4>2. k \in 1 .. d \/ k = d + 1
        OBVIOUS
      <4>3. QED
        BY <3>5, <3>8, <3>9, <4>2
    <3>12. QED
      BY <3>3, <3>6, <3>10, <3>11
  <2>8. CASE v = Me /\ Return
    <3>1. /\ pc[v].d > 1 /\ ReturnTo = frame[v][pc[v].d].ret
          /\ pc'[v] = At(pc[v].d - 1, ReturnTo) /\ ReturnTo > 1
      BY <2>8, ReturnFacts DEF Here
    <3>2. pc'[v].d = pc[v].d - 1 /\ pc'[v].i = frame[v][pc[v].d].ret
      BY <3>1 DEF At
    <3>3. pc[v].d \in 1 .. pc[v].d /\ pc[v].d - 1 \in 1 .. pc[v].d /\ pc[v].d - 1 <= pc'[v].d
          /\ pc[v].d - 1 \in 1 .. pc[v].d - 1
      BY <2>1, <3>1, <3>2
    <3>4. \A k \in 1 .. pc[v].d - 1 : Linked(v, k)' /\ frame'[v][k] = frame[v][k]
      BY <2>2, <3>3
    <3>5. PICK g, j : g = frame[v][pc[v].d - 1].lib /\ j = frame[v][pc[v].d].ret - 1
      OBVIOUS
    <3>6. HasRow(g, j) /\ Code[g][j] = [op |-> "call", fn |-> frame[v][pc[v].d].lib]
      BY <2>1, <3>1, <3>3, <3>5 DEF Linked, CallsAt, At
    <3>7. g \in Funcs
      BY <2>1, <3>3, <3>5 DEF Linked
    <3>8. Code[g][j].op # "return"
      BY <3>6
    <3>9. HasRow(g, j + 1) /\ j \in Nat
      BY <3>6, <3>7, <3>8, RowFacts
    <3>10. j + 1 = frame[v][pc[v].d].ret
      <4>1. frame[v][pc[v].d].ret \in Nat
        BY <2>1, <3>3 DEF IInv, TypeOK, Frames
      <4>2. QED
        BY <3>5, <4>1
    <3>11. frame'[v][pc[v].d - 1] = frame[v][pc[v].d - 1]
      BY <3>3, <3>4
    <3>12. QED
      BY <3>2, <3>4, <3>5, <3>9, <3>10, <3>11
  <2>9. QED
    BY <1>2, <2>3, <2>5, <2>6, <2>7, <2>8, Mover
<1>3. QED
  BY <1>1, <1>2

(* A vthread that has a pc keeps one. *)
LEMMA PcStays ==
  ASSUME IInv, [Next]_vars, NEW v \in Vids, pc[v] # Nowhere
  PROVE  pc'[v] # Nowhere
<1>1. status[v] # "none"
  BY DEF IInv, SpawnInv
<1>2. CASE Unfinished(v) /\ pc'[v] # pc[v]
  <2>1. CASE v = Me /\ (Native \/ SetStatus \/ Continue)
    <3>1. InExec /\ \E st \in {"running", "paused"} : NextPc(st)
      BY <2>1 DEF Native, SetStatus, Continue, Exec, InExec
    <3>2. QED
      BY <2>1, <3>1, NextPcTyped DEF LivePcs, Nowhere
  <2>2. CASE v = Me /\ Call
    BY <2>2 DEF Call, IInv, TypeOK, At, Nowhere
  <2>3. CASE v = Me /\ Return
    BY <2>3, ReturnFacts DEF LivePcs, Nowhere
  <2>4. CASE v = host.vid /\ Advance
    <3>1. At(host.p.d, host.p.i + 1) \in LivePcs /\ host.vid \in Vids
      BY <2>4, HostFacts DEF Advance
    <3>2. pc' = [pc EXCEPT ![host.vid] = At(host.p.d, host.p.i + 1)]
      BY <2>4 DEF Advance, Owner
    <3>3. pc'[v] = At(host.p.d, host.p.i + 1)
      BY <2>4, <3>2 DEF IInv, TypeOK
    <3>4. Nowhere \notin LivePcs
      BY DEF LivePcs, Nowhere
    <3>5. QED
      BY <3>1, <3>3, <3>4
  <2>5. QED
    BY <1>2, <2>1, <2>2, <2>3, <2>4, Mover
<1>3. CASE ~ Unfinished(v) /\ pc'[v] # pc[v]
  <2>1. status[v] \in {"ok", "error"}
    BY <1>1, <1>3 DEF Unfinished, IInv, TypeOK, Statuses
  <2>2. CASE SetInit
    BY <1>1, <1>3, <2>2 DEF SetInit, IInv, TypeOK, SpawnInv
  <2>3. CASE Native \/ SetStatus \/ Call \/ Return \/ Continue
    <3>1. Unfinished(Me)
      BY <2>3, ExecFacts DEF InExec, Native, SetStatus, Call, Return, Continue, Exec
    <3>2. v # Me
      BY <1>3, <3>1
    <3>3. QED
      BY <1>3, <2>3, <3>2 DEF Native, SetStatus, Call, Return, Continue, NextPc, IInv, TypeOK
  <2>4. CASE Advance
    <3>1. v # host.vid
      BY <1>3, <2>4, HostFacts DEF Advance
    <3>2. QED
      BY <1>3, <2>4, <3>1 DEF Advance, Owner, IInv, TypeOK
  <2>5. CASE Run
    BY <1>3, <2>5, RunFacts
  <2>6. CASE \/ \E u \in Vids : Start(u) \/ Resume(u)
             \/ Fetch \/ Done \/ Create \/ Bootstrap \/ BootFails \/ Emit
             \/ Leave \/ Fails \/ Yield \/ Dispatch \/ DispatchFails \/ Crash
             \/ UNCHANGED vars
    BY <1>3, <2>6 DEF Start, Resume, Fetch, Done, Create, Bootstrap, BootFails, Emit, Leave,
       Fails, Yield, PcAtYield, Dispatch, DispatchFails, Crash, kvvars, vars
  <2>7. QED
    BY <2>2, <2>3, <2>4, <2>5, <2>6 DEF Next, Drive
<1>4. QED
  BY <1>2, <1>3

(* Every phase is reached with the loops it needs. *)
LEMMA PhaseStep ==
  ASSUME IInv, [Next]_vars
  PROVE  PhaseInv'
<1>1. \A v \in Vids : pc[v] # Nowhere => pc'[v] # Nowhere
  BY PcStays
<1>2. driven \in Vids \cup {NoVid} /\ PhaseInv
  BY DEF IInv, TypeOK
<1>3. ASSUME UNCHANGED <<driven, host>>, InLoop, at' \notin {"idle", "host", "advance"},
             Len(loops') >= 1, loops'[1].vid = loops[1].vid
      PROVE  PhaseInv'
  BY <1>1, <1>2, <1>3 DEF PhaseInv, InLoop
<1>4. ASSUME EndProcess PROVE PhaseInv'
  BY <1>4, EndProcessFacts DEF PhaseInv
<1>5. CASE \E v \in Vids : Start(v)
  <2>1. PICK v \in Vids : Start(v)
    BY <1>5
  <2>2. /\ loops' = << Enter(v) >> /\ driven' = v /\ at' = "loop" /\ host' = host
        /\ host = NoHost /\ pc'[v] # Nowhere
    BY <2>1, <1>2 DEF Start, PhaseInv, kvvars
  <2>3. Len(loops') = 1 /\ loops'[1].vid = v
    BY <2>2, EnterFacts
  <2>4. QED
    BY <2>2, <2>3 DEF PhaseInv
<1>6. CASE Fetch
  <2>1. InLoop
    BY <1>6 DEF Fetch, InLoop
  <2>2. /\ Len(loops') = Len(loops) /\ Len(loops) >= 1 /\ Len(loops) \in Nat
        /\ \A n \in 1 .. Len(loops) - 1 : loops'[n] = loops[n]
        /\ loops'[Len(loops)] = Top' /\ Me' = Me
    BY <1>6, <2>1, FetchFacts, LoopFacts
  <2>3. loops'[1].vid = loops[1].vid
    <3>1. CASE Len(loops) = 1
      BY <2>2, <3>1 DEF Me, Top
    <3>2. CASE Len(loops) # 1
      BY <2>2, <3>2
    <3>3. QED
      BY <3>1, <3>2
  <2>4. QED
    BY <1>3, <1>6, <2>1, <2>2, <2>3 DEF Fetch
<1>7. CASE Run
  <2>1. InLoop
    BY <1>7, RunFacts DEF InExec, InLoop
  <2>2. Len(loops) >= 1 /\ Len(loops) \in Nat
    BY <2>1, LoopFacts
  <2>3. /\ Len(loops') = Len(loops) + 1 /\ loops'[1] = loops[1]
        /\ UNCHANGED <<driven, host>> /\ at' = "loop"
    BY <1>7, <2>2, RunFacts
  <2>4. QED
    BY <1>3, <2>1, <2>2, <2>3
<1>8. CASE Leave \/ Fails
  <2>1. InLoop /\ Pop
    BY <1>8 DEF Leave, Fails, Broken, Exec, InLoop
  <2>2. CASE EndProcess
    BY <1>4, <2>2
  <2>3. CASE /\ at' = "ran" /\ loops' = Outer /\ UNCHANGED <<driven, host>>
             /\ Len(loops) > 1
    <3>1. /\ Len(Outer) = Len(loops) - 1 /\ Len(loops) \in Nat
          /\ \A n \in 1 .. Len(loops) - 1 : Outer[n] = loops[n]
      BY <2>1, LoopFacts
    <3>2. Len(loops') >= 1 /\ loops'[1] = loops[1]
      BY <2>3, <3>1
    <3>3. QED
      BY <1>3, <2>1, <2>3, <3>2
  <2>4. QED
    BY <2>1, <2>2, <2>3, PopFacts
<1>9. CASE Crash \/ DispatchFails
  BY <1>4, <1>9 DEF Crash, DispatchFails
<1>10. CASE Yield
  <2>1. InLoop
    BY <1>10 DEF Yield, Exec, InLoop
  <2>2. driven \in Vids /\ loops' = <<>> /\ at' = "host" /\ driven' = driven
    BY <1>10, <2>1, LoopFacts DEF Yield
  <2>3. QED
    BY <1>1, <1>2, <2>1, <2>2 DEF PhaseInv, Vids, NoVid, InLoop
<1>11. CASE Dispatch
  BY <1>2, <1>11 DEF Dispatch, PhaseInv, kvvars
<1>12. CASE Advance
  <2>1. /\ at = "advance" /\ driven' = driven /\ driven \in Vids /\ pc[driven] # Nowhere
        /\ loops = <<>>
    BY <1>12, HostFacts DEF Advance
  <2>2. CASE at' = "host" /\ loops' = loops
    BY <1>1, <1>2, <2>1, <2>2 DEF PhaseInv
  <2>3. CASE at' = "loop" /\ host' = NoHost /\ loops' = << Enter(driven) >>
    <3>1. Len(loops') = 1 /\ loops'[1].vid = driven
      BY <2>1, <2>3, EnterFacts
    <3>2. QED
      BY <1>1, <2>1, <2>3, <3>1 DEF PhaseInv
  <2>4. QED
    BY <1>12, <2>2, <2>3 DEF Advance
<1>13. CASE \/ Native \/ SetStatus \/ Call \/ Return \/ Done \/ Create \/ Bootstrap \/ BootFails
            \/ SetInit \/ Emit \/ Continue
  <2>1. InLoop /\ UNCHANGED <<driven, host, loops>> /\ at' \notin {"idle", "host", "advance"}
    BY <1>13 DEF Native, SetStatus, Call, Return, Done, Create, Bootstrap, BootFails, SetInit,
       Emit, Continue, NextPc, Exec, InLoop
  <2>2. Len(loops) >= 1
    BY <2>1, LoopFacts
  <2>3. QED
    BY <1>3, <2>1, <2>2
<1>14. CASE (\E v \in Vids : Resume(v)) \/ UNCHANGED vars
  <2>1. UNCHANGED <<at, driven, loops, host, park>>
    BY <1>14 DEF Resume, vars, procvars
  <2>2. QED
    BY <1>1, <1>2, <2>1 DEF PhaseInv
<1>15. QED
  BY <1>5, <1>6, <1>7, <1>8, <1>9, <1>10, <1>11, <1>12, <1>13, <1>14 DEF Next, Drive

(* Only a call makes a stack deeper. *)
LEMMA Deeper ==
  ASSUME IInv, [Next]_vars, NEW v \in Vids, Unfinished(v), pc'[v].d > pc[v].d
  PROVE  Call /\ v = Me /\ pc'[v].d = pc[v].d + 1
<1>1. pc[v].d \in Nat /\ pc'[v] # pc[v]
  BY ChainFacts
<1>2. CASE v = Me /\ (Native \/ SetStatus \/ Continue)
  <2>1. InExec /\ \E st \in {"running", "paused"} : NextPc(st)
    BY <1>2 DEF Native, SetStatus, Continue, Exec, InExec
  <2>2. QED
    BY <1>1, <1>2, <2>1, MoveTo DEF At, Here
<1>3. CASE v = Me /\ Call
  BY <1>1, <1>3, CallFacts, ExecFacts DEF Call, IInv, TypeOK, At, Here
<1>4. CASE v = Me /\ Return
  BY <1>1, <1>4, ReturnFacts DEF At, Here
<1>5. CASE v = host.vid /\ Advance
  <2>1. host.vid \in Vids /\ host.p = pc[v]
    BY <1>5, HostFacts DEF Advance
  <2>2. pc'[v].d = pc[v].d
    BY <1>5, <2>1 DEF Advance, Owner, IInv, TypeOK, At
  <2>3. QED
    BY <1>1, <2>2
<1>6. QED
  BY <1>1, <1>2, <1>3, <1>4, <1>5, Mover

(* What a loop remembers stays true of its vthread. *)
LEMMA LoopKept ==
  ASSUME IInv, [Next]_vars, InLoop, NEW n \in 1 .. Len(loops), NEW l, l = loops[n]
  PROVE  /\ l \in Loops /\ pc'[l.vid] # Nowhere
         /\ Unfinished(l.vid)' => \A k \in Depths :
              k <= l.last /\ k <= pc'[l.vid].d /\ l.ctx[k] # None => l.ctx[k] = frame'[l.vid][k].lib
         /\ n < Len(loops) => l.vid # Me /\ Blocked(l.vid)' /\ kid'[l.vid] = kid[l.vid]
<1>1. loops \in Seq(Loops) /\ Len(loops) \in Nat
  BY LoopFacts
<1>2. l \in Loops /\ l.vid \in Vids /\ Len(loops) \in Nat
  <2>1. l \in Loops
    BY <1>1, ElementOfSeq
  <2>2. QED
    BY <1>1, <2>1 DEF Loops
<1>3. pc[l.vid] # Nowhere /\ pc'[l.vid] # Nowhere
  BY <1>2, PcStays DEF IInv, LoopInv
<1>4. n < Len(loops) => l.vid # Me
  <2>1. SUFFICES ASSUME n < Len(loops) PROVE l.vid # Me
    OBVIOUS
  <2>2. Len(loops) \in 1 .. Len(loops) /\ n \in 1 .. Len(loops) - 1
    BY <1>2, <2>1
  <2>3. l.vid < Me
    BY <2>2 DEF IInv, LoopInv, Top, Me
  <2>4. QED
    BY <1>2, <2>3 DEF Vids
<1>5. ASSUME Unfinished(l.vid)', NEW k \in Depths, k <= l.last, k <= pc'[l.vid].d, l.ctx[k] # None
      PROVE  l.ctx[k] = frame'[l.vid][k].lib
  <2>1. Unfinished(l.vid)
    <3>1. SUFFICES ASSUME ~ Unfinished(l.vid) PROVE FALSE
      OBVIOUS
    <3>2. SetInit /\ l.vid = seq
      BY <1>2, <1>5, <3>1, Born
    <3>3. QED
      BY <1>2, <1>3, <3>2 DEF SetInit, IInv, SpawnInv
  <2>2. /\ pc[l.vid].d \in Nat /\ k \in Nat
    BY <1>2, <2>1, ChainFacts DEF Depths
  <2>3. pc'[l.vid].d \in Nat
    BY <1>2, <1>5, TypeStep, NestedAssumption DEF TypeOK, Unfinished, Depths
  <2>4. k <= pc[l.vid].d
    <3>1. CASE pc'[l.vid].d > pc[l.vid].d
      <4>1. Call /\ l.vid = Me
        BY <1>2, <2>1, <3>1, Deeper
      <4>2. n = Len(loops) /\ InExec
        BY <1>2, <1>4, <4>1, CallFacts
      <4>3. l.last = pc[l.vid].d
        BY <4>1, <4>2, ExecFacts DEF Top, Here
      <4>4. QED
        BY <1>5, <4>3
    <3>2. QED
      BY <1>5, <2>2, <2>3, <3>1
  <2>5. l.ctx[k] = frame[l.vid][k].lib
    BY <1>5, <2>1, <2>4 DEF IInv, LoopInv
  <2>6. frame'[l.vid][k] = frame[l.vid][k]
    BY <1>2, <1>5, <2>1, <2>4, KeptStep
  <2>7. QED
    BY <2>5, <2>6
<1>6. n < Len(loops) => Blocked(l.vid)' /\ kid'[l.vid] = kid[l.vid]
  <2>1. SUFFICES ASSUME n < Len(loops) PROVE Blocked(l.vid)' /\ kid'[l.vid] = kid[l.vid]
    OBVIOUS
  <2>2. Blocked(l.vid)
    BY <2>1 DEF IInv, LoopInv
  <2>3. QED
    BY <1>2, <1>4, <2>1, <2>2, BlockedStays
<1>7. QED
  BY <1>2, <1>3, <1>4, <1>5, <1>6

(* One loop that says of its vthread what LoopInv asks, n-th of the loops. *)
LoopAt(l, n) ==
  /\ pc[l.vid] # Nowhere /\ l.vid >= n
  /\ \A m \in 1 .. n - 1 : loops[m].vid < l.vid
  /\ l.last = 0 => \A k \in Depths : l.ctx[k] = None
  /\ Unfinished(l.vid) => \A k \in Depths :
       k <= l.last /\ k <= pc[l.vid].d /\ l.ctx[k] # None => l.ctx[k] = frame[l.vid][k].lib
  /\ n < Len(loops) => /\ Blocked(l.vid) /\ kid[l.vid] = loops[n + 1].vid
                       /\ l.last = 1 /\ l.ctx[1] # None

(* A loop that stays where it is, under no more loops than before. *)
LEMMA LoopStays ==
  ASSUME IInv, [Next]_vars, InLoop, NEW n \in 1 .. Len(loops), NEW l, l = loops[n],
         loops'[n] = l, Len(loops') <= Len(loops), Len(loops') \in Nat,
         \A m \in 1 .. Len(loops') : loops'[m].vid = loops[m].vid
  PROVE  n <= Len(loops') => LoopAt(l, n)'
<1> SUFFICES ASSUME n <= Len(loops') PROVE LoopAt(l, n)'
  OBVIOUS
<1>1. /\ l \in Loops /\ pc'[l.vid] # Nowhere
      /\ Unfinished(l.vid)' => \A k \in Depths :
           k <= l.last /\ k <= pc'[l.vid].d /\ l.ctx[k] # None => l.ctx[k] = frame'[l.vid][k].lib
      /\ n < Len(loops) => Blocked(l.vid)' /\ kid'[l.vid] = kid[l.vid]
  BY LoopKept
<1>2. /\ l.vid >= n /\ \A m \in 1 .. n - 1 : loops[m].vid < l.vid
      /\ l.last = 0 => \A k \in Depths : l.ctx[k] = None
      /\ n < Len(loops) => /\ kid[l.vid] = loops[n + 1].vid
                           /\ l.last = 1 /\ l.ctx[1] # None
  BY DEF IInv, LoopInv
<1>3. Len(loops) \in Nat /\ n \in Nat
  BY LoopFacts
<1>4. \A m \in 1 .. n - 1 : loops'[m].vid < l.vid
  BY <1>2, <1>3
<1>5. n < Len(loops') => loops'[n + 1].vid = loops[n + 1].vid /\ n < Len(loops)
  BY <1>3
<1>6. QED
  BY <1>1, <1>2, <1>4, <1>5 DEF LoopAt

(* The loops around the innermost one stay blocked. *)
LEMMA LoopStep ==
  ASSUME IInv, EntryOnly, [Next]_vars
  PROVE  LoopInv'
<1> SUFFICES ASSUME NEW n \in 1 .. Len(loops'), NEW l, l = loops'[n]
    PROVE  LoopAt(l, n)'
  BY DEF LoopInv, LoopAt
<1>1. ASSUME InLoop, loops'[n] = loops[n], n \in 1 .. Len(loops),
             Len(loops') <= Len(loops), Len(loops') \in Nat,
             \A m \in 1 .. Len(loops') : loops'[m].vid = loops[m].vid
      PROVE  LoopAt(l, n)'
  BY <1>1, LoopStays
<1>2. ASSUME NEW v \in Vids, loops' = << Enter(v) >>, pc'[v] # Nowhere
      PROVE  LoopAt(l, n)'
  <2>1. /\ Len(loops') = 1 /\ loops'[1] = Enter(v)
        /\ Enter(v).vid = v /\ Enter(v).last = 0
        /\ \A k \in Depths : Enter(v).ctx[k] = None
    BY <1>2, EnterFacts
  <2>2. n = 1 /\ l = Enter(v)
    BY <2>1
  <2>3. v >= 1
    BY DEF Vids
  <2>4. QED
    BY <1>2, <2>1, <2>2, <2>3 DEF LoopAt
<1>3. CASE Fetch
  <2>1. InLoop /\ at = "loop" /\ Fetchable /\ UNCHANGED <<pc, status, frame, kid>>
        /\ status[Me] \in Live
    BY <1>3 DEF Fetch, InLoop, kvvars
  <2>2. /\ Len(loops') = Len(loops) /\ Len(loops) \in Nat /\ Len(loops) >= 1
        /\ \A m \in 1 .. Len(loops) - 1 : loops'[m] = loops[m]
        /\ loops'[Len(loops)] = [Top EXCEPT !.last = Here.d, !.ctx[Here.d] = Resolved]
        /\ Top \in Loops /\ Me \in Vids /\ pc[Me] # Nowhere
    BY <1>3, <2>1, FetchFacts, LoopFacts
  <2>3. loops'[Len(loops)].vid = loops[Len(loops)].vid
    BY <2>2 DEF Top, Loops
  <2>4. \A m \in 1 .. Len(loops') : loops'[m].vid = loops[m].vid
    <3>1. \A m \in 1 .. Len(loops) : m \in 1 .. Len(loops) - 1 \/ m = Len(loops)
      BY <2>2
    <3>2. QED
      BY <2>2, <2>3, <3>1
  <2>5. CASE n < Len(loops)
    <3>1. n \in 1 .. Len(loops) /\ loops'[n] = loops[n]
      BY <2>2, <2>5
    <3>2. QED
      BY <1>1, <2>1, <2>2, <2>4, <3>1
  <2>6. CASE n = Len(loops)
    <3>1. Unfinished(Me) /\ Here.d \in Depths /\ Here.d \in Nat /\ Here.d >= 1
      BY <2>1, <2>2, ChainFacts DEF Unfinished, LivePcs, Here
    <3>2. Resolved = frame[Me][Here.d].lib
      BY <2>1, <3>1, ResolvesToOwn DEF Fetchable
    <3>3. /\ l.vid = Me /\ l.last = Here.d
          /\ \A k \in Depths : l.ctx[k] = IF k = Here.d THEN Resolved ELSE Top.ctx[k]
      BY <2>2, <2>6, <3>1 DEF Loops, Me
    <3>4. n \in 1 .. Len(loops) /\ Top = loops[n]
      BY <2>2, <2>6 DEF Top
    <3>5. /\ Me >= n /\ \A m \in 1 .. n - 1 : loops[m].vid < Me
          /\ Top.last = 0 => \A k \in Depths : Top.ctx[k] = None
          /\ \A k \in Depths :
               k <= Top.last /\ k <= Here.d /\ Top.ctx[k] # None => Top.ctx[k] = frame[Me][k].lib
      BY <3>1, <3>4 DEF IInv, LoopInv, Me, Here
    <3>6. \A m \in 1 .. n - 1 : loops'[m].vid < Me
      BY <2>2, <2>6, <3>5
    <3>7. ASSUME NEW k \in Depths, k <= Here.d, l.ctx[k] # None
          PROVE  l.ctx[k] = frame[Me][k].lib
      <4>1. CASE k = Here.d
        BY <3>2, <3>3, <4>1
      <4>2. CASE k # Here.d
        <5>1. l.ctx[k] = Top.ctx[k]
          BY <3>3, <4>2
        <5>2. Top.last # 0 /\ Top.last \in Nat
          BY <2>2, <3>5, <3>7, <5>1, NestedAssumption DEF Loops
        <5>3. Here.d <= Top.last + 1
          BY <2>1, <3>1, <5>2 DEF IInv, FetchInv
        <5>4. k <= Top.last
          BY <3>1, <3>7, <4>2, <5>2, <5>3 DEF Depths
        <5>5. QED
          BY <3>5, <3>7, <5>1, <5>4
      <4>3. QED
        BY <4>1, <4>2
    <3>8. l.last # 0 /\ ~ (n < Len(loops'))
      BY <2>2, <2>6, <3>1, <3>3
    <3>9. pc'[l.vid] # Nowhere /\ pc'[l.vid].d = Here.d /\ frame'[l.vid] = frame[Me]
      BY <2>1, <2>2, <3>3 DEF Here
    <3>10. QED
      BY <3>3, <3>5, <3>6, <3>7, <3>8, <3>9 DEF LoopAt
  <2>7. QED
    BY <2>2, <2>5, <2>6
<1>4. CASE Run
  <2>1. /\ InExec /\ Row.op = "run" /\ kid[Me] # NoVid /\ kid[Me] \in Vids
        /\ HasPc(kid[Me]) /\ kid[Me] > Me
        /\ UNCHANGED <<seq, pc, status, frame, kid, driven, host, park, crashes>>
        /\ Len(loops') = Len(loops) + 1
        /\ \A m \in 1 .. Len(loops) : loops'[m] = loops[m]
        /\ loops'[Len(loops) + 1] = Enter(kid[Me])
    BY <1>4, RunFacts
  <2>2. InLoop
    BY <2>1 DEF InExec, InLoop
  <2>3. /\ Len(loops) \in Nat /\ Len(loops) >= 1 /\ Top \in Loops /\ Me \in Vids /\ Me >= Len(loops)
        /\ \A m \in 1 .. Len(loops) : loops[m].vid \in Vids
    <3>1. loops \in Seq(Loops)
      BY <2>2, LoopFacts
    <3>2. QED
      <4>1. \A m \in 1 .. Len(loops) : loops[m] \in Loops
        BY <3>1, ElementOfSeq
      <4>2. \A m \in 1 .. Len(loops) : loops[m].vid \in Vids
        BY <4>1 DEF Loops
      <4>3. QED
        BY <2>2, <4>2, LoopFacts
  <2>4. Blocked(Me) /\ Here.d = 1
    <3>1. Unfinished(Me) /\ pc[Me].d = 1
      BY <2>1, ExecFacts, EntryRows DEF Here
    <3>2. QED
      BY <2>1, <3>1, ExecFacts, NestedAssumption DEF Blocked, AtRun, Here
  <2>5. CASE n <= Len(loops)
    <3>1. n \in 1 .. Len(loops) /\ l = loops[n] /\ n + 1 \in 1 .. Len(loops')
      BY <2>1, <2>3, <2>5
    <3>2. /\ pc[l.vid] # Nowhere /\ l.vid >= n
          /\ \A m \in 1 .. n - 1 : loops[m].vid < l.vid
          /\ l.last = 0 => \A k \in Depths : l.ctx[k] = None
          /\ Unfinished(l.vid) => \A k \in Depths :
               k <= l.last /\ k <= pc[l.vid].d /\ l.ctx[k] # None => l.ctx[k] = frame[l.vid][k].lib
          /\ n < Len(loops) => /\ Blocked(l.vid) /\ kid[l.vid] = loops[n + 1].vid
                               /\ l.last = 1 /\ l.ctx[1] # None
      BY <3>1 DEF IInv, LoopInv
    <3>3. \A m \in 1 .. n - 1 : loops'[m].vid < l.vid
      BY <2>1, <2>3, <3>1, <3>2
    <3>4. /\ Blocked(l.vid) /\ l.last = 1 /\ l.ctx[1] # None
          /\ kid[l.vid] = loops'[n + 1].vid
      <4>1. CASE n < Len(loops)
        <5>1. n + 1 \in 1 .. Len(loops)
          BY <2>3, <3>1, <4>1
        <5>2. QED
          BY <2>1, <3>2, <4>1, <5>1
      <4>2. CASE n = Len(loops)
        <5>1. l = Top /\ l.vid = Me
          BY <3>1, <4>2 DEF Top, Me
        <5>2. Top.last = 1 /\ Top.ctx[1] = frame[Me][1].lib /\ frame[Me][1].lib \in Funcs
          BY <2>1, <2>4, ExecFacts DEF IInv, ExecInv, InExec
        <5>3. loops'[n + 1].vid = kid[Me]
          BY <2>1, <4>2, EnterFacts
        <5>4. QED
          BY <2>4, <5>1, <5>2, <5>3, NestedAssumption
      <4>3. QED
        BY <2>3, <2>5, <4>1, <4>2
    <3>5. Blocked(l.vid)' /\ Unfinished(l.vid)' = Unfinished(l.vid)
      BY <2>1, <3>4 DEF Blocked, AtRun, Unfinished
    <3>6. QED
      BY <2>1, <3>2, <3>3, <3>4, <3>5 DEF LoopAt
  <2>6. CASE n = Len(loops) + 1
    <3>1. l = Enter(kid[Me]) /\ l.vid = kid[Me] /\ l.last = 0 /\ \A k \in Depths : l.ctx[k] = None
      BY <2>1, <2>6, EnterFacts
    <3>2. kid[Me] >= n
      BY <2>1, <2>3, <2>6 DEF Vids
    <3>3. ASSUME NEW m \in 1 .. n - 1 PROVE loops'[m].vid < kid[Me]
      <4>1. m \in 1 .. Len(loops) /\ loops'[m] = loops[m] /\ loops[m].vid \in Vids
        BY <2>1, <2>3, <2>6, <3>3
      <4>2. CASE m = Len(loops)
        BY <2>1, <2>3, <4>1, <4>2 DEF Me, Top, Vids
      <4>3. CASE m # Len(loops)
        <5>1. m \in 1 .. Len(loops) - 1 /\ Len(loops) \in 1 .. Len(loops)
          BY <2>3, <4>1, <4>3
        <5>2. loops[m].vid < Me
          BY <5>1 DEF IInv, LoopInv, Me, Top
        <5>3. QED
          BY <2>1, <2>3, <4>1, <5>2 DEF Vids
      <4>4. QED
        BY <4>2, <4>3
    <3>4. pc'[l.vid] # Nowhere /\ ~ (n < Len(loops'))
      BY <2>1, <2>3, <2>6, <3>1 DEF HasPc
    <3>5. QED
      BY <3>1, <3>2, <3>3, <3>4 DEF LoopAt
  <2>7. QED
    BY <2>1, <2>3, <2>5, <2>6
<1>5. CASE Leave \/ Fails
  <2>1. InLoop /\ Pop
    BY <1>5 DEF Leave, Fails, Broken, Exec, InLoop
  <2>2. CASE EndProcess
    <3>1. Len(loops') = 0
      BY <2>2, EndProcessFacts, EmptySeq
    <3>2. QED
      BY <3>1
  <2>3. CASE loops' = Outer
    <3>1. /\ Len(loops') = Len(loops) - 1 /\ Len(loops) \in Nat
          /\ \A m \in 1 .. Len(loops) - 1 : loops'[m] = loops[m]
      BY <2>1, <2>3, LoopFacts
    <3>2. Len(loops) >= 1
      BY <2>1, LoopFacts
    <3>3. n \in 1 .. Len(loops) /\ loops'[n] = loops[n] /\ Len(loops') <= Len(loops)
          /\ Len(loops') \in Nat
      BY <3>1, <3>2
    <3>4. QED
      BY <1>1, <2>1, <3>1, <3>3
  <2>4. QED
    BY <2>1, <2>2, <2>3, PopFacts
<1>6. CASE Crash \/ DispatchFails \/ Yield
  <2>1. loops' = <<>>
    BY <1>6, EndProcessFacts DEF Crash, DispatchFails, Yield
  <2>2. Len(loops') = 0
    BY <2>1, EmptySeq
  <2>3. QED
    BY <2>2
<1>7. CASE \E v \in Vids : Start(v)
  BY <1>2, <1>7 DEF Start, kvvars
<1>8. CASE UNCHANGED loops
  <2>1. loops \in Seq(Loops) /\ Len(loops) \in Nat
    BY LenProperties DEF IInv, TypeOK
  <2>2. InLoop
    <3>1. SUFFICES ASSUME ~ InLoop PROVE FALSE
      OBVIOUS
    <3>2. loops = <<>>
      BY <3>1 DEF InLoop, IInv, PhaseInv
    <3>3. QED
      BY <1>8, <2>1, <3>2, EmptySeq
  <2>3. QED
    BY <1>1, <1>8, <2>1, <2>2
<1>9. CASE Advance
  <2>1. driven \in Vids /\ pc'[driven] # Nowhere
    BY <1>9, HostFacts, PcStays DEF Advance
  <2>2. loops' = loops \/ loops' = << Enter(driven) >>
    BY <1>9 DEF Advance
  <2>3. QED
    BY <1>2, <1>8, <2>1, <2>2
<1>10. CASE \/ Native \/ SetStatus \/ Call \/ Return \/ Done \/ Create \/ Bootstrap \/ BootFails
            \/ SetInit \/ Emit \/ Continue \/ Dispatch \/ (\E v \in Vids : Resume(v))
            \/ UNCHANGED vars
  BY <1>8, <1>10 DEF Native, SetStatus, Call, Return, Done, Create, Bootstrap, BootFails,
     SetInit, Emit, Continue, Dispatch, Resume, procvars, vars
<1>11. QED
  BY <1>3, <1>4, <1>5, <1>6, <1>7, <1>9, <1>10 DEF Next, Drive

(* A loop never goes down two levels at once. *)
LEMMA FetchStep ==
  ASSUME IInv, [Next]_vars
  PROVE  FetchInv'
<1> SUFFICES ASSUME at' = "loop", Unfinished(Me)'
    PROVE  Top'.last = 0 \/ Here'.d <= Top'.last + 1
  BY DEF FetchInv
<1>1. CASE Native \/ SetStatus \/ Continue
  <2>1. InExec /\ \E st \in {"running", "paused"} : NextPc(st)
    BY <1>1 DEF Native, SetStatus, Continue, Exec, InExec
  <2>2. loops' = loops
    BY <1>1 DEF Native, SetStatus, Continue
  <2>3. Top' = Top /\ Me' = Me
    BY <2>2 DEF Top, Me
  <2>4. Here' = At(Here.d, Here.i + 1)
    BY <2>1, <2>3, MoveTo DEF Here
  <2>5. QED
    BY <2>1, <2>3, <2>4, ExecFacts DEF At
<1>2. CASE Call
  <2>1. InExec /\ loops' = loops /\ pc' = [pc EXCEPT ![Me] = At(CalleeD, 1)]
    BY <1>2 DEF Call, Exec, InExec
  <2>2. Top' = Top /\ Me' = Me
    BY <2>1 DEF Top, Me
  <2>3. Here' = At(CalleeD, 1)
    BY <2>1, <2>2, ExecFacts DEF Here, IInv, TypeOK
  <2>4. QED
    BY <2>1, <2>2, <2>3, ExecFacts DEF At
<1>3. CASE Return
  <2>1. InExec /\ loops' = loops /\ pc'[Me] = At(Here.d - 1, ReturnTo)
    BY <1>3, ReturnFacts DEF Return
  <2>2. Top' = Top /\ Me' = Me
    BY <2>1 DEF Top, Me
  <2>3. Here' = At(Here.d - 1, ReturnTo)
    BY <2>1, <2>2 DEF Here
  <2>4. QED
    BY <2>1, <2>2, <2>3, ExecFacts DEF At
<1>4. CASE Done
  <2>1. InExec /\ loops' = loops /\ status' = [status EXCEPT ![Me] = "ok"]
    BY <1>4 DEF Done, Exec, InExec
  <2>2. status'[Me] = "ok" /\ Me' = Me
    BY <2>1, ExecFacts DEF IInv, TypeOK, Me, Top
  <2>3. QED
    BY <2>2 DEF Unfinished, Live
<1>5. CASE Run
  BY <1>5, RunFacts, EnterFacts
<1>6. CASE Advance
  <2>1. loops' = << Enter(driven) >> /\ driven \in Vids
    BY <1>6, HostFacts DEF Advance
  <2>2. Top' = Enter(driven)
    BY <2>1, EnterFacts DEF Top
  <2>3. QED
    BY <2>1, <2>2, EnterFacts
<1>7. CASE \E v \in Vids : Start(v)
  <2>1. PICK v \in Vids : loops' = << Enter(v) >>
    BY <1>7 DEF Start
  <2>2. Top' = Enter(v)
    BY <2>1, EnterFacts DEF Top
  <2>3. QED
    BY <2>2, EnterFacts
<1>8. CASE (\E v \in Vids : Resume(v)) \/ UNCHANGED vars
  <2>1. at = "loop" /\ pc' = pc /\ loops' = loops
    BY <1>8 DEF Resume, vars, kvvars, procvars
  <2>2. Top' = Top /\ Me' = Me /\ Here' = Here
    BY <2>1 DEF Top, Me, Here
  <2>3. Me \in Vids /\ Unfinished(Me)
    <3>1. Me \in Vids
      BY <2>1, LoopFacts DEF InLoop
    <3>2. ~ SetInit
      BY <2>1 DEF SetInit
    <3>3. PICK u \in Vids : u = Me
      BY <3>1
    <3>4. Unfinished(u)'
      BY <2>2, <3>3 DEF Unfinished
    <3>5. QED
      BY <3>2, <3>3, <3>4, Born
  <2>4. QED
    BY <2>1, <2>2, <2>3 DEF IInv, FetchInv
<1>9. CASE Leave \/ Fails
  BY <1>9, PopFacts, EndProcessFacts DEF Leave, Fails, Broken, Exec, InLoop
<1>10. CASE \/ Fetch \/ Create \/ Bootstrap \/ BootFails \/ SetInit \/ Emit \/ Yield
            \/ Dispatch \/ DispatchFails \/ Crash
  BY <1>10, EndProcessFacts DEF Fetch, Create, Bootstrap, BootFails, SetInit, Emit, Yield,
     Dispatch, DispatchFails, Crash
<1>11. QED
  BY <1>1, <1>2, <1>3, <1>4, <1>5, <1>6, <1>7, <1>8, <1>9, <1>10 DEF Next, Drive

(* An instruction is executed at the pc, in the frame entered last. *)
LEMMA ExecStep ==
  ASSUME IInv, [Next]_vars
  PROVE  ExecInv'
<1> SUFFICES ASSUME InExec'
    PROVE  /\ Unfinished(Me)' /\ status'[Me'] \in Live
           /\ Here'.d = Top'.last /\ Top'.ctx[Here'.d] = frame'[Me'][Here'.d].lib
           /\ at' \in {"boot", "init", "emit", "fail", "next"} => Row'.op = "create"
           /\ at' = "ran" => Row'.op = "run" /\ kid'[Me'] # NoVid
  BY DEF ExecInv, InExec
<1>1. CASE Fetch
  <2>1. /\ at = "loop" /\ at' = "exec" /\ status[Me] \in Live /\ Fetchable
        /\ UNCHANGED <<pc, status, frame>>
    BY <1>1 DEF Fetch, kvvars
  <2>2. Me \in Vids /\ pc[Me] # Nowhere
    BY <2>1, LoopFacts DEF InLoop
  <2>3. Unfinished(Me) /\ Here.d \in Depths
    BY <2>1, <2>2, ChainFacts DEF Unfinished, LivePcs, Here
  <2>4. Resolved = frame[Me][Here.d].lib
    BY <2>1, <2>3, ResolvesToOwn DEF Fetchable
  <2>5. Me' = Me /\ Top'.last = Here.d /\ Top'.ctx[Here.d] = Resolved
    BY <1>1, <2>3, FetchFacts
  <2>6. Here' = Here
    BY <2>1, <2>5 DEF Here
  <2>7. Unfinished(Me)'
    BY <2>1, <2>3, <2>5 DEF Unfinished
  <2>8. QED
    BY <2>1, <2>4, <2>5, <2>6, <2>7
<1>2. CASE Create \/ Bootstrap \/ BootFails \/ SetInit \/ Emit
  <2>1. /\ InExec /\ Row.op = "create" /\ loops' = loops
        /\ at' \in {"boot", "init", "emit", "fail", "next"}
    BY <1>2 DEF Create, Bootstrap, BootFails, SetInit, Emit, Exec, InExec, IInv, ExecInv
  <2>2. /\ Me \in Vids /\ Unfinished(Me) /\ status[Me] \in Live
        /\ Here.d \in Depths /\ Here.d \in Nat /\ Here.d = Top.last
        /\ Top.ctx[Here.d] = frame[Me][Here.d].lib
    BY <2>1, ExecFacts DEF IInv, ExecInv, InExec
  <2>3. at \in {"boot", "init"} => Me # seq
    BY <2>2 DEF IInv, SpawnInv, Live
  <2>4. pc'[Me] = pc[Me] /\ status'[Me] = status[Me] /\ frame'[Me] = frame[Me]
    BY <1>2, <2>2, <2>3 DEF Create, Bootstrap, BootFails, SetInit, Emit, IInv, TypeOK
  <2>5. Top' = Top /\ Me' = Me /\ Here' = Here
    BY <2>1, <2>4 DEF Top, Me, Here
  <2>6. Row' = Row
    BY <2>5 DEF Row
  <2>7. QED
    BY <2>1, <2>2, <2>4, <2>5, <2>6 DEF Unfinished
<1>3. CASE Leave \/ Fails
  <2>1. InLoop /\ Pop /\ UNCHANGED <<pc, kid>>
    BY <1>3 DEF Leave, Fails, Broken, Exec, InLoop
  <2>2. at' = "ran" /\ loops' = Outer /\ Len(loops) > 1
    <3>1. at' # "idle"
      BY DEF InExec
    <3>2. QED
      BY <2>1, <3>1, PopFacts, EndProcessFacts
  <2>3. /\ Len(Outer) = Len(loops) - 1 /\ Len(loops) \in Nat
        /\ \A n \in 1 .. Len(loops) - 1 : Outer[n] = loops[n]
        /\ Me \in Vids
    BY <2>1, LoopFacts
  <2>4. Len(loops) - 1 \in 1 .. Len(loops) /\ Len(loops) - 1 < Len(loops)
        /\ Len(loops) - 1 \in 1 .. Len(loops) - 1
    BY <2>2, <2>3
  <2>5. PICK l : l = loops[Len(loops) - 1]
    OBVIOUS
  <2>6. Top' = l /\ Me' = l.vid
    BY <2>2, <2>3, <2>4, <2>5 DEF Top, Me
  <2>7. /\ l \in Loops /\ Blocked(l.vid)' /\ kid'[l.vid] = kid[l.vid]
        /\ Unfinished(l.vid)' => \A k \in Depths :
             k <= l.last /\ k <= pc'[l.vid].d /\ l.ctx[k] # None => l.ctx[k] = frame'[l.vid][k].lib
    BY <2>1, <2>4, <2>5, LoopKept
  <2>8. l.last = 1 /\ l.ctx[1] # None
    BY <2>4, <2>5 DEF IInv, LoopInv
  <2>9. Unfinished(l.vid)' /\ status'[l.vid] \in Live /\ pc'[l.vid].d = 1 /\ kid'[l.vid] # NoVid
        /\ Code[frame'[l.vid][1].lib][pc'[l.vid].i].op = "run"
    BY <2>7 DEF Blocked, AtRun
  <2>10. l.ctx[1] = frame'[l.vid][1].lib
    <3>1. 1 \in Depths /\ 1 <= l.last /\ 1 <= pc'[l.vid].d
      BY <2>8, <2>9, NestedAssumption DEF Depths
    <3>2. QED
      BY <2>7, <2>8, <2>9, <3>1
  <2>11. Here' = pc'[l.vid]
    BY <2>6 DEF Here
  <2>12. Row'.op = "run"
    BY <2>6, <2>9, <2>10, <2>11 DEF Row
  <2>13. Unfinished(Me)'
    BY <2>6, <2>9 DEF Unfinished
  <2>14. QED
    BY <2>2, <2>6, <2>8, <2>9, <2>10, <2>11, <2>12, <2>13
<1>4. CASE (\E v \in Vids : Resume(v)) \/ UNCHANGED vars
  <2>1. UNCHANGED <<pc, frame, kid, at, loops>>
    BY <1>4 DEF Resume, vars, kvvars, procvars
  <2>2. Top' = Top /\ Me' = Me /\ Here' = Here /\ Row' = Row /\ InExec
    BY <2>1 DEF Top, Me, Here, Row, InExec
  <2>3. Me \in Vids /\ Unfinished(Me) /\ status[Me] \in Live
    BY <2>2, ExecFacts
  <2>4. status'[Me] = status[Me]
    BY <1>4, <2>3 DEF Resume, vars, kvvars, IInv, TypeOK, Live
  <2>5. QED
    BY <2>1, <2>2, <2>3, <2>4 DEF IInv, ExecInv, InExec, Unfinished
<1>5. CASE \/ \E v \in Vids : Start(v)
           \/ Native \/ SetStatus \/ Call \/ Return \/ Done \/ Run \/ Continue \/ Yield
           \/ Dispatch \/ DispatchFails \/ Advance \/ Crash
  BY <1>5, RunFacts, EndProcessFacts DEF InExec, Start, Native, SetStatus, Call, Return, Done,
     Continue, NextPc, Yield, Dispatch, DispatchFails, Advance, Crash
<1>6. QED
  BY <1>1, <1>2, <1>3, <1>4, <1>5 DEF Next, Drive

(* The drive loop works on the instruction at the pc. *)
LEMMA HostStep ==
  ASSUME IInv, [Next]_vars
  PROVE  HostInv'
<1> SUFFICES ASSUME at' \in {"host", "advance"}
    PROVE  /\ host'.vid # NoVid /\ Unfinished(host.vid)' /\ status'[host'.vid] \in Live
           /\ host'.p = pc'[host'.vid] /\ host'.p.d <= MaxDepth
           /\ HostRowAt(host.vid, host.p)'
  BY DEF HostInv
<1>1. CASE Yield
  <2>1. /\ InExec /\ Row.op = "host" /\ host' = [vid |-> Me, p |-> Here]
        /\ UNCHANGED <<pc, status>>
    BY <1>1 DEF Yield, PcAtYield, Exec, InExec
  <2>2. /\ Me \in Vids /\ Unfinished(Me) /\ status[Me] \in Live /\ Here.d \in Depths
        /\ Here.d \in Nat /\ Here.d <= MaxDepth
        /\ Row = Code[frame[Me][Here.d].lib][Here.i]
        /\ frame[Me][Here.d].lib \in Funcs /\ HasRow(frame[Me][Here.d].lib, Here.i)
    BY <2>1, ExecFacts
  <2>3. PICK u \in Vids : u = Me
    BY <2>2
  <2>4. Unfinished(u)' /\ Here.d <= pc[u].d /\ Here.d <= pc'[u].d
    BY <2>1, <2>2, <2>3 DEF Unfinished, Here
  <2>5. frame'[u][Here.d] = frame[u][Here.d]
    BY <2>2, <2>3, <2>4, KeptStep
  <2>6. host'.vid = u /\ host'.p = Here /\ Here = pc'[u]
    BY <2>1, <2>3 DEF Here
  <2>7. HostRowAt(host.vid, host.p)'
    BY <2>1, <2>2, <2>3, <2>5, <2>6, NestedAssumption DEF HostRowAt
  <2>8. Unfinished(host.vid)'
    BY <2>4, <2>6 DEF Unfinished
  <2>9. host'.vid # NoVid
    BY <2>6 DEF Vids, NoVid
  <2>10. status'[host'.vid] \in Live
    BY <2>1, <2>2, <2>3, <2>6
  <2>11. host'.p = pc'[host'.vid] /\ host'.p.d <= MaxDepth
    BY <2>2, <2>6
  <2>12. QED
    BY <2>7, <2>8, <2>9, <2>10, <2>11
<1>2. CASE Dispatch \/ UNCHANGED vars
  <2>1. at \in {"host", "advance"} /\ UNCHANGED <<pc, status, frame, host>>
    BY <1>2 DEF Dispatch, vars, kvvars, procvars
  <2>2. QED
    BY <2>1 DEF IInv, HostInv, Unfinished, HostRowAt
<1>3. CASE \E v \in Vids : Resume(v)
  <2>1. PICK v \in Vids : Resume(v)
    BY <1>3
  <2>2. at \in {"host", "advance"} /\ UNCHANGED <<pc, frame, host>>
        /\ status[v] = "paused" /\ status' = [status EXCEPT ![v] = "running"]
    BY <2>1 DEF Resume, procvars
  <2>3. status'[host.vid] = status[host.vid]
    BY <2>2, HostFacts DEF IInv, TypeOK, Live
  <2>4. QED
    BY <2>2, <2>3 DEF IInv, HostInv, Unfinished, HostRowAt
<1>4. CASE Advance
  <2>1. at = "advance" /\ UNCHANGED <<status, frame>>
    BY <1>4 DEF Advance
  <2>2. /\ host.vid \in Vids /\ Unfinished(host.vid) /\ status[host.vid] \in Live
        /\ At(host.p.d, host.p.i + 1) \in LivePcs /\ host.p.d \in 1 .. MaxDepth
    BY <2>1, HostFacts
  <2>3. PICK p : p = At(host.p.d, host.p.i + 1)
    OBVIOUS
  <2>4. HostRowAt(host.vid, p) /\ host' = [host EXCEPT !.p = p]
        /\ pc' = [pc EXCEPT ![host.vid] = p]
    BY <1>4, <2>3 DEF Advance, Owner
  <2>5. host'.vid = host.vid /\ host'.p = p /\ pc'[host.vid] = p /\ p.d = host.p.d
    BY <2>2, <2>3, <2>4 DEF IInv, TypeOK, Hosts, At
  <2>6. HostRowAt(host.vid, host.p)'
    BY <2>1, <2>4, <2>5 DEF HostRowAt
  <2>7. p # Nowhere
    BY <2>2, <2>3 DEF LivePcs, Nowhere
  <2>8. QED
    BY <2>1, <2>2, <2>5, <2>6, <2>7 DEF Unfinished, Vids, NoVid
<1>5. CASE Leave \/ Fails
  BY <1>5, PopFacts, EndProcessFacts DEF Leave, Fails, Broken, Exec, InLoop
<1>6. CASE \/ \E v \in Vids : Start(v)
           \/ Fetch \/ Native \/ SetStatus \/ Call \/ Return \/ Done
           \/ Create \/ Bootstrap \/ BootFails \/ SetInit \/ Emit
           \/ Run \/ Continue \/ DispatchFails \/ Crash
  BY <1>6, RunFacts, EndProcessFacts DEF Start, Fetch, Native, SetStatus, Call, Return, Done,
     Create, Bootstrap, BootFails, SetInit, Emit, Continue, NextPc, DispatchFails, Crash
<1>7. QED
  BY <1>1, <1>2, <1>3, <1>4, <1>5, <1>6 DEF Next, Drive

(***************************************************************************)
(* Parked frames on a chain                                                *)
(***************************************************************************)
(* No step but a call parks a frame on a chain. *)
LEMMA HotBack ==
  ASSUME IInv, [Next]_vars, NEW w \in Vids, Hot(w)', ~ Call, ParkTrimmed
  PROVE  Hot(w) /\ status[w] \in Live /\ at # "ran"
<1>1. PICK k \in Depths : park'[k].vid = w /\ k <= pc'[w].d
  BY DEF Hot
<1>2. w # NoVid /\ Unfinished(w)'
  BY DEF Vids, NoVid, Hot
<1>3. park[k].vid = w
  BY <1>1, <1>2 DEF ParkTrimmed, Cold
<1>4. k >= 2
  <2>1. k \in 2 .. MaxDepth
    BY <1>2, <1>3 DEF IInv, ParkInv
  <2>2. QED
    BY <2>1
<1>5. Unfinished(w)
  <2>1. SUFFICES ASSUME ~ Unfinished(w) PROVE FALSE
    OBVIOUS
  <2>2. SetInit /\ w = seq
    BY <1>2, <2>1, Born
  <2>3. pc'[w].d = 1
    BY <2>2 DEF SetInit, IInv, TypeOK, EntryPc, At
  <2>4. QED
    BY <1>1, <1>4, <2>3 DEF Depths
<1>6. k <= pc[w].d
  <2>1. pc[w].d \in Nat /\ pc'[w].d \in Nat
    BY <1>2, <1>5, ChainFacts, TypeStep, NestedAssumption DEF TypeOK, Unfinished, Depths
  <2>2. ~ (pc'[w].d > pc[w].d)
    BY <1>5, Deeper
  <2>3. QED
    BY <1>1, <2>1, <2>2 DEF Depths
<1>7. Hot(w)
  BY <1>3, <1>5, <1>6 DEF Hot
<1>8. QED
  BY <1>7 DEF IInv, HotInv

(* The loops lead to the same vthread behind a step that leaves them so. *)
LEMMA LeadsKept ==
  ASSUME IInv, [Next]_vars, NEW w \in Vids, NEW C \in SUBSET Vids, LeadsTo(w, C),
         at # "ran", driven' \in C, host'.vid \in {NoVid, w},
         \A n \in 1 .. Len(loops') : loops'[n].vid \in C
  PROVE  LeadsTo(w, C)'
<1>1. \A u \in C \ {w} : Blocked(u)' /\ kid'[u] \in C
  <2>1. SUFFICES ASSUME NEW u \in C \ {w} PROVE Blocked(u)' /\ kid'[u] \in C
    OBVIOUS
  <2>2. u \in Vids /\ Blocked(u) /\ kid[u] \in C
    BY DEF LeadsTo
  <2>3. QED
    BY <2>2, BlockedStays
<1>2. QED
  BY <1>1 DEF LeadsTo

(* A vthread in its entry function has nothing parked on its chain. *)
LEMMA EntryIsCool ==
  ASSUME IInv, NEW w \in Vids, Hot(w)
  PROVE  pc[w].d # 1
<1>1. PICK k \in Depths : park[k].vid = w /\ k <= pc[w].d
  BY DEF Hot
<1>2. k >= 2
  <2>1. w # NoVid
    BY DEF Vids, NoVid
  <2>2. k \in 2 .. MaxDepth
    BY <1>1, <2>1 DEF IInv, ParkInv
  <2>3. QED
    BY <2>2
<1>3. QED
  BY <1>1, <1>2 DEF Depths

(* A parked frame on a chain belongs to a vthread no one else runs. *)
LEMMA HotStep ==
  ASSUME IInv, EntryOnly, [Next]_vars
  PROVE  HotInv'
<1> SUFFICES ASSUME NEW w \in Vids, Hot(w)'
    PROVE  /\ status'[w] \in Live /\ at' # "ran"
           /\ \E C \in SUBSET Vids : LeadsTo(w, C)'
  BY DEF HotInv
<1>1. CASE Call
  <2>1. /\ InExec /\ InLoop /\ Row.op = "call" /\ at = "exec" /\ at' = "loop"
        /\ UNCHANGED <<driven, loops, host>>
        /\ status' = [status EXCEPT ![Me] = "running"]
    BY <1>1 DEF Call, Exec, InExec, InLoop
  <2>2. w = Me
    <3>1. SUFFICES ASSUME w # Me PROVE FALSE
      OBVIOUS
    <3>2. PICK k \in Depths : park'[k].vid = w /\ k <= pc'[w].d
      BY DEF Hot
    <3>3. park[k].vid = w
      BY <1>1, <3>1, <3>2, CallFacts
    <3>4. pc'[w] = pc[w] /\ status'[w] = status[w]
      BY <1>1, <3>1 DEF Call, IInv, TypeOK
    <3>5. Hot(w)
      BY <3>2, <3>3, <3>4 DEF Hot, Unfinished
    <3>6. QED
      BY <2>1, <3>1, <3>5, OnlyMe
  <2>3. status'[w] \in Live
    BY <2>1, <2>2 DEF IInv, TypeOK, Live
  <2>4. /\ loops \in Seq(Loops) /\ Len(loops) \in Nat /\ Len(loops) \in 1 .. Len(loops)
        /\ loops[1].vid = driven /\ host = NoHost /\ 1 \in 1 .. Len(loops)
    BY <2>1, LoopFacts
  <2>5. {loops[n].vid : n \in 1 .. Len(loops)} \in SUBSET Vids
    <3>1. \A n \in 1 .. Len(loops) : loops[n] \in Loops
      BY <2>4, ElementOfSeq
    <3>2. QED
      BY <3>1 DEF Loops
  <2>6. PICK C \in SUBSET Vids : C = {loops[n].vid : n \in 1 .. Len(loops)}
    BY <2>5
  <2>7. LeadsTo(w, C)
    <3>1. w \in C /\ driven \in C
      BY <2>2, <2>4, <2>6 DEF Me, Top
    <3>2. ASSUME NEW u \in C \ {w} PROVE Blocked(u) /\ kid[u] \in C
      <4>1. PICK n \in 1 .. Len(loops) : u = loops[n].vid
        BY <2>6, <3>2
      <4>2. n # Len(loops)
        BY <2>2, <3>2, <4>1 DEF Me, Top
      <4>3. n < Len(loops) /\ n + 1 \in 1 .. Len(loops)
        BY <2>4, <4>1, <4>2
      <4>4. Blocked(u) /\ kid[u] = loops[n + 1].vid
        BY <4>1, <4>3 DEF IInv, LoopInv
      <4>5. QED
        BY <2>6, <4>3, <4>4
    <3>3. QED
      BY <2>4, <2>6, <3>1, <3>2 DEF LeadsTo, NoHost
  <2>8. LeadsTo(w, C)'
    <3>1. driven' \in C /\ host'.vid \in {NoVid, w} /\ at # "ran"
          /\ \A n \in 1 .. Len(loops') : loops'[n].vid \in C
      BY <2>1, <2>7 DEF LeadsTo
    <3>2. QED
      BY <2>7, <3>1, LeadsKept
  <2>9. QED
    BY <2>1, <2>3, <2>8
<1>2. CASE \/ Crash \/ DispatchFails \/ (\E v \in Vids : Start(v))
  <2>1. \A k \in Depths : park'[k].vid = NoVid
    <3>1. CASE Crash \/ DispatchFails
      BY <3>1, EndProcessFacts DEF Crash, DispatchFails
    <3>2. CASE \E v \in Vids : Start(v)
      BY <3>2 DEF Start, IInv, PhaseInv
    <3>3. QED
      BY <1>2, <3>1, <3>2
  <2>2. QED
    BY <2>1 DEF Hot, Vids, NoVid
<1>3. CASE ~ Call /\ ~ Crash /\ ~ DispatchFails /\ ~ (\E v \in Vids : Start(v))
  <2>1. ParkTrimmed
    <3>1. CASE Leave \/ Fails
      BY <3>1, PopFacts DEF Leave, Fails, Broken, Exec, InLoop
    <3>2. CASE Done
      BY <3>2 DEF Done, ParkTrimmed
    <3>3. CASE Yield
      BY <3>3 DEF Yield, CleanupAbove, ParkTrimmed
    <3>4. CASE ~ Leave /\ ~ Fails /\ ~ Done /\ ~ Yield
      <4>1. park' = park
        BY <1>3, <3>4, RunFacts DEF Next, Drive, Resume, Fetch, Native, SetStatus, Return, Create,
           Bootstrap, BootFails, SetInit, Emit, Continue, Dispatch, Advance, kvvars, procvars, vars
      <4>2. QED
        BY <4>1 DEF ParkTrimmed
    <3>5. QED
      BY <3>1, <3>2, <3>3, <3>4
  <2>2. Hot(w) /\ status[w] \in Live /\ at # "ran" /\ Unfinished(w) /\ Unfinished(w)'
    BY <1>3, <2>1, HotBack DEF Hot
  <2>3. PICK C \in SUBSET Vids : LeadsTo(w, C)
    BY <2>2 DEF IInv, HotInv
  <2>4. InLoop => Me \in C
    BY <2>3, LoopFacts DEF LeadsTo, Me, Top
  <2>5. InLoop /\ Me # w => Blocked(Me) /\ kid[Me] \in C
    BY <2>3, <2>4 DEF LeadsTo
  <2>6. ~ SetStatus
    <3>1. SUFFICES ASSUME SetStatus PROVE FALSE
      OBVIOUS
    <3>2. InExec /\ Row.op = "status"
      BY <3>1 DEF SetStatus, Exec, InExec
    <3>3. w = Me
      BY <2>2, <3>2, OnlyMe
    <3>4. pc[Me].d = 1
      BY <3>2, ExecFacts, EntryRows DEF Here
    <3>5. QED
      BY <2>2, <3>3, <3>4, EntryIsCool
  <2>7. ~ Leave
    BY <2>2, <2>5 DEF Leave, InLoop, Blocked
  <2>8. ~ Fails
    <3>1. SUFFICES ASSUME Fails PROVE FALSE
      OBVIOUS
    <3>2. InLoop /\ Me \in Vids /\ status' = [status EXCEPT ![Me] = "error"]
      <4>1. InLoop
        BY <3>1 DEF Fails, Broken, Exec, InLoop
      <4>2. QED
        BY <3>1, <4>1, LoopFacts DEF Fails
    <3>3. status'[Me] = "error"
      BY <3>2 DEF IInv, TypeOK
    <3>4. CASE Me = w
      BY <2>2, <3>3, <3>4 DEF Unfinished, Live
    <3>5. CASE Me # w
      <4>1. PICK u \in Vids : u = Me
        BY <3>2
      <4>2. Blocked(u)'
        BY <2>2, <2>5, <3>2, <3>5, <4>1, BlockedStays
      <4>3. QED
        BY <3>3, <4>1, <4>2 DEF Blocked, Live
    <3>6. QED
      BY <3>4, <3>5
  <2>9. status'[w] \in Live
    <3>1. CASE Native \/ Return \/ Continue
      BY <2>2, <3>1 DEF Native, Return, Continue, NextPc, IInv, TypeOK, Live
    <3>2. CASE Done
      <4>1. status' = [status EXCEPT ![Me] = "ok"]
        BY <3>2 DEF Done
      <4>2. QED
        BY <2>2, <4>1 DEF IInv, TypeOK, Unfinished, Live
    <3>3. CASE BootFails \/ SetInit \/ (\E v \in Vids : Resume(v))
      <4>1. status'[w] \in {status[w], "error", "init", "running"}
        BY <3>3 DEF BootFails, SetInit, Resume, IInv, TypeOK
      <4>2. QED
        BY <2>2, <4>1 DEF Unfinished, Live
    <3>4. CASE \/ Fetch \/ Create \/ Bootstrap \/ Emit \/ Run \/ Yield \/ Dispatch \/ Advance
               \/ UNCHANGED vars
      <4>1. status' = status
        BY <3>4, RunFacts DEF Fetch, Create, Bootstrap, Emit, Yield, Dispatch, Advance, kvvars, vars
      <4>2. QED
        BY <2>2, <4>1
    <3>5. QED
      BY <1>3, <2>6, <2>7, <2>8, <3>1, <3>2, <3>3, <3>4 DEF Next, Drive
  <2>10. at' # "ran"
    <3>1. CASE (\E v \in Vids : Resume(v)) \/ UNCHANGED vars
      BY <2>2, <3>1 DEF Resume, procvars, vars
    <3>2. CASE ~ ((\E v \in Vids : Resume(v)) \/ UNCHANGED vars)
      BY <1>3, <2>7, <2>8, <3>2, RunFacts DEF Next, Drive, Fetch, Native, SetStatus, Return, Done,
         Create, Bootstrap, BootFails, SetInit, Emit, Continue, NextPc, Yield, Dispatch, Advance
    <3>3. QED
      BY <3>1, <3>2
  <2>11. driven' = driven /\ driven \in C
    <3>1. driven' = driven
      BY <1>3, <2>7, <2>8, RunFacts DEF Next, Drive, Resume, Fetch, Native, SetStatus, Return, Done,
         Create, Bootstrap, BootFails, SetInit, Emit, Continue, Yield, Dispatch, Advance,
         procvars, vars
    <3>2. QED
      BY <2>3, <3>1 DEF LeadsTo
  <2>12. host'.vid \in {NoVid, w}
    <3>1. CASE Yield
      <4>1. InExec /\ Row.op = "host" /\ host' = [vid |-> Me, p |-> Here]
        BY <3>1 DEF Yield, Exec, InExec
      <4>2. w = Me
        BY <2>2, <4>1, OnlyMe
      <4>3. QED
        BY <4>1, <4>2
    <3>2. CASE Advance
      BY <2>3, <3>2 DEF Advance, LeadsTo, IInv, TypeOK, Hosts, NoHost
    <3>3. CASE ~ Yield /\ ~ Advance
      <4>1. host' = host
        BY <1>3, <2>7, <2>8, <3>3, RunFacts DEF Next, Drive, Resume, Fetch, Native, SetStatus, Return,
           Done, Create, Bootstrap, BootFails, SetInit, Emit, Continue, Dispatch, kvvars, procvars, vars
      <4>2. QED
        BY <2>3, <4>1 DEF LeadsTo
    <3>4. QED
      BY <3>1, <3>2, <3>3
  <2>13. \A n \in 1 .. Len(loops') : loops'[n].vid \in C
    <3>1. \A n \in 1 .. Len(loops) : loops[n].vid \in C
      BY <2>3 DEF LeadsTo
    <3>2. CASE Fetch
      <4>1. InLoop /\ Len(loops) \in Nat
        BY <3>2, LoopFacts DEF Fetch, InLoop
      <4>2. /\ Len(loops') = Len(loops)
            /\ \A n \in 1 .. Len(loops) - 1 : loops'[n] = loops[n]
            /\ loops'[Len(loops)] = Top' /\ Me' = Me
        BY <3>2, FetchFacts
      <4>3. loops'[Len(loops)].vid \in C
        BY <2>4, <4>1, <4>2 DEF Me
      <4>4. \A n \in 1 .. Len(loops) : n \in 1 .. Len(loops) - 1 \/ n = Len(loops)
        BY <4>1
      <4>5. QED
        BY <3>1, <4>2, <4>3, <4>4
    <3>3. CASE Run
      <4>1. /\ InExec /\ Row.op = "run" /\ kid[Me] \in Vids
            /\ Len(loops') = Len(loops) + 1
            /\ \A n \in 1 .. Len(loops) : loops'[n] = loops[n]
            /\ loops'[Len(loops) + 1].vid = kid[Me]
        BY <3>3, RunFacts, EnterFacts
      <4>2. InLoop
        BY <4>1 DEF InExec, InLoop
      <4>3. Me # w
        <5>1. pc[Me].d = 1
          BY <4>1, ExecFacts, EntryRows DEF Here
        <5>2. QED
          BY <2>2, <5>1, EntryIsCool
      <4>4. kid[Me] \in C /\ Len(loops) \in Nat
        BY <2>5, <4>2, <4>3, LoopFacts
      <4>5. \A n \in 1 .. Len(loops) + 1 : n \in 1 .. Len(loops) \/ n = Len(loops) + 1
        BY <4>4
      <4>6. QED
        BY <3>1, <4>1, <4>4, <4>5
    <3>4. CASE Yield \/ Advance
      <4>1. loops' = <<>> \/ loops' = loops \/ loops' = << Enter(driven) >>
        BY <3>4 DEF Yield, Advance
      <4>2. driven \in Vids
        BY <2>11
      <4>3. QED
        BY <2>11, <3>1, <4>1, <4>2, EmptySeq, EnterFacts
    <3>5. CASE ~ Fetch /\ ~ Run /\ ~ Yield /\ ~ Advance
      <4>1. loops' = loops
        BY <1>3, <2>7, <2>8, <3>5 DEF Next, Drive, Resume, Native, SetStatus, Return,
           Done, Create, Bootstrap, BootFails, SetInit, Emit, Continue, Dispatch, procvars, vars
      <4>2. QED
        BY <3>1, <4>1
    <3>6. QED
      BY <3>2, <3>3, <3>4, <3>5
  <2>14. LeadsTo(w, C)'
    BY <2>2, <2>3, <2>11, <2>12, <2>13, LeadsKept
  <2>15. QED
    BY <2>9, <2>10, <2>14
<1>4. QED
  BY <1>1, <1>2, <1>3

(***************************************************************************)
(* The invariant and what it implies                                       *)
(***************************************************************************)
LEMMA InitInv ==
  ASSUME Init
  PROVE  IInv
<1>1. TypeOK
  BY TypeInit
<1>2. /\ seq = 1 /\ at = "idle" /\ driven = NoVid /\ loops = <<>> /\ host = NoHost
      /\ \A k \in Depths : park[k].vid = NoVid
  BY DEF Init, NoProcess, Cold
<1>3. \A v \in Vids : /\ pc[v] = IF v = 1 THEN EntryPc ELSE Nowhere
                      /\ status[v] = IF v = 1 THEN "init" ELSE "none"
                      /\ kid[v] = NoVid
  BY DEF Init
<1>4. EntryPc # Nowhere /\ EntryPc.d = 1 /\ EntryPc.i = 1
  BY DEF EntryPc, At, Nowhere
<1>5. SpawnInv
  BY <1>2, <1>3, <1>4 DEF SpawnInv, Vids
<1>6. ChainInv
  <2>1. SUFFICES ASSUME NEW v \in Vids, Unfinished(v)
        PROVE  /\ \A k \in 1 .. pc[v].d : Linked(v, k)
               /\ HasRow(frame[v][pc[v].d].lib, pc[v].i)
    BY DEF ChainInv
  <2>2. v = 1 /\ pc[v] = EntryPc
    BY <1>3, <2>1 DEF Unfinished
  <2>3. frame[v][1].lib = Main /\ 1 \in Depths
    BY <2>2, NestedAssumption DEF Init, Absent, Depths, Vids
  <2>4. HasRow(Main, 1) /\ Main \in Funcs
    BY NestedAssumption, LenProperties DEF HasRow
  <2>5. Linked(v, 1)
    BY <2>3, <2>4 DEF Linked
  <2>6. QED
    BY <1>4, <2>2, <2>3, <2>4, <2>5
<1>7. ParkInv /\ PhaseInv /\ HostInv /\ ExecInv /\ FetchInv
  BY <1>2 DEF ParkInv, PhaseInv, HostInv, ExecInv, FetchInv
<1>8. LoopInv
  <2>1. Len(loops) = 0
    BY <1>2, EmptySeq
  <2>2. QED
    BY <2>1 DEF LoopInv
<1>9. HotInv
  BY <1>2 DEF HotInv, Hot, Vids, NoVid
<1>10. QED
  BY <1>1, <1>5, <1>6, <1>7, <1>8, <1>9 DEF IInv

(* The invariant is inductive. *)
LEMMA NextInv ==
  ASSUME EntryOnly, IInv, [Next]_vars
  PROVE  IInv'
BY TypeStep, SpawnStep, ChainStep, ParkStep, PhaseStep, LoopStep, FetchStep, ExecStep,
   HostStep, HotStep DEF IInv

(* The strengthening every theorem below rests on is an invariant. *)
THEOREM Invariant ==
  ASSUME EntryOnly
  PROVE  Spec => []IInv
<1>1. Init => IInv
  BY InitInv
<1>2. IInv /\ [Next]_vars => IInv'
  BY NextInv DEF EntryOnly
<1>3. QED
  BY <1>1, <1>2, PTL DEF Spec

(* Every variable has its type.  A nested loop is entered whenever a run    *)
(* meets a live child; that the loops never outnumber the vthreads follows  *)
(* from each of them running a vthread younger than the one around it.      *)
THEOREM TypeCorrect ==
  ASSUME EntryOnly
  PROVE  Spec => []TypeOK
<1>1. IInv => TypeOK
  BY DEF IInv
<1>2. QED
  BY <1>1, Invariant, PTL

(* Whatever other vthreads do in the thread that shares its parked frames,  *)
(* a vthread that may still run has all its frames, each called by the one  *)
(* below.                                                                    *)
THEOREM ChainAlwaysKept ==
  ASSUME EntryOnly
  PROVE  Spec => []ChainKept
<1>1. IInv => ChainKept
  <2>1. SUFFICES ASSUME IInv, NEW v \in Vids, Unfinished(v)
        PROVE  /\ \A k \in 1 .. pc[v].d : frame[v][k].lib # None
               /\ \A k \in 2 .. pc[v].d :
                    CallsAt(v, At(k - 1, frame[v][k].ret - 1), frame[v][k].lib)
    BY DEF ChainKept
  <2>2. \A k \in 1 .. pc[v].d : Linked(v, k)
    BY <2>1 DEF IInv, ChainInv
  <2>3. \A k \in 1 .. pc[v].d : frame[v][k].lib # None
    BY <2>2, NestedAssumption DEF Linked
  <2>4. \A k \in 2 .. pc[v].d : k \in 1 .. pc[v].d /\ k > 1
    BY <2>1, ChainFacts
  <2>5. QED
    BY <2>2, <2>3, <2>4 DEF Linked
<1>2. QED
  BY <1>1, Invariant, PTL

(* The table the loops of a thread share says of a frame what the tree says, *)
(* whichever vthread the frame belongs to.                                   *)
THEOREM ParksAlwaysCoherent ==
  ASSUME EntryOnly
  PROVE  Spec => []ParkCoherent
<1>1. IInv => ParkCoherent
  BY DEF IInv, ParkInv, ParkCoherent
<1>2. QED
  BY <1>1, Invariant, PTL

(* A vid is spawned once: no later vthread.create starts it anew. *)
THEOREM AlwaysSpawnedOnce ==
  ASSUME EntryOnly
  PROVE  Spec => SpawnedOnce
<1>1. ASSUME IInv, [Next]_vars, NEW v \in Vids, status'[v] = "init", status[v] # "init"
      PROVE  status[v] = "none"
  <2>1. pc \in [Vids -> LivePcs \cup {Nowhere}] /\ status \in [Vids -> Statuses]
    BY <1>1 DEF IInv, TypeOK, LivePcs
  <2>2. CASE SetInit
    <3>1. v = seq
      BY <1>1, <2>1, <2>2 DEF SetInit
    <3>2. QED
      BY <1>1, <2>2, <3>1 DEF SetInit, IInv, SpawnInv
  <2>3. CASE Run
    BY <1>1, <2>3, RunFacts
  <2>4. CASE ~ SetInit /\ ~ Run
    BY <1>1, <2>1, <2>4 DEF Next, Drive, Start, Resume, Fetch, Native, SetStatus, Call, Return,
       Done, Create, Bootstrap, BootFails, Emit, Leave, Fails, Continue, NextPc, Yield,
       Dispatch, DispatchFails, Advance, Crash, kvvars, vars
  <2>5. QED
    BY <2>2, <2>3, <2>4
<1>2. IInv /\ [Next]_vars =>
        [\A v \in Vids : status'[v] = "init" /\ status[v] # "init" => status[v] = "none"]_vars
  BY <1>1
<1>3. QED
  BY <1>2, Invariant, PTL DEF Spec, SpawnedOnce

(* vthread.run blocks: the loop around goes on only when the vthread run has *)
(* ended or paused, and no other step takes a pc past its vthread.run.       *)
THEOREM RunAlwaysBlocks ==
  ASSUME EntryOnly
  PROVE  Spec => RunBlocks
<1>1. ASSUME IInv, [Next]_vars, at # "ran", at' = "ran"
      PROVE  status'[Me] \notin Live
  <2>1. CASE Leave \/ Fails
    <3>1. InLoop
      BY <2>1 DEF Leave, Fails, Broken, Exec, InLoop
    <3>2. Me \in Vids
      BY <1>1, <3>1, LoopFacts
    <3>3. QED
      BY <1>1, <2>1, <3>2 DEF Leave, Fails, IInv, TypeOK, Live
  <2>2. CASE ~ Leave /\ ~ Fails
    BY <1>1, <2>2, RunFacts, EndProcessFacts DEF Next, Drive, Start, Resume, Fetch, Native,
       SetStatus, Call, Return, Done, Create, Bootstrap, BootFails, SetInit, Emit, Continue,
       NextPc, Yield, Dispatch, DispatchFails, Advance, Crash, procvars, vars
  <2>3. QED
    BY <2>1, <2>2
<1>2. ASSUME IInv, [Next]_vars, NEW v \in Vids, AtRun(v), kid[v] # NoVid, pc'[v] # pc[v]
      PROVE  at = "ran" /\ Me = v
  <2>1. /\ Unfinished(v) /\ Code[frame[v][pc[v].d].lib][pc[v].i].op = "run"
    BY <1>2 DEF AtRun
  <2>2. ASSUME InExec PROVE v = Me => Row.op = "run"
    BY <1>2, <2>1, <2>2, ExecFacts DEF Here
  <2>3. CASE v = Me /\ (Native \/ SetStatus \/ Call \/ Return)
    BY <2>2, <2>3 DEF Native, SetStatus, Call, Return, Exec, InExec
  <2>4. CASE v = Me /\ Continue
    <3>1. at # "next"
      BY <1>2, <2>2, <2>4 DEF IInv, ExecInv, InExec
    <3>2. QED
      BY <2>4, <3>1 DEF Continue
  <2>5. CASE v = host.vid /\ Advance
    BY <1>2, <2>1, <2>5, HostFacts DEF Advance
  <2>6. QED
    BY <1>2, <2>1, <2>3, <2>4, <2>5, Mover
<1>3. IInv /\ [Next]_vars =>
        [/\ at # "ran" /\ at' = "ran" => status'[Me] \notin Live
         /\ \A v \in Vids : AtRun(v) /\ kid[v] # NoVid /\ pc'[v] # pc[v] =>
              at = "ran" /\ Me = v]_vars
  BY <1>1, <1>2
<1>4. QED
  BY <1>3, Invariant, PTL DEF Spec, RunBlocks
===============================================================================
