----------------------------- MODULE KvCpuProofs -----------------------------
(***************************************************************************)
(* Proofs about KvCpu, for every program, depth limit and number of        *)
(* crashes: under Safe the inductive invariant of KvCpuInv holds, and with *)
(* it the safety properties that the runs check on one small program.      *)
(***************************************************************************)
EXTENDS KvCpuInv, TLAPS

(***************************************************************************)
(* Facts about the data                                                    *)
(***************************************************************************)
(* A row of a function is a row, and what follows it is code again. *)
LEMMA RowFacts ==
  ASSUME NEW f \in Funcs, NEW j, HasRow(f, j)
  PROVE  /\ j \in Nat /\ j >= 1
         /\ Code[f][j] \in Rows
         /\ Code[f][j].op \in Ops \ {"jump", "return"} => HasRow(f, j + 1)
         /\ Code[f][j].op = "jump" => \A k \in Code[f][j].to : HasRow(f, k)
         /\ Code[f][j].op \in Calls => Code[f][j].fn \in Funcs
<1>1. Code[f] \in Seq(Rows)
  BY CodeAssumption
<1>2. Len(Code[f]) \in Nat /\ j \in 1 .. Len(Code[f])
  BY <1>1 DEF HasRow
<1>3. Code[f][j] \in Rows
  BY <1>1, <1>2
<1>4. Code[f][j].op \in Ops \ {"jump", "return"} => j < Len(Code[f])
  BY <1>2, CodeAssumption
<1>5. Code[f][j].op = "jump" => Code[f][j].to \subseteq 1 .. Len(Code[f])
  BY <1>2, CodeAssumption
<1>6. Code[f][j].op \in Calls => Code[f][j].fn \in Funcs
  BY <1>2, CodeAssumption
<1>7. QED
  BY <1>2, <1>3, <1>4, <1>5, <1>6 DEF HasRow

LEMMA FirstRow ==
  ASSUME NEW f \in Funcs
  PROVE  HasRow(f, 1)
<1>1. Code[f] \in Seq(Rows) /\ Len(Code[f]) >= 1
  BY CodeAssumption
<1>2. QED
  BY <1>1 DEF HasRow

(* The chain survives a step that leaves its frames' identity alone. *)
LEMMA KeepStack ==
  ASSUME TypeOK, StackInv, pc' = pc, Running' => Running,
         \A k \in Depths : k <= pc.d => Identity(frame'[k]) = Identity(frame[k])
  PROVE  StackInv'
<1> SUFFICES ASSUME Running' PROVE StackInv'
  BY DEF StackInv
<1>1. /\ pc.d \in Depths /\ pc.d \in Nat
      /\ \A k \in 1 .. pc.d : LinkedUp(k)
      /\ HasRow(frame[pc.d].lib, pc.i)
  BY DEF StackInv, Depths
<1>2. \A k \in 1 .. pc.d : k \in Depths /\ Identity(frame'[k]) = Identity(frame[k])
  BY <1>1, CodeAssumption DEF Depths
<1>3. \A k \in 1 .. pc.d : /\ frame'[k].lib = frame[k].lib
                           /\ frame'[k].ret = frame[k].ret
                           /\ frame'[k].site = frame[k].site
  BY <1>2 DEF Identity
<1>4. ASSUME NEW k \in 1 .. pc.d PROVE LinkedUp(k)'
  <2>1. LinkedUp(k)
    BY <1>1
  <2>2. CASE k = 1
    BY <2>1, <2>2, <1>3 DEF LinkedUp, Linked
  <2>3. CASE k > 1
    <3>1. k - 1 \in 1 .. pc.d
      BY <2>3, <1>1
    <3>2. frame'[k - 1].lib = frame[k - 1].lib
      BY <3>1, <1>3
    <3>3. QED
      BY <2>1, <2>3, <1>3, <3>2 DEF LinkedUp, Linked, CallsAt, At, Behind
  <2>4. QED
    BY <2>2, <2>3, <1>1
<1>5. HasRow(frame'[pc.d].lib, pc.i)
  <2>1. pc.d \in 1 .. pc.d
    BY <1>1, CodeAssumption DEF Depths
  <2>2. QED
    BY <2>1, <1>1, <1>3
<1>6. QED
  BY <1>1, <1>4, <1>5 DEF StackInv
(***************************************************************************)
(* What the invariant says of the instruction being executed               *)
(***************************************************************************)
LEMMA ChainFacts ==
  ASSUME IInv, Running
  PROVE  /\ pc \in Pcs /\ pc.d \in Nat /\ pc.i \in Nat
         /\ pc.d \in Depths /\ pc.d >= 1 /\ pc.d <= MaxDepth + 1
         /\ frame[pc.d].lib \in Funcs /\ frame[pc.d].lib # None
         /\ HasRow(frame[pc.d].lib, pc.i)
<1>1. pc \in Pcs /\ pc.d \in Nat /\ pc.i \in Nat
  BY DEF IInv, TypeOK, Pcs
<1>2. pc.d \in Depths /\ HasRow(frame[pc.d].lib, pc.i) /\ \A k \in 1 .. pc.d : LinkedUp(k)
  BY DEF IInv, StackInv
<1>3. pc.d >= 1 /\ pc.d <= MaxDepth + 1 /\ pc.d \in 1 .. pc.d
  BY <1>1, <1>2, CodeAssumption DEF Depths
<1>4. frame[pc.d].lib \in Funcs
  BY <1>2, <1>3 DEF LinkedUp, Linked
<1>5. QED
  BY <1>1, <1>2, <1>3, <1>4, CodeAssumption

LEMMA ExecFacts ==
  ASSUME IInv, at \in {"exec", "retpc", "lib", "bind", "goto"}
  PROVE  /\ Running /\ pc = cur /\ last = cur.d
         /\ cur \in Pcs /\ cur.d \in Nat /\ cur.i \in Nat
         /\ cur.d \in Depths /\ cur.d >= 1 /\ cur.d <= MaxDepth
         /\ CalleeD = cur.d + 1 /\ CalleeD \in Depths
         /\ frame[cur.d].lib \in Funcs /\ ctx[cur.d] = frame[cur.d].lib
         /\ HasRow(frame[cur.d].lib, cur.i)
         /\ Row = Code[frame[cur.d].lib][cur.i] /\ Row \in Rows
<1>1. Running /\ pc = cur /\ last = cur.d /\ ctx[cur.d] = frame[cur.d].lib
  BY DEF IInv, ExecInv
<1>2. /\ cur \in Pcs /\ cur.d \in Nat /\ cur.i \in Nat
      /\ cur.d \in Depths /\ cur.d >= 1
      /\ frame[cur.d].lib \in Funcs
      /\ HasRow(frame[cur.d].lib, cur.i)
  BY <1>1, ChainFacts
<1>3. cur.d <= MaxDepth
  BY <1>1 DEF IInv, TypeOK
<1>4. CalleeD = cur.d + 1 /\ CalleeD \in Depths
  BY <1>2, <1>3, CodeAssumption DEF CalleeD, Depths
<1>5. Row = Code[frame[cur.d].lib][cur.i] /\ Row \in Rows
  BY <1>1, <1>2, RowFacts DEF Row
<1>6. QED
  BY <1>1, <1>2, <1>3, <1>4, <1>5

(***************************************************************************)
(* The invariant holds at the start and whenever the process ends          *)
(***************************************************************************)
LEMMA InitInv ==
  ASSUME Init
  PROVE  IInv
<1>1. /\ MaxDepth \in Nat /\ MaxDepth >= 1 /\ 1 \in Depths
      /\ Main \in Funcs /\ None \notin Funcs /\ MaxCrashes \in Nat
  BY CodeAssumption DEF Depths
<1>2. Absent \in Frames /\ Root \in Frames /\ Root.lib = Main /\ Cold \in Parks
  BY <1>1 DEF Absent, Root, Frames, Cold, Parks, Nowhere, Pcs
<1>3. TypeOK
  BY <1>1, <1>2 DEF Init, NoProcess, TypeOK, Pcs, At, Nowhere, Statuses, Live, Messages, Phases
<1>4. /\ pc.d = 1 /\ pc.i = 1 /\ frame[1].lib = Main
      /\ at = "idle" /\ last = 0 /\ status = "init" /\ msg = "none"
      /\ \A k \in Depths : ctx[k] = None /\ park[k].f = None
  BY <1>1, <1>2 DEF Init, NoProcess, At, Cold
<1>5. StackInv
  BY <1>1, <1>4, FirstRow DEF StackInv, LinkedUp, Linked
<1>6. ParkInv /\ CtxInv /\ NoChainError
  BY <1>4 DEF ParkInv, ParkCoherent, IsWarm, CtxInv, NoChainError, ChainErrors
<1>7. IdleInv
  BY DEF IdleInv, Init, NoProcess
<1>8. /\ FetchInv /\ ExecInv /\ CallInv /\ GotoInv /\ MarkInv
      /\ DropInv /\ HostInv /\ ExitInv
  BY <1>4 DEF FetchInv, ExecInv, CallInv, GotoInv, MarkInv, DropInv, HostInv, ExitInv
<1>9. QED
  BY <1>3, <1>5, <1>6, <1>7, <1>8 DEF IInv

(* A process may end anywhere, if it leaves the chain and no error behind. *)
LEMMA EndInv ==
  ASSUME TypeOK, EndProcess, StackInv', pc' \in Pcs, status' \in Statuses,
         msg' \in Messages, NoChainError', frame' \in [Depths -> Frames],
         crashes' \in 0 .. MaxCrashes
  PROVE  IInv'
<1>1. /\ at' = "idle" /\ last' = 0
      /\ ctx' = [k \in Depths |-> None] /\ park' = [k \in Depths |-> Cold]
      /\ Cold \in Parks /\ Cold.f = None
  BY DEF EndProcess, Cold, Parks, Nowhere, Pcs
<1>2. TypeOK'
  BY <1>1, CodeAssumption DEF TypeOK, EndProcess, Phases, Pcs, Nowhere, Depths
<1>3. ParkInv' /\ CtxInv' /\ IdleInv'
  BY <1>1 DEF ParkInv, ParkCoherent, IsWarm, CtxInv, IdleInv
<1>4. /\ FetchInv' /\ ExecInv' /\ CallInv' /\ GotoInv' /\ MarkInv'
      /\ DropInv' /\ HostInv' /\ ExitInv'
  BY <1>1 DEF FetchInv, ExecInv, CallInv, GotoInv, MarkInv, DropInv, HostInv, ExitInv
<1>5. QED
  BY <1>2, <1>3, <1>4 DEF IInv

(***************************************************************************)
(* The head of the loop                                                    *)
(***************************************************************************)
LEMMA StartInv ==
  ASSUME IInv, Start
  PROVE  IInv'
<1>1. /\ at' = "fetch" /\ last = 0 /\ status \in Live
      /\ UNCHANGED <<pc, status, msg, frame, cur, known, last, ctx, park, next, nstat, crashes>>
  BY DEF Start, kvvars, IInv, IdleInv
<1>2. TypeOK' /\ NoChainError'
  BY <1>1 DEF IInv, TypeOK, Phases, NoChainError
<1>3. StackInv'
  BY <1>1, KeepStack DEF IInv, Running
<1>4. ParkInv' /\ CtxInv' /\ FetchInv'
  BY <1>1 DEF IInv, ParkInv, ParkCoherent, IsWarm, CtxInv, Running, FetchInv
<1>5. /\ IdleInv' /\ ExecInv' /\ CallInv' /\ GotoInv' /\ MarkInv'
      /\ DropInv' /\ HostInv' /\ ExitInv'
  BY <1>1 DEF IdleInv, ExecInv, CallInv, GotoInv, MarkInv, DropInv, HostInv, ExitInv
<1>6. QED
  BY <1>2, <1>3, <1>4, <1>5 DEF IInv

LEMMA StopInv ==
  ASSUME IInv, Stop
  PROVE  IInv'
<1>1. /\ at = "fetch" /\ at' = "exit" /\ status \notin Live
      /\ UNCHANGED <<pc, status, msg, frame, cur, known, last, ctx, park, next, nstat, crashes>>
  BY DEF Stop, kvvars, Gate
<1>2. TypeOK' /\ NoChainError'
  BY <1>1 DEF IInv, TypeOK, Phases, NoChainError
<1>3. StackInv'
  BY <1>1, KeepStack DEF IInv, Running
<1>4. ParkInv' /\ CtxInv' /\ ExitInv'
  BY <1>1 DEF IInv, ParkInv, ParkCoherent, IsWarm, CtxInv, Running, FetchInv, ExitInv
<1>5. /\ IdleInv' /\ FetchInv' /\ ExecInv' /\ CallInv' /\ GotoInv' /\ MarkInv'
      /\ DropInv' /\ HostInv'
  BY <1>1 DEF IdleInv, FetchInv, ExecInv, CallInv, GotoInv, MarkInv, DropInv, HostInv
<1>6. QED
  BY <1>2, <1>3, <1>4, <1>5 DEF IInv

(* An error that is recorded while the frames stay as they are. *)
LEMMA RaiseInv ==
  ASSUME IInv, NEW p \in Pcs, NEW kind \in Messages \ ChainErrors, Raise(p, kind),
         UNCHANGED last
  PROVE  IInv'
<1>1. /\ at' = "exit" /\ status' = "error" /\ msg' = kind /\ pc' = p
      /\ UNCHANGED <<frame, cur, known, ctx, park, next, nstat, crashes, last>>
  BY DEF Raise, SetError
<1>2. TypeOK' /\ NoChainError'
  BY <1>1 DEF IInv, TypeOK, Phases, NoChainError, Statuses, Terminal
<1>3. ~ Running'
  BY <1>1 DEF Running, Terminal
<1>4. StackInv' /\ ParkInv' /\ CtxInv' /\ ExitInv'
  BY <1>1, <1>3 DEF IInv, StackInv, ParkInv, ParkCoherent, IsWarm, CtxInv, ExitInv
<1>5. /\ IdleInv' /\ FetchInv' /\ ExecInv' /\ CallInv' /\ GotoInv' /\ MarkInv'
      /\ DropInv' /\ HostInv'
  BY <1>1 DEF IdleInv, FetchInv, ExecInv, CallInv, GotoInv, MarkInv, DropInv, HostInv
<1>6. QED
  BY <1>2, <1>4, <1>5 DEF IInv

LEMMA OverflowInv ==
  ASSUME IInv, Overflow
  PROVE  IInv'
<1>1. "recursion" \in Messages \ ChainErrors
  BY DEF Messages, ChainErrors
<1>2. pc \in Pcs
  BY DEF IInv, TypeOK
<1>3. Raise(pc, "recursion") /\ UNCHANGED last
  BY DEF Overflow
<1>4. QED
  BY <1>1, <1>2, <1>3, RaiseInv

(* Where the code of the current frame is looked up does not matter: reused *)
(* context, parked entry and ..lib all name the function of the frame.      *)
LEMMA ResolvedLib ==
  ASSUME IInv, Running, ~ TooDeep
  PROVE  Resolved = frame[pc.d].lib /\ Resolved \in Funcs /\ HasRow(Resolved, pc.i)
<1>1. pc.d \in Depths /\ frame[pc.d].lib \in Funcs /\ HasRow(frame[pc.d].lib, pc.i)
  BY ChainFacts
<1>2. pc.d \in Nat /\ pc.d <= pc.d
  BY ChainFacts
<1>3. pc.d <= last /\ ctx[pc.d] # None => ctx[pc.d] = frame[pc.d].lib
  BY <1>1, <1>2 DEF IInv, CtxInv
<1>4. IsWarm(pc.d) => park[pc.d].f = frame[pc.d].lib
  BY <1>1 DEF IInv, ParkInv, ParkCoherent
<1>5. QED
  BY <1>1, <1>3, <1>4 DEF Resolved

LEMMA NoLibInv ==
  ASSUME IInv, NoLib
  PROVE  FALSE
<1>1. Running /\ ~ TooDeep /\ Resolved = None
  BY DEF NoLib, Gate, Live, Running, Terminal
<1>2. QED
  BY <1>1, ResolvedLib, CodeAssumption

LEMMA FetchStepInv ==
  ASSUME IInv, Fetch
  PROVE  IInv'
<1>1. /\ at = "fetch" /\ Running /\ ~ TooDeep /\ status \in Live
      /\ cur' = pc /\ known' = status /\ last' = pc.d
      /\ ctx' = [ctx EXCEPT ![pc.d] = Resolved]
      /\ UNCHANGED <<frame, park, next, nstat, crashes>>
  BY DEF Fetch, Gate, Running, Live, Terminal
<1>2. Resolved = frame[pc.d].lib /\ Resolved \in Funcs /\ HasRow(Resolved, pc.i)
  BY <1>1, ResolvedLib
<1>3. at' = "exec" /\ UNCHANGED <<pc, status, msg>>
  BY <1>2 DEF Fetch
<1>4. pc \in Pcs /\ pc.d \in Depths /\ pc.d \in Nat /\ pc.d >= 1 /\ pc.d <= MaxDepth
  BY <1>1, ChainFacts, CodeAssumption DEF TooDeep
<1>5. ctx \in [Depths -> Funcs \cup {None}] /\ last \in Nat
  BY DEF IInv, TypeOK
<1>6. TypeOK' /\ NoChainError'
  BY <1>1, <1>2, <1>3, <1>4, <1>5 DEF IInv, TypeOK, Phases, NoChainError
<1>7. StackInv'
  BY <1>1, <1>3, KeepStack DEF IInv, Running
<1>8. ParkInv'
  BY <1>1 DEF IInv, ParkInv, ParkCoherent, IsWarm
<1>9. CtxInv'
  <2>1. ASSUME NEW k \in Depths, k <= pc.d, ctx'[k] # None
        PROVE  ctx'[k] = frame[k].lib
    <3>1. CASE k = pc.d
      BY <3>1, <1>1, <1>2, <1>4, <1>5
    <3>2. CASE k # pc.d
      <4>1. ctx'[k] = ctx[k] /\ k \in Nat
        BY <3>2, <1>1, <1>5 DEF Depths
      <4>2. last # 0
        BY <4>1, <2>1 DEF IInv, CtxInv
      <4>3. pc.d <= last + 1
        BY <4>2, <1>1 DEF IInv, FetchInv
      <4>4. k <= last
        BY <4>1, <4>3, <2>1, <3>2, <1>4, <1>5
      <4>5. QED
        BY <4>1, <4>4, <2>1, <1>1 DEF IInv, CtxInv
    <3>3. QED
      BY <3>1, <3>2
  <2>2. QED
    BY <2>1, <1>1, <1>3, <1>4 DEF CtxInv
<1>10. ExecInv'
  BY <1>1, <1>2, <1>3, <1>4, <1>5 DEF ExecInv, Running, Unpaused
<1>11. /\ IdleInv' /\ FetchInv' /\ CallInv' /\ GotoInv' /\ MarkInv'
       /\ DropInv' /\ HostInv' /\ ExitInv'
  BY <1>3 DEF IdleInv, FetchInv, CallInv, GotoInv, MarkInv, DropInv, HostInv, ExitInv
<1>12. QED
  BY <1>6, <1>7, <1>8, <1>9, <1>10, <1>11 DEF IInv

(***************************************************************************)
(* Instructions that stay in the frame                                     *)
(***************************************************************************)
(* The next pc is chosen and nothing the chain is made of has changed. *)
LEMMA NextPcInv ==
  ASSUME IInv, at = "exec",
         NEW p \in Pcs, NEW st \in {"running", "wait", "paused"}, NextPc(p, st),
         frame' \in [Depths -> Frames],
         \A k \in Depths : Identity(frame'[k]) = Identity(frame[k]),
         \/ p.d = cur.d /\ HasRow(frame[cur.d].lib, p.i)
         \/ cur.d > 1 /\ p = frame[cur.d].ret /\ st # "paused",
         UNCHANGED <<pc, status, msg, cur, known, last, ctx, park, crashes>>
  PROVE  IInv'
<1>1. at' = "goto" /\ next' = p /\ nstat' = st
  BY DEF NextPc
<1>2. \A k \in Depths : /\ frame'[k].lib = frame[k].lib
                        /\ frame'[k].ret = frame[k].ret
                        /\ frame'[k].site = frame[k].site
  BY DEF Identity
<1>3. Running /\ cur.d \in Depths /\ ctx[cur.d] = frame[cur.d].lib
  BY ExecFacts
<1>4. TypeOK' /\ NoChainError'
  BY <1>1 DEF IInv, TypeOK, Phases, NoChainError
<1>5. StackInv'
  BY KeepStack DEF IInv, Running
<1>6. ParkInv' /\ CtxInv'
  BY <1>2 DEF IInv, ParkInv, ParkCoherent, IsWarm, CtxInv, Running
<1>7. ExecInv'
  BY <1>2, <1>3 DEF IInv, ExecInv, Running, Unpaused
<1>8. GotoInv'
  BY <1>1, <1>2, <1>3 DEF GotoInv
<1>9. /\ IdleInv' /\ FetchInv' /\ CallInv' /\ MarkInv'
      /\ DropInv' /\ HostInv' /\ ExitInv'
  BY <1>1 DEF IdleInv, FetchInv, CallInv, MarkInv, DropInv, HostInv, ExitInv
<1>10. QED
  BY <1>4, <1>5, <1>6, <1>7, <1>8, <1>9 DEF IInv

LEMMA BehindFacts ==
  ASSUME IInv, at \in {"exec", "retpc", "lib", "bind", "goto"},
         Row.op \in Ops \ {"jump", "return"}
  PROVE  /\ Behind(cur) \in Pcs /\ Behind(cur).d = cur.d
         /\ Behind(cur).i = cur.i + 1
         /\ HasRow(frame[cur.d].lib, cur.i + 1)
<1>1. /\ cur.d \in Nat /\ cur.i \in Nat
      /\ frame[cur.d].lib \in Funcs /\ HasRow(frame[cur.d].lib, cur.i)
      /\ Row = Code[frame[cur.d].lib][cur.i]
  BY ExecFacts
<1>2. QED
  BY <1>1, RowFacts DEF Behind, At, Pcs

LEMMA NativeInv ==
  ASSUME IInv, Native
  PROVE  IInv'
<1>1. /\ at = "exec" /\ Row.op \in Ops \ {"jump", "return"}
      /\ frame' = [frame EXCEPT ![cur.d].locals = @ \cup Row.w]
      /\ NextPc(Behind(cur), "running")
      /\ UNCHANGED <<pc, status, msg, cur, known, last, ctx, park, crashes>>
  BY DEF Native, Ops
<1>2. cur.d \in Depths /\ Row \in Rows
  BY <1>1, ExecFacts
<1>3. frame \in [Depths -> Frames]
  BY DEF IInv, TypeOK
<1>4. frame' \in [Depths -> Frames] /\ \A k \in Depths : Identity(frame'[k]) = Identity(frame[k])
  BY <1>1, <1>2, <1>3 DEF Frames, Rows, Identity
<1>5. Behind(cur) \in Pcs /\ Behind(cur).d = cur.d /\ HasRow(frame[cur.d].lib, Behind(cur).i)
  BY <1>1, BehindFacts
<1>6. QED
  BY <1>1, <1>4, <1>5, NextPcInv

LEMMA JumpInv ==
  ASSUME IInv, Jump
  PROVE  IInv'
<1>1. PICK j \in Row.to : NextPc(At(cur.d, j), "running")
  BY DEF Jump
<1>2. /\ at = "exec" /\ Row.op = "jump"
      /\ UNCHANGED <<pc, status, msg, frame, cur, known, last, ctx, park, crashes>>
  BY DEF Jump, kvvars
<1>3. /\ cur.d \in Nat /\ frame[cur.d].lib \in Funcs /\ HasRow(frame[cur.d].lib, cur.i)
      /\ Row = Code[frame[cur.d].lib][cur.i]
  BY <1>2, ExecFacts
<1>4. HasRow(frame[cur.d].lib, j)
  BY <1>1, <1>2, <1>3, RowFacts
<1>5. j \in Nat
  BY <1>3, <1>4, RowFacts
<1>6. /\ At(cur.d, j) \in Pcs /\ At(cur.d, j).d = cur.d
      /\ HasRow(frame[cur.d].lib, At(cur.d, j).i)
  BY <1>3, <1>4, <1>5 DEF At, Pcs
<1>7. frame' \in [Depths -> Frames] /\ \A k \in Depths : Identity(frame'[k]) = Identity(frame[k])
  BY <1>2 DEF IInv, TypeOK
<1>8. QED
  BY <1>1, <1>2, <1>6, <1>7, NextPcInv

LEMMA SetStatusInv ==
  ASSUME IInv, SetStatus
  PROVE  IInv'
<1>1. /\ at = "exec" /\ Row.op \in Ops \ {"jump", "return"}
      /\ NextPc(Behind(cur), Row.st)
      /\ UNCHANGED <<pc, status, msg, frame, cur, known, last, ctx, park, crashes>>
  BY DEF SetStatus, kvvars, Ops
<1>2. Row.st \in {"running", "wait", "paused"}
  BY <1>1, ExecFacts DEF Rows
<1>3. Behind(cur) \in Pcs /\ Behind(cur).d = cur.d /\ HasRow(frame[cur.d].lib, Behind(cur).i)
  BY <1>1, BehindFacts
<1>4. frame' \in [Depths -> Frames] /\ \A k \in Depths : Identity(frame'[k]) = Identity(frame[k])
  BY <1>1 DEF IInv, TypeOK
<1>5. QED
  BY <1>1, <1>2, <1>3, <1>4, NextPcInv

LEMMA OpFailsInv ==
  ASSUME IInv, OpFails
  PROVE  IInv'
<1>1. "failed" \in Messages \ ChainErrors /\ cur \in Pcs
  BY DEF Messages, ChainErrors, IInv, TypeOK
<1>2. Raise(cur, "failed") /\ UNCHANGED last
  BY DEF OpFails
<1>3. QED
  BY <1>1, <1>2, RaiseInv

(***************************************************************************)
(* return                                                                  *)
(***************************************************************************)
LEMMA ReturnInv ==
  ASSUME IInv, Return
  PROVE  IInv'
<1>1. at = "exec" /\ cur.d > 1
  BY DEF Return
<1>2. Running /\ pc = cur /\ cur.d \in Depths /\ cur.d \in Nat
  BY <1>1, ExecFacts
<1>3. LinkedUp(cur.d)
  <2>1. cur.d \in 1 .. pc.d
    BY <1>1, <1>2
  <2>2. QED
    BY <1>2, <2>1 DEF IInv, StackInv
<1>4. frame[cur.d].ret.d = cur.d - 1
  BY <1>1, <1>3 DEF LinkedUp, Linked
<1>5. frame[cur.d].ret \in Pcs /\ frame[cur.d].ret # Nowhere
  BY <1>1, <1>2, <1>4 DEF IInv, TypeOK, Frames, Nowhere
<1>6. ReturnTo = frame[cur.d].ret
  BY <1>2 DEF ReturnTo, IInv, ParkInv, ParkCoherent
<1>7. /\ NextPc(frame[cur.d].ret, "running")
      /\ UNCHANGED <<pc, status, msg, frame, cur, known, last, ctx, park, crashes>>
  BY <1>5, <1>6 DEF Return
<1>8. frame' \in [Depths -> Frames] /\ \A k \in Depths : Identity(frame'[k]) = Identity(frame[k])
  BY <1>7 DEF IInv, TypeOK
<1>9. QED
  BY <1>1, <1>5, <1>7, <1>8, NextPcInv

LEMMA DoneInv ==
  ASSUME IInv, Done
  PROVE  IInv'
<1>1. /\ at = "exec" /\ at' = "drop" /\ status' = "ok" /\ cur.d = 1
      /\ UNCHANGED <<pc, msg, frame, cur, known, last, ctx, park, next, nstat, crashes>>
  BY DEF Done
<1>2. cur.d = last /\ ~ Running'
  BY <1>1, ExecFacts DEF Running, Terminal
<1>3. TypeOK' /\ NoChainError'
  BY <1>1 DEF IInv, TypeOK, Phases, NoChainError, Statuses, Terminal
<1>4. StackInv' /\ ParkInv' /\ CtxInv' /\ DropInv'
  BY <1>1, <1>2 DEF IInv, StackInv, ParkInv, ParkCoherent, IsWarm, CtxInv, DropInv
<1>5. /\ IdleInv' /\ FetchInv' /\ ExecInv' /\ CallInv' /\ GotoInv' /\ MarkInv'
      /\ HostInv' /\ ExitInv'
  BY <1>1 DEF IdleInv, FetchInv, ExecInv, CallInv, GotoInv, MarkInv, HostInv, ExitInv
<1>6. QED
  BY <1>3, <1>4, <1>5 DEF IInv

LEMMA DropFrameInv ==
  ASSUME IInv, DropFrame
  PROVE  IInv'
<1>1. /\ at = "drop" /\ at' = "fetch"
      /\ frame' = [k \in Depths |-> IF k \in Doomed THEN Absent ELSE frame[k]]
      /\ park'  = [k \in Depths |-> IF k \in Doomed THEN Cold ELSE park[k]]
      /\ UNCHANGED <<pc, status, msg, cur, known, last, ctx, next, nstat, crashes>>
  BY DEF DropFrame
<1>2. /\ cur.d = last /\ cur.d >= 1 /\ cur.d \in Nat
      /\ Running => Unpaused /\ pc.d < cur.d
  BY <1>1 DEF IInv, DropInv, TypeOK, Pcs, Running, Terminal
<1>3. Absent \in Frames /\ Cold \in Parks /\ Cold.f = None
  BY DEF Absent, Frames, Cold, Parks, Nowhere, Pcs
<1>4. TypeOK' /\ NoChainError'
  BY <1>1, <1>3 DEF IInv, TypeOK, Phases, NoChainError
<1>5. Running => \A k \in Depths : k <= pc.d => frame'[k] = frame[k]
  <2>1. SUFFICES ASSUME Running, NEW k \in Depths, k <= pc.d PROVE k \notin Doomed
    BY <1>1
  <2>2. /\ pc.d \in Nat /\ pc.d >= 1 /\ k \in Nat
    BY <2>1, ChainFacts DEF Depths
  <2>3. cur.d # 1 /\ k # cur.d
    BY <2>1, <2>2, <1>2
  <2>4. QED
    BY <2>3 DEF Doomed
<1>6. StackInv'
  <2>1. CASE Running
    BY <2>1, <1>1, <1>5, KeepStack DEF IInv, Running
  <2>2. CASE ~ Running
    BY <2>2, <1>1 DEF Running, StackInv
  <2>3. QED
    BY <2>1, <2>2
<1>7. ParkInv'
  BY <1>1, <1>3 DEF IInv, ParkInv, ParkCoherent, IsWarm
<1>8. CtxInv'
  BY <1>1, <1>5 DEF IInv, CtxInv, Running
<1>9. FetchInv'
  <2>1. CASE Running
    <3>1. pc.d \in Nat /\ pc.d < last
      BY <2>1, <1>2, ChainFacts
    <3>2. QED
      BY <3>1, <1>1, <1>2 DEF FetchInv
  <2>2. CASE ~ Running
    BY <2>2, <1>1 DEF Running, FetchInv
  <2>3. QED
    BY <2>1, <2>2
<1>10. /\ IdleInv' /\ ExecInv' /\ CallInv' /\ GotoInv' /\ MarkInv'
       /\ DropInv' /\ HostInv' /\ ExitInv'
  BY <1>1 DEF IdleInv, ExecInv, CallInv, GotoInv, MarkInv, DropInv, HostInv, ExitInv
<1>11. QED
  BY <1>4, <1>6, <1>7, <1>8, <1>9, <1>10 DEF IInv

(***************************************************************************)
(* call                                                                    *)
(***************************************************************************)
LEMMA CallFacts ==
  ASSUME IInv, at \in {"exec", "retpc", "lib", "bind"}, Row.op \in Calls
  PROVE  /\ Callee \in Funcs /\ Callee # None
         /\ Behind(cur) \in Pcs /\ Behind(cur).d = cur.d /\ Behind(cur).i = cur.i + 1
<1>1. /\ frame[cur.d].lib \in Funcs /\ HasRow(frame[cur.d].lib, cur.i)
      /\ Row = Code[frame[cur.d].lib][cur.i]
  BY ExecFacts
<1>2. Callee \in Funcs
  BY <1>1, RowFacts DEF Callee
<1>3. Row.op \in Ops \ {"jump", "return"}
  BY DEF Ops, Calls
<1>4. QED
  BY <1>2, <1>3, BehindFacts, CodeAssumption

(* A frame that is not to be parked is built where nothing is parked. *)
LEMMA NotParked ==
  ASSUME IInv, Uniform, at \in {"exec", "retpc", "lib", "bind"}, Row.op \in Calls, ~ CanPark
  PROVE  park[CalleeD].f = None
<1>1. Callee \in Funcs /\ CalleeD \in Depths /\ CalleeD \in Nat
  BY CallFacts, ExecFacts
<1>2. CASE Parkable = {}
  BY <1>1, <1>2 DEF IInv, ParkInv, IsWarm
<1>3. CASE Parkable = Funcs
  <2>1. ~ (CalleeD <= MaxDepth)
    BY <1>1, <1>3 DEF CanPark
  <2>2. ~ IsWarm(CalleeD)
    BY <1>1, <2>1 DEF IInv, ParkInv, ParkCoherent
  <2>3. QED
    BY <2>2 DEF IsWarm
<1>4. QED
  BY <1>2, <1>3 DEF Uniform

(* A step that works on the callee's frame, and on its parked entry as long *)
(* as the two agree, disturbs nothing below.                                *)
LEMMA BuildInv ==
  ASSUME IInv, at \in {"exec", "retpc", "lib", "bind"},
         NEW fr \in Frames, NEW pk \in Parks,
         frame' = [frame EXCEPT ![CalleeD] = fr],
         park' = [park EXCEPT ![CalleeD] = pk],
         pk.f # None => /\ CalleeD <= MaxDepth /\ pk.f \in Parkable
                        /\ pk.f = fr.lib /\ pk.ret = fr.ret /\ pk.site = fr.site,
         at' \in {"retpc", "lib", "bind", "goto"},
         known' \in Live \cup {"unknown"}, next' \in Pcs,
         nstat' \in {"running", "wait", "paused"},
         UNCHANGED <<pc, status, msg, cur, last, ctx, crashes>>
  PROVE  /\ TypeOK' /\ NoChainError' /\ StackInv' /\ ParkInv' /\ CtxInv' /\ IdleInv'
         /\ FetchInv' /\ ExecInv' /\ MarkInv' /\ DropInv' /\ HostInv' /\ ExitInv'
<1>1. /\ Running /\ pc = cur /\ last = cur.d /\ cur.d \in Nat /\ cur.d >= 1
      /\ CalleeD = cur.d + 1 /\ CalleeD \in Depths /\ cur.d \in Depths
      /\ ctx[cur.d] = frame[cur.d].lib
  BY ExecFacts
<1>2. frame \in [Depths -> Frames] /\ park \in [Depths -> Parks]
  BY DEF IInv, TypeOK
<1>3. /\ \A k \in Depths : k # CalleeD => frame'[k] = frame[k] /\ park'[k] = park[k]
      /\ frame'[CalleeD] = fr /\ park'[CalleeD] = pk
  BY <1>1, <1>2
<1>4. TypeOK' /\ NoChainError'
  BY <1>1, <1>2 DEF IInv, TypeOK, Phases, NoChainError
<1>5. \A k \in Depths : k <= cur.d => frame'[k] = frame[k]
  BY <1>1, <1>3 DEF Depths
<1>6. StackInv'
  BY <1>1, <1>5, KeepStack DEF IInv, Running
<1>7. ParkInv'
  <2>1. ASSUME NEW k \in Depths, park'[k].f # None
        PROVE  /\ k \in 2 .. MaxDepth /\ park'[k].f \in Parkable
               /\ park'[k].f = frame'[k].lib
               /\ park'[k].ret = frame'[k].ret /\ park'[k].site = frame'[k].site
    <3>1. CASE k = CalleeD
      BY <2>1, <3>1, <1>1, <1>3, CodeAssumption
    <3>2. CASE k # CalleeD
      BY <2>1, <3>2, <1>3 DEF IInv, ParkInv, ParkCoherent, IsWarm
    <3>3. QED
      BY <3>1, <3>2
  <2>2. QED
    BY <2>1 DEF ParkInv, ParkCoherent, IsWarm
<1>8. CtxInv'
  BY <1>1, <1>5 DEF IInv, CtxInv, Running
<1>9. ExecInv'
  BY <1>1, <1>5 DEF IInv, ExecInv, Running, Unpaused
<1>10. /\ IdleInv' /\ FetchInv' /\ MarkInv' /\ DropInv' /\ HostInv' /\ ExitInv'
  BY DEF IdleInv, FetchInv, MarkInv, DropInv, HostInv, ExitInv
<1>11. QED
  BY <1>4, <1>6, <1>7, <1>8, <1>9, <1>10

LEMMA CallReuseInv ==
  ASSUME IInv, CallReuse
  PROVE  IInv'
<1>1. /\ at = "exec" /\ at' = "retpc" /\ Row.op \in Calls /\ WarmHit
      /\ known' = StatusPassed
      /\ UNCHANGED <<pc, status, msg, frame, cur, last, ctx, park, next, nstat, crashes>>
  BY DEF CallReuse, kvvars
<1>2. CalleeD \in Depths
  BY <1>1, ExecFacts
<1>3. /\ frame[CalleeD] \in Frames /\ park[CalleeD] \in Parks
      /\ frame' = [frame EXCEPT ![CalleeD] = frame[CalleeD]]
      /\ park' = [park EXCEPT ![CalleeD] = park[CalleeD]]
  BY <1>1, <1>2 DEF IInv, TypeOK
<1>4. park[CalleeD].f # None =>
        /\ CalleeD <= MaxDepth /\ park[CalleeD].f \in Parkable
        /\ park[CalleeD].f = frame[CalleeD].lib /\ park[CalleeD].ret = frame[CalleeD].ret
        /\ park[CalleeD].site = frame[CalleeD].site
  BY <1>2 DEF IInv, ParkInv, ParkCoherent, IsWarm
<1>5. /\ known' \in Live \cup {"unknown"} /\ next' \in Pcs
      /\ nstat' \in {"running", "wait", "paused"}
  BY <1>1 DEF IInv, TypeOK, StatusPassed
<1>6. /\ TypeOK' /\ NoChainError' /\ StackInv' /\ ParkInv' /\ CtxInv' /\ IdleInv'
      /\ FetchInv' /\ ExecInv' /\ MarkInv' /\ DropInv' /\ HostInv' /\ ExitInv'
  BY <1>1, <1>3, <1>4, <1>5, BuildInv
<1>7. CallInv' /\ GotoInv'
  BY <1>1 DEF CallInv, GotoInv, Row, Callee, CalleeD, WarmHit
<1>8. QED
  BY <1>6, <1>7 DEF IInv

LEMMA CallBuildInv ==
  ASSUME IInv, Uniform, CallBuild
  PROVE  IInv'
<1>1. /\ at = "exec" /\ at' = "retpc" /\ Row.op \in Calls
      /\ frame' = [frame EXCEPT ![CalleeD] = Absent]
      /\ park' = IF CanPark THEN [park EXCEPT ![CalleeD] = Cold] ELSE park
      /\ known' = StatusPassed
      /\ UNCHANGED <<pc, status, msg, cur, last, ctx, next, nstat, crashes>>
  BY DEF CallBuild, Wiped
<1>2. CalleeD \in Depths
  BY <1>1, ExecFacts
<1>3. Absent \in Frames /\ Cold \in Parks /\ Cold.f = None
  BY DEF Absent, Frames, Cold, Parks, Nowhere, Pcs
<1>4. PICK pk \in Parks : pk.f = None /\ park' = [park EXCEPT ![CalleeD] = pk]
  <2>1. CASE CanPark
    BY <2>1, <1>1, <1>3
  <2>2. CASE ~ CanPark
    <3>1. park[CalleeD].f = None
      BY <2>2, <1>1, NotParked
    <3>2. park[CalleeD] \in Parks /\ park = [park EXCEPT ![CalleeD] = park[CalleeD]]
      BY <1>2 DEF IInv, TypeOK
    <3>3. QED
      BY <2>2, <3>1, <3>2, <1>1
  <2>3. QED
    BY <2>1, <2>2
<1>5. /\ known' \in Live \cup {"unknown"} /\ next' \in Pcs
      /\ nstat' \in {"running", "wait", "paused"}
  BY <1>1 DEF IInv, TypeOK, StatusPassed
<1>6. /\ TypeOK' /\ NoChainError' /\ StackInv' /\ ParkInv' /\ CtxInv' /\ IdleInv'
      /\ FetchInv' /\ ExecInv' /\ MarkInv' /\ DropInv' /\ HostInv' /\ ExitInv'
  BY <1>1, <1>3, <1>4, <1>5, BuildInv
<1>7. park'[CalleeD].f = None
  BY <1>2, <1>4 DEF IInv, TypeOK
<1>8. CallInv' /\ GotoInv'
  BY <1>1, <1>7 DEF CallInv, GotoInv, Row, Callee, CalleeD
<1>9. QED
  BY <1>6, <1>8 DEF IInv

LEMMA WriteReturnPcInv ==
  ASSUME IInv, Uniform, WriteReturnPc
  PROVE  IInv'
<1>1. /\ at = "retpc" /\ Row.op \in Calls /\ park[CalleeD].f \in {None, Callee}
      /\ UNCHANGED <<pc, status, msg, cur, known, last, ctx, next, nstat, crashes>>
  BY DEF WriteReturnPc, IInv, CallInv
<1>2. /\ CalleeD \in Depths /\ Callee # None
      /\ Behind(cur) \in Pcs
  BY <1>1, ExecFacts, CallFacts
<1>3. frame \in [Depths -> Frames] /\ park \in [Depths -> Parks]
  BY DEF IInv, TypeOK
<1>4. /\ known' \in Live \cup {"unknown"} /\ next' \in Pcs
      /\ nstat' \in {"running", "wait", "paused"}
  BY <1>1 DEF IInv, TypeOK
<1> DEFINE fr == [frame[CalleeD] EXCEPT !.ret = Behind(cur)]
<1>5. fr \in Frames /\ fr.ret = Behind(cur) /\ fr.lib = frame[CalleeD].lib
      /\ fr.site = frame[CalleeD].site
  BY <1>2, <1>3 DEF Frames
<1>6. CASE ~ WarmHit
  <2>1. /\ at' = "lib" /\ park' = park
        /\ frame' = [frame EXCEPT ![CalleeD] = fr]
    BY <1>6 DEF WriteReturnPc
  <2>2. park[CalleeD].f = None
    BY <1>1, <1>6, NotParked DEF WarmHit
  <2>3. park[CalleeD] \in Parks /\ park' = [park EXCEPT ![CalleeD] = park[CalleeD]]
    BY <2>1, <1>2, <1>3
  <2>4. /\ TypeOK' /\ NoChainError' /\ StackInv' /\ ParkInv' /\ CtxInv' /\ IdleInv'
        /\ FetchInv' /\ ExecInv' /\ MarkInv' /\ DropInv' /\ HostInv' /\ ExitInv'
    <3> HIDE DEF fr
    <3>1. QED
      BY <1>1, <1>4, <1>5, <2>1, <2>2, <2>3, BuildInv
  <2>5. frame'[CalleeD].ret = Behind(cur)
    BY <2>1, <1>2, <1>3, <1>5
  <2>6. CallInv' /\ GotoInv'
    BY <1>1, <2>1, <2>2, <2>5 DEF CallInv, GotoInv, Row, Callee, CalleeD
  <2>7. QED
    BY <2>4, <2>6 DEF IInv
<1>7. CASE WarmHit
  <2>1. /\ CalleeD <= MaxDepth /\ park[CalleeD].f = frame[CalleeD].lib
        /\ park[CalleeD].ret = frame[CalleeD].ret /\ park[CalleeD].site = frame[CalleeD].site
        /\ park[CalleeD].f \in Parkable /\ park[CalleeD].f = Callee
    <3>1. IsWarm(CalleeD) /\ park[CalleeD].f = Callee /\ CalleeD <= MaxDepth
      BY <1>2, <1>7 DEF WarmHit, IsWarm, CanPark
    <3>2. QED
      BY <1>2, <3>1 DEF IInv, ParkInv, ParkCoherent
  <2> DEFINE pk == [park[CalleeD] EXCEPT !.ret = Behind(cur)]
  <2>2. pk \in Parks /\ pk.f = park[CalleeD].f /\ pk.site = park[CalleeD].site
        /\ pk.ret = Behind(cur)
    BY <1>2, <1>3 DEF Parks
  <2>3. /\ at' = "bind"
        /\ frame' = [frame EXCEPT ![CalleeD] = fr]
        /\ park' = [park EXCEPT ![CalleeD] = pk]
    <3>1. CASE park[CalleeD].ret # Behind(cur)
      BY <3>1, <1>7 DEF WriteReturnPc
    <3>2. CASE park[CalleeD].ret = Behind(cur)
      <4>1. at' = "bind" /\ frame' = frame /\ park' = park
        BY <3>2, <1>7 DEF WriteReturnPc
      <4>2. fr = frame[CalleeD] /\ pk = park[CalleeD]
        BY <3>2, <2>1, <1>2, <1>3 DEF Frames, Parks
      <4>3. QED
        BY <4>1, <4>2, <1>2, <1>3
    <3>3. QED
      BY <3>1, <3>2
  <2>4. /\ TypeOK' /\ NoChainError' /\ StackInv' /\ ParkInv' /\ CtxInv' /\ IdleInv'
        /\ FetchInv' /\ ExecInv' /\ MarkInv' /\ DropInv' /\ HostInv' /\ ExitInv'
    <3> HIDE DEF fr, pk
    <3>1. QED
      BY <1>1, <1>4, <1>5, <2>1, <2>2, <2>3, BuildInv
  <2>5. /\ frame'[CalleeD].ret = Behind(cur) /\ frame'[CalleeD].lib = Callee
        /\ park'[CalleeD].f = Callee
    BY <2>1, <2>2, <2>3, <1>2, <1>3, <1>5
  <2>6. CallInv' /\ GotoInv'
    BY <1>1, <2>3, <2>5 DEF CallInv, GotoInv, Row, Callee, CalleeD
  <2>7. QED
    BY <2>4, <2>6 DEF IInv
<1>8. QED
  BY <1>6, <1>7

LEMMA WriteLibInv ==
  ASSUME IInv, WriteLib
  PROVE  IInv'
<1>1. /\ at = "lib" /\ at' = "bind"
      /\ Row.op \in Calls /\ park[CalleeD].f = None
      /\ frame[CalleeD].ret = Behind(cur)
      /\ UNCHANGED <<pc, status, msg, cur, known, last, ctx, park, next, nstat, crashes>>
  BY DEF WriteLib, IInv, CallInv
<1>2. CalleeD \in Depths /\ Callee \in Funcs
  BY <1>1, ExecFacts, CallFacts
<1>3. frame \in [Depths -> Frames] /\ park \in [Depths -> Parks]
  BY DEF IInv, TypeOK
<1>4. /\ known' \in Live \cup {"unknown"} /\ next' \in Pcs
      /\ nstat' \in {"running", "wait", "paused"}
  BY <1>1 DEF IInv, TypeOK
<1> DEFINE fr == [frame[CalleeD] EXCEPT !.lib = Callee]
<1>5. fr \in Frames /\ fr.lib = Callee /\ fr.ret = Behind(cur)
  BY <1>1, <1>2, <1>3 DEF Frames
<1>6. frame' = [frame EXCEPT ![CalleeD] = fr]
  BY DEF WriteLib
<1>7. park[CalleeD] \in Parks /\ park' = [park EXCEPT ![CalleeD] = park[CalleeD]]
  BY <1>1, <1>2, <1>3
<1>8. /\ TypeOK' /\ NoChainError' /\ StackInv' /\ ParkInv' /\ CtxInv' /\ IdleInv'
      /\ FetchInv' /\ ExecInv' /\ MarkInv' /\ DropInv' /\ HostInv' /\ ExitInv'
  <2> HIDE DEF fr
  <2>1. QED
    BY <1>1, <1>4, <1>5, <1>6, <1>7, BuildInv
<1>9. frame'[CalleeD].ret = Behind(cur) /\ frame'[CalleeD].lib = Callee
  BY <1>2, <1>3, <1>5, <1>6
<1>10. CallInv' /\ GotoInv'
  BY <1>1, <1>9 DEF CallInv, GotoInv, Row, Callee, CalleeD
<1>11. QED
  BY <1>8, <1>10 DEF IInv

(* The callee's frame joins the chain: its return pc is behind the call, and *)
(* its arguments are those of the call.                                      *)
LEMMA BindArgsInv ==
  ASSUME IInv, Uniform, BindArgs
  PROVE  IInv'
<1>1. /\ at = "bind" /\ at' = "goto" /\ next' = At(CalleeD, 1) /\ nstat' = "running"
      /\ Row.op \in Calls /\ frame[CalleeD].lib = Callee
      /\ frame[CalleeD].ret = Behind(cur)
      /\ UNCHANGED <<pc, status, msg, cur, known, last, ctx, crashes>>
  BY DEF BindArgs, NextPc, IInv, CallInv
<1>2. /\ CalleeD \in Depths /\ CalleeD = cur.d + 1 /\ Callee \in Funcs
      /\ cur \in Pcs /\ cur.d \in Nat /\ cur.i \in Nat /\ cur.d \in Depths
      /\ Behind(cur) \in Pcs /\ cur.d >= 1
      /\ Row = Code[frame[cur.d].lib][cur.i] /\ HasRow(frame[cur.d].lib, cur.i)
      /\ frame[cur.d].lib \in Funcs
  BY <1>1, ExecFacts, CallFacts
<1>3. frame \in [Depths -> Frames] /\ park \in [Depths -> Parks]
  BY DEF IInv, TypeOK
<1> DEFINE fr == [frame[CalleeD] EXCEPT !.site = cur]
<1>4. fr \in Frames /\ fr.lib = Callee /\ fr.ret = Behind(cur) /\ fr.site = cur
  BY <1>1, <1>2, <1>3 DEF Frames
<1>5. SiteToWrite = cur
  <2>1. CASE WarmHit /\ park[CalleeD].site = cur
    <3>1. IsWarm(CalleeD)
      BY <2>1, <1>2, CodeAssumption DEF WarmHit, IsWarm
    <3>2. park[CalleeD].site = frame[CalleeD].site
      BY <3>1, <1>2 DEF IInv, ParkInv, ParkCoherent
    <3>3. QED
      BY <2>1, <3>2 DEF SiteToWrite
  <2>2. CASE ~ (WarmHit /\ park[CalleeD].site = cur)
    BY <2>2 DEF SiteToWrite
  <2>3. QED
    BY <2>1, <2>2
<1>6. frame' = [frame EXCEPT ![CalleeD] = fr]
  BY <1>5 DEF BindArgs
<1>7. PICK pk \in Parks :
        /\ park' = [park EXCEPT ![CalleeD] = pk]
        /\ pk.f # None => /\ CalleeD <= MaxDepth /\ pk.f \in Parkable
                          /\ pk.f = fr.lib /\ pk.ret = fr.ret /\ pk.site = fr.site
  <2>1. CASE CanPark
    <3>1. /\ EntryPark \in Parks /\ EntryPark.f = Callee
          /\ EntryPark.ret = Behind(cur) /\ EntryPark.site = cur
      BY <1>2 DEF EntryPark, Parks
    <3>2. park' = [park EXCEPT ![CalleeD] = EntryPark]
      BY <2>1 DEF BindArgs
    <3>3. QED
      BY <2>1, <3>1, <3>2, <1>4 DEF CanPark
  <2>2. CASE ~ CanPark
    <3>1. park[CalleeD].f = None
      BY <2>2, <1>1, NotParked
    <3>2. park[CalleeD] \in Parks /\ park' = [park EXCEPT ![CalleeD] = park[CalleeD]]
      BY <2>2, <1>2, <1>3 DEF BindArgs
    <3>3. QED
      BY <3>1, <3>2
  <2>3. QED
    BY <2>1, <2>2
<1>8. /\ known' \in Live \cup {"unknown"} /\ next' \in Pcs
      /\ nstat' \in {"running", "wait", "paused"}
  BY <1>1, <1>2 DEF IInv, TypeOK, At, Pcs
<1>9. /\ TypeOK' /\ NoChainError' /\ StackInv' /\ ParkInv' /\ CtxInv' /\ IdleInv'
      /\ FetchInv' /\ ExecInv' /\ MarkInv' /\ DropInv' /\ HostInv' /\ ExitInv'
  <2> HIDE DEF fr
  <2>1. QED
    BY <1>1, <1>4, <1>6, <1>7, <1>8, BuildInv
<1>10. /\ frame'[CalleeD].lib = Callee /\ frame'[CalleeD].ret = Behind(cur)
       /\ frame'[CalleeD].site = cur /\ frame'[cur.d] = frame[cur.d]
  BY <1>2, <1>3, <1>4, <1>6
<1>11. LinkedUp(cur.d + 1)'
  <2>1. /\ Behind(cur).d = cur.d /\ Behind(cur).i = cur.i + 1 /\ cur.i >= 1
        /\ At(cur.d, cur.i) = cur
    BY <1>2, RowFacts DEF Behind, At, Pcs
  <2>2. CallsAt(cur, Callee)'
    <3>1. Callee' = Callee /\ cur' = cur
      BY <1>1 DEF Callee, Row
    <3>2. QED
      BY <1>1, <1>2, <1>10, <3>1, CodeAssumption DEF CallsAt, Callee
  <2>3. cur.d + 1 > 1 /\ cur.d + 1 # 1 /\ (cur.d + 1) - 1 = cur.d /\ (cur.i + 1) - 1 = cur.i
    BY <1>2
  <2>4. /\ frame'[cur.d + 1].lib = Callee /\ frame'[cur.d + 1].ret = Behind(cur)
        /\ frame'[cur.d + 1].site = cur
    BY <1>2, <1>10
  <2>5. CallsAt(At((cur.d + 1) - 1, frame[cur.d + 1].ret.i - 1), frame[cur.d + 1].lib)'
    <3>1. At(cur.d, cur.i)' = cur /\ Callee' = Callee /\ cur' = cur
      BY <1>1, <2>1 DEF At, Callee, Row
    <3>2. At((cur'.d + 1) - 1, frame'[cur'.d + 1].ret.i - 1) = cur
      BY <1>1, <2>1, <2>3, <2>4
    <3>3. QED
      BY <2>2, <2>4, <3>1, <3>2
  <2>6. Linked(cur.d + 1)'
    BY <1>1, <1>2, <2>1, <2>3, <2>4, <2>5 DEF Linked
  <2>7. QED
    BY <1>1, <2>4, <2>6 DEF LinkedUp, Behind, At
<1>12. CallInv' /\ GotoInv'
  BY <1>1, <1>2, <1>11 DEF CallInv, GotoInv, At
<1>13. QED
  BY <1>9, <1>12 DEF IInv

LEMMA CallFailsInv ==
  ASSUME IInv, Uniform, CallFails
  PROVE  IInv'
<1>1. /\ at = "bind" /\ at' = "exit" /\ pc' = cur /\ msg' = "failed" /\ status' = "error"
      /\ frame' = [frame EXCEPT ![CalleeD] = Absent]
      /\ park' = ForgetPark
      /\ UNCHANGED <<cur, known, last, ctx, next, nstat, crashes>>
      /\ Row.op \in Calls
  BY DEF CallFails, SetError, IInv, CallInv
<1>2. CalleeD \in Depths /\ cur \in Pcs
  BY <1>1, ExecFacts
<1>3. frame \in [Depths -> Frames] /\ park \in [Depths -> Parks]
  BY DEF IInv, TypeOK
<1>4. Absent \in Frames /\ Cold \in Parks /\ Cold.f = None
  BY DEF Absent, Frames, Cold, Parks, Nowhere, Pcs
<1>5. PICK pk \in Parks : pk.f = None /\ park' = [park EXCEPT ![CalleeD] = pk]
  <2>1. CASE CanPark
    BY <2>1, <1>1, <1>4 DEF ForgetPark
  <2>2. CASE ~ CanPark
    <3>1. park[CalleeD].f = None
      BY <2>2, <1>1, NotParked
    <3>2. park[CalleeD] \in Parks /\ park = [park EXCEPT ![CalleeD] = park[CalleeD]]
      BY <1>2, <1>3
    <3>3. QED
      BY <2>2, <3>1, <3>2, <1>1 DEF ForgetPark
  <2>3. QED
    BY <2>1, <2>2
<1>6. TypeOK' /\ NoChainError'
  BY <1>1, <1>2, <1>3, <1>4, <1>5
  DEF IInv, TypeOK, Phases, NoChainError, Messages, ChainErrors, Statuses, Terminal
<1>7. ~ Running'
  BY <1>1 DEF Running, Terminal
<1>8. ParkInv'
  BY <1>2, <1>3, <1>5, <1>1 DEF IInv, ParkInv, ParkCoherent, IsWarm
<1>9. StackInv' /\ CtxInv' /\ ExitInv'
  BY <1>1, <1>7 DEF IInv, StackInv, CtxInv, ExitInv
<1>10. /\ IdleInv' /\ FetchInv' /\ ExecInv' /\ CallInv' /\ GotoInv' /\ MarkInv'
       /\ DropInv' /\ HostInv'
  BY <1>1 DEF IdleInv, FetchInv, ExecInv, CallInv, GotoInv, MarkInv, DropInv, HostInv
<1>11. QED
  BY <1>6, <1>8, <1>9, <1>10 DEF IInv

(***************************************************************************)
(* The two writes of the next pc                                           *)
(***************************************************************************)
(* The pc about to be written is as good as the one it replaces. *)
LEMMA NextPcOk ==
  ASSUME IInv, at = "goto"
  PROVE  /\ next.d \in Depths /\ next.d \in Nat /\ next.d <= cur.d + 1
         /\ \A k \in 1 .. next.d : LinkedUp(k)
         /\ HasRow(frame[next.d].lib, next.i)
         /\ nstat = "paused" => next.d = cur.d
<1>1. /\ Running /\ pc = cur /\ cur.d \in Nat /\ cur.d >= 1 /\ cur.d \in Depths
      /\ CalleeD = cur.d + 1 /\ CalleeD \in Depths
  BY ExecFacts
<1>2. \A k \in 1 .. cur.d : LinkedUp(k)
  BY <1>1 DEF IInv, StackInv
<1>3. CASE next.d = cur.d /\ HasRow(frame[cur.d].lib, next.i)
  BY <1>1, <1>2, <1>3
<1>4. CASE next = At(cur.d + 1, 1) /\ LinkedUp(cur.d + 1) /\ nstat # "paused"
  <2>1. next.d = cur.d + 1 /\ next.i = 1
    BY <1>4 DEF At
  <2>2. frame[cur.d + 1].lib \in Funcs
    BY <1>4 DEF LinkedUp, Linked
  <2>3. HasRow(frame[next.d].lib, next.i)
    BY <2>1, <2>2, FirstRow
  <2>4. ASSUME NEW k \in 1 .. next.d PROVE LinkedUp(k)
    <3>1. k \in 1 .. cur.d \/ k = cur.d + 1
      BY <2>1, <1>1
    <3>2. QED
      BY <3>1, <1>2, <1>4
  <2>5. QED
    BY <2>1, <2>3, <2>4, <1>1, <1>4
<1>5. CASE cur.d > 1 /\ next = frame[cur.d].ret /\ nstat # "paused"
  <2>1. cur.d \in 1 .. cur.d /\ LinkedUp(cur.d)
    BY <1>1, <1>2
  <2>2. /\ next.d = cur.d - 1 /\ next.i > 1
        /\ CallsAt(At(cur.d - 1, next.i - 1), frame[cur.d].lib)
    BY <1>5, <2>1 DEF LinkedUp, Linked
  <2>3. cur.d - 1 \in 1 .. cur.d /\ cur.d - 1 \in Depths /\ next.i \in Nat
    BY <1>1, <1>5, CodeAssumption DEF Depths, IInv, TypeOK, Pcs
  <2>4. frame[cur.d - 1].lib \in Funcs
    BY <2>3, <1>2 DEF LinkedUp, Linked
  <2>5. /\ HasRow(frame[cur.d - 1].lib, next.i - 1)
        /\ Code[frame[cur.d - 1].lib][next.i - 1].op \in Ops \ {"jump", "return"}
    BY <2>2 DEF CallsAt, At, Calls, Ops
  <2>6. HasRow(frame[cur.d - 1].lib, (next.i - 1) + 1)
    BY <2>4, <2>5, RowFacts
  <2>7. (next.i - 1) + 1 = next.i
    BY <2>3
  <2>8. \A k \in 1 .. next.d : k \in 1 .. cur.d
    BY <2>2, <1>1
  <2>9. QED
    BY <2>2, <2>3, <2>6, <2>7, <2>8, <1>1, <1>2, <1>5
<1>6. QED
  BY <1>3, <1>4, <1>5 DEF IInv, GotoInv

LEMMA WritePcInv ==
  ASSUME IInv, WritePc
  PROVE  IInv'
<1>1. /\ at = "goto" /\ pc' = next
      /\ at' = IF known # nstat THEN "mark" ELSE AfterNextPc
      /\ UNCHANGED <<status, msg, frame, cur, known, last, ctx, park, next, nstat, crashes>>
  BY DEF WritePc, StatusToWrite
<1>2. /\ Running /\ pc = cur /\ last = cur.d /\ cur.d \in Nat /\ cur.d >= 1 /\ Unpaused
  BY <1>1, ExecFacts DEF IInv, ExecInv
<1>3. /\ next.d \in Depths /\ next.d \in Nat /\ next.d <= cur.d + 1
      /\ \A k \in 1 .. next.d : LinkedUp(k)
      /\ HasRow(frame[next.d].lib, next.i)
      /\ nstat = "paused" => next.d = cur.d
  BY <1>1, NextPcOk
<1>4. at' \in {"mark", "drop", "fetch"}
  BY <1>1 DEF AfterNextPc
<1>5. TypeOK' /\ NoChainError'
  BY <1>1, <1>4 DEF IInv, TypeOK, Phases, NoChainError
<1>6. StackInv'
  BY <1>1, <1>3 DEF StackInv, LinkedUp, Linked, CallsAt, At, Behind
<1>7. ParkInv'
  BY <1>1 DEF IInv, ParkInv, ParkCoherent, IsWarm
<1>8. CtxInv'
  <2>1. ASSUME NEW k \in Depths, k <= last, ctx[k] # None PROVE ctx[k] = frame[k].lib
    BY <2>1, <1>2 DEF IInv, CtxInv
  <2>2. QED
    BY <2>1, <1>1 DEF IInv, CtxInv
<1>9. FetchInv' /\ DropInv' /\ MarkInv'
  BY <1>1, <1>2, <1>3 DEF AfterNextPc, FetchInv, DropInv, MarkInv, Running, Unpaused
<1>10. /\ IdleInv' /\ ExecInv' /\ CallInv' /\ GotoInv' /\ HostInv' /\ ExitInv'
  BY <1>4 DEF IdleInv, ExecInv, CallInv, GotoInv, HostInv, ExitInv
<1>11. QED
  BY <1>5, <1>6, <1>7, <1>8, <1>9, <1>10 DEF IInv

LEMMA WriteStatusInv ==
  ASSUME IInv, WriteStatus
  PROVE  IInv'
<1>1. /\ at = "mark" /\ at' = AfterNextPc /\ status' = nstat
      /\ UNCHANGED <<pc, msg, frame, cur, known, last, ctx, park, next, nstat, crashes>>
  BY DEF WriteStatus
<1>2. /\ Running /\ pc = next /\ cur.d = last /\ cur.d >= 1 /\ next.d <= cur.d + 1
      /\ nstat = "paused" => next.d = cur.d
      /\ nstat \in {"running", "wait", "paused"} /\ cur.d \in Nat /\ next.d \in Nat
  BY <1>1 DEF IInv, MarkInv, TypeOK, Pcs
<1>3. at' \in {"drop", "fetch"} /\ Running'
  BY <1>1, <1>2 DEF AfterNextPc, Running, Terminal
<1>4. TypeOK' /\ NoChainError'
  BY <1>1, <1>2, <1>3 DEF IInv, TypeOK, Phases, NoChainError, Statuses, Live
<1>5. StackInv'
  BY <1>1, <1>2, KeepStack DEF IInv
<1>6. ParkInv' /\ CtxInv'
  BY <1>1, <1>2 DEF IInv, ParkInv, ParkCoherent, IsWarm, CtxInv, Running
<1>7. FetchInv' /\ DropInv'
  BY <1>1, <1>2, <1>3 DEF AfterNextPc, FetchInv, DropInv, Unpaused, Live
<1>8. /\ IdleInv' /\ ExecInv' /\ CallInv' /\ GotoInv' /\ MarkInv' /\ HostInv' /\ ExitInv'
  BY <1>3 DEF IdleInv, ExecInv, CallInv, GotoInv, MarkInv, HostInv, ExitInv
<1>9. QED
  BY <1>4, <1>5, <1>6, <1>7, <1>8 DEF IInv

(***************************************************************************)
(* Host instructions                                                       *)
(***************************************************************************)
LEMMA YieldInv ==
  ASSUME IInv, Yield
  PROVE  IInv'
<1>1. /\ at = "exec" /\ at' = "host" /\ Row.op = "host" /\ last' = 0
      /\ ctx' = [k \in Depths |-> None]
      /\ frame' = [k \in Depths |-> IF k > cur.d /\ park[k].f # None THEN Absent ELSE frame[k]]
      /\ park'  = [k \in Depths |-> IF k > cur.d THEN Cold ELSE park[k]]
      /\ UNCHANGED <<pc, status, msg, cur, known, next, nstat, crashes>>
  BY DEF Yield, YieldDepth, CleanupAbove
<1>2. /\ Running /\ pc = cur /\ cur.d \in Nat /\ cur.d \in Depths /\ cur.d <= MaxDepth
      /\ Unpaused /\ Row = Code[frame[cur.d].lib][cur.i]
  BY <1>1, ExecFacts DEF IInv, ExecInv
<1>3. Absent \in Frames /\ Cold \in Parks /\ Cold.f = None
  BY DEF Absent, Frames, Cold, Parks, Nowhere, Pcs
<1>4. \A k \in Depths : k <= cur.d => frame'[k] = frame[k]
  BY <1>1, <1>2 DEF Depths
<1>5. TypeOK' /\ NoChainError'
  BY <1>1, <1>3, CodeAssumption DEF IInv, TypeOK, Phases, NoChainError
<1>6. StackInv'
  BY <1>1, <1>2, <1>4, KeepStack DEF IInv, Running
<1>7. ParkInv'
  BY <1>1, <1>3 DEF IInv, ParkInv, ParkCoherent, IsWarm
<1>8. CtxInv' /\ HostInv'
  BY <1>1, <1>2, <1>4 DEF CtxInv, HostInv, Running, Unpaused
<1>9. /\ IdleInv' /\ FetchInv' /\ ExecInv' /\ CallInv' /\ GotoInv' /\ MarkInv'
      /\ DropInv' /\ ExitInv'
  BY <1>1 DEF IdleInv, FetchInv, ExecInv, CallInv, GotoInv, MarkInv, DropInv, ExitInv
<1>10. QED
  BY <1>5, <1>6, <1>7, <1>8, <1>9 DEF IInv

LEMMA HostGateInv ==
  ASSUME IInv, HostGate
  PROVE  IInv'
<1>1. /\ at = "host" /\ UNCHANGED <<pc, status, msg, frame, crashes>>
  BY DEF HostGate, kvvars
<1>2. StackInv'
  BY <1>1, KeepStack DEF IInv, Running
<1>3. CASE Gate
  <2>1. at' = "dispatch" /\ UNCHANGED <<cur, known, last, ctx, park, next, nstat>>
    BY <1>3 DEF HostGate
  <2>2. TypeOK' /\ NoChainError'
    BY <1>1, <2>1 DEF IInv, TypeOK, Phases, NoChainError
  <2>3. ParkInv' /\ CtxInv' /\ HostInv'
    BY <1>1, <2>1
    DEF IInv, ParkInv, ParkCoherent, IsWarm, CtxInv, HostInv, Running, Unpaused
  <2>4. /\ IdleInv' /\ FetchInv' /\ ExecInv' /\ CallInv' /\ GotoInv' /\ MarkInv'
        /\ DropInv' /\ ExitInv'
    BY <2>1 DEF IdleInv, FetchInv, ExecInv, CallInv, GotoInv, MarkInv, DropInv, ExitInv
  <2>5. QED
    BY <1>2, <2>2, <2>3, <2>4 DEF IInv
<1>4. CASE ~ Gate
  <2>1. EndProcess
    BY <1>4 DEF HostGate
  <2>2. /\ pc' \in Pcs /\ status' \in Statuses /\ msg' \in Messages /\ NoChainError'
        /\ frame' \in [Depths -> Frames] /\ crashes' \in 0 .. MaxCrashes
    BY <1>1 DEF IInv, TypeOK, NoChainError
  <2>3. QED
    BY <2>1, <2>2, <1>2, EndInv DEF IInv
<1>5. QED
  BY <1>3, <1>4

LEMMA HostFacts ==
  ASSUME IInv, at \in {"host", "dispatch", "advance"}
  PROVE  /\ Running /\ Unpaused /\ pc = cur /\ last = 0
         /\ cur.d \in Nat /\ cur.d \in Depths /\ cur.d <= MaxDepth
         /\ Code[frame[cur.d].lib][cur.i] \in Rows
         /\ Behind(cur) \in Pcs /\ Behind(cur).d = cur.d
         /\ HasRow(frame[cur.d].lib, Behind(cur).i)
<1>1. /\ Running /\ Unpaused /\ pc = cur /\ last = 0 /\ cur.d <= MaxDepth
      /\ Code[frame[cur.d].lib][cur.i].op = "host"
  BY DEF IInv, HostInv
<1>2. /\ cur.d \in Nat /\ cur.d \in Depths /\ cur.i \in Nat
      /\ frame[cur.d].lib \in Funcs /\ HasRow(frame[cur.d].lib, cur.i)
  BY <1>1, ChainFacts
<1>3. Code[frame[cur.d].lib][cur.i].op \in Ops \ {"jump", "return"}
  BY <1>1 DEF Ops
<1>4. HasRow(frame[cur.d].lib, cur.i + 1) /\ Code[frame[cur.d].lib][cur.i] \in Rows
  BY <1>2, <1>3, RowFacts
<1>5. QED
  BY <1>1, <1>2, <1>4 DEF Behind, At, Pcs

LEMMA DispatchInv ==
  ASSUME IInv, Dispatch
  PROVE  IInv'
<1>1. /\ at = "dispatch" /\ at' = "advance"
      /\ frame' = [frame EXCEPT ![cur.d].locals =
                     @ \cup Code[frame[cur.d].lib][cur.i].w]
      /\ UNCHANGED <<pc, status, msg, cur, known, last, ctx, park, next, nstat, crashes>>
  BY DEF Dispatch
<1>2. Running /\ cur.d \in Depths /\ Code[frame[cur.d].lib][cur.i] \in Rows
  BY <1>1, HostFacts
<1>3. frame \in [Depths -> Frames]
  BY DEF IInv, TypeOK
<1>4. /\ frame' \in [Depths -> Frames]
      /\ \A k \in Depths : Identity(frame'[k]) = Identity(frame[k])
  BY <1>1, <1>2, <1>3 DEF Frames, Rows, Identity
<1>5. \A k \in Depths : /\ frame'[k].lib = frame[k].lib
                        /\ frame'[k].ret = frame[k].ret
                        /\ frame'[k].site = frame[k].site
  BY <1>4 DEF Identity
<1>6. TypeOK' /\ NoChainError'
  BY <1>1, <1>4 DEF IInv, TypeOK, Phases, NoChainError
<1>7. StackInv'
  BY <1>1, <1>4, KeepStack DEF IInv, Running
<1>8. ParkInv' /\ CtxInv' /\ HostInv'
  BY <1>1, <1>2, <1>5
  DEF IInv, ParkInv, ParkCoherent, IsWarm, CtxInv, HostInv, Running, Unpaused
<1>9. /\ IdleInv' /\ FetchInv' /\ ExecInv' /\ CallInv' /\ GotoInv' /\ MarkInv'
      /\ DropInv' /\ ExitInv'
  BY <1>1 DEF IdleInv, FetchInv, ExecInv, CallInv, GotoInv, MarkInv, DropInv, ExitInv
<1>10. QED
  BY <1>6, <1>7, <1>8, <1>9 DEF IInv

LEMMA DispatchFailsInv ==
  ASSUME IInv, DispatchFails
  PROVE  IInv'
<1>1. /\ pc' = cur /\ msg' = "failed" /\ status' = "error" /\ EndProcess
      /\ UNCHANGED <<frame, crashes>>
  BY DEF DispatchFails, SetError
<1>2. /\ pc' \in Pcs /\ status' \in Statuses /\ msg' \in Messages /\ NoChainError'
      /\ frame' \in [Depths -> Frames] /\ crashes' \in 0 .. MaxCrashes
  BY <1>1 DEF IInv, TypeOK, NoChainError, Statuses, Terminal, Messages, ChainErrors
<1>3. StackInv'
  BY <1>1 DEF StackInv, Running, Terminal
<1>4. QED
  BY <1>1, <1>2, <1>3, EndInv DEF IInv

LEMMA AdvanceInv ==
  ASSUME IInv, Advance
  PROVE  IInv'
<1>1. /\ at = "advance" /\ pc' = Behind(cur) /\ cur' = Behind(cur)
      /\ at' = IF HostRowAt(Behind(cur)) THEN "dispatch" ELSE "fetch"
      /\ UNCHANGED <<status, msg, frame, known, last, ctx, park, next, nstat, crashes>>
  BY DEF Advance
<1>2. /\ Running /\ Unpaused /\ pc = cur /\ last = 0
      /\ cur.d \in Nat /\ cur.d \in Depths /\ cur.d <= MaxDepth
      /\ Behind(cur) \in Pcs /\ Behind(cur).d = cur.d
      /\ HasRow(frame[cur.d].lib, Behind(cur).i)
  BY <1>1, HostFacts
<1>3. \A k \in 1 .. cur.d : LinkedUp(k)
  BY <1>2 DEF IInv, StackInv
<1>4. TypeOK' /\ NoChainError'
  BY <1>1, <1>2 DEF IInv, TypeOK, Phases, NoChainError
<1>5. StackInv'
  <2> DEFINE b == Behind(cur)
  <2>1. pc' = b /\ b.d = cur.d
    BY <1>1, <1>2
  <2>2. \A k \in 1 .. cur.d : LinkedUp(k)'
    BY <1>1, <1>3 DEF LinkedUp, Linked, CallsAt, At, Behind
  <2>3. QED
    <3> HIDE DEF b
    <3>1. HasRow(frame[cur.d].lib, b.i)
      BY <1>2 DEF b
    <3>2. QED
      BY <1>1, <1>2, <2>1, <2>2, <3>1 DEF StackInv
<1>6. ParkInv'
  BY <1>1 DEF IInv, ParkInv, ParkCoherent, IsWarm
<1>7. CtxInv'
  BY <1>1, <1>2 DEF IInv, CtxInv
<1>8. HostInv'
  BY <1>1, <1>2 DEF HostInv, HostRowAt, Running, Unpaused
<1>9. FetchInv'
  BY <1>1, <1>2 DEF FetchInv, Unpaused
<1>10. /\ IdleInv' /\ ExecInv' /\ CallInv' /\ GotoInv' /\ MarkInv'
       /\ DropInv' /\ ExitInv'
  BY <1>1 DEF IdleInv, ExecInv, CallInv, GotoInv, MarkInv, DropInv, ExitInv
<1>11. QED
  BY <1>4, <1>5, <1>6, <1>7, <1>8, <1>9, <1>10 DEF IInv

(***************************************************************************)
(* The end of the process, and the debugger                                *)
(***************************************************************************)
(* What the loop cleans up at its end is not on the chain of a vthread that *)
(* may be resumed: it stopped in the frame it last entered.                 *)
LEMMA ExitStepInv ==
  ASSUME IInv, Safe, Exit
  PROVE  IInv'
<1>1. /\ at = "exit" /\ EndProcess /\ UNCHANGED <<pc, status, msg, crashes>>
      /\ frame' = [k \in Depths |-> IF k > ExitDepth /\ IsWarm(k) THEN Absent ELSE frame[k]]
  BY DEF Exit
<1>2. frame \in [Depths -> Frames] /\ last \in Nat
  BY DEF IInv, TypeOK
<1>3. Absent \in Frames
  BY DEF Absent, Frames, Nowhere, Pcs
<1>4. /\ pc' \in Pcs /\ status' \in Statuses /\ msg' \in Messages /\ NoChainError'
      /\ frame' \in [Depths -> Frames] /\ crashes' \in 0 .. MaxCrashes
  BY <1>1, <1>2, <1>3 DEF IInv, TypeOK, NoChainError
<1>5. StackInv'
  <2>1. CASE ~ Running
    BY <2>1, <1>1 DEF StackInv, Running
  <2>2. CASE Running
    <3>1. ASSUME NEW k \in Depths, k <= pc.d PROVE ~ (k > ExitDepth /\ IsWarm(k))
      <4>1. CASE Parkable = {}
        BY <4>1 DEF IInv, ParkInv
      <4>2. CASE ~ AsyncPause
        <5>1. pc.d <= last /\ pc.d >= 1 /\ pc.d \in Nat /\ k \in Nat
          BY <4>2, <2>2, <1>1, ChainFacts DEF IInv, ExitInv, Depths
        <5>2. QED
          BY <5>1, <3>1, <1>2 DEF ExitDepth
      <4>3. QED
        BY <4>1, <4>2 DEF Safe
    <3>2. \A k \in Depths : k <= pc.d => frame'[k] = frame[k]
      BY <3>1, <1>1
    <3>3. QED
      BY <3>2, <1>1, KeepStack DEF IInv, Running
  <2>3. QED
    BY <2>1, <2>2
<1>6. QED
  BY <1>1, <1>4, <1>5, EndInv DEF IInv

LEMMA CrashInv ==
  ASSUME IInv, Crash
  PROVE  IInv'
<1>1. EndProcess /\ crashes < MaxCrashes /\ crashes' = crashes + 1
      /\ UNCHANGED <<pc, status, msg, frame>>
  BY DEF Crash, kvvars
<1>2. /\ pc' \in Pcs /\ status' \in Statuses /\ msg' \in Messages /\ NoChainError'
      /\ frame' \in [Depths -> Frames] /\ crashes' \in 0 .. MaxCrashes
  BY <1>1, CodeAssumption DEF IInv, TypeOK, NoChainError
<1>3. StackInv'
  BY <1>1, KeepStack DEF IInv, Running
<1>4. QED
  BY <1>1, <1>2, <1>3, EndInv DEF IInv

(* A step of the debugger: nothing but the status, which stays short of an end. *)
LEMMA DebuggerInv ==
  ASSUME IInv, Pause \/ Resume
  PROVE  IInv'
<1>1. /\ Running /\ Running'
      /\ AsyncPause \/ status' \in Live
      /\ status' \in {"paused", "running"} /\ status # "ok" /\ status' # "ok"
      /\ UNCHANGED <<pc, msg, frame, at, cur, known, last, ctx, park, next, nstat, crashes>>
  BY DEF Pause, Resume, procvars, Running, Terminal, Live
<1>2. TypeOK' /\ NoChainError'
  BY <1>1 DEF IInv, TypeOK, NoChainError, Statuses, Live
<1>3. StackInv'
  BY <1>1, KeepStack DEF IInv
<1>4. ParkInv' /\ CtxInv' /\ IdleInv' /\ FetchInv'
  BY <1>1 DEF IInv, ParkInv, ParkCoherent, IsWarm, CtxInv, IdleInv, FetchInv
<1>5. ExecInv' /\ MarkInv' /\ HostInv' /\ DropInv'
  BY <1>1 DEF IInv, ExecInv, MarkInv, HostInv, DropInv, Unpaused
<1>6. CallInv' /\ GotoInv' /\ ExitInv'
  BY <1>1 DEF IInv, CallInv, GotoInv, ExitInv, Row, Callee, CalleeD,
              LinkedUp, Linked, CallsAt, At, Behind
<1>7. QED
  BY <1>2, <1>3, <1>4, <1>5, <1>6 DEF IInv

(***************************************************************************)
(* Theorems                                                                *)
(***************************************************************************)
LEMMA NextInv ==
  ASSUME IInv, Uniform, Exit => Safe, [Next]_vars
  PROVE  IInv'
<1>1. CASE Start
  BY <1>1, StartInv
<1>2. CASE Stop \/ Overflow \/ NoLib \/ Fetch
  BY <1>2, StopInv, OverflowInv, NoLibInv, FetchStepInv
<1>3. CASE Native \/ Jump \/ SetStatus \/ OpFails
  BY <1>3, NativeInv, JumpInv, SetStatusInv, OpFailsInv
<1>4. CASE CallReuse \/ CallBuild \/ WriteReturnPc \/ WriteLib \/ BindArgs \/ CallFails
  BY <1>4, CallReuseInv, CallBuildInv, WriteReturnPcInv, WriteLibInv, BindArgsInv, CallFailsInv
<1>5. CASE Return \/ Done \/ DropFrame
  BY <1>5, ReturnInv, DoneInv, DropFrameInv
<1>6. CASE WritePc \/ WriteStatus
  BY <1>6, WritePcInv, WriteStatusInv
<1>7. CASE Yield \/ HostGate \/ Dispatch \/ DispatchFails \/ Advance
  BY <1>7, YieldInv, HostGateInv, DispatchInv, DispatchFailsInv, AdvanceInv
<1>8. CASE Exit \/ Crash \/ Pause \/ Resume
  BY <1>8, ExitStepInv, CrashInv, DebuggerInv
<1>9. CASE UNCHANGED vars
  <2>1. UNCHANGED <<pc, status, msg, frame, at, cur, known, last, ctx, park, next, nstat, crashes>>
    BY <1>9 DEF vars, kvvars, procvars
  <2>2. /\ TypeOK' /\ NoChainError' /\ CtxInv' /\ ParkInv'
    BY <2>1 DEF IInv, TypeOK, NoChainError, CtxInv, ParkInv, ParkCoherent, IsWarm, Running
  <2>3. StackInv'
    BY <2>1, KeepStack DEF IInv, Running
  <2>4. /\ IdleInv' /\ FetchInv' /\ ExecInv' /\ MarkInv' /\ DropInv' /\ HostInv' /\ ExitInv'
    BY <2>1 DEF IInv, IdleInv, FetchInv, ExecInv, MarkInv, DropInv, HostInv, ExitInv,
                Running, Unpaused
  <2>5. CallInv' /\ GotoInv'
    BY <2>1 DEF IInv, CallInv, GotoInv, Row, Callee, CalleeD,
                LinkedUp, Linked, CallsAt, At, Behind
  <2>6. QED
    BY <2>2, <2>3, <2>4, <2>5 DEF IInv
<1>10. QED
  BY <1>1, <1>2, <1>3, <1>4, <1>5, <1>6, <1>7, <1>8, <1>9 DEF Next, Drive, Execute

(* The inductive invariant holds in every reachable state. *)
THEOREM Invariant ==
  ASSUME Safe
  PROVE  Spec => []IInv
<1>1. Init => IInv
  BY InitInv
<1>2. IInv /\ [Next]_vars => IInv'
  BY NextInv DEF Safe, Uniform
<1>3. QED
  BY <1>1, <1>2, PTL DEF Spec

(* Whatever the program, the depth limit and the moments at which processes *)
(* die: ..pc and the frames in the tree are always enough to go on          *)
(* (handle_call_buf, handle_return, kvlangVthreadNextPc).                   *)
THEOREM ChainAlwaysIntact ==
  ASSUME Safe
  PROVE  Spec => []ChainIntact
<1>1. IInv => ChainIntact
  BY DEF IInv, StackInv, LinkedUp, ChainIntact
<1>2. QED
  BY <1>1, Invariant, PTL

(* A frame on the call chain is bound to the arguments of the call it will *)
(* return to, whichever writes a warm handle_call_buf has skipped.         *)
THEOREM ArgsAlwaysMatchCall ==
  ASSUME Safe
  PROVE  Spec => []ArgsMatchCall
<1>1. ASSUME IInv PROVE ArgsMatchCall
  BY <1>1 DEF IInv, StackInv, LinkedUp, ArgsMatchCall
<1>2. QED
  BY <1>1, Invariant, PTL

(* The interpreter never reports a frame without ..lib, a pc behind the code *)
(* or a broken return chain of a program that layout has accepted.           *)
THEOREM ChainErrorsNeverReported ==
  ASSUME Safe
  PROVE  Spec => []NoChainError
<1>1. IInv => NoChainError
  BY DEF IInv
<1>2. QED
  BY <1>1, Invariant, PTL

(* A vthread that its own code has paused, or that anybody has paused where  *)
(* no frame is parked, can be resumed by a new process.                      *)
THEOREM PausedAlwaysResumable ==
  ASSUME Safe
  PROVE  Spec => []PausedIsResumable
<1>1. ASSUME ChainIntact PROVE PausedIsResumable
  BY <1>1 DEF PausedIsResumable
<1>2. QED
  BY <1>1, ChainAlwaysIntact, PTL

(* Where only the code pauses, no step of any process moves a paused vthread. *)
LEMMA PausedStep ==
  ASSUME IInv, ~ AsyncPause, [Next]_vars, status = "paused"
  PROVE  UNCHANGED <<pc, msg>>
<1>1. at \notin {"exec", "retpc", "lib", "bind", "goto", "mark", "host", "dispatch", "advance"}
  BY DEF IInv, ExecInv, MarkInv, HostInv, Unpaused, Live
<1>2. ~ Gate
  BY DEF Gate, Live
<1>3. CASE Start \/ Drive
  BY <1>3, <1>1, <1>2 DEF Start, Drive, Execute, Stop, Overflow, NoLib, Fetch, Native, Jump,
     SetStatus, OpFails, CallReuse, CallBuild, WriteReturnPc, WriteLib, BindArgs, CallFails,
     Return, Done, DropFrame, WritePc, WriteStatus, Yield, HostGate, Dispatch, DispatchFails,
     Advance, Exit, kvvars
<1>4. CASE Crash \/ Pause \/ Resume \/ UNCHANGED vars
  BY <1>4 DEF Crash, Pause, Resume, vars, kvvars
<1>5. QED
  BY <1>3, <1>4 DEF Next

(* kvcpu.c's status gate keeps a vthread where it was paused. *)
THEOREM PausedAlwaysStaysPut ==
  ASSUME Safe, ~ AsyncPause
  PROVE  Spec => PausedStaysPut
<1>1. IInv /\ [Next]_vars => [status = "paused" => UNCHANGED <<pc, msg>>]_vars
  BY PausedStep
<1>2. QED
  BY <1>1, Invariant, PTL DEF Spec, PausedStaysPut


(* One step of anybody, seen from the frames of the call chain. *)
LEMMA KeptStep ==
  ASSUME IInv, Uniform, Exit => Safe, [Next]_vars,
         NEW k \in Depths, Running', k <= pc.d, k <= pc'.d
  PROVE  /\ Identity(frame'[k]) = Identity(frame[k])
         /\ frame[k].locals \subseteq frame'[k].locals
<1>t. /\ pc \in Pcs /\ cur \in Pcs /\ frame \in [Depths -> Frames]
      /\ park \in [Depths -> Parks] /\ last \in 0 .. MaxDepth /\ MaxDepth \in Nat
      /\ k \in Nat
  BY CodeAssumption DEF IInv, TypeOK, Depths
<1>a. CASE frame'[k] = frame[k]
  BY <1>a
<1>1. CASE Native
  <2>1. frame' = [frame EXCEPT ![cur.d].locals = @ \cup Row.w]
    BY <1>1 DEF Native
  <2>2. frame[k] \in Frames
    BY <1>t
  <2>3. CASE k = cur.d
    <3>1. frame'[k] = [frame[k] EXCEPT !.locals = @ \cup Row.w]
      BY <2>1, <2>3, <1>t
    <3>2. QED
      BY <3>1, <2>2 DEF Identity, Frames
  <2>4. CASE k # cur.d
    BY <2>1, <2>4, <1>t, <1>a
  <2>5. QED
    BY <2>3, <2>4
<1>2. CASE Dispatch
  <2>1. frame' = [frame EXCEPT ![cur.d].locals =
                    @ \cup Code[frame[cur.d].lib][cur.i].w]
    BY <1>2 DEF Dispatch
  <2>2. frame[k] \in Frames
    BY <1>t
  <2>3. CASE k = cur.d
    <3>1. frame'[k] = [frame[k] EXCEPT !.locals = @ \cup Code[frame[cur.d].lib][cur.i].w]
      BY <2>1, <2>3, <1>t
    <3>2. QED
      BY <3>1, <2>2 DEF Identity, Frames
  <2>4. CASE k # cur.d
    BY <2>1, <2>4, <1>t, <1>a
  <2>5. QED
    BY <2>3, <2>4
<1>3. CASE CallBuild \/ WriteReturnPc \/ WriteLib \/ BindArgs \/ CallFails
  <2>1. pc = cur /\ k # CalleeD
    BY <1>3, <1>t DEF CallBuild, WriteReturnPc, WriteLib, BindArgs, CallFails,
                      IInv, ExecInv, CalleeD, Pcs
  <2>2. frame'[k] = frame[k]
    BY <1>3, <2>1, <1>t DEF CallBuild, WriteReturnPc, WriteLib, BindArgs, CallFails
  <2>3. QED
    BY <2>2, <1>a
<1>4. CASE DropFrame
  <2>1. /\ status' = status /\ cur.d = last /\ cur.d >= 1
        /\ frame'[k] = IF k \in Doomed THEN Absent ELSE frame[k]
    BY <1>4 DEF DropFrame, IInv, DropInv
  <2>2. pc.d < cur.d
    BY <1>4, <2>1 DEF DropFrame, IInv, DropInv, Running, Terminal
  <2>3. pc.d \in Nat /\ cur.d \in Nat
    BY <1>t DEF Pcs
  <2>4. CASE cur.d # 1
    BY <2>1, <2>2, <2>3, <2>4, <1>t, <1>a DEF Doomed
  <2>5. CASE cur.d = 1
    BY <2>2, <2>3, <2>5, <1>t DEF Depths
  <2>6. QED
    BY <2>4, <2>5
<1>5. CASE Yield
  <2>1. pc = cur /\ pc.d \in Nat /\ YieldDepth = cur.d
    BY <1>5, <1>t DEF Yield, IInv, ExecInv, YieldDepth, Pcs
  <2>2. frame'[k] = frame[k]
    BY <1>5, <2>1, <1>t DEF Yield, CleanupAbove
  <2>3. QED
    BY <2>2, <1>a
<1>6. CASE Exit
  <2>1. frame'[k] = IF k > ExitDepth /\ IsWarm(k) THEN Absent ELSE frame[k]
    BY <1>6 DEF Exit
  <2>2. CASE Parkable = {}
    BY <2>1, <2>2, <1>a DEF IInv, ParkInv, IsWarm
  <2>3. CASE ~ AsyncPause
    <3>1. at = "exit" /\ status' = status /\ pc' = pc
      BY <1>6 DEF Exit
    <3>2. pc.d <= last
      BY <3>1, <2>3 DEF IInv, ExitInv, Running
    <3>3. pc.d \in Nat /\ ~ (k > ExitDepth)
      BY <3>2, <1>t DEF Pcs, ExitDepth
    <3>4. QED
      BY <3>3, <2>1, <1>a
  <2>4. QED
    BY <1>6, <2>2, <2>3 DEF Safe
<1>7. CASE Start \/ Stop \/ Overflow \/ NoLib \/ Fetch \/ Jump \/ SetStatus \/ OpFails
           \/ CallReuse \/ Return \/ Done \/ WritePc \/ WriteStatus
           \/ HostGate \/ DispatchFails \/ Advance \/ Crash \/ Pause \/ Resume \/ UNCHANGED vars
  <2>1. frame' = frame
    BY <1>7 DEF Start, Stop, Overflow, NoLib, Fetch, Jump, SetStatus, OpFails, CallReuse,
                Return, Done, WritePc, WriteStatus, HostGate, DispatchFails, Advance,
                Crash, Pause, Resume, Raise, vars, kvvars
  <2>2. QED
    BY <2>1, <1>a
<1>8. QED
  BY <1>1, <1>2, <1>3, <1>4, <1>5, <1>6, <1>7 DEF Next, Drive, Execute

(* CleanupAbove, DeleteTree and the writes of a call or a return never touch *)
(* a frame that is on the call chain before and after the step.              *)
THEOREM LiveFramesAlwaysKept ==
  ASSUME Safe
  PROVE  Spec => LiveFramesKept
<1>1. IInv /\ [Next]_vars =>
        [\A k \in Depths : Running' /\ k <= pc.d /\ k <= pc'.d =>
           /\ Identity(frame'[k]) = Identity(frame[k])
           /\ frame[k].locals \subseteq frame'[k].locals]_vars
  BY KeptStep DEF Safe, Uniform
<1>2. QED
  BY <1>1, Invariant, PTL DEF Spec, LiveFramesKept

(***************************************************************************)
(* What a finished vthread leaves behind                                   *)
(***************************************************************************)
(* Outside calls and returns a frame is on the chain or parked. *)
LEMMA TidyQuiet ==
  ASSUME Tidy, at \notin {"retpc", "lib", "bind", "goto", "mark", "drop"},
         Running' => Running, pc'.d = pc.d, park' = park,
         \A k \in Depths : k <= pc.d \/ frame'[k] = frame[k]
  PROVE  Tidy'
<1> SUFFICES ASSUME Running', NEW k \in Depths PROVE frame'[k] = Absent \/ Accounted(k)'
  BY DEF Tidy
<1>1. frame[k] = Absent \/ k <= pc.d \/ IsWarm(k)
  BY DEF Tidy, Accounted
<1>2. QED
  BY <1>1 DEF Accounted, IsWarm

(* While a call builds or reuses the callee's frame. *)
LEMMA TidyCall ==
  ASSUME IInv, Tidy, at \in {"exec", "retpc", "lib", "bind"}, UNCHANGED <<pc, cur, ctx, status>>,
         \A k \in Depths \ {CalleeD} : frame'[k] = frame[k] /\ park'[k] = park[k],
         \/ frame'[CalleeD] = Absent
         \/ at' \in {"retpc", "lib", "bind"}
         \/ at' = "goto" /\ next'.d = CalleeD
  PROVE  Tidy'
<1> SUFFICES ASSUME Running', NEW k \in Depths PROVE frame'[k] = Absent \/ Accounted(k)'
  BY DEF Tidy
<1>1. CASE k = CalleeD
  <2>1. CalleeD' = CalleeD
    BY DEF CalleeD
  <2>2. QED
    BY <1>1, <2>1 DEF Accounted
<1>2. CASE k # CalleeD
  <2>1. frame[k] = Absent \/ k <= pc.d \/ IsWarm(k)
    BY <1>2 DEF Tidy, Accounted, Running
  <2>2. frame'[k] = frame[k] /\ park'[k] = park[k]
    BY <1>2
  <2>3. QED
    BY <2>1, <2>2 DEF Accounted, IsWarm
<1>3. QED
  BY <1>1, <1>2

(* Where the loop or the batch ends, what is left is on the chain. *)
LEMMA TidyEnd ==
  ASSUME EndProcess, pc' = pc,
         \A k \in Depths : frame'[k] = Absent \/ k <= pc.d
  PROVE  Tidy'
BY DEF Tidy, Accounted

(* Every frame of a running vthread stays one somebody will delete. *)
LEMMA TidyStep ==
  ASSUME IInv, Tidy, HostCold, StopsAtPc, Safe, [Next]_vars, ~ Crash
  PROVE  Tidy'
<1>t. /\ pc.d \in Nat /\ cur.d \in Nat /\ last \in Nat
      /\ frame \in [Depths -> Frames] /\ park \in [Depths -> Parks]
  BY DEF IInv, TypeOK, Pcs
<1>1. CASE \/ Start \/ Stop \/ Jump \/ SetStatus \/ CallReuse
           \/ (HostGate /\ Gate)
  <2>1. /\ at \in {"idle", "fetch", "exec", "host"}
        /\ UNCHANGED <<pc, status, frame, park>>
    BY <1>1 DEF Start, Stop, Jump, SetStatus, CallReuse, HostGate, kvvars
  <2>2. QED
    BY <2>1, TidyQuiet DEF Running
<1>2. CASE Return \/ Fetch
  <2>1. /\ at \in {"fetch", "exec"} /\ UNCHANGED <<frame, park>>
    BY <1>2 DEF Return, Fetch
  <2>2. (Running' => Running) /\ pc' = pc
    <3>1. CASE Return
      BY <3>1, <1>t, ExecFacts DEF Return, NextPc, SetError
    <3>2. CASE Fetch
      <4>1. Running
        BY <3>2 DEF Fetch, Gate, Running, Live, Terminal
      <4>2. QED
        BY <3>2, <4>1 DEF Fetch, SetError
    <3>3. QED
      BY <1>2, <3>1, <3>2
  <2>3. QED
    BY <2>1, <2>2, TidyQuiet
<1>3. CASE Native \/ Dispatch
  <2>1. /\ at \in {"exec", "dispatch"} /\ UNCHANGED <<pc, status, park>>
        /\ \A k \in Depths : k # cur.d => frame'[k] = frame[k]
    BY <1>3, <1>t DEF Native, Dispatch
  <2>2. pc = cur
    BY <2>1, ExecFacts, HostFacts
  <2>3. \A k \in Depths : k <= pc.d \/ frame'[k] = frame[k]
    BY <2>1, <2>2, <1>t
  <2>4. QED
    BY <2>1, <2>3, TidyQuiet DEF Running
<1>4. CASE Advance
  <2>1. /\ at = "advance" /\ UNCHANGED <<status, frame, park>> /\ pc' = Behind(cur)
    BY <1>4 DEF Advance
  <2>2. pc'.d = pc.d
    BY <2>1, HostFacts
  <2>3. QED
    BY <2>1, <2>2, TidyQuiet DEF Running
<1>5. CASE Overflow \/ NoLib \/ OpFails \/ CallFails \/ DispatchFails \/ Done
  <2>1. status' \in Terminal
    BY <1>5 DEF Overflow, NoLib, OpFails, CallFails, DispatchFails, Done, Raise, SetError, Terminal
  <2>2. QED
    BY <2>1 DEF Tidy, Running
<1>6. CASE CallBuild \/ WriteReturnPc \/ WriteLib \/ BindArgs
  <2>1. /\ at \in {"exec", "retpc", "lib", "bind"} /\ UNCHANGED <<pc, cur, ctx, status>>
    BY <1>6 DEF CallBuild, WriteReturnPc, WriteLib, BindArgs
  <2>2. \A k \in Depths \ {CalleeD} : frame'[k] = frame[k] /\ park'[k] = park[k]
    BY <1>6, <1>t DEF CallBuild, WriteReturnPc, WriteLib, BindArgs
  <2>3. \/ at' \in {"retpc", "lib", "bind"}
        \/ at' = "goto" /\ next'.d = CalleeD
    BY <1>6 DEF CallBuild, WriteReturnPc, WriteLib, BindArgs, NextPc, At
  <2>4. QED
    BY <2>1, <2>2, <2>3, TidyCall
<1>7. CASE WritePc
  <2>1. /\ at = "goto" /\ pc' = next /\ UNCHANGED <<status, frame, cur, park, next>>
        /\ at' \in {"mark", AfterNextPc}
    BY <1>7 DEF WritePc
  <2>2. Running /\ pc = cur /\ next.d \in Nat /\ cur.d >= 1
    BY <2>1, ExecFacts, NextPcOk
  <2>3. next.d >= cur.d - 1
    <3>1. cur.d > 1 => frame[cur.d].ret.d = cur.d - 1
      <4>1. cur.d > 1 => LinkedUp(cur.d)
        BY <2>2, <1>t DEF IInv, StackInv
      <4>2. QED
        BY <4>1 DEF LinkedUp, Linked
    <3>2. QED
      BY <3>1, <2>1, <1>t DEF IInv, GotoInv, At
  <2>4. SUFFICES ASSUME NEW k \in Depths PROVE frame'[k] = Absent \/ Accounted(k)'
    BY DEF Tidy
  <2>5. frame[k] = Absent \/ k <= cur.d \/ IsWarm(k) \/ k <= next.d
    BY <2>1, <2>2, <1>t DEF Tidy, Accounted, Depths
  <2>6. CASE k <= next.d
    BY <2>1, <2>6 DEF Accounted
  <2>7. CASE ~ (k <= next.d) /\ k <= cur.d
    <3>1. k = cur.d /\ next.d < cur.d
      BY <2>2, <2>3, <2>7, <1>t DEF Depths
    <3>2. at' \in {"mark", "drop"}
      BY <2>1, <3>1 DEF AfterNextPc
    <3>3. QED
      BY <2>1, <3>1, <3>2 DEF Accounted
  <2>8. QED
    BY <2>1, <2>5, <2>6, <2>7 DEF Accounted, IsWarm
<1>8. CASE WriteStatus
  <2>1. /\ at = "mark" /\ at' = AfterNextPc /\ UNCHANGED <<pc, frame, cur, park>>
        /\ pc = next /\ Running
    BY <1>8 DEF WriteStatus, IInv, MarkInv
  <2>2. SUFFICES ASSUME NEW k \in Depths PROVE frame'[k] = Absent \/ Accounted(k)'
    BY DEF Tidy
  <2>3. frame[k] = Absent \/ k <= pc.d \/ IsWarm(k) \/ k = cur.d
    BY <2>1 DEF Tidy, Accounted
  <2>4. k = cur.d => k <= pc.d \/ at' = "drop"
    BY <2>1, <1>t DEF AfterNextPc
  <2>5. QED
    BY <2>1, <2>3, <2>4 DEF Accounted, IsWarm
<1>9. CASE DropFrame
  <2>1. /\ at = "drop" /\ UNCHANGED <<pc, status>>
        /\ frame' = [k \in Depths |-> IF k \in Doomed THEN Absent ELSE frame[k]]
        /\ park'  = [k \in Depths |-> IF k \in Doomed THEN Cold ELSE park[k]]
    BY <1>9 DEF DropFrame
  <2>2. SUFFICES ASSUME Running', NEW k \in Depths PROVE frame'[k] = Absent \/ Accounted(k)'
    BY DEF Tidy
  <2>3. Running /\ pc.d >= 1 /\ pc.d < cur.d
    BY <2>1, <2>2, ChainFacts DEF Running, IInv, DropInv, Terminal
  <2>4. frame[k] = Absent \/ k <= pc.d \/ IsWarm(k) \/ k = cur.d
    BY <2>1, <2>3 DEF Tidy, Accounted
  <2>5. k = cur.d => k \in Doomed \/ IsWarm(k)
    BY DEF Doomed
  <2>6. QED
    BY <2>1, <2>4, <2>5 DEF Accounted, IsWarm
<1>10. CASE Yield
  <2>1. /\ at = "exec" /\ UNCHANGED <<pc, status>>
        /\ frame' = [k \in Depths |-> IF k > cur.d /\ park[k].f # None THEN Absent ELSE frame[k]]
    BY <1>10 DEF Yield, CleanupAbove, YieldDepth
  <2>2. Running /\ pc = cur
    BY <2>1, ExecFacts
  <2>3. SUFFICES ASSUME NEW k \in Depths PROVE frame'[k] = Absent \/ Accounted(k)'
    BY DEF Tidy
  <2>4. frame[k] = Absent \/ k <= pc.d \/ IsWarm(k)
    BY <2>1, <2>2 DEF Tidy, Accounted
  <2>5. frame'[k] = Absent \/ k <= pc.d
    BY <2>1, <2>2, <2>4, <1>t DEF IsWarm, Depths
  <2>6. QED
    BY <2>1, <2>5 DEF Accounted
<1>11. CASE HostGate /\ ~ Gate
  <2>1. at = "host" /\ EndProcess /\ UNCHANGED <<pc, status, frame>>
    BY <1>11 DEF HostGate, kvvars
  <2>2. Running /\ pc = cur
    BY <2>1, HostFacts
  <2>3. \A k \in Depths : frame'[k] = Absent \/ k <= pc.d
    BY <2>1, <2>2, <1>t DEF Tidy, Accounted, HostCold, Depths
  <2>4. QED
    BY <2>1, <2>3, TidyEnd
<1>12. CASE Exit
  <2>1. /\ at = "exit" /\ EndProcess /\ UNCHANGED <<pc, status>>
        /\ frame' = [k \in Depths |-> IF k > ExitDepth /\ IsWarm(k) THEN Absent ELSE frame[k]]
    BY <1>12 DEF Exit
  <2>2. CASE ~ Running
    BY <2>1, <2>2 DEF Tidy, Running
  <2>3. CASE Running
    <3>1. SUFFICES ASSUME NEW k \in Depths PROVE frame'[k] = Absent \/ k <= pc.d
      BY <2>1, TidyEnd
    <3>2. frame[k] = Absent \/ k <= pc.d \/ IsWarm(k)
      BY <2>1, <2>3 DEF Tidy, Accounted
    <3>3. IsWarm(k) => ~ AsyncPause
      BY DEF Safe, IInv, ParkInv
    <3>4. ~ AsyncPause => ExitDepth <= pc.d
      BY <2>1, <2>3, ChainFacts DEF StopsAtPc, ExitDepth
    <3>5. ExitDepth \in Nat /\ k \in Nat
      BY <1>t DEF ExitDepth, Depths
    <3>6. QED
      BY <2>1, <3>2, <3>3, <3>4, <3>5, <1>t
  <2>4. QED
    BY <2>2, <2>3
<1>13. CASE Pause \/ Resume \/ UNCHANGED vars
  <2>1. UNCHANGED <<pc, frame, park, at, cur, next, ctx>>
    BY <1>13 DEF Pause, Resume, vars, kvvars, procvars
  <2>2. Running' => Running
    BY <1>13 DEF Pause, Resume, vars, kvvars, Running, Live, Terminal
  <2>3. \A k \in Depths : Accounted(k) => Accounted(k)'
    BY <2>1 DEF Accounted, IsWarm, CalleeD
  <2>4. QED
    BY <2>1, <2>2, <2>3 DEF Tidy
<1>14. QED
  BY <1>1, <1>2, <1>3, <1>4, <1>5, <1>6, <1>7, <1>8, <1>9, <1>10, <1>11, <1>12, <1>13
  DEF Next, Drive, Execute

(* The entry function's return deletes the root and everything parked. *)
LEMMA DoneTidyStep ==
  ASSUME IInv, Tidy, DoneTidy, [Next]_vars, ~ Crash
  PROVE  DoneTidy'
<1> SUFFICES ASSUME status' = "ok" PROVE DoneTidy'
  BY DEF DoneTidy
<1>t. frame \in [Depths -> Frames] /\ park \in [Depths -> Parks]
  BY DEF IInv, TypeOK
<1>1. CASE Done
  <2>1. /\ at = "exec" /\ at' = "drop" /\ cur.d = 1 /\ UNCHANGED <<frame, park, cur>>
    BY <1>1 DEF Done
  <2>2. Running /\ pc = cur
    BY <2>1, ExecFacts
  <2>3. \A k \in Depths : frame[k] = Absent \/ k = 1 \/ IsWarm(k)
    BY <2>1, <2>2, CodeAssumption DEF Tidy, Accounted, Depths
  <2>4. QED
    BY <2>1, <2>3 DEF DoneTidy, IsWarm
<1>2. CASE status = "ok" /\ DropFrame
  <2>1. /\ at = "drop" /\ at' = "fetch" /\ cur.d = 1
        /\ frame' = [k \in Depths |-> IF k \in Doomed THEN Absent ELSE frame[k]]
        /\ \A k \in Depths : frame[k] = Absent \/ k = 1 \/ IsWarm(k)
    BY <1>2 DEF DropFrame, DoneTidy
  <2>2. \A k \in Depths : frame'[k] = Absent
    BY <2>1 DEF Doomed
  <2>3. QED
    BY <2>1, <2>2 DEF DoneTidy
<1>3. CASE status = "ok" /\ (Stop \/ Exit)
  <2>1. \A k \in Depths : frame[k] = Absent
    BY <1>3 DEF Stop, Exit, DoneTidy
  <2>2. at' \in {"exit", "idle"} /\ \A k \in Depths : frame'[k] = Absent
    BY <1>3, <2>1 DEF Stop, Exit, EndProcess, kvvars
  <2>3. QED
    BY <2>2 DEF DoneTidy
<1>4. CASE status = "ok" /\ ~ DropFrame /\ ~ Stop /\ ~ Exit /\ ~ Done
  <2>1. ~ Gate /\ at \in {"drop", "fetch", "exit", "idle"}
    BY <1>4 DEF Gate, Live, DoneTidy
  <2>2. ~ (Start \/ Drive \/ Pause \/ Resume)
    BY <1>4, <2>1 DEF Start, Drive, Execute, Overflow, NoLib, Fetch, Native, Jump, SetStatus,
       OpFails, CallReuse, CallBuild, WriteReturnPc, WriteLib, BindArgs, CallFails, Return,
       WritePc, WriteStatus, Yield, HostGate, Dispatch, DispatchFails, Advance, Pause, Resume,
       Gate
  <2>3. UNCHANGED vars
    BY <2>2 DEF Next
  <2>4. UNCHANGED <<status, at, cur, frame, park>>
    BY <2>3 DEF vars, kvvars, procvars
  <2>5. QED
    BY <1>4, <2>4 DEF DoneTidy, IsWarm
<1>5. CASE status # "ok" /\ ~ Done
  <2>1. ~ WriteStatus
    BY <1>5 DEF WriteStatus, IInv, TypeOK
  <2>2. ~ Fetch
    BY <1>5 DEF Fetch, SetError
  <2>3. ~ Return
    BY <1>5 DEF Return, SetError
  <2>4. QED
    BY <1>5, <2>1, <2>2, <2>3 DEF Next, Start, Drive, Execute, Stop, Overflow, NoLib, Native,
       Jump, SetStatus, OpFails, CallReuse, CallBuild, WriteReturnPc, WriteLib, BindArgs,
       CallFails, DropFrame, WritePc, Yield, HostGate, Dispatch, DispatchFails, Advance, Exit,
       Pause, Resume, Raise, SetError, vars, kvvars
<1>6. QED
  BY <1>1, <1>2, <1>3, <1>4, <1>5

(* At a host instruction nothing is parked above the pc. *)
LEMMA HostColdStep ==
  ASSUME IInv, HostCold, [Next]_vars
  PROVE  HostCold'
<1>t. park \in [Depths -> Parks] /\ cur.d \in Nat
  BY DEF IInv, TypeOK, Pcs
<1> SUFFICES ASSUME at' \in {"host", "dispatch", "advance"}, NEW k \in Depths, k > cur'.d
             PROVE  ~ IsWarm(k)'
  BY DEF HostCold
<1>1. CASE Yield
  BY <1>1, <1>t DEF Yield, CleanupAbove, YieldDepth, Cold, IsWarm
<1>2. CASE HostGate \/ Dispatch \/ Advance
  <2>1. at \in {"host", "dispatch", "advance"} /\ (park' = park \/ at' = "idle")
        /\ (cur' = cur \/ cur' = Behind(cur) \/ at' = "idle")
    BY <1>2 DEF HostGate, Dispatch, Advance, EndProcess
  <2>2. cur'.d = cur.d /\ park' = park
    BY <2>1, HostFacts
  <2>3. QED
    BY <2>1, <2>2 DEF HostCold, IsWarm
<1>3. CASE Pause \/ Resume \/ UNCHANGED vars
  <2>1. UNCHANGED <<at, cur, park>>
    BY <1>3 DEF Pause, Resume, vars, procvars
  <2>2. QED
    BY <2>1 DEF HostCold, IsWarm
<1>4. CASE \/ Start \/ Stop \/ Overflow \/ NoLib \/ Fetch \/ Execute
           \/ DispatchFails \/ Exit \/ Crash
  BY <1>4 DEF Start, Stop, Overflow, NoLib, Fetch, Execute, Native, Jump, SetStatus,
     OpFails, CallReuse, CallBuild, WriteReturnPc, WriteLib, BindArgs, CallFails, Return,
     Done, DropFrame, WritePc, WriteStatus, AfterNextPc, DispatchFails, Exit, Crash,
     NextPc, Raise, EndProcess
<1>5. QED
  BY <1>1, <1>2, <1>3, <1>4 DEF Next, Drive

(* Without a pause, a loop that ends was last at the pc in the tree. *)
LEMMA StopsAtPcStep ==
  ASSUME IInv, StopsAtPc, [Next]_vars
  PROVE  StopsAtPc'
<1> SUFFICES ASSUME ~ AsyncPause, Running',
                    \/ at' = "fetch" /\ status' \notin Live
                    \/ at' = "exit"
             PROVE  last' <= pc'.d
  BY DEF StopsAtPc
<1>1. CASE Stop
  <2>1. at = "fetch" /\ status \notin Live /\ UNCHANGED <<pc, status, last>>
    BY <1>1 DEF Stop, Gate, kvvars
  <2>2. QED
    BY <2>1 DEF StopsAtPc, Running
<1>2. CASE WriteStatus
  <2>1. /\ at = "mark" /\ status' = nstat /\ UNCHANGED <<pc, last>>
        /\ at' # "exit"
    BY <1>2 DEF WriteStatus, AfterNextPc
  <2>2. nstat = "paused"
    BY <2>1 DEF Live, IInv, TypeOK
  <2>3. next.d = cur.d /\ pc = next /\ cur.d = last /\ last \in Nat
    BY <2>1, <2>2 DEF IInv, MarkInv, TypeOK
  <2>4. QED
    BY <2>1, <2>3
<1>3. CASE WritePc \/ DropFrame \/ Advance
  <2>1. status' = status /\ at' # "exit" /\ Running
    BY <1>3 DEF WritePc, DropFrame, Advance, AfterNextPc, Running
  <2>2. status \in Live
    BY <1>3, <2>1 DEF WritePc, DropFrame, Advance, IInv, ExecInv, DropInv, HostInv, Unpaused,
       Running, Terminal
  <2>3. QED
    BY <2>1, <2>2
<1>4. CASE Fetch
  <2>1. Running /\ ~ TooDeep
    BY <1>4 DEF Fetch, Gate, Running, Live, Terminal
  <2>2. at' = "exec"
    BY <1>4, <2>1, ResolvedLib DEF Fetch
  <2>3. QED
    BY <2>2
<1>5. CASE Return \/ Overflow \/ NoLib \/ OpFails \/ CallFails \/ Done
  BY <1>5 DEF Return, Overflow, NoLib, OpFails, CallFails, Done, NextPc, Raise, SetError,
     Running, Terminal
<1>6. CASE Pause \/ Resume \/ UNCHANGED vars
  <2>1. UNCHANGED <<pc, at, last>> /\ (Running' => Running)
    BY <1>6 DEF Pause, Resume, vars, kvvars, procvars, Running, Live, Terminal
  <2>2. status' \in Live \/ status' = status
    BY <1>6 DEF Pause, Resume, vars, kvvars, Live
  <2>3. QED
    BY <2>1, <2>2 DEF StopsAtPc
<1>7. CASE \/ Start \/ Native \/ Jump \/ SetStatus \/ CallReuse \/ CallBuild
           \/ WriteReturnPc \/ WriteLib \/ BindArgs \/ Yield \/ HostGate \/ Dispatch
           \/ DispatchFails \/ Exit \/ Crash
  BY <1>7 DEF Start, Native, Jump, SetStatus, CallReuse, CallBuild, WriteReturnPc, WriteLib,
     BindArgs, Yield, HostGate, Dispatch, DispatchFails, Exit, Crash, NextPc, EndProcess,
     kvvars
<1>8. QED
  BY <1>1, <1>2, <1>3, <1>4, <1>5, <1>6, <1>7 DEF Next, Drive, Execute

(* Without a death of the process, every frame in the tree is accounted for. *)
LEMMA CleanAlways ==
  ASSUME Safe
  PROVE  Spec => []CleanInv
<1>1. ASSUME Init PROVE CleanInv
  <2>1. /\ pc.d = 1 /\ at = "idle" /\ status = "init"
        /\ \A k \in Depths : k # 1 => frame[k] = Absent
    BY <1>1 DEF Init, NoProcess, At
  <2>2. QED
    BY <2>1 DEF CleanInv, Tidy, Accounted, DoneTidy, HostCold, StopsAtPc
<1>2. ASSUME IInv, CleanInv, [Next]_vars PROVE CleanInv'
  <2>1. SUFFICES ASSUME crashes' = 0 PROVE (Tidy /\ DoneTidy /\ HostCold /\ StopsAtPc)'
    BY DEF CleanInv
  <2>2. crashes \in Nat
    BY <1>2, CodeAssumption DEF IInv, TypeOK
  <2>3. ~ Crash
    BY <2>1, <2>2 DEF Crash
  <2>4. crashes' = crashes
    BY <1>2, <2>3 DEF Next, Start, Drive, Execute, Stop, Overflow, NoLib, Fetch, Native, Jump,
       SetStatus, OpFails, CallReuse, CallBuild, WriteReturnPc, WriteLib, BindArgs, CallFails,
       Return, Done, DropFrame, WritePc, WriteStatus, Yield, HostGate, Dispatch,
       DispatchFails, Advance, Exit, Pause, Resume, Raise, vars
  <2>5. Tidy /\ DoneTidy /\ HostCold /\ StopsAtPc
    BY <1>2, <2>1, <2>4 DEF CleanInv
  <2>6. QED
    BY <1>2, <2>3, <2>5, TidyStep, DoneTidyStep, HostColdStep, StopsAtPcStep
<1>3. QED
  BY <1>1, <1>2, Invariant, PTL DEF Spec

(* handle_return and the cleanup behind it forget no frame: when the entry    *)
(* function has returned and no process has died on the way, none is left.    *)
THEOREM DoneAlwaysClean ==
  ASSUME Safe
  PROVE  Spec => []DoneIsClean
<1>1. ASSUME CleanInv PROVE DoneIsClean
  BY <1>1 DEF CleanInv, DoneTidy, DoneIsClean
<1>2. QED
  BY <1>1, CleanAlways, PTL
==============================================================================
