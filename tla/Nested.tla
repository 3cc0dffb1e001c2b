-------------------------------- MODULE Nested --------------------------------
(***************************************************************************)
(* Vthreads that create and run other vthreads.  vthread.create spawns one *)
(* and hands its vid out; vthread.run drives it in a nested loop of the    *)
(* same thread until it leaves the loop, and a host instruction the nested *)
(* loop meets bubbles through every level up to the drive loop, which runs *)
(* it, moves the pc of the vthread that owns it and enters again from the  *)
(* top.  All the loops of a thread share one table of parked frames, one   *)
(* entry per depth, whichever vthread the frame belongs to.                *)
(*                                                                         *)
(* KvCpu looks inside a call and a return; here each is one step.          *)
(***************************************************************************)
EXTENDS Naturals, Sequences, FiniteSets

CONSTANTS Funcs,      \* rwfuncs laid out under /lib
          Main,       \* the function vthread 1 was spawned with
          Code,       \* [Funcs -> sequence of instruction rows]
          MaxDepth,   \* MAX_STACK_DEPTH
          MaxVids,    \* bound on the vthreads ever created
          MaxCrashes, \* how many times the process may die
          None        \* no function

Ops      == {"native", "host", "call", "return", "create", "run", "status"}
Live     == {"init", "running"}
Statuses == Live \cup {"none", "paused", "ok", "error"}
Rows     == [op : Ops, fn : Funcs \cup {None}]

(* layout appends a return to every path. *)
ASSUME NestedAssumption ==
  /\ MaxDepth \in Nat \ {0} /\ MaxVids \in Nat \ {0} /\ MaxCrashes \in Nat
  /\ Main \in Funcs /\ None \notin Funcs
  /\ Code \in [Funcs -> Seq(Rows)]
  /\ \A f \in Funcs :
       /\ Len(Code[f]) >= 1
       /\ \A i \in 1 .. Len(Code[f]) :
            /\ Code[f][i].op # "return" => i < Len(Code[f])
            /\ Code[f][i].op \in {"call", "create"} => Code[f][i].fn \in Funcs

Vids   == 1 .. MaxVids
NoVid  == 0
Depths == 1 .. MaxDepth + 1

Pcs      == [d : Nat, i : Nat]
Nowhere  == [d |-> 0, i |-> 0]
At(k, j) == [d |-> k, i |-> j]

\* Plausible bugs in the definition below them, for the mutation runs: each is
\* named Bug_ and used by nothing else.
Bug_EntryPcIsSignature == At(1, 0)
EntryPc == At(1, 1)   \* [1,0]: row [0,0] is the signature

(* A frame in the tree: ..lib and the row its ..returnpc names (0: none). *)
Frames == [lib : Funcs \cup {None}, ret : Nat]
Absent == [lib |-> None, ret |-> 0]

(* What the thread remembers of the frame parked at a depth. *)
Parks == [vid : Vids \cup {NoVid}, f : Funcs \cup {None}, ret : Nat]
Cold  == [vid |-> NoVid, f |-> None, ret |-> 0]

(* One nested loop: the vthread, last_depth and fctx. *)
Loops == [vid : Vids, last : 0 .. MaxDepth, ctx : [Depths -> Funcs \cup {None}]]
Enter(v) == [vid |-> v, last |-> 0, ctx |-> [k \in Depths |-> None]]

VARIABLES
  \* the key-value tree
  seq,     \* /vthread/..seq
  pc,      \* [Vids -> ..pc], Nowhere where there is none
  status,  \* [Vids -> ..status]
  frame,   \* [Vids -> [Depths -> Frames]]
  kid,     \* [Vids -> the vid its code keeps from its last vthread.create]
  \* the process
  at,      \* where the thread is in the innermost loop, or in the drive loop
  driven,  \* the vthread the drive loop was started on
  loops,   \* the nested loops, the innermost last
  host,    \* owner and pc of the host instruction the drive loop is at
  park,    \* parked_frames: [Depths -> Parks]
  \* history
  crashes

kvvars   == <<seq, pc, status, frame, kid>>
procvars == <<at, driven, loops, host, park>>
vars     == <<kvvars, procvars, crashes>>

Hosts  == [vid : Vids \cup {NoVid}, p : Pcs]
NoHost == [vid |-> NoVid, p |-> Nowhere]

TypeOK ==
  /\ seq \in 0 .. MaxVids
  /\ pc \in [Vids -> [d : Depths, i : Nat \ {0}] \cup {Nowhere}]
  /\ status \in [Vids -> Statuses]
  /\ frame \in [Vids -> [Depths -> Frames]]
  /\ kid \in [Vids -> Vids \cup {NoVid}]
  /\ at \in {"idle", "loop", "exec", "boot", "init", "emit", "fail",
             "next", "ran", "host", "advance"}
  /\ driven \in Vids \cup {NoVid} /\ loops \in Seq(Loops) /\ Len(loops) <= MaxVids
  /\ host \in Hosts /\ park \in [Depths -> Parks]
  /\ crashes \in 0 .. MaxCrashes

NoProcess ==
  /\ at = "idle" /\ driven = NoVid /\ loops = <<>> /\ host = NoHost
  /\ park = [k \in Depths |-> Cold]

(* Vthread 1 has been spawned with Main; nothing drives it yet. *)
Init ==
  /\ seq = 1
  /\ pc = [v \in Vids |-> IF v = 1 THEN EntryPc ELSE Nowhere]
  /\ status = [v \in Vids |-> IF v = 1 THEN "init" ELSE "none"]
  /\ frame = [v \in Vids |-> [k \in Depths |->
                IF v = 1 /\ k = 1 THEN [Absent EXCEPT !.lib = Main] ELSE Absent]]
  /\ kid = [v \in Vids |-> NoVid]
  /\ NoProcess /\ crashes = 0

EndProcess ==
  /\ at' = "idle" /\ driven' = NoVid /\ loops' = <<>> /\ host' = NoHost
  /\ park' = [k \in Depths |-> Cold]

(***************************************************************************)
(* The innermost loop                                                      *)
(***************************************************************************)
Top == loops[Len(loops)]
Me  == Top.vid
Here == pc[Me]
Outer == SubSeq(loops, 1, Len(loops) - 1)

(* kvlangParkedFrameGet: an entry counts for its own vthread only. *)
Mine(k) == park[k].vid = Me

(* kvlangParkedFramesCleanupAbove, for one loop or for several at once. *)
Bug_ClearedAnyVid(S) == {k \in Depths : park[k].vid # NoVid /\ \E l \in S : k > l.m}
Cleared(S) == {k \in Depths : \E l \in S : park[k].vid = l.vid /\ k > l.m}
CleanupAbove(S) ==
  /\ frame' = [v \in Vids |-> [k \in Depths |->
                 IF k \in Cleared(S) /\ park[k].vid = v THEN Absent ELSE frame[v][k]]]
  /\ park' = [k \in Depths |-> IF k \in Cleared(S) THEN Cold ELSE park[k]]

AboveLast(l) == [vid |-> l.vid, m |-> IF l.last > 0 THEN l.last ELSE 1]

(* `run <vid>` of a vthread that has a pc, whoever created it. *)
Start(v) ==
  /\ at = "idle" /\ pc[v] # Nowhere /\ status[v] \in Live
  /\ at' = "loop" /\ driven' = v /\ loops' = << Enter(v) >>
  /\ UNCHANGED <<kvvars, host, park, crashes>>

(* switch_frame_ctx, as in KvCpu. *)
Resolved ==
  IF Here.d <= Top.last /\ Top.ctx[Here.d] # None THEN Top.ctx[Here.d]
  ELSE IF Mine(Here.d) THEN park[Here.d].f
  ELSE frame[Me][Here.d].lib

HasRow(f, j) == j \in 1 .. Len(Code[f])

Fetchable == Here.d <= MaxDepth /\ Resolved # None /\ HasRow(Resolved, Here.i)

Fetch ==
  /\ at = "loop" /\ status[Me] \in Live /\ Fetchable
  /\ loops' = Append(Outer, [Top EXCEPT !.last = Here.d, !.ctx[Here.d] = Resolved])
  /\ at' = "exec"
  /\ UNCHANGED <<kvvars, driven, host, park, crashes>>

Row == Code[Top.ctx[Here.d]][Here.i]
Exec(op) == at = "exec" /\ Row.op = op

(* kvlangBuiltinNextPc: ..pc, and ..status if it was not running. *)
NextPc(st) ==
  /\ pc' = [pc EXCEPT ![Me].i = @ + 1]
  /\ status' = [status EXCEPT ![Me] = st]
  /\ at' = "loop"

Native ==
  /\ Exec("native") /\ NextPc("running")
  /\ UNCHANGED <<seq, frame, kid, driven, loops, host, park, crashes>>

SetStatus ==
  /\ Exec("status") /\ NextPc("paused")
  /\ UNCHANGED <<seq, frame, kid, driven, loops, host, park, crashes>>

(***************************************************************************)
(* call and return                                                         *)
(***************************************************************************)
CalleeD == Here.d + 1
CanPark == CalleeD <= MaxDepth

Bug_WarmHitAnyVid == CanPark /\ park[CalleeD].f = Row.fn
WarmHit == CanPark /\ Mine(CalleeD) /\ park[CalleeD].f = Row.fn

(* A warm entry that does not fit goes, and with it the frame it stands for, *)
(* whichever vthread that belongs to and whether or not it is active.        *)
Evicted == IF CanPark /\ ~ WarmHit THEN {park[CalleeD].vid} ELSE {}

Call ==
  /\ Exec("call")
  /\ LET new == [lib |-> Row.fn, ret |-> Here.i + 1]
         old == [frame[Me][CalleeD] EXCEPT !.ret = Here.i + 1]
     IN frame' = [v \in Vids |-> [k \in Depths |->
          IF k # CalleeD THEN frame[v][k]
          ELSE IF v = Me THEN IF WarmHit THEN old ELSE new
          ELSE IF v \in Evicted THEN Absent ELSE frame[v][k]]]
  /\ park' = IF CanPark THEN [park EXCEPT ![CalleeD] =
                                [vid |-> Me, f |-> Row.fn, ret |-> Here.i + 1]]
                        ELSE park
  /\ pc' = [pc EXCEPT ![Me] = At(CalleeD, 1)]
  /\ status' = [status EXCEPT ![Me] = "running"]
  /\ at' = "loop"
  /\ UNCHANGED <<seq, kid, driven, loops, host, crashes>>

ReturnTo == IF Mine(Here.d) THEN park[Here.d].ret ELSE frame[Me][Here.d].ret

Return ==
  /\ Exec("return") /\ Here.d > 1 /\ ReturnTo # 0
  /\ pc' = [pc EXCEPT ![Me] = At(Here.d - 1, ReturnTo)]
  /\ status' = [status EXCEPT ![Me] = "running"]
  /\ frame' = IF Mine(Here.d) THEN frame ELSE [frame EXCEPT ![Me][Here.d] = Absent]
  /\ at' = "loop"
  /\ UNCHANGED <<seq, kid, driven, loops, host, park, crashes>>

(* The entry function returns: ..status, the parked frames, its own frame. *)
Done ==
  /\ Exec("return") /\ Here.d = 1
  /\ status' = [status EXCEPT ![Me] = "ok"]
  /\ frame' = [v \in Vids |-> [k \in Depths |->
                 IF (k \in Cleared({[vid |-> Me, m |-> 1]}) /\ park[k].vid = v) \/ (v = Me /\ k = 1)
                 THEN Absent ELSE frame[v][k]]]
  /\ park' = [k \in Depths |-> IF k \in Cleared({[vid |-> Me, m |-> 1]}) THEN Cold ELSE park[k]]
  /\ at' = "loop"
  /\ UNCHANGED <<seq, pc, kid, driven, loops, host, crashes>>

(***************************************************************************)
(* vthread.create (kvlangVthreadSpawn): the id, the first frame, ..pc and  *)
(* ..status, and the handle last                                           *)
(***************************************************************************)
Bug_NewVidByCount == 1 + Cardinality({v \in Vids : status[v] \in Live \cup {"paused"}})
NewVid == seq + 1

Create ==
  /\ Exec("create") /\ seq < MaxVids
  /\ seq' = NewVid /\ at' = "boot"
  /\ UNCHANGED <<pc, status, frame, kid, driven, loops, host, park, crashes>>

Bootstrap ==
  /\ at = "boot"
  /\ frame' = [frame EXCEPT ![seq][1] = [Absent EXCEPT !.lib = Row.fn]]
  /\ at' = "init"
  /\ UNCHANGED <<seq, pc, status, kid, driven, loops, host, park, crashes>>

(* A function that is not there: the new vthread ends in an error without *)
(* ever having a pc, and so does the instruction.                         *)
BootFails ==
  /\ at = "boot"
  /\ status' = [status EXCEPT ![seq] = "error"]
  /\ at' = "fail"
  /\ UNCHANGED <<seq, pc, frame, kid, driven, loops, host, park, crashes>>

SetInit ==
  /\ at = "init"
  /\ pc' = [pc EXCEPT ![seq] = EntryPc]
  /\ status' = [status EXCEPT ![seq] = "init"]
  /\ at' = "emit"
  /\ UNCHANGED <<seq, frame, kid, driven, loops, host, park, crashes>>

Emit ==
  /\ at = "emit"
  /\ kid' = [kid EXCEPT ![Me] = seq]
  /\ at' = "next"
  /\ UNCHANGED <<seq, pc, status, frame, driven, loops, host, park, crashes>>

(***************************************************************************)
(* vthread.run and the ends of a nested loop                               *)
(***************************************************************************)
(* The nested loop begins; the status of the vthread is for it to look at. *)
HasPc(w) == pc[w] # Nowhere

Run ==
  /\ Exec("run") /\ kid[Me] # NoVid
  /\ IF HasPc(kid[Me])
     THEN /\ loops' = Append(loops, Enter(kid[Me]))
          /\ at' = "loop" /\ UNCHANGED <<pc, status>>
     ELSE /\ NextPc("running") /\ UNCHANGED loops
  /\ UNCHANGED <<seq, frame, kid, driven, host, park, crashes>>

(* Where a loop ends, the loop around it goes on behind its vthread.run,  *)
(* whatever became of the vthread; around the outermost is the drive loop. *)
Pop ==
  /\ frame' = [v \in Vids |-> [k \in Depths |->
       IF k \in Cleared({AboveLast(Top)}) /\ park[k].vid = v THEN Absent ELSE frame[v][k]]]
  /\ IF Outer = <<>>
     THEN EndProcess
     ELSE /\ loops' = Outer /\ at' = "ran"
          /\ park' = [k \in Depths |->
               IF k \in Cleared({AboveLast(Top)}) THEN Cold ELSE park[k]]
          /\ UNCHANGED <<driven, host>>

Leave ==
  /\ at = "loop" /\ status[Me] \notin Live
  /\ Pop
  /\ UNCHANGED <<seq, pc, status, kid, crashes>>

(* A frame that is not there or a pc behind its code, too deep a stack; an  *)
(* operand, a function or a handle that will not do, a failed vthread.create. *)
Broken ==
  \/ at = "loop" /\ ~ Fetchable
  \/ Exec("return") /\ Here.d > 1 /\ ReturnTo = 0
  \/ Exec("run") /\ kid[Me] = NoVid
  \/ at = "exec" /\ Row.op \in {"native", "call"}
  \/ at = "fail"

Fails ==
  /\ Broken /\ status[Me] \in Live
  /\ status' = [status EXCEPT ![Me] = "error"]
  /\ Pop
  /\ UNCHANGED <<seq, pc, kid, crashes>>

(* Back in the loop around: behind vthread.create or vthread.run. *)
Bug_ContinueOnlyIfOk ==
  /\ at \in {"next", "ran"}
  /\ IF at = "next" \/ status[kid[Me]] = "ok" THEN NextPc("running")
     ELSE at' = "loop" /\ UNCHANGED <<pc, status>>
  /\ UNCHANGED <<seq, frame, kid, driven, loops, host, park, crashes>>
Continue ==
  /\ at \in {"next", "ran"} /\ NextPc("running")
  /\ UNCHANGED <<seq, frame, kid, driven, loops, host, park, crashes>>

(***************************************************************************)
(* Host instructions                                                       *)
(***************************************************************************)
(* Every level hands the pc up and leaves; none of them moves its own pc. *)
Bug_YieldMovesOuter ==
  [v \in Vids |-> IF \E n \in 1 .. Len(loops) - 1 : loops[n].vid = v
                  THEN [pc[v] EXCEPT !.i = @ + 1] ELSE pc[v]]
PcAtYield == pc

Yield ==
  /\ Exec("host")
  /\ CleanupAbove({AboveLast(loops[n]) : n \in 1 .. Len(loops)})
  /\ at' = "host" /\ loops' = <<>> /\ host' = [vid |-> Me, p |-> Here]
  /\ pc' = PcAtYield
  /\ UNCHANGED <<seq, status, kid, driven, crashes>>

(* rwir::dispatch has run the instruction; crash here and it runs again. *)
Dispatch ==
  /\ at = "host"
  /\ at' = "advance"
  /\ UNCHANGED <<kvvars, driven, loops, host, park, crashes>>

(* Its failure is the error of the vthread that owns it, and the end of the *)
(* drive loop.                                                              *)
DispatchFails ==
  /\ at = "host"
  /\ status' = [status EXCEPT ![host.vid] = "error"]
  /\ EndProcess
  /\ UNCHANGED <<seq, pc, frame, kid, crashes>>

HostRowAt(v, p) ==
  /\ frame[v][p.d].lib # None /\ HasRow(frame[v][p.d].lib, p.i)
  /\ Code[frame[v][p.d].lib][p.i].op = "host"

Bug_OwnerIsDriven == driven
Owner == host.vid

(* The owner's pc moves, the batch goes on while the next row is a host     *)
(* instruction too, and then the loop is entered again from the outermost.  *)
Advance ==
  /\ at = "advance"
  /\ LET p == At(host.p.d, host.p.i + 1)
     IN /\ pc' = [pc EXCEPT ![Owner] = p]
        /\ IF HostRowAt(host.vid, p)
           THEN at' = "host" /\ host' = [host EXCEPT !.p = p] /\ UNCHANGED loops
           ELSE at' = "loop" /\ host' = NoHost /\ loops' = << Enter(driven) >>
  /\ UNCHANGED <<seq, status, frame, kid, driven, park, crashes>>

(***************************************************************************)
(* The death of the process, and resuming                                  *)
(***************************************************************************)
Crash ==
  /\ at # "idle" /\ crashes < MaxCrashes
  /\ crashes' = crashes + 1
  /\ EndProcess /\ UNCHANGED kvvars

(* Somebody writes running over paused, at any moment. *)
Resume(v) ==
  /\ status[v] = "paused"
  /\ status' = [status EXCEPT ![v] = "running"]
  /\ UNCHANGED <<seq, pc, frame, kid, procvars, crashes>>

Drive ==
  \/ Fetch \/ Native \/ SetStatus \/ Call \/ Return \/ Done
  \/ Create \/ Bootstrap \/ BootFails \/ SetInit \/ Emit
  \/ Run \/ Leave \/ Fails \/ Continue
  \/ Yield \/ Dispatch \/ DispatchFails \/ Advance

Next == \/ \E v \in Vids : Start(v) \/ Resume(v)
        \/ Drive \/ Crash

Spec == Init /\ [][Next]_vars

(* Somebody runs vthread 1 whenever it may run, and its process is scheduled. *)
Fairness == WF_vars(Start(1)) /\ WF_vars(Drive)
FairSpec == Spec /\ Fairness

(***************************************************************************)
(* Properties                                                              *)
(***************************************************************************)
Unfinished(v) == pc[v] # Nowhere /\ status[v] \in Live \cup {"paused"}

CallsAt(v, p, f) == /\ HasRow(frame[v][p.d].lib, p.i)
                    /\ Code[frame[v][p.d].lib][p.i] = [op |-> "call", fn |-> f]

(* Whatever other vthreads do in the same thread, a vthread that may still  *)
(* run has every frame up to its pc's, each called by the one below it.     *)
ChainKept ==
  \A v \in Vids : Unfinished(v) =>
    /\ \A k \in 1 .. pc[v].d : frame[v][k].lib # None
    /\ \A k \in 2 .. pc[v].d : CallsAt(v, At(k - 1, frame[v][k].ret - 1), frame[v][k].lib)

(* The shared table never says of a vthread's frame what the tree does not. *)
ParkCoherent ==
  \A k \in Depths : park[k].vid # NoVid =>
    frame[park[k].vid][k] = [lib |-> park[k].f, ret |-> park[k].ret]

AtRun(v) == /\ Unfinished(v) /\ frame[v][pc[v].d].lib # None
            /\ HasRow(frame[v][pc[v].d].lib, pc[v].i)
            /\ Code[frame[v][pc[v].d].lib][pc[v].i].op = "run"

(* vthread.run blocks (rwir_vthread.c:26): the nested loop is left for the  *)
(* one around it only when the vthread it runs has ended or paused, and only *)
(* then does the pc pass vthread.run, host instructions, crashes and restarts *)
(* in between or not.                                                        *)
RunBlocks ==
  [][/\ at # "ran" /\ at' = "ran" => status'[Me] \notin Live
     /\ \A v \in Vids : AtRun(v) /\ kid[v] # NoVid /\ pc'[v] # pc[v] =>
          at = "ran" /\ Me = v]_vars

(* A vthread, once spawned, is nobody else's: no later spawn starts it anew. *)
SpawnedOnce ==
  [][\A v \in Vids : status'[v] = "init" /\ status[v] # "init" => status[v] = "none"]_vars

(***************************************************************************)
(* One call stack for each vthread                                         *)
(***************************************************************************)
AbsStack(v) ==
  IF Unfinished(v)
  THEN [k \in 1 .. pc[v].d |->
          [fn |-> frame[v][k].lib,
           i  |-> IF k = pc[v].d THEN pc[v].i ELSE frame[v][k + 1].ret]]
  ELSE <<>>

AbsOutcome(v) == IF Unfinished(v) THEN "live" ELSE status[v]

(* To the vthread itself, creating and running others is a native instruction. *)
AbsCode ==
  [f \in Funcs |-> [i \in 1 .. Len(Code[f]) |->
     IF Code[f][i].op \in {"create", "run"} THEN [Code[f][i] EXCEPT !.op = "native"]
     ELSE Code[f][i]]]

Stack(v) == INSTANCE CallStack
              WITH Code <- AbsCode, stack <- AbsStack(v), outcome <- AbsOutcome(v)

(* Every vthread is one call stack from the moment it has a pc: running     *)
(* inside another vthread's loop, sharing its parked frames, or being the   *)
(* one that runs others changes nothing.                                    *)
Spawned(v) == \E f \in Funcs : AbsStack(v) = << [fn |-> f, i |-> 1] >>

EachIsACallStack ==
  [][\A v \in Vids :
       \/ UNCHANGED <<AbsStack(v), AbsOutcome(v)>>
       \/ Stack(v)!Next
       \/ AbsOutcome(v) = "none" /\ (AbsOutcome(v)' = "error" \/ Spawned(v)')]_vars

(* Vthread 1 ends, whatever becomes of the ones it creates and runs. *)
Ends == <>(status[1] \in {"ok", "error"})
=============================================================================
