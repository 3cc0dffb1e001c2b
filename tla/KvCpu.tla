-------------------------------- MODULE KvCpu --------------------------------
(***************************************************************************)
(* One vthread and the process that drives it: the interpreter loop of     *)
(* runtime/src (kvlangKvcpuExecuteMode and the call, return, jump and      *)
(* status instructions it dispatches), the frames parked between calls,    *)
(* and the drive loop of byteseek that runs host instructions in between.  *)
(*                                                                         *)
(* All the vthread's state lives in a key-value tree that outlives the     *)
(* process; every write to it is a step of its own, and the process may    *)
(* die between two of them.  A debugger in another process writes ..status *)
(* at any moment.                                                          *)
(***************************************************************************)
EXTENDS Naturals, Sequences

CONSTANTS Funcs,       \* rwfuncs laid out under /lib
          Main,        \* the function the vthread was spawned with
          Code,        \* [Funcs -> sequence of instruction rows]
          Parkable,    \* functions with few enough parameters to be parked
          MaxDepth,    \* MAX_STACK_DEPTH
          Locals,      \* names of local variables
          None,        \* no function
          AsyncPause,  \* whether a debugger may write "paused" at any moment
          MaxCrashes   \* how many times the process may die

Ops      == {"native", "jump", "call", "dyncall", "return", "status", "host"}
Live     == {"init", "running", "wait"}   \* the states in which the loop goes on
Terminal == {"ok", "error"}
Statuses == Live \cup {"paused"} \cup Terminal
Calls    == {"call", "dyncall"}
ChainErrors == {"noLib", "noRow", "brokenReturn"}
Messages == {"none", "recursion", "failed"} \cup ChainErrors

Rows == [op : Ops, to : SUBSET Nat, fn : Funcs \cup {None},
         st : {"running", "wait", "paused"}, w : SUBSET Locals]

(* layout appends a return and resolves goto/br targets, so the successors of *)
(* a row are rows (Linear proves it of each function whose end is closed; one *)
(* that ends in an open named block is not such code).  It parks no function  *)
(* it does not know.                                                          *)
ASSUME CodeAssumption ==
  /\ MaxDepth \in Nat \ {0} /\ MaxCrashes \in Nat /\ AsyncPause \in BOOLEAN
  /\ Main \in Funcs /\ None \notin Funcs /\ Parkable \subseteq Funcs
  /\ Code \in [Funcs -> Seq(Rows)]
  /\ \A f \in Funcs :
       /\ Len(Code[f]) >= 1
       /\ \A i \in 1 .. Len(Code[f]) :
            /\ Code[f][i].op \in Ops \ {"jump", "return"} => i < Len(Code[f])
            /\ Code[f][i].op = "jump" => Code[f][i].to \subseteq 1 .. Len(Code[f])
            /\ Code[f][i].op \in Calls => Code[f][i].fn \in Funcs

Depths == 1 .. MaxDepth + 1

(* A pc names a frame by its depth and a row; Nowhere is an absent pc. *)
Pcs     == [d : Nat, i : Nat]
Nowhere == [d |-> 0, i |-> 0]
At(k, j)  == [d |-> k, i |-> j]
Behind(p) == At(p.d, p.i + 1)

(* A frame in the tree: ..lib, ..returnpc, the call site whose operands the *)
(* ..arg pointers lead to, and the locals that have a value.                *)
Frames == [lib : Funcs \cup {None}, ret : Pcs, site : Pcs, locals : SUBSET Locals]
Absent == [lib |-> None, ret |-> Nowhere, site |-> Nowhere, locals |-> {}]

(* What the process remembers of a frame it has parked (kvlangParkedFrame_t). *)
Parks == [f : Funcs \cup {None}, ret : Pcs, site : Pcs]
Cold  == [f |-> None, ret |-> Nowhere, site |-> Nowhere]

VARIABLES
  \* the key-value tree
  pc,      \* ..pc
  status,  \* ..status
  msg,     \* ..msg, by kind
  frame,   \* [Depths -> Frames], Absent where the tree has no such frame
  \* the process, lost when it exits or dies
  at,      \* where the driver is in the loop
  cur,     \* pc of the instruction it executes
  known,   \* the status read before that instruction, "unknown" if not passed on
  last,    \* last_depth: 0 until the first frame is entered
  ctx,     \* fctx: [Depths -> function of the frame context]
  park,    \* parked_frames: [Depths -> Parks]
  next,    \* the pc being written
  nstat,   \* the status to write behind it
  \* history
  crashes

kvvars   == <<pc, status, msg, frame>>
procvars == <<at, cur, known, last, ctx, park, next, nstat>>
vars     == <<kvvars, procvars, crashes>>

Phases == {"idle", "fetch", "exec", "retpc", "lib", "bind", "goto", "mark",
           "drop", "host", "dispatch", "advance", "exit"}

TypeOK ==
  /\ pc \in Pcs /\ status \in Statuses /\ msg \in Messages
  /\ frame \in [Depths -> Frames]
  /\ at \in Phases /\ cur \in Pcs /\ known \in Live \cup {"unknown"}
  /\ last \in 0 .. MaxDepth
  /\ ctx \in [Depths -> Funcs \cup {None}]
  /\ park \in [Depths -> Parks]
  /\ next \in Pcs /\ nstat \in {"running", "wait", "paused"}
  /\ crashes \in 0 .. MaxCrashes

(***************************************************************************)
(* Initial state: what spawn leaves behind, and no process yet             *)
(***************************************************************************)
Root == [Absent EXCEPT !.lib = Main]

NoProcess ==
  /\ at = "idle" /\ cur = Nowhere /\ known = "unknown" /\ last = 0
  /\ ctx = [k \in Depths |-> None] /\ park = [k \in Depths |-> Cold]
  /\ next = Nowhere /\ nstat = "running"

Init ==
  /\ pc = At(1, 1) /\ status = "init" /\ msg = "none"
  /\ frame = [k \in Depths |-> IF k = 1 THEN Root ELSE Absent]
  /\ NoProcess /\ crashes = 0

(* The process ends: everything it held in memory is gone. *)
EndProcess ==
  /\ at' = "idle" /\ cur' = Nowhere /\ known' = "unknown" /\ last' = 0
  /\ ctx' = [k \in Depths |-> None] /\ park' = [k \in Depths |-> Cold]
  /\ next' = Nowhere /\ nstat' = "running"

(***************************************************************************)
(* Parked frames                                                           *)
(***************************************************************************)
(* kvlangParkedFramesCleanupAbove: every warm entry deeper than m is       *)
(* forgotten and its frame deleted from the tree.  Whether the frame is on *)
(* the running call chain (pf->active) is not looked at.                   *)
CleanupAbove(m) ==
  /\ frame' = [k \in Depths |-> IF k > m /\ park[k].f # None THEN Absent ELSE frame[k]]
  /\ park'  = [k \in Depths |-> IF k > m THEN Cold ELSE park[k]]

IsWarm(k) == park[k].f # None

(***************************************************************************)
(* The head of the loop                                                    *)
(***************************************************************************)
(* A process is started on the vthread (`run <vid>`) or re-enters the loop *)
(* after host instructions: no frame has been entered yet.                 *)
Start ==
  /\ at = "idle" /\ status \in Live
  /\ at' = "fetch"
  /\ UNCHANGED <<kvvars, cur, known, last, ctx, park, next, nstat, crashes>>

(* kvlangVthreadSetError and the break that follows it. *)
SetError(p, kind) == pc' = p /\ msg' = kind /\ status' = "error"

Raise(p, kind) ==
  /\ SetError(p, kind)
  /\ at' = "exit"
  /\ UNCHANGED <<frame, cur, known, ctx, park, next, nstat, crashes>>

(* The status gate, passed before every instruction. *)
Bug_GateStopsAtEndOnly == status \notin Terminal
Gate == status \in Live

Stop ==
  /\ at = "fetch" /\ ~ Gate
  /\ at' = "exit"
  /\ UNCHANGED <<kvvars, cur, known, last, ctx, park, next, nstat, crashes>>

\* Plausible bugs in the definition below them, for the mutation runs: each is
\* named Bug_ and used by nothing else.
Bug_TooDeepOffByOne == pc.d > MaxDepth + 1
TooDeep == pc.d > MaxDepth

Overflow ==
  /\ at = "fetch" /\ Gate /\ TooDeep
  /\ Raise(pc, "recursion") /\ UNCHANGED last

(* switch_frame_ctx: the context of a frame entered before and not left, or *)
(* else the function the parked entry names, or else the frame's ..lib.     *)
Bug_ResolvedStaleContext ==
  IF ctx[pc.d] # None THEN ctx[pc.d]
  ELSE IF IsWarm(pc.d) THEN park[pc.d].f ELSE frame[pc.d].lib
Resolved ==
  IF pc.d <= last /\ ctx[pc.d] # None THEN ctx[pc.d]
  ELSE IF IsWarm(pc.d) THEN park[pc.d].f
  ELSE frame[pc.d].lib

HasRow(f, j) == j \in 1 .. Len(Code[f])

NoLib ==
  /\ at = "fetch" /\ Gate /\ ~ TooDeep /\ Resolved = None
  /\ Raise(pc, "noLib") /\ UNCHANGED last

(* Enter the frame and look the row up; a pc behind the code is an error. *)
Fetch ==
  /\ at = "fetch" /\ Gate /\ ~ TooDeep /\ Resolved # None
  /\ cur' = pc /\ known' = status
  /\ last' = pc.d /\ ctx' = [ctx EXCEPT ![pc.d] = Resolved]
  /\ IF HasRow(Resolved, pc.i)
     THEN at' = "exec" /\ UNCHANGED <<pc, status, msg>>
     ELSE at' = "exit" /\ SetError(pc, "noRow")
  /\ UNCHANGED <<frame, park, next, nstat, crashes>>

Row == Code[ctx[cur.d]][cur.i]

(***************************************************************************)
(* Instructions that stay in the frame                                     *)
(***************************************************************************)
(* kvlangVthreadNextPc(p, st) is called: ..pc first, ..status behind it. *)
NextPc(p, st) == at' = "goto" /\ next' = p /\ nstat' = st

Native ==
  /\ at = "exec" /\ Row.op = "native"
  /\ frame' = [frame EXCEPT ![cur.d].locals = @ \cup Row.w]
  /\ NextPc(Behind(cur), "running")
  /\ UNCHANGED <<pc, status, msg, cur, known, last, ctx, park, crashes>>

Jump ==
  /\ at = "exec" /\ Row.op = "jump"
  /\ \E j \in Row.to : NextPc(At(cur.d, j), "running")
  /\ UNCHANGED <<kvvars, cur, known, last, ctx, park, crashes>>

SetStatus ==
  /\ at = "exec" /\ Row.op = "status"
  /\ NextPc(Behind(cur), Row.st)
  /\ UNCHANGED <<kvvars, cur, known, last, ctx, park, crashes>>

(* Operands that cannot be read, a type error, a condition that is not a bool, *)
(* a call of a function that is not there.                                     *)
OpFails ==
  /\ at = "exec" /\ Row.op # "return"
  /\ Raise(cur, "failed") /\ UNCHANGED last

(***************************************************************************)
(* call and vthread.call (handle_call_buf)                                 *)
(***************************************************************************)
Callee    == Row.fn
CalleeD   == cur.d + 1
CanPark   == Callee \in Parkable /\ CalleeD <= MaxDepth
Bug_WarmHitAnyFunction == CanPark /\ IsWarm(CalleeD)
WarmHit   == CanPark /\ park[CalleeD].f = Callee
Bug_EntryParkOwnPc == [f |-> Callee, ret |-> cur, site |-> cur]
EntryPark == [f |-> Callee, ret |-> Behind(cur), site |-> cur]

(* vthread.call does not pass on the status it was run under (status_known). *)
StatusPassed == IF Row.op = "call" THEN known ELSE "unknown"

(* A parked frame of the callee is entered again as it is; otherwise the    *)
(* frame is built from nothing, after the entry parked there was destroyed. *)
CallReuse ==
  /\ at = "exec" /\ Row.op \in Calls /\ WarmHit
  /\ at' = "retpc" /\ known' = StatusPassed
  /\ UNCHANGED <<kvvars, cur, last, ctx, park, next, nstat, crashes>>

Wiped(k) == Absent   \* DeleteTree and MakeIndex of the frame

CallBuild ==
  /\ at = "exec" /\ Row.op \in Calls /\ ~ WarmHit
  /\ frame' = [frame EXCEPT ![CalleeD] = Wiped(CalleeD)]
  /\ park' = IF CanPark THEN [park EXCEPT ![CalleeD] = Cold] ELSE park
  /\ at' = "retpc" /\ known' = StatusPassed
  /\ UNCHANGED <<pc, status, msg, cur, last, ctx, next, nstat, crashes>>

WriteReturnPc ==
  /\ at = "retpc"
  /\ IF ~ WarmHit
     THEN /\ frame' = [frame EXCEPT ![CalleeD].ret = Behind(cur)]
          /\ at' = "lib" /\ UNCHANGED park
     ELSE /\ at' = "bind"
          /\ IF park[CalleeD].ret # Behind(cur)
             THEN /\ frame' = [frame EXCEPT ![CalleeD].ret = Behind(cur)]
                  /\ park'  = [park EXCEPT ![CalleeD].ret = Behind(cur)]
             ELSE UNCHANGED <<frame, park>>
  /\ UNCHANGED <<pc, status, msg, cur, known, last, ctx, next, nstat, crashes>>

WriteLib ==
  /\ at = "lib"
  /\ frame' = [frame EXCEPT ![CalleeD].lib = Callee]
  /\ at' = "bind"
  /\ UNCHANGED <<pc, status, msg, cur, known, last, ctx, park, next, nstat, crashes>>

(* A reused frame rewrites only the ..arg pointers whose target changed. *)
Bug_SiteKeptWhenWarm == IF WarmHit THEN frame[CalleeD].site ELSE cur
SiteToWrite == IF WarmHit /\ park[CalleeD].site = cur THEN frame[CalleeD].site ELSE cur

BindArgs ==
  /\ at = "bind"
  /\ frame' = [frame EXCEPT ![CalleeD].site = SiteToWrite]
  /\ park' = IF CanPark THEN [park EXCEPT ![CalleeD] = EntryPark] ELSE park
  /\ NextPc(At(CalleeD, 1), "running")
  /\ UNCHANGED <<pc, status, msg, cur, known, last, ctx, crashes>>

(* A missing or None argument: the error is recorded, then the frame goes. *)
Bug_ParkKept == park
ForgetPark == IF CanPark THEN [park EXCEPT ![CalleeD] = Cold] ELSE park

CallFails ==
  /\ at = "bind"
  /\ SetError(cur, "failed")
  /\ frame' = [frame EXCEPT ![CalleeD] = Absent]
  /\ park' = ForgetPark
  /\ at' = "exit"
  /\ UNCHANGED <<cur, known, last, ctx, next, nstat, crashes>>

(***************************************************************************)
(* return (handle_return, kvlangControlReturn)                             *)
(***************************************************************************)
ReturnTo == IF IsWarm(cur.d) /\ park[cur.d].ret # Nowhere
            THEN park[cur.d].ret ELSE frame[cur.d].ret

Return ==
  /\ at = "exec" /\ Row.op = "return" /\ cur.d > 1
  /\ IF ReturnTo # Nowhere
     THEN NextPc(ReturnTo, "running") /\ UNCHANGED <<pc, status, msg>>
     ELSE at' = "exit" /\ SetError(cur, "brokenReturn") /\ UNCHANGED <<next, nstat>>
  /\ UNCHANGED <<frame, cur, known, last, ctx, park, crashes>>

(* The entry function returns: kvlangVthreadSetDone writes ..status alone. *)
Done ==
  /\ at = "exec" /\ Row.op = "return" /\ cur.d = 1
  /\ status' = "ok" /\ at' = "drop"
  /\ UNCHANGED <<pc, msg, frame, cur, known, last, ctx, park, next, nstat, crashes>>

(* Behind the parent's pc: a parked frame stays for the next call, any other *)
(* is deleted; with the last frame every parked one goes.                    *)
Bug_DoomedParkedOnly ==
  IF cur.d = 1 THEN {k \in Depths : IsWarm(k)}
  ELSE IF IsWarm(cur.d) THEN {} ELSE {cur.d}
Doomed ==
  IF cur.d = 1 THEN {1} \cup {k \in Depths : IsWarm(k)}
  ELSE IF IsWarm(cur.d) THEN {} ELSE {cur.d}

DropFrame ==
  /\ at = "drop"
  /\ frame' = [k \in Depths |-> IF k \in Doomed THEN Absent ELSE frame[k]]
  /\ park'  = [k \in Depths |-> IF k \in Doomed THEN Cold ELSE park[k]]
  /\ at' = "fetch"
  /\ UNCHANGED <<pc, status, msg, cur, known, last, ctx, next, nstat, crashes>>

(***************************************************************************)
(* kvlangVthreadNextPc: two writes, the second only if the status changes  *)
(***************************************************************************)
(* A return still has its frame to clean up once the parent's pc is written. *)
Bug_AfterNextPcAlwaysDrops == IF next.d <= cur.d THEN "drop" ELSE "fetch"
AfterNextPc == IF next.d < cur.d THEN "drop" ELSE "fetch"

StatusToWrite == known # nstat

WritePc ==
  /\ at = "goto"
  /\ pc' = next
  /\ at' = IF StatusToWrite THEN "mark" ELSE AfterNextPc
  /\ UNCHANGED <<status, msg, frame, cur, known, last, ctx, park, next, nstat, crashes>>

WriteStatus ==
  /\ at = "mark"
  /\ status' = nstat
  /\ at' = AfterNextPc
  /\ UNCHANGED <<pc, msg, frame, cur, known, last, ctx, park, next, nstat, crashes>>

(***************************************************************************)
(* Host instructions: the loop yields, the drive loop runs them in batches *)
(***************************************************************************)
HostRowAt(p) == /\ frame[p.d].lib # None
                /\ HasRow(frame[p.d].lib, p.i)
                /\ Code[frame[p.d].lib][p.i].op = "host"

Bug_YieldDepthBelow == cur.d - 1
YieldDepth == cur.d

(* A def rwir instruction ends the loop with its pc; contexts are freed. *)
Yield ==
  /\ at = "exec" /\ Row.op = "host"
  /\ CleanupAbove(YieldDepth)
  /\ at' = "host" /\ last' = 0 /\ ctx' = [k \in Depths |-> None]
  /\ UNCHANGED <<pc, status, msg, cur, known, next, nstat, crashes>>

(* The drive loop looks at the status once per yield (st_before). *)
HostGate ==
  /\ at = "host"
  /\ IF Gate THEN /\ at' = "dispatch"
                  /\ UNCHANGED <<cur, known, last, ctx, park, next, nstat>>
             ELSE EndProcess
  /\ UNCHANGED <<kvvars, crashes>>

(* rwir::dispatch has run the instruction and written its result. *)
Dispatch ==
  /\ at = "dispatch"
  /\ frame' = [frame EXCEPT ![cur.d].locals =
                 @ \cup Code[frame[cur.d].lib][cur.i].w]
  /\ at' = "advance"
  /\ UNCHANGED <<pc, status, msg, cur, known, last, ctx, park, next, nstat, crashes>>

DispatchFails ==
  /\ at = "dispatch"
  /\ SetError(cur, "failed") /\ UNCHANGED frame
  /\ EndProcess /\ UNCHANGED crashes

(* The pc moves on, whatever ..status says by now, and so does the batch *)
(* while the next row is a host instruction too.                         *)
Advance ==
  /\ at = "advance"
  /\ pc' = Behind(cur) /\ cur' = Behind(cur)
  /\ at' = IF HostRowAt(Behind(cur)) THEN "dispatch" ELSE "fetch"
  /\ UNCHANGED <<status, msg, frame, known, last, ctx, park, next, nstat, crashes>>

(***************************************************************************)
(* The end of the loop, the death of the process, the debugger             *)
(***************************************************************************)
ExitDepth == IF last > 0 THEN last ELSE 1

(* CleanupAbove, then the loop returns and the process with it. *)
Exit ==
  /\ at = "exit"
  /\ frame' = [k \in Depths |-> IF k > ExitDepth /\ IsWarm(k) THEN Absent ELSE frame[k]]
  /\ EndProcess
  /\ UNCHANGED <<pc, status, msg, crashes>>

Crash ==
  /\ at # "idle" /\ crashes < MaxCrashes
  /\ crashes' = crashes + 1
  /\ EndProcess /\ UNCHANGED kvvars

Pause ==
  /\ AsyncPause /\ status \in Live
  /\ status' = "paused"
  /\ UNCHANGED <<pc, msg, frame, procvars, crashes>>

Resume ==
  /\ status = "paused"
  /\ status' = "running"
  /\ UNCHANGED <<pc, msg, frame, procvars, crashes>>

Execute ==
  \/ Native \/ Jump \/ SetStatus \/ OpFails
  \/ CallReuse \/ CallBuild \/ WriteReturnPc \/ WriteLib \/ BindArgs \/ CallFails
  \/ Return \/ Done \/ DropFrame
  \/ WritePc \/ WriteStatus

Drive ==
  \/ Stop \/ Overflow \/ NoLib \/ Fetch
  \/ Execute
  \/ Yield \/ HostGate \/ Dispatch \/ DispatchFails \/ Advance
  \/ Exit

Next == Start \/ Drive \/ Crash \/ Pause \/ Resume

Spec == Init /\ [][Next]_vars

(* Somebody runs the vthread whenever it may run, its process is scheduled, *)
(* and a debugger that has paused it resumes it.                            *)
Fairness == WF_vars(Start) /\ WF_vars(Drive) /\ WF_vars(Resume)
FairSpec == Spec /\ Fairness

(***************************************************************************)
(* Properties                                                              *)
(***************************************************************************)
Running == status \notin Terminal

Identity(fr) == <<fr.lib, fr.ret, fr.site>>

CallsAt(p, f) == /\ frame[p.d].lib # None
                 /\ HasRow(frame[p.d].lib, p.i)
                 /\ Code[frame[p.d].lib][p.i].op \in Calls
                 /\ Code[frame[p.d].lib][p.i].fn = f

(* Frame k is the root, or was called by the instruction before its return pc. *)
Linked(k) ==
  /\ frame[k].lib \in Funcs
  /\ k = 1 => frame[k].lib = Main
  /\ k > 1 => /\ frame[k].ret.d = k - 1 /\ frame[k].ret.i > 1
              /\ CallsAt(At(k - 1, frame[k].ret.i - 1), frame[k].lib)

(* Whenever the process stops, by itself or by dying, ..pc and the frames it *)
(* runs through are enough to go on: every frame up to the pc's is there,    *)
(* called by the frame below it, and the pc names one of its rows.           *)
ChainIntact ==
  Running => /\ pc.d \in Depths
             /\ \A k \in 1 .. pc.d : Linked(k)
             /\ HasRow(frame[pc.d].lib, pc.i)

(* A frame's arguments belong to the call that will be returned to: the two *)
(* are written by different steps and skipped on different conditions when  *)
(* a parked frame is reused.                                                *)
ArgsMatchCall ==
  Running => \A k \in 2 .. MaxDepth + 1 :
               k <= pc.d => frame[k].ret = Behind(frame[k].site)

(* An intact program never meets the errors that mean a damaged call chain. *)
NoChainError == msg \notin ChainErrors

(* Instructions are fetched from the function that the frame in the tree     *)
(* names, not from the one some cache remembers (spec, instruction loop, 3). *)
RunsFramesLib == at = "exec" => ctx[cur.d] = frame[cur.d].lib

(* What the process remembers of a parked frame is what the tree holds, so  *)
(* that skipping a write of an unchanged value changes nothing.             *)
ParkCoherent ==
  \A k \in Depths :
    /\ IsWarm(k) => /\ k \in 2 .. MaxDepth
                    /\ park[k].f = frame[k].lib
                    /\ park[k].ret = frame[k].ret
                    /\ park[k].site = frame[k].site

(* A vthread that ended well in processes that did not die leaves no frame. *)
DoneIsClean ==
  status = "ok" /\ at = "idle" /\ crashes = 0 => \A k \in Depths : frame[k] = Absent

(* An outside pause may cost a vthread a frame (PausedIsResumable), but what   *)
(* is driven on afterwards stops with an error: no instruction is executed    *)
(* on a chain with a frame missing or called from elsewhere.                  *)
RunsOnIntactChain == at = "exec" => \A k \in 1 .. cur.d : Linked(k)

(* No step damages a frame that is on the call chain before and after it. *)
LiveFramesKept ==
  [][\A k \in Depths : Running' /\ k <= pc.d /\ k <= pc'.d =>
       /\ Identity(frame'[k]) = Identity(frame[k])
       /\ frame[k].locals \subseteq frame'[k].locals]_vars

(* A vthread paused by its own code stays where it is until it is resumed. *)
PausedStaysPut == [][status = "paused" => UNCHANGED <<pc, msg>>]_vars

(* A paused vthread nobody drives can be driven on from where it stands. *)
PausedIsResumable == status = "paused" /\ at = "idle" => ChainIntact

(* Every program whose calls only go deeper comes to an end, through pauses, *)
(* crashes and restarts.                                                     *)
Halts == <>(status \in Terminal)

(***************************************************************************)
(* The call stack this implements                                          *)
(***************************************************************************)
AbsStack ==
  IF Running
  THEN [k \in 1 .. pc.d |-> [fn |-> frame[k].lib,
                             i  |-> IF k = pc.d THEN pc.i ELSE frame[k + 1].ret.i]]
  ELSE <<>>

AbsOutcome == IF Running THEN "live" ELSE status

Abs == INSTANCE CallStack WITH stack <- AbsStack, outcome <- AbsOutcome

(* Frames, parks, host batches, crashes, restarts and pauses all come down to *)
(* moves, calls and returns of one call stack.                                *)
ImplementsCallStack == Abs!Spec

(* The same with a debugger that pauses at any moment: only the cleanup of a   *)
(* loop that a pause ended before it entered the pc's frame may cost frames    *)
(* (PausedIsResumable), every other step of an intact chain is one of the call *)
(* stack's.                                                                    *)
OnlyCutShortDamages ==
  [][ChainIntact => \/ Abs!Next
                    \/ UNCHANGED <<AbsStack, AbsOutcome>>
                    \/ at = "exit" /\ pc.d > last /\ ~ ChainIntact']_vars
==============================================================================
