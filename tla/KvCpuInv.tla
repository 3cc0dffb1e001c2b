------------------------------- MODULE KvCpuInv -------------------------------
(***************************************************************************)
(* The inductive invariant behind the safety properties of KvCpu, which    *)
(* KvCpuProofs proves for every program.                                   *)
(***************************************************************************)
EXTENDS KvCpu

(* Where the interpreter keeps its promises: no function, or every function *)
(* with nobody pausing from outside, is parked between calls.  The runs     *)
(* KvCpu_pause_resume and KvCpu_wide_callee show what happens elsewhere.    *)
Safe == \/ Parkable = {}
        \/ Parkable = Funcs /\ ~ AsyncPause

(* With an outside debugger too: all functions are parked between calls, or none. *)
Uniform == Parkable = {} \/ Parkable = Funcs

(* Without a debugger the status is live from the gate to the next pc. *)
Unpaused == AsyncPause \/ status \in Live

(* The call chain, with the argument pointers it passes along. *)
LinkedUp(k) == Linked(k) /\ (k > 1 => frame[k].ret = Behind(frame[k].site))

StackInv == Running => /\ pc.d \in Depths
                       /\ \A k \in 1 .. pc.d : LinkedUp(k)
                       /\ HasRow(frame[pc.d].lib, pc.i)

ParkInv == ParkCoherent /\ \A k \in Depths : IsWarm(k) => park[k].f \in Parkable

(* A frame context that may be reused is one of a frame on the chain. *)
CtxInv == /\ Running => \A k \in Depths :
                          k <= last /\ k <= pc.d /\ ctx[k] # None => ctx[k] = frame[k].lib
          /\ last = 0 => \A k \in Depths : ctx[k] = None

IdleInv == at = "idle" => /\ last = 0 /\ ctx = [k \in Depths |-> None]
                          /\ park = [k \in Depths |-> Cold]

FetchInv == at = "fetch" /\ Running =>
              /\ last = 0 \/ pc.d <= last + 1
              /\ AsyncPause \/ status \in Live \/ pc.d <= last

(* From the fetch of an instruction to the write of the next pc. *)
ExecInv == at \in {"exec", "retpc", "lib", "bind", "goto"} =>
             /\ Running /\ Unpaused
             /\ pc = cur /\ cur.d = last
             /\ ctx[cur.d] = frame[cur.d].lib

(* While a call prepares the callee's frame. *)
CallInv == at \in {"retpc", "lib", "bind"} =>
             /\ Row.op \in Calls
             /\ park[CalleeD].f \in {None, Callee}
             /\ at \in {"lib", "bind"} => frame[CalleeD].ret = Behind(cur)
             /\ at = "lib" => park[CalleeD].f = None
             /\ at = "bind" => frame[CalleeD].lib = Callee

(* The pc about to be written: in this function, its callee, or its caller. *)
GotoInv == at = "goto" =>
             \/ next.d = cur.d /\ HasRow(frame[cur.d].lib, next.i)
             \/ next = At(cur.d + 1, 1) /\ LinkedUp(cur.d + 1) /\ nstat # "paused"
             \/ cur.d > 1 /\ next = frame[cur.d].ret /\ nstat # "paused"

MarkInv == at = "mark" => /\ Running /\ Unpaused
                          /\ pc = next /\ cur.d = last /\ cur.d >= 1
                          /\ next.d <= cur.d + 1
                          /\ nstat = "paused" => next.d = cur.d

DropInv == at = "drop" => /\ cur.d = last /\ cur.d >= 1
                          /\ \/ status = "ok"
                             \/ Running /\ Unpaused /\ pc.d < cur.d

HostInv == at \in {"host", "dispatch", "advance"} =>
             /\ Running /\ Unpaused
             /\ pc = cur /\ last = 0 /\ cur.d <= MaxDepth
             /\ Code[frame[cur.d].lib][cur.i].op = "host"

ExitInv == at = "exit" /\ Running /\ ~ AsyncPause => pc.d <= last

(* All of it holds whenever the vthread is anywhere. *)
IInv == /\ TypeOK /\ NoChainError
        /\ StackInv /\ ParkInv /\ CtxInv
        /\ IdleInv /\ FetchInv /\ ExecInv /\ CallInv /\ GotoInv /\ MarkInv
        /\ DropInv /\ HostInv /\ ExitInv

(***************************************************************************)
(* More that holds on top of IInv                                          *)
(***************************************************************************)
(* Which instruction has chosen the pc that is about to be written. *)
GoalInv == at = "goto" =>
  \/ Row.op \in {"native", "status"} /\ next = Behind(cur)
  \/ Row.op = "jump" /\ \E j \in Row.to : next = At(cur.d, j)
  \/ /\ Row.op \in Calls /\ next = At(cur.d + 1, 1)
     /\ frame[cur.d + 1].lib = Row.fn /\ frame[cur.d + 1].ret = Behind(cur)
  \/ Row.op = "return" /\ cur.d > 1 /\ next = frame[cur.d].ret

(* Why a frame that is there is there: it is on the call chain, parked, being *)
(* built for a call, or about to be dropped behind a return.                  *)
Accounted(k) ==
  \/ k <= pc.d \/ IsWarm(k)
  \/ (at \in {"retpc", "lib", "bind"} /\ k = CalleeD)
  \/ (at = "goto" /\ k = next.d)
  \/ (at \in {"mark", "drop"} /\ k = cur.d)

Tidy == Running => \A k \in Depths : frame[k] = Absent \/ Accounted(k)

DoneTidy == status = "ok" =>
  /\ at \in {"drop", "fetch", "exit", "idle"}
  /\ at = "drop" => /\ cur.d = 1
                    /\ \A k \in Depths : frame[k] = Absent \/ k = 1 \/ IsWarm(k)
  /\ at # "drop" => \A k \in Depths : frame[k] = Absent

(* A yield has left nothing parked above the frame. *)
HostCold == at \in {"host", "dispatch", "advance"} =>
              \A k \in Depths : k > cur.d => ~ IsWarm(k)

(* A loop that its own vthread has paused ends in the frame at the pc. *)
StopsAtPc == ~ AsyncPause /\ Running =>
  /\ at = "fetch" /\ status \notin Live => last <= pc.d
  /\ at = "exit" => last <= pc.d

(* As long as no process has died, nothing is left behind. *)
CleanInv == crashes = 0 => Tidy /\ DoneTidy /\ HostCold /\ StopsAtPc

(* Where every function is parked, the frames that this process has pushed   *)
(* are the upper part of the chain, and all of them are warm.                *)
WarmInv == Parkable = Funcs =>
  /\ Running => \A j, k \in Depths : j < k /\ k <= pc.d /\ IsWarm(j) =>
                  IsWarm(k) \/ (k = MaxDepth + 1 /\ last = MaxDepth)
  /\ at = "goto" /\ next.d = cur.d + 1 => IsWarm(next.d) \/ cur.d = MaxDepth

(* What a cleanup that an outside pause has brought forward leaves: the pc's *)
(* frame is gone, and no process is going to enter it.                       *)
CutInv == /\ TypeOK /\ at \in {"idle", "fetch", "exit"}
          /\ last = 0 /\ ctx = [k \in Depths |-> None] /\ park = [k \in Depths |-> Cold]
          /\ Running => pc.d \in 2 .. MaxDepth /\ frame[pc.d] = Absent

UInv == (IInv \/ CutInv) /\ WarmInv /\ GoalInv
==============================================================================
