------------------------------ MODULE Delegate ------------------------------
(***************************************************************************)
(* One vthread whose instructions are executed by backends.  A backend     *)
(* registers the instructions it knows, a status and a heartbeat under     *)
(* /sys/rwir-backend/<name>.  The interpreter asks at every instruction    *)
(* that is not native whether a backend is on duty for it; if so it makes  *)
(* a task, clears the output slots, puts a command into the backend's      *)
(* queue and waits for the task's status to become "done".  A backend      *)
(* takes a command, writes the output slots itself and then the status.    *)
(*                                                                         *)
(* No program of the repository is a backend: what one does is taken from  *)
(* the executor of delegate_test.c.                                        *)
(***************************************************************************)
EXTENDS Naturals, Sequences

CONSTANTS Ops,           \* instructions that are not native
          Knows,         \* [Backends -> SUBSET Ops], the op keys of a backend
          Backends,
          Local,         \* those with a local rwfunc
          Routed,        \* those with a def rwir, handed over when no backend is on duty
          Slots,         \* what instructions write
          Code,          \* sequence of rows of one function
          MaxCrashes,    \* how often the interpreter's process may die
          None

Live  == {"init", "running", "wait"}
Ended == {"ok", "error"}

Rows == [op : Ops \cup {"end"}, outs : SUBSET Slots]

ASSUME DelegateAssumption ==
  /\ MaxCrashes \in Nat
  /\ Knows \in [Backends -> SUBSET Ops]
  /\ Local \subseteq Ops /\ Routed \subseteq Ops \ Local
  /\ "end" \notin Ops /\ Backends \cap Slots = {}
  /\ Code \in Seq(Rows)
  /\ \E n \in 1 .. Len(Code) :
       Code[n].op = "end" /\ \A m \in 1 .. n - 1 : Code[m].op # "end"

(* Loops are unrolled: the end is the first one. *)
Last == CHOOSE n \in 1 .. Len(Code) :
          Code[n].op = "end" /\ \A m \in 1 .. n - 1 : Code[m].op # "end"
Pcs  == 1 .. Last

(* A task id holds the process it comes from (pid and boot time) and a number. *)
Tasks  == (0 .. MaxCrashes) \X Pcs
NoTask == <<0, 0>>
Other  == <<1, 0>>   \* the writer of a value that came otherwise

ASSUME NoneAssumption == None \notin Tasks \cup {NoTask, Other} \cup Backends

VARIABLES
  \* the key-value tree
  pc, status,
  val,      \* [Slots -> who wrote the slot last, None when it is empty]
  duty,     \* [Backends -> "off", "on", "dead" or "stale"]
  cmd,      \* [Backends -> SUBSET Tasks], the command queues
  asked,    \* [Tasks -> the pc its command holds, 0 before there is a task]
  done,     \* the tasks whose status is "done"; that of the others is "pending"
  \* the interpreter's process
  at,       \* where it is
  left,     \* what the loop it is in has still to visit
  found,    \* backends found on duty
  backend, task,
  neg,      \* the negative cache
  seq,      \* task number
  \* the backends' processes
  job,      \* [Backends -> the task it executes]
  \* history
  steady,   \* backends on duty ever since the instruction was fetched
  crashes

tree == <<pc, status, val, duty, cmd, asked, done>>
proc == <<at, left, found, backend, task, neg, seq>>
vars == <<tree, proc, job, steady, crashes>>

Places == {"idle", "fetch", "scan", "other", "define", "select", "make", "clear",
           "push", "wait", "watch", "late", "check", "advance"}

TypeOK ==
  /\ pc \in Pcs /\ status \in Live \cup Ended
  /\ val \in [Slots -> Tasks \cup {None, Other}]
  /\ duty \in [Backends -> {"off", "on", "dead", "stale"}]
  /\ cmd \in [Backends -> SUBSET Tasks]
  /\ asked \in [Tasks -> Pcs \cup {0}] /\ done \in SUBSET Tasks
  /\ at \in Places
  /\ left \in SUBSET (Backends \cup Slots) /\ found \in SUBSET Backends
  /\ backend \in Backends \cup {None} /\ task \in Tasks \cup {NoTask}
  /\ neg \in SUBSET Ops /\ seq \in 0 .. Last
  /\ job \in [Backends -> Tasks \cup {NoTask}]
  /\ steady \in SUBSET Backends /\ crashes \in 0 .. MaxCrashes

NoProcess == /\ at = "idle" /\ left = {} /\ found = {} /\ backend = None
             /\ task = NoTask /\ neg = {} /\ seq = 0

Init ==
  /\ pc = 1 /\ status = "init" /\ val = [x \in Slots |-> None]
  /\ duty = [b \in Backends |-> "off"] /\ cmd = [b \in Backends |-> {}]
  /\ asked = [t \in Tasks |-> 0] /\ done = {}
  /\ NoProcess
  /\ job = [b \in Backends |-> NoTask]
  /\ steady = {} /\ crashes = 0

EndProcess == /\ at' = "idle" /\ left' = {} /\ found' = {} /\ backend' = None
              /\ task' = NoTask /\ neg' = {} /\ seq' = 0

Op == Code[pc].op

(* ready or busy, and the heartbeat not older than fifteen seconds: a process *)
(* that has died is on duty until its heartbeat is stale.                     *)
OnDuty(b) == duty[b] \in {"on", "dead"}

Goto(p) == at' = p /\ UNCHANGED <<backend, task, neg, seq>>

(* A look through the backends, one read after the other. *)
ScanAt(p) == Goto(p) /\ left' = Backends /\ found' = {}
EndScan   == left' = {} /\ found' = {}

Enabled(b) == Op \in Knows[b] /\ OnDuty(b)

Look(b) ==
  /\ at \in {"scan", "define", "select"} /\ b \in left
  /\ at = "define" => Op \in Local
  /\ left' = left \ {b}
  /\ found' = IF Enabled(b) THEN found \cup {b} ELSE found
  /\ UNCHANGED <<tree, at, backend, task, neg, seq, job, steady, crashes>>

(***************************************************************************)
(* The interpreter                                                         *)
(***************************************************************************)
(* `run <vid>` *)
Start ==
  /\ at = "idle" /\ status \in Live
  /\ at' = "fetch"
  /\ UNCHANGED <<tree, left, found, backend, task, neg, seq, job, steady, crashes>>

End ==
  /\ at = "fetch" /\ Op = "end"
  /\ status' = "ok"
  /\ EndProcess
  /\ UNCHANGED <<pc, val, duty, cmd, asked, done, job, steady, crashes>>

\* Plausible bugs in the definition below them, for the mutation runs: each is
\* named Bug_ and used by nothing else.
Bug_NegativeAnyOp == neg # {}
NegativeHit == Op \in neg

(* kvlangDispatchIsDelegatedOp.  An instruction known not to be delegated is *)
(* not looked up: history claims nothing for it.                             *)
Route ==
  /\ at = "fetch" /\ Op \in Ops
  /\ IF NegativeHit
       THEN Goto("other") /\ EndScan
       ELSE ScanAt("scan")
  /\ steady' = IF Op \in neg THEN {} ELSE {b \in Backends : Enabled(b)}
  /\ UNCHANGED <<tree, job, crashes>>

IsDelegated ==
  /\ at = "scan" /\ left = {}
  /\ IF found = {}
       THEN at' = "other" /\ neg' = neg \cup {Op} /\ EndScan
       ELSE at' = "define" /\ UNCHANGED neg /\ left' = Backends /\ found' = {}
  /\ UNCHANGED <<tree, backend, task, seq, job, steady, crashes>>

(* 250 ms *)
NegativeExpires(op) ==
  /\ op \in neg
  /\ neg' = neg \ {op}
  /\ UNCHANGED <<tree, at, left, found, backend, task, seq, job, steady, crashes>>

Write(v) == val' = [x \in Slots |-> IF x \in Code[pc].outs THEN v ELSE val[x]]

(* A local function or the runtime a def rwir is handed to, in one step: KvCpu *)
(* and Handoff have the single ones.                                           *)
RunOther ==
  /\ at = "other" /\ Op \in Local \cup Routed
  /\ pc' = pc + 1 /\ status' = "running" /\ Write(Other)
  /\ Goto("fetch") /\ EndScan
  /\ UNCHANGED <<duty, cmd, asked, done, job, steady, crashes>>

(* fail_message: kvlangVthreadSetError, and the interpreter returns. *)
FailHere ==
  /\ status' = "error"
  /\ EndProcess
  /\ UNCHANGED <<pc, val, duty, cmd, asked, done, job, steady, crashes>>

Undefined == at = "other" /\ Op \notin Local \cup Routed /\ FailHere

(* kvlangDispatchDelegate: an opcode with a local function has one definition. *)
LocalAfterAll ==
  /\ at = "define" /\ left = {} /\ Op \in Local /\ found = {}
  /\ Goto("other") /\ EndScan
  /\ UNCHANGED <<tree, job, steady, crashes>>

TwoDefinitions == at = "define" /\ left = {} /\ Op \in Local /\ found # {} /\ FailHere

(* No local function, so there was nothing to look for. *)
OneDefinition ==
  /\ at = "define" /\ Op \notin Local /\ left = Backends
  /\ ScanAt("select")
  /\ UNCHANGED <<tree, job, steady, crashes>>

(* Arity against the declaration, keys that may not be written. *)
Rejected == at = "select" /\ left = Backends /\ FailHere

NobodyOnDuty == at = "select" /\ left = {} /\ found = {} /\ FailHere

(* select_backend takes the one with the least load. *)
Select(b) ==
  /\ at = "select" /\ left = {} /\ b \in found
  /\ at' = "make" /\ backend' = b /\ EndScan
  /\ UNCHANGED <<tree, task, neg, seq, job, steady, crashes>>

Bug_TaskIdFromZero == <<crashes, seq>>
Bug_TaskIdPerProcess == <<0, seq + 1>>
TaskId == <<crashes, seq + 1>>

Bug_NothingToClear == {}
ToClear == Code[pc].outs

(* The task's status becomes "pending". *)
Make ==
  /\ at = "make"
  /\ task' = TaskId /\ seq' = seq + 1
  /\ asked' = [asked EXCEPT ![TaskId] = pc] /\ done' = done \ {TaskId}
  /\ at' = "clear" /\ left' = ToClear
  /\ UNCHANGED <<pc, status, val, duty, cmd, found, backend, neg, job, steady, crashes>>

Clear(x) ==
  /\ at = "clear" /\ x \in left
  /\ val' = [val EXCEPT ![x] = None] /\ left' = left \ {x}
  /\ UNCHANGED <<pc, status, duty, cmd, asked, done, at, found, backend, task, neg,
                 seq, job, steady, crashes>>

Push ==
  /\ at = "clear" /\ left = {}
  /\ cmd' = [cmd EXCEPT ![backend] = @ \cup {task}]
  /\ Goto("wait")
  /\ UNCHANGED <<pc, status, val, duty, asked, done, left, found, job, steady, crashes>>

Wait ==
  /\ at = "wait"
  /\ status' = "wait"
  /\ Goto("watch")
  /\ UNCHANGED <<pc, val, duty, cmd, asked, done, left, found, job, steady, crashes>>

CheckOutputs == Goto("check") /\ left' = Code[pc].outs /\ UNCHANGED found

Answered ==
  /\ at = "watch" /\ task \in done
  /\ CheckOutputs
  /\ UNCHANGED <<tree, job, steady, crashes>>

(* The clock of the watch; the status is read once more. *)
Bug_NoClock == FALSE
Clock == task \notin done

TimedOut ==
  /\ at = "watch" /\ Clock
  /\ Goto("late")
  /\ UNCHANGED <<tree, left, found, job, steady, crashes>>

Bug_DoneAnyway == TRUE
Done == task \in done

AnsweredLate ==
  /\ at = "late" /\ Done
  /\ CheckOutputs
  /\ UNCHANGED <<tree, job, steady, crashes>>

(* The command stays where it is. *)
GiveUp == at = "late" /\ ~ Done /\ FailHere

Filled(x) == val[x] # None

Check(x) ==
  /\ at = "check" /\ x \in left /\ Filled(x)
  /\ left' = left \ {x}
  /\ UNCHANGED <<tree, at, found, backend, task, neg, seq, job, steady, crashes>>

Unwritten == at = "check" /\ (\E x \in left : ~ Filled(x)) /\ FailHere

Advance ==
  /\ at = "check" /\ left = {}
  /\ pc' = pc + 1 /\ status' = "running"
  /\ at' = "fetch" /\ backend' = None /\ task' = NoTask
  /\ UNCHANGED <<val, duty, cmd, asked, done, left, found, neg, seq, job, steady, crashes>>

Crash ==
  /\ at # "idle" /\ crashes < MaxCrashes
  /\ crashes' = crashes + 1
  /\ EndProcess
  /\ UNCHANGED <<tree, job, steady>>

(***************************************************************************)
(* The backends                                                            *)
(***************************************************************************)
Become(b, s) ==
  /\ duty' = [duty EXCEPT ![b] = s]
  /\ steady' = IF s \in {"on", "dead"} THEN steady ELSE steady \ {b}
  /\ UNCHANGED <<pc, status, val, cmd, asked, done, proc, crashes>>

Arrive(b) == duty[b] # "on" /\ Become(b, "on") /\ UNCHANGED job

(* Going off duty, a backend finishes what it does. *)
Leave(b) == duty[b] = "on" /\ Become(b, "off") /\ UNCHANGED job

Die(b)      == duty[b] = "on" /\ Become(b, "dead") /\ job' = [job EXCEPT ![b] = NoTask]
GetStale(b) == duty[b] = "dead" /\ Become(b, "stale") /\ UNCHANGED job

Take(b) ==
  /\ duty[b] = "on" /\ job[b] = NoTask
  /\ \E t \in cmd[b] : /\ job' = [job EXCEPT ![b] = t]
                       /\ cmd' = [cmd EXCEPT ![b] = @ \ {t}]
  /\ UNCHANGED <<pc, status, val, duty, asked, done, proc, steady, crashes>>

Output(b, x) ==
  /\ job[b] # NoTask /\ x \in Code[asked[job[b]]].outs
  /\ val' = [val EXCEPT ![x] = job[b]]
  /\ UNCHANGED <<pc, status, duty, cmd, asked, done, proc, job, steady, crashes>>

(* Also without the outputs. *)
Finish(b) ==
  /\ job[b] # NoTask
  /\ done' = done \cup {job[b]}
  /\ job' = [job EXCEPT ![b] = NoTask]
  /\ UNCHANGED <<pc, status, val, duty, cmd, asked, proc, steady, crashes>>

(* An execution that fails, of which nobody is told. *)
Abandon(b) ==
  /\ job[b] # NoTask
  /\ job' = [job EXCEPT ![b] = NoTask]
  /\ UNCHANGED <<tree, proc, steady, crashes>>

Serve(b) == \/ Arrive(b) \/ Leave(b) \/ Die(b) \/ GetStale(b)
            \/ Take(b) \/ Finish(b) \/ Abandon(b) \/ \E x \in Slots : Output(b, x)

Drive ==
  \/ End \/ Route \/ IsDelegated \/ RunOther \/ Undefined
  \/ LocalAfterAll \/ TwoDefinitions \/ OneDefinition \/ NobodyOnDuty \/ Make \/ Push \/ Wait
  \/ Answered \/ AnsweredLate \/ GiveUp \/ Unwritten \/ Advance
  \/ \E b \in Backends : Look(b) \/ Select(b)
  \/ \E x \in Slots : Clear(x) \/ Check(x)

Next ==
  \/ Start \/ Drive \/ Rejected \/ TimedOut \/ Crash
  \/ \E op \in Ops : NegativeExpires(op)
  \/ \E b \in Backends : Serve(b)

Spec == Init /\ [][Next]_vars

(* The process is scheduled and started again, and the clock runs; nothing is *)
(* asked of the backends.                                                     *)
Fairness == WF_vars(Start) /\ WF_vars(Drive) /\ WF_vars(TimedOut)
FairSpec == Spec /\ Fairness

(***************************************************************************)
(* Properties                                                              *)
(***************************************************************************)
Orphan(t) == t[1] < crashes   \* its interpreter is dead

(* The process never makes a task that exists already (it would abort): not  *)
(* after any number of restarts.                                             *)
NoCollision == at = "make" => asked[TaskId] = 0

(* While the vthread is alive, the only tasks queued or being executed are the *)
(* one the interpreter waits for and those of a process that died: a late      *)
(* answer writes into no instruction but its own.                              *)
NothingRunsBehind ==
  status \in Live =>
    \A b \in Backends : \A t \in cmd[b] \cup ({job[b]} \ {NoTask}) :
      Orphan(t) \/ (t = task /\ at \in {"wait", "watch", "late"})

(* An instruction is left to the local function or to another runtime, or     *)
(* fails for want of a backend, only if no backend was on duty for it all the *)
(* time since it was fetched, unless the negative cache says so.              *)
RoutedByDuty ==
  at = "other" \/ (at = "select" /\ left = {} /\ found = {}) => steady = {}

(* A delegated instruction is passed only when its task is done and each of   *)
(* its outputs was written by that task, or by one of a process that died.    *)
OwnResult ==
  [][at = "check" /\ pc' # pc =>
       /\ task \in done
       /\ \A x \in Code[pc].outs :
            val[x] = task \/ (val[x] \in Tasks /\ Orphan(val[x]))]_vars

(* Whatever the backends do, every instruction is passed or fails. *)
Ends == \A p \in Pcs : (pc = p /\ status \in Live) ~> (pc # p \/ status \in Ended)
==============================================================================
