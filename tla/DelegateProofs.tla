---------------------------- MODULE DelegateProofs ----------------------------
(***************************************************************************)
(* What holds of delegated instructions for every set of backends, every   *)
(* function and any number of restarts: where a task can be, and who may   *)
(* have written the slots of the instruction it is for.                    *)
(***************************************************************************)
EXTENDS Delegate, TLAPS

Before == {"fetch", "scan", "other", "define", "select", "make"}
Behind == {"clear", "wait", "watch", "late", "check"}

(* The process works while the vthread is alive, on an instruction that is *)
(* not the end.                                                            *)
AtWork ==
  /\ at # "idle" => status \in Live
  /\ at \notin {"idle", "fetch"} => Op \in Ops

(* A process makes at most one task per instruction, so that its numbers stay *)
(* below ..pc, and every task there is was numbered by it or by a dead one.    *)
Numbers ==
  /\ at = "idle" => seq = 0
  /\ at \in Before => seq < pc
  /\ at \in Behind => seq \in 1 .. pc /\ task = <<crashes, seq>>
  /\ status \in Live =>
       \A t \in Tasks : asked[t] # 0 => Orphan(t) \/ (t[1] = crashes /\ t[2] <= seq)

(* A task is in one queue, with one backend, or done. *)
OnePlace ==
  \A b, c \in Backends : \A t \in Tasks :
    /\ t \in cmd[b] /\ t \in cmd[c] => b = c
    /\ job[b] = t /\ job[c] = t => b = c
    /\ ~ (t \in cmd[b] /\ job[c] = t)
    /\ t \in done => t \notin cmd[b] /\ job[b] # t

(* It exists, and the one being made is nowhere yet. *)
Held ==
  /\ \A t \in Tasks : t \in done => asked[t] # 0
  /\ \A b \in Backends : \A t \in Tasks : t \in cmd[b] \/ job[b] = t => asked[t] # 0
  /\ at = "clear" => /\ asked[task] # 0 /\ task \notin done
                     /\ \A b \in Backends : task \notin cmd[b] /\ job[b] # task

(* Who may have written an output since it was cleared. *)
Owned(x) == val[x] \in {None, task} \/ (val[x] \in Tasks /\ Orphan(val[x]))

Results ==
  /\ at = "clear" => \A x \in Code[pc].outs : x \in left \/ Owned(x)
  /\ at \in Behind \ {"clear"} => \A x \in Code[pc].outs : Owned(x)
  /\ at = "check" => /\ task \in done
                     /\ \A x \in Code[pc].outs : x \in left \/ val[x] # None

(* A backend on duty all the time is found by every look that is over. *)
Steady ==
  /\ at \in {"scan", "other", "define", "select"} => \A b \in steady : Enabled(b)
  /\ at \in {"scan", "define", "select"} => steady \subseteq found \cup left
  /\ at = "other" => steady = {}

IInv == TypeOK /\ AtWork /\ Numbers /\ OnePlace /\ Held /\ NothingRunsBehind /\ Results /\ Steady

(***************************************************************************)
(* The constants                                                           *)
(***************************************************************************)
(* The function ends with its first end, and has instructions up to there. *)
LEMMA CodeFacts ==
  /\ Last \in Nat \ {0} /\ Last <= Len(Code) /\ Len(Code) \in Nat
  /\ Pcs = 1 .. Last
  /\ \A p \in Pcs : Code[p] \in Rows /\ Code[p].outs \subseteq Slots
                    /\ (Code[p].op \in Ops => p + 1 \in Pcs)
<1>1. \E n \in 1 .. Len(Code) :
        Code[n].op = "end" /\ \A m \in 1 .. n - 1 : Code[m].op # "end"
  BY DelegateAssumption
<1>2. Last \in 1 .. Len(Code) /\ Code[Last].op = "end"
  BY <1>1 DEF Last
<1>3. Len(Code) \in Nat /\ \A p \in 1 .. Len(Code) : Code[p] \in Rows
  BY DelegateAssumption
<1>4. "end" \notin Ops BY DelegateAssumption
<1>5. QED BY <1>2, <1>3, <1>4 DEF Pcs, Rows

LEMMA TaskFacts ==
  /\ NoTask \notin Tasks /\ None \notin Tasks
  /\ \A t \in Tasks : t[1] \in 0 .. MaxCrashes /\ t[2] \in Pcs
  /\ \A c \in 0 .. MaxCrashes : \A n \in Pcs :
       <<c, n>> \in Tasks /\ <<c, n>>[1] = c /\ <<c, n>>[2] = n
<1>1. 0 \notin Pcs BY CodeFacts
<1>2. QED BY <1>1, NoneAssumption DEF NoTask, Tasks

LEMMA InitInv == Init => IInv
<1> SUFFICES ASSUME Init PROVE IInv OBVIOUS
<1>1. TypeOK
  <2>1. 1 \in Pcs /\ 0 \in 0 .. Last BY CodeFacts
  <2>2. 0 \in 0 .. MaxCrashes BY DelegateAssumption
  <2>3. /\ val \in [Slots -> Tasks \cup {None, Other}]
        /\ duty \in [Backends -> {"off", "on", "dead", "stale"}]
        /\ cmd \in [Backends -> SUBSET Tasks]
        /\ asked \in [Tasks -> Pcs \cup {0}]
        /\ job \in [Backends -> Tasks \cup {NoTask}]
    BY DEF Init
  <2>4. QED BY <2>1, <2>2, <2>3 DEF Init, TypeOK, NoProcess, Live, Places
<1>2. AtWork /\ Numbers BY DEF Init, NoProcess, AtWork, Numbers, Before, Behind
<1>3. OnePlace /\ Held BY TaskFacts DEF Init, NoProcess, OnePlace, Held
<1>4. NothingRunsBehind BY DEF Init, NothingRunsBehind
<1>5. Results /\ Steady BY DEF Init, NoProcess, Results, Steady, Behind
<1>6. QED BY <1>1, <1>2, <1>3, <1>4, <1>5 DEF IInv

(***************************************************************************)
(* Before there is a task                                                  *)
(***************************************************************************)
LEMMA LookingInv ==
  ASSUME IInv, UNCHANGED <<tree, job, crashes, seq, task>>,
         at \in Before \cup {"idle"}, at' \in Before, status \in Live,
         at' = "fetch" \/ Op \in Ops, TypeOK', Steady'
  PROVE  IInv'
<1>1. AtWork' BY DEF AtWork, Op, tree
<1>2. Numbers'
  BY CodeFacts DEF Numbers, Before, Behind, Orphan, IInv, TypeOK, tree
<1>3. OnePlace' /\ Held' BY DEF IInv, OnePlace, Held, Before, tree
<1>4. NothingRunsBehind' BY DEF IInv, NothingRunsBehind, Orphan, Before, tree
<1>5. Results' BY DEF Results, Before, Behind
<1>6. QED BY <1>1, <1>2, <1>3, <1>4, <1>5 DEF IInv

LEMMA StartInv == ASSUME IInv, Start PROVE IInv'
<1>1. TypeOK' BY DEF IInv, TypeOK, Start, tree, Places
<1>2. Steady' BY DEF Start, Steady
<1>3. QED BY <1>1, <1>2, LookingInv DEF Start, Before

LEMMA LookInv == ASSUME IInv, NEW b \in Backends, Look(b) PROVE IInv'
<1>1. TypeOK' BY DEF IInv, TypeOK, Look, tree
<1>2. Steady'
  <2>1. \A c \in Backends : Enabled(c)' = Enabled(c) BY DEF Look, Enabled, OnDuty, Op, tree
  <2>2. steady \subseteq found' \cup left'
    BY DEF Look, IInv, Steady
  <2>3. QED BY <2>1, <2>2 DEF Look, IInv, TypeOK, Steady
<1>3. at \in Before /\ Op \in Ops /\ status \in Live BY DEF Look, IInv, AtWork, Before
<1>4. QED BY <1>1, <1>2, <1>3, LookingInv DEF Look

LEMMA RouteInv == ASSUME IInv, Route PROVE IInv'
<1>1. TypeOK' BY DEF IInv, TypeOK, Route, Goto, EndScan, ScanAt, tree, Places
<1>2. Steady'
  <2>1. \A b \in Backends : Enabled(b)' = Enabled(b) BY DEF Route, Enabled, OnDuty, Op, tree
  <2>2. QED BY <2>1 DEF Route, NegativeHit, Goto, EndScan, ScanAt, Steady
<1>3. /\ UNCHANGED <<tree, job, crashes, seq, task>> /\ at = "fetch" /\ at' \in Before
      /\ Op \in Ops /\ status \in Live
  BY DEF Route, Goto, ScanAt, EndScan, Before, IInv, AtWork
<1>4. QED BY <1>1, <1>2, <1>3, LookingInv DEF Before

LEMMA ScannedInv == ASSUME IInv, IsDelegated \/ LocalAfterAll \/ OneDefinition PROVE IInv'
<1>1. TypeOK'
  BY DEF IInv, TypeOK, IsDelegated, LocalAfterAll, OneDefinition, Goto, EndScan, ScanAt,
    AtWork, tree, Places
<1>2. Steady'
  <2>1. \A b \in Backends : Enabled(b)' = Enabled(b)
    BY DEF IsDelegated, LocalAfterAll, OneDefinition, Enabled, OnDuty, Op, tree
  <2>2. QED BY <2>1 DEF IsDelegated, LocalAfterAll, OneDefinition, Goto, EndScan, ScanAt,
                     IInv, TypeOK, Steady
<1>3. /\ UNCHANGED <<tree, job, crashes, seq, task>>
      /\ at \in {"scan", "define"} /\ at' \in Before
  BY DEF IsDelegated, LocalAfterAll, OneDefinition, Goto, ScanAt, EndScan, Before
<1>4. Op \in Ops /\ status \in Live BY <1>3 DEF IInv, AtWork
<1>5. QED BY <1>1, <1>2, <1>3, <1>4, LookingInv DEF Before

LEMMA SelectInv == ASSUME IInv, NEW b \in Backends, Select(b) PROVE IInv'
<1>1. TypeOK' BY DEF IInv, TypeOK, Select, EndScan, tree, Places
<1>2. Steady' BY DEF Select, Steady
<1>3. Op \in Ops /\ status \in Live BY DEF Select, IInv, AtWork
<1>4. QED BY <1>1, <1>2, <1>3, LookingInv DEF Select, Before

LEMMA ExpiresInv == ASSUME IInv, NEW op \in Ops, NegativeExpires(op) PROVE IInv'
  BY DEF NegativeExpires, IInv, TypeOK, AtWork, Numbers, OnePlace, Held, NothingRunsBehind,
    Results, Steady, Owned, Orphan, Op, Enabled, OnDuty, tree

(* A local function or another runtime runs it. *)
LEMMA RunOtherInv == ASSUME IInv, RunOther PROVE IInv'
<1>1. pc + 1 \in Pcs /\ pc \in Nat /\ status' \in Live /\ status \in Live
  BY CodeFacts DEF RunOther, IInv, TypeOK, AtWork, Live, Op
<1>2. TypeOK' BY <1>1 DEF IInv, TypeOK, RunOther, Write, Goto, EndScan, Places
<1>3. AtWork' BY <1>1 DEF RunOther, Goto, AtWork
<1>4. Numbers' BY <1>1, CodeFacts DEF RunOther, Goto, IInv, TypeOK, Numbers, Before, Behind, Orphan
<1>5. OnePlace' /\ Held' BY DEF RunOther, Goto, IInv, OnePlace, Held
<1>6. NothingRunsBehind' BY <1>1 DEF RunOther, Goto, IInv, NothingRunsBehind, Orphan
<1>7. Results' /\ Steady' BY DEF RunOther, Goto, Results, Steady, Behind
<1>8. QED BY <1>2, <1>3, <1>4, <1>5, <1>6, <1>7 DEF IInv

(* The interpreter returns: the vthread is over, or its process is dead. *)
LEMMA EndedInv ==
  ASSUME IInv, UNCHANGED <<pc, val, duty, cmd, asked, done, job, steady>>, EndProcess,
         \/ status' \in Ended /\ crashes' = crashes
         \/ status' = status /\ crashes' = crashes + 1 /\ crashes < MaxCrashes /\ at # "idle"
  PROVE  IInv'
<1>1. crashes' \in 0 .. MaxCrashes BY DelegateAssumption DEF IInv, TypeOK
<1>2. TypeOK' BY <1>1, CodeFacts DEF IInv, TypeOK, EndProcess, Places
<1>3. AtWork' BY DEF EndProcess, AtWork
<1>4. status' \in Live => \A t \in Tasks : asked'[t] # 0 => Orphan(t)'
  BY TaskFacts, DelegateAssumption DEF IInv, TypeOK, Numbers, Orphan, Live, Ended
<1>5. Numbers' BY <1>4 DEF EndProcess, Numbers, Before, Behind
<1>6. OnePlace' /\ Held' BY DEF EndProcess, IInv, OnePlace, Held
<1>7. NothingRunsBehind'
  BY <1>4, TaskFacts DEF IInv, TypeOK, Held, NothingRunsBehind
<1>8. Results' /\ Steady' BY DEF EndProcess, Results, Steady, Behind
<1>9. QED BY <1>2, <1>3, <1>5, <1>6, <1>7, <1>8 DEF IInv

LEMMA OverInv ==
  ASSUME IInv, \/ End \/ Undefined \/ TwoDefinitions \/ Rejected \/ NobodyOnDuty
               \/ GiveUp \/ Unwritten \/ Crash
  PROVE  IInv'
<1>1. CASE Crash BY <1>1, EndedInv DEF Crash, tree
<1>2. CASE End BY <1>2, EndedInv DEF End, Ended
<1>3. CASE \/ Undefined \/ TwoDefinitions \/ Rejected \/ NobodyOnDuty \/ GiveUp \/ Unwritten
  BY <1>3, EndedInv DEF Undefined, TwoDefinitions, Rejected, NobodyOnDuty, GiveUp, Unwritten,
    FailHere, Ended
<1>4. QED BY <1>1, <1>2, <1>3

(***************************************************************************)
(* From the task to the next instruction                                   *)
(***************************************************************************)
(* A new number is a new task. *)
LEMMA MakeFacts ==
  ASSUME IInv, at = "make"
  PROVE  /\ TaskId = <<crashes, seq + 1>> /\ TaskId \in Tasks /\ asked[TaskId] = 0
         /\ seq + 1 \in 1 .. pc /\ TaskId # NoTask
         /\ status \in Live
         /\ ~ Orphan(TaskId) /\ TaskId[1] = crashes /\ TaskId[2] = seq + 1
<1>1. status \in Live BY DEF IInv, AtWork
<1>2. /\ seq + 1 \in Pcs /\ seq + 1 \in 1 .. pc /\ crashes \in 0 .. MaxCrashes
      /\ seq \in Nat /\ crashes \in Nat
  BY CodeFacts, DelegateAssumption DEF IInv, TypeOK, Numbers, Before
<1>3. /\ TaskId = <<crashes, seq + 1>> /\ TaskId \in Tasks
      /\ TaskId[1] = crashes /\ TaskId[2] = seq + 1
  BY <1>2, TaskFacts DEF TaskId
<1>4. ~ Orphan(TaskId) BY <1>2, <1>3 DEF Orphan
<1>5. asked[TaskId] = 0
  BY <1>1, <1>2, <1>3, <1>4 DEF IInv, Numbers
<1>6. QED BY <1>1, <1>2, <1>3, <1>4, <1>5, TaskFacts

LEMMA MakeInv == ASSUME IInv, Make PROVE IInv'
<1>1. /\ task' = TaskId /\ seq' = seq + 1 /\ at' = "clear" /\ left' = Code[pc].outs
      /\ asked' = [asked EXCEPT ![TaskId] = pc] /\ done' = done \ {TaskId}
      /\ UNCHANGED <<pc, status, val, duty, cmd, found, backend, neg, job, steady, crashes>>
      /\ at = "make"
  BY DEF Make, ToClear
<1>2. /\ TaskId \in Tasks /\ asked[TaskId] = 0 /\ TaskId = <<crashes, seq + 1>>
      /\ seq + 1 \in 1 .. pc /\ status \in Live /\ TaskId[1] = crashes /\ TaskId[2] = seq + 1
  BY <1>1, MakeFacts
<1>3. pc \in Pcs /\ Code[pc].outs \subseteq Slots /\ pc \in Nat BY CodeFacts DEF IInv, TypeOK
<1>4. TypeOK'
  <2>1. seq' \in 0 .. Last BY <1>1, <1>2, <1>3, CodeFacts
  <2>2. QED BY <1>1, <1>2, <1>3, <2>1 DEF IInv, TypeOK, Places
<1>5. AtWork' BY <1>1 DEF IInv, AtWork, Op
<1>6. \A t \in Tasks : asked'[t] = IF t = TaskId THEN pc ELSE asked[t]
  BY <1>1 DEF IInv, TypeOK
<1>7. Numbers'
  <2>1. \A t \in Tasks : asked[t] # 0 => Orphan(t) \/ (t[1] = crashes /\ t[2] <= seq)
    BY <1>2 DEF IInv, Numbers
  <2>2. \A t \in Tasks : t[2] \in Nat BY TaskFacts, CodeFacts
  <2>3. ASSUME NEW t \in Tasks, asked'[t] # 0
        PROVE  Orphan(t)' \/ (t[1] = crashes' /\ t[2] <= seq')
    BY <1>1, <1>2, <1>6, <2>1, <2>2, <2>3 DEF Orphan, IInv, TypeOK
  <2>4. QED BY <1>1, <1>2, <2>3 DEF Numbers, Before, Behind
<1>8. \A b \in Backends : TaskId \notin cmd[b] /\ job[b] # TaskId
  BY <1>2 DEF IInv, Held
<1>9. OnePlace' BY <1>1 DEF IInv, OnePlace
<1>10. Held'
  <2>1. pc # 0 BY <1>3, CodeFacts
  <2>2. \A t \in Tasks : asked[t] # 0 => asked'[t] # 0 BY <1>6, <2>1
  <2>3. asked'[task'] # 0 /\ task' \notin done' BY <1>1, <1>2, <1>6, <2>1
  <2>4. \A b \in Backends : task' \notin cmd'[b] /\ job'[b] # task' BY <1>1, <1>8
  <2>5. QED BY <1>1, <2>2, <2>3, <2>4 DEF IInv, Held
<1>11. NothingRunsBehind' BY <1>1 DEF IInv, NothingRunsBehind, Orphan
<1>12. Results' /\ Steady' BY <1>1 DEF Results, Steady, Behind
<1>13. QED BY <1>4, <1>5, <1>7, <1>9, <1>10, <1>11, <1>12 DEF IInv

LEMMA ClearInv == ASSUME IInv, NEW x \in Slots, Clear(x) PROVE IInv'
<1>1. TypeOK' BY DEF IInv, TypeOK, Clear
<1>2. AtWork' /\ Numbers' BY DEF IInv, Clear, AtWork, Op, Numbers, Orphan
<1>3. OnePlace' /\ Held' /\ NothingRunsBehind'
  BY DEF IInv, Clear, OnePlace, Held, NothingRunsBehind, Orphan
<1>4. Results'
  <2>1. \A y \in Slots : val'[y] = IF y = x THEN None ELSE val[y] BY DEF Clear, IInv, TypeOK
  <2>2. Code[pc].outs \subseteq Slots BY CodeFacts DEF IInv, TypeOK
  <2>3. QED BY <2>1, <2>2 DEF IInv, Clear, Results, Owned, Orphan, Behind
<1>5. Steady' BY DEF Clear, Steady
<1>6. QED BY <1>1, <1>2, <1>3, <1>4, <1>5 DEF IInv

(* A task at work has the number of the process. *)
LEMMA OwnTask == ASSUME IInv, at \in Behind PROVE task \in Tasks /\ task # NoTask /\ ~ Orphan(task)
<1>1. /\ seq \in Pcs /\ task = <<crashes, seq>> /\ crashes \in 0 .. MaxCrashes
  BY CodeFacts DEF IInv, TypeOK, Numbers
<1>2. task \in Tasks /\ task[1] = crashes BY <1>1, TaskFacts
<1>3. QED BY <1>1, <1>2, TaskFacts, DelegateAssumption DEF Orphan

LEMMA PushInv == ASSUME IInv, Push PROVE IInv'
<1>1. /\ at = "clear" /\ at' = "wait" /\ left = {} /\ cmd' = [cmd EXCEPT ![backend] = @ \cup {task}]
      /\ UNCHANGED <<pc, status, val, duty, asked, done, left, found, backend, task, neg, seq, job,
                    steady, crashes>>
  BY DEF Push, Goto
<1>2. task \in Tasks /\ task # NoTask BY <1>1, OwnTask DEF Behind
<1>3. \A b \in Backends : \A t \in Tasks : t \in cmd'[b] => t \in cmd[b] \/ (t = task /\ b = backend)
  BY <1>1 DEF IInv, TypeOK
<1>4. TypeOK' BY <1>1, <1>2 DEF IInv, TypeOK, Places
<1>5. AtWork' /\ Numbers' BY <1>1 DEF IInv, AtWork, Op, Numbers, Orphan, Before, Behind
<1>6. OnePlace' BY <1>1, <1>3 DEF IInv, OnePlace, Held
<1>7. asked[task] # 0 BY <1>1 DEF IInv, Held
<1>8. Held' BY <1>1, <1>3, <1>7 DEF IInv, Held
<1>9. NothingRunsBehind'
  <2>1. SUFFICES ASSUME status \in Live, NEW b \in Backends, NEW t \in cmd'[b] \cup ({job[b]} \ {NoTask})
                 PROVE  Orphan(t) \/ t = task
    BY <1>1 DEF NothingRunsBehind, Orphan
  <2>2. t \in cmd[b] \cup ({job[b]} \ {NoTask}) \/ t = task
    BY <1>1, <2>1 DEF IInv, TypeOK
  <2>3. QED BY <1>1, <2>1, <2>2 DEF IInv, NothingRunsBehind
<1>10. Results' /\ Steady' BY <1>1 DEF IInv, Results, Steady, Owned, Orphan, Behind
<1>11. QED BY <1>4, <1>5, <1>6, <1>8, <1>9, <1>10 DEF IInv

LEMMA WaitInv == ASSUME IInv, Wait PROVE IInv'
<1>1. /\ at = "wait" /\ at' = "watch" /\ status' \in Live
      /\ UNCHANGED <<pc, val, duty, cmd, asked, done, left, found, backend, task, neg, seq, job,
                    steady, crashes>>
      /\ status \in Live
  BY DEF Wait, Goto, Live, IInv, AtWork
<1>2. TypeOK' BY <1>1 DEF IInv, TypeOK, Places
<1>3. AtWork' /\ Numbers' BY <1>1 DEF IInv, AtWork, Op, Numbers, Orphan, Before, Behind
<1>4. OnePlace' /\ Held' BY <1>1 DEF IInv, OnePlace, Held
<1>5. NothingRunsBehind' BY <1>1 DEF IInv, NothingRunsBehind, Orphan
<1>6. Results' /\ Steady' BY <1>1 DEF IInv, Results, Steady, Owned, Orphan, Behind
<1>7. QED BY <1>2, <1>3, <1>4, <1>5, <1>6 DEF IInv

(* A look at the task's status: answered, over time, and the last look. *)
LEMMA WatchInv == ASSUME IInv, Answered \/ TimedOut \/ AnsweredLate PROVE IInv'
<1>1. /\ at \in {"watch", "late"} /\ at' \in {"late", "check"}
      /\ at' = "check" => task \in done /\ left' = Code[pc].outs
      /\ at' = "late" => left' = left
      /\ UNCHANGED <<tree, found, backend, task, neg, seq, job, steady, crashes>>
  BY DEF Answered, TimedOut, AnsweredLate, CheckOutputs, Goto, Done
<1>2. task \in Tasks /\ ~ Orphan(task) BY <1>1, OwnTask DEF Behind
<1>3. TypeOK'
  <2>1. Code[pc].outs \subseteq Slots BY CodeFacts DEF IInv, TypeOK
  <2>2. QED BY <1>1, <2>1 DEF IInv, TypeOK, Places, tree
<1>4. AtWork' /\ Numbers' BY <1>1 DEF IInv, AtWork, Op, Numbers, Orphan, Before, Behind, tree
<1>5. OnePlace' /\ Held' BY <1>1 DEF IInv, OnePlace, Held, tree
<1>6. NothingRunsBehind'
  <2>1. at' = "check" => \A b \in Backends : task \notin cmd[b] /\ job[b] # task
    BY <1>1, <1>2 DEF IInv, OnePlace
  <2>2. SUFFICES ASSUME status \in Live, NEW b \in Backends, NEW t \in cmd[b] \cup ({job[b]} \ {NoTask})
                 PROVE  Orphan(t) \/ (t = task /\ at' = "late")
    BY <1>1 DEF NothingRunsBehind, Orphan, tree
  <2>3. Orphan(t) \/ t = task BY <2>2 DEF IInv, NothingRunsBehind
  <2>4. QED BY <1>1, <2>1, <2>2, <2>3
<1>7. Results' /\ Steady' BY <1>1 DEF IInv, Results, Steady, Owned, Orphan, Behind, tree
<1>8. QED BY <1>3, <1>4, <1>5, <1>6, <1>7 DEF IInv

LEMMA CheckInv == ASSUME IInv, NEW x \in Slots, Check(x) PROVE IInv'
<1>1. /\ at = "check" /\ val[x] # None /\ left' = left \ {x}
      /\ UNCHANGED <<tree, at, found, backend, task, neg, seq, job, steady, crashes>>
  BY DEF Check, Filled
<1>2. TypeOK' BY <1>1 DEF IInv, TypeOK, tree
<1>3. AtWork' /\ Numbers' BY <1>1 DEF IInv, AtWork, Op, Numbers, Orphan, tree
<1>4. OnePlace' /\ Held' /\ NothingRunsBehind'
  BY <1>1 DEF IInv, OnePlace, Held, NothingRunsBehind, Orphan, tree
<1>5. Results' /\ Steady' BY <1>1 DEF IInv, Results, Steady, Owned, Orphan, Behind, tree
<1>6. QED BY <1>2, <1>3, <1>4, <1>5 DEF IInv

LEMMA AdvanceInv == ASSUME IInv, Advance PROVE IInv'
<1>1. /\ at = "check" /\ pc' = pc + 1 /\ status' \in Live /\ at' = "fetch"
      /\ UNCHANGED <<val, duty, cmd, asked, done, left, found, neg, seq, job, steady, crashes>>
      /\ status \in Live /\ task' = NoTask /\ backend' = None
  BY DEF Advance, Live, IInv, AtWork
<1>2. pc + 1 \in Pcs /\ pc \in Nat /\ seq \in Nat /\ seq <= pc
  BY <1>1, CodeFacts DEF IInv, TypeOK, AtWork, Op, Numbers, Behind
<1>3. TypeOK' BY <1>1, <1>2 DEF IInv, TypeOK, Places
<1>4. AtWork' BY <1>1 DEF AtWork
<1>5. Numbers' BY <1>1, <1>2 DEF IInv, Numbers, Orphan, Before, Behind
<1>6. OnePlace' /\ Held' BY <1>1 DEF IInv, OnePlace, Held
<1>7. NothingRunsBehind' BY <1>1 DEF IInv, NothingRunsBehind, Orphan
<1>8. Results' /\ Steady' BY <1>1 DEF Results, Steady, Behind
<1>9. QED BY <1>3, <1>4, <1>5, <1>6, <1>7, <1>8 DEF IInv

(***************************************************************************)
(* The backends                                                            *)
(***************************************************************************)
(* A task a backend executes while the interpreter has one of its own behind  *)
(* the command is that one, or nobody's any more.                             *)
LEMMA JobOwner == ASSUME IInv, NEW b \in Backends, job[b] # NoTask
                  PROVE  /\ job[b] \in Tasks
                         /\ at # "idle" => \/ Orphan(job[b])
                                           \/ /\ job[b] = task
                                              /\ at \in {"wait", "watch", "late"}
<1>1. job[b] \in Tasks BY DEF IInv, TypeOK
<1>2. QED BY <1>1 DEF IInv, AtWork, NothingRunsBehind

LEMMA DutyInv ==
  ASSUME IInv, NEW b \in Backends, Arrive(b) \/ Leave(b) \/ Die(b) \/ GetStale(b)
  PROVE  IInv'
<1>1. PICK s \in {"on", "off", "dead", "stale"} : Become(b, s)
  BY DEF Arrive, Leave, Die, GetStale
<1>2. /\ UNCHANGED <<pc, status, val, cmd, asked, done, proc, crashes>>
      /\ duty' = [duty EXCEPT ![b] = s]
      /\ steady' = IF s \in {"on", "dead"} THEN steady ELSE steady \ {b}
      /\ job' = job \/ job' = [job EXCEPT ![b] = NoTask]
  BY <1>1 DEF Become, Arrive, Leave, Die, GetStale
<1>3. \A c \in Backends : job'[c] = job[c] \/ job'[c] = NoTask
  BY <1>2 DEF IInv, TypeOK
<1>4. TypeOK' BY <1>2 DEF IInv, TypeOK, proc
<1>5. AtWork' /\ Numbers' BY <1>2 DEF IInv, AtWork, Op, Numbers, Orphan, proc
<1>6. OnePlace' BY <1>2, <1>3, TaskFacts DEF IInv, OnePlace
<1>7. Held'
  <2>1. \A t \in Tasks : t # NoTask BY TaskFacts
  <2>2. at = "clear" => task # NoTask BY OwnTask DEF Behind
  <2>3. QED BY <1>2, <1>3, <2>1, <2>2 DEF IInv, Held, proc
<1>8. NothingRunsBehind' BY <1>2, <1>3 DEF IInv, NothingRunsBehind, Orphan, proc
<1>9. Results' BY <1>2 DEF IInv, Results, Owned, Orphan, proc
<1>10. Steady'
  <2>1. \A c \in Backends : c \in steady' /\ Enabled(c) => Enabled(c)'
    BY <1>2 DEF IInv, TypeOK, Enabled, OnDuty, Op
  <2>2. steady' \subseteq steady BY <1>2
  <2>3. QED BY <1>2, <2>1, <2>2 DEF IInv, TypeOK, Steady, proc
<1>11. QED BY <1>4, <1>5, <1>6, <1>7, <1>8, <1>9, <1>10 DEF IInv

LEMMA TakeInv == ASSUME IInv, NEW b \in Backends, Take(b) PROVE IInv'
<1>1. PICK t \in cmd[b] : /\ job[b] = NoTask
                          /\ job' = [job EXCEPT ![b] = t]
                          /\ cmd' = [cmd EXCEPT ![b] = @ \ {t}]
                          /\ UNCHANGED <<pc, status, val, duty, asked, done, proc, steady, crashes>>
  BY DEF Take
<1>2. t \in Tasks /\ t # NoTask BY TaskFacts DEF IInv, TypeOK
<1>3. \A c \in Backends : /\ job'[c] = IF c = b THEN t ELSE job[c]
                          /\ cmd'[c] = IF c = b THEN cmd[c] \ {t} ELSE cmd[c]
  BY <1>1 DEF IInv, TypeOK
<1>4. TypeOK' BY <1>1, <1>2 DEF IInv, TypeOK, proc
<1>5. AtWork' /\ Numbers' BY <1>1 DEF IInv, AtWork, Op, Numbers, Orphan, proc
<1>6. OnePlace' BY <1>1, <1>2, <1>3 DEF IInv, OnePlace
<1>7. Held' BY <1>1, <1>2, <1>3 DEF IInv, Held, proc
<1>8. NothingRunsBehind' BY <1>1, <1>2, <1>3 DEF IInv, NothingRunsBehind, Orphan, proc
<1>9. Results' /\ Steady'
  BY <1>1 DEF IInv, Results, Steady, Owned, Orphan, Enabled, OnDuty, Op, proc
<1>10. QED BY <1>4, <1>5, <1>6, <1>7, <1>8, <1>9 DEF IInv

LEMMA OutputInv == ASSUME IInv, NEW b \in Backends, NEW x \in Slots, Output(b, x) PROVE IInv'
<1>1. /\ job[b] # NoTask /\ val' = [val EXCEPT ![x] = job[b]]
      /\ UNCHANGED <<pc, status, duty, cmd, asked, done, proc, job, steady, crashes>>
  BY DEF Output
<1>2. job[b] \in Tasks /\ job[b] # None BY <1>1, JobOwner, TaskFacts
<1>3. TypeOK' BY <1>1, <1>2 DEF IInv, TypeOK, proc
<1>4. AtWork' /\ Numbers' BY <1>1 DEF IInv, AtWork, Op, Numbers, Orphan, proc
<1>5. OnePlace' /\ Held' /\ NothingRunsBehind'
  BY <1>1 DEF IInv, OnePlace, Held, NothingRunsBehind, Orphan, proc
<1>6. Results'
  <2>1. \A y \in Slots : val'[y] = IF y = x THEN job[b] ELSE val[y] BY <1>1 DEF IInv, TypeOK
  <2>2. Code[pc].outs \subseteq Slots BY CodeFacts DEF IInv, TypeOK
  <2>3. at \in Behind => Orphan(job[b]) \/ job[b] = task BY <1>1, JobOwner DEF Behind
  <2>4. \A y \in Slots : at \in Behind /\ Owned(y) => Owned(y)'
    BY <1>1, <1>2, <2>1, <2>3 DEF Owned, Orphan, proc
  <2>5. \A y \in Slots : val[y] # None => val'[y] # None BY <1>2, <2>1
  <2>6. QED BY <1>1, <2>2, <2>4, <2>5 DEF IInv, Results, Behind, proc
<1>7. Steady' BY <1>1 DEF IInv, Steady, Enabled, OnDuty, Op, proc
<1>8. QED BY <1>3, <1>4, <1>5, <1>6, <1>7 DEF IInv

LEMMA FinishInv == ASSUME IInv, NEW b \in Backends, Finish(b) \/ Abandon(b) PROVE IInv'
<1>1. /\ job[b] # NoTask /\ job' = [job EXCEPT ![b] = NoTask]
      /\ done' \in {done, done \cup {job[b]}}
      /\ UNCHANGED <<pc, status, val, duty, cmd, asked, proc, steady, crashes>>
  BY DEF Finish, Abandon, tree
<1>2. job[b] \in Tasks /\ NoTask \notin Tasks BY <1>1, JobOwner, TaskFacts
<1>3. \A c \in Backends : job'[c] = IF c = b THEN NoTask ELSE job[c]
  BY <1>1 DEF IInv, TypeOK
<1>4. TypeOK' BY <1>1, <1>2 DEF IInv, TypeOK, proc
<1>5. AtWork' /\ Numbers' BY <1>1 DEF IInv, AtWork, Op, Numbers, Orphan, proc
<1>6. OnePlace' BY <1>1, <1>2, <1>3 DEF IInv, OnePlace
<1>7. Held'
  <2>1. at = "clear" => task \in Tasks /\ task # NoTask BY OwnTask DEF Behind
  <2>2. QED BY <1>1, <1>2, <1>3, <2>1 DEF IInv, Held, proc
<1>8. NothingRunsBehind' BY <1>1, <1>3 DEF IInv, NothingRunsBehind, Orphan, proc
<1>9. Results' /\ Steady'
  BY <1>1 DEF IInv, Results, Steady, Owned, Orphan, Enabled, OnDuty, Op, proc
<1>10. QED BY <1>4, <1>5, <1>6, <1>7, <1>8, <1>9 DEF IInv

(***************************************************************************)
(* Theorems                                                                *)
(***************************************************************************)
LEMMA NextInv == ASSUME IInv, [Next]_vars PROVE IInv'
<1>1. CASE Drive
  BY <1>1, OverInv, RouteInv, ScannedInv, RunOtherInv, MakeInv, PushInv, WaitInv, WatchInv,
    AdvanceInv, LookInv, SelectInv, ClearInv, CheckInv DEF Drive
<1>2. CASE Start \/ Rejected \/ TimedOut \/ Crash
  BY <1>2, StartInv, OverInv, WatchInv
<1>3. ASSUME NEW op \in Ops, NegativeExpires(op) PROVE IInv'
  BY <1>3, ExpiresInv
<1>4. ASSUME NEW b \in Backends, Serve(b) PROVE IInv'
  BY <1>4, DutyInv, TakeInv, FinishInv, OutputInv DEF Serve
<1>5. CASE UNCHANGED vars
  BY <1>5 DEF vars, IInv, TypeOK, AtWork, Numbers, OnePlace, Held, NothingRunsBehind,
    Results, Steady, Owned, Orphan, Op, Enabled, OnDuty, tree, proc
<1>6. QED BY <1>1, <1>2, <1>3, <1>4, <1>5 DEF Next

(* The strengthened invariant of a delegating vthread and its backends. *)
THEOREM Invariance == Spec => []IInv
BY InitInv, NextInv, PTL DEF Spec

(* Every task id is one of the process's own numbers, and no pc leaves the *)
(* function.                                                               *)
THEOREM TypeCorrect == Spec => []TypeOK
<1>1. IInv => TypeOK BY DEF IInv
<1>2. QED BY <1>1, Invariance, PTL

(* A process never makes a task that exists, after any number of restarts. *)
THEOREM IdsNeverCollide == Spec => []NoCollision
<1>1. IInv => NoCollision BY MakeFacts DEF NoCollision
<1>2. QED BY <1>1, Invariance, PTL

(* While the vthread lives, no backend works for an instruction that is over, *)
(* unless the process that asked for it is dead.                              *)
THEOREM NothingRunsBehindALiveVthread == Spec => []NothingRunsBehind
<1>1. IInv => NothingRunsBehind BY DEF IInv
<1>2. QED BY <1>1, Invariance, PTL

(* A backend that is on duty all the time is never passed over. *)
THEOREM DutyDecidesRoute == Spec => []RoutedByDuty
<1>1. IInv => RoutedByDuty BY DEF IInv, TypeOK, Steady, RoutedByDuty
<1>2. QED BY <1>1, Invariance, PTL

(* A delegated instruction is passed with results of its own task, or of one *)
(* whose process is dead.                                                    *)
THEOREM ResultsAreOwn == Spec => OwnResult
<1>1. ASSUME IInv, [Next]_vars
      PROVE  [at = "check" /\ pc' # pc =>
                /\ task \in done
                /\ \A x \in Code[pc].outs :
                     val[x] = task \/ (val[x] \in Tasks /\ Orphan(val[x]))]_vars
  <2> SUFFICES ASSUME Next, at = "check", pc' # pc
               PROVE  /\ task \in done
                      /\ \A x \in Code[pc].outs :
                           val[x] = task \/ (val[x] \in Tasks /\ Orphan(val[x]))
    BY <1>1 DEF vars
  <2>1. Advance
    BY DEF Next, Start, Drive, Rejected, TimedOut, Crash, NegativeExpires, Serve, End, Route,
      IsDelegated, RunOther, Undefined, LocalAfterAll, TwoDefinitions, OneDefinition, NobodyOnDuty,
      Make, Push, Wait, Answered, AnsweredLate, GiveUp, Unwritten, Look, Select, Clear, Check,
      FailHere, Arrive, Leave, Die, GetStale, Become, Take, Output, Finish, Abandon, tree
  <2>2. QED BY <1>1, <2>1 DEF Advance, IInv, Results, Owned, Behind
<1>2. QED BY <1>1, Invariance, PTL DEF Spec, OwnResult
================================================================================
