------------------------------- MODULE Handoff -------------------------------
(***************************************************************************)
(* One vthread between the drive loop of byteseek and the executors of     *)
(* other runtimes.  The interpreter stops at an instruction it does not    *)
(* have; the drive loop runs its own ones in a batch and hands the others  *)
(* over: it puts the pc under /lib/<op>/vids/<vid>, one entry per vthread  *)
(* in a queue all runtimes share, and waits for the entry to go.  An       *)
(* executor that serves the instruction runs it, writes the next ..pc and  *)
(* deletes the entry.                                                      *)
(*                                                                         *)
(* What the interpreter does with frames is KvCpu's concern; here a pc is  *)
(* a row of one function.                                                  *)
(***************************************************************************)
EXTENDS Naturals, Sequences

CONSTANTS Runtimes,      \* the other runtimes
          Executors,     \* their processes, at most one of a runtime
          Serves,        \* [Executors -> Runtimes]
          Strict,        \* runtimes that report a failed instruction (json does, numpy does not)
          Registered,    \* runtimes whose instructions have a /vids queue
          Code,          \* sequence of rows
          MaxCrashes,    \* how often the driver may die
          None           \* no runtime

Live  == {"init", "running"}
Ended == {"ok", "error"}

Rows == [op : {"core", "jump", "host", "ext", "end"}, to : SUBSET Nat,
         rt : Runtimes \cup {None}]

ASSUME HandoffAssumption ==
  /\ None \notin Runtimes /\ MaxCrashes \in Nat
  /\ Serves \in [Executors -> Runtimes]
  /\ \A e, f \in Executors : Serves[e] = Serves[f] => e = f
  /\ Strict \subseteq Runtimes /\ Registered \subseteq Runtimes
  /\ Code \in Seq(Rows) /\ Len(Code) >= 1
  /\ \A i \in 1 .. Len(Code) :
       /\ Code[i].op \in {"core", "host", "ext"} => i < Len(Code)
       /\ Code[i].op = "ext" => Code[i].rt \in Runtimes
       /\ Code[i].op = "jump" => Code[i].to \subseteq (1 .. Len(Code)) \ {i}

AllRows == 1 .. Len(Code)
Pcs     == 0 .. Len(Code)   \* 0 is no pc

VARIABLES
  \* the key-value tree
  pc,      \* ..pc
  status,  \* ..status
  entry,   \* /lib/<op>/vids/<vid>, 0 where there is none
  \* the driver: interpreter and drive loop
  at,      \* where it is
  cur,     \* the pc it works on
  guard,   \* what the no-progress guard remembers
  \* the executors
  eat, epc,
  \* history
  ran,     \* how often the instruction at ..pc has been executed, up to 2
  stray,   \* whether any other instruction has been
  crashes

kvvars == <<pc, status, entry>>
drvars == <<at, cur, guard>>
exvars == <<eat, epc>>
hivars == <<ran, stray, crashes>>
vars   == <<kvvars, drvars, exvars, hivars>>

Guards  == [pc : Pcs, st : Live, n : 0 .. 3, ran : BOOLEAN]
NoGuard == [pc |-> 0, st |-> "init", n |-> 0, ran |-> FALSE]

TypeOK ==
  /\ pc \in Pcs \ {0} /\ status \in Live \cup Ended /\ entry \in Pcs
  /\ at \in {"idle", "enter", "core", "guard", "batch", "ran", "watch", "stalled"}
  /\ cur \in Pcs /\ guard \in Guards
  /\ eat \in [Executors -> {"idle", "run", "advance", "release"}]
  /\ epc \in [Executors -> Pcs]
  /\ ran \in 0 .. 2 /\ stray \in BOOLEAN
  /\ crashes \in 0 .. MaxCrashes

NoDriver == at = "idle" /\ cur = 0 /\ guard = NoGuard

Init ==
  /\ pc = 1 /\ status = "init" /\ entry = 0
  /\ NoDriver
  /\ eat = [e \in Executors |-> "idle"] /\ epc = [e \in Executors |-> 0]
  /\ ran = 0 /\ stray = FALSE /\ crashes = 0

EndDriver == at' = "idle" /\ cur' = 0 /\ guard' = NoGuard

Row(p) == Code[p]

(* The two things history watches: an instruction executed, ..pc written. *)
Executed(p) == /\ ran' = IF p = pc /\ ran < 2 THEN ran + 1 ELSE ran
               /\ stray' = (stray \/ p # pc)
WritePc(p)  == /\ pc' = p
               /\ ran' = IF p = pc THEN ran ELSE 0

(***************************************************************************)
(* The interpreter                                                         *)
(***************************************************************************)
(* `run <vid>`: drive_vid begins, with a guard that has seen nothing. *)
Start ==
  /\ at = "idle" /\ status \in Live
  /\ at' = "enter"
  /\ UNCHANGED <<kvvars, cur, guard, exvars, hivars>>

(* kvlangRuntimeExecuteVthread reads ..pc again on every entry. *)
Enter ==
  /\ at = "enter"
  /\ cur' = pc /\ at' = "core"
  /\ UNCHANGED <<kvvars, guard, exvars, hivars>>

(* A status that is not live ends the loop, and the driver, without an error. *)
Stop ==
  /\ at \in {"core", "guard"} /\ status \in Ended
  /\ EndDriver
  /\ UNCHANGED <<kvvars, exvars, hivars>>

At(op) == at = "core" /\ status \in Live /\ Row(cur).op = op

(* An instruction of the interpreter's own: executed, ..pc and, where it is  *)
(* not yet "running", ..status written behind it.  KvCpu has the single steps. *)
GoOn(p) ==
  /\ WritePc(p) /\ cur' = p
  /\ status' = "running"
  /\ UNCHANGED <<entry, at, guard, exvars, stray, crashes>>

Core == At("core") /\ GoOn(cur + 1)
Jump == At("jump") /\ \E j \in Row(cur).to : GoOn(j)

End ==
  /\ At("end")
  /\ status' = "ok" /\ EndDriver
  /\ UNCHANGED <<pc, entry, exvars, hivars>>

(* kvlangVthreadSetError, and the driver returns. *)
FailHere ==
  /\ WritePc(cur) /\ status' = "error" /\ EndDriver
  /\ UNCHANGED <<entry, exvars, stray, crashes>>

CoreFails == At("core") /\ FailHere

Yield ==
  /\ At("host") \/ At("ext")
  /\ at' = "guard"
  /\ UNCHANGED <<kvvars, cur, guard, exvars, hivars>>

(***************************************************************************)
(* The drive loop                                                          *)
(***************************************************************************)
\* Plausible bugs in the definition below them, for the mutation runs: each is
\* named Bug_ and used by nothing else.
Bug_SameAnywhere == ~ guard.ran /\ guard.st = status
Same == guard.pc = cur /\ ~ guard.ran /\ guard.st = status

Bug_LimitBeyond(n) == n > 3
Limit(n) == n >= 3

(* Three times back at the same pc in the same status, no host instruction *)
(* run in between: nobody implements it.                                   *)
Guard ==
  /\ at = "guard" /\ status \in Live
  /\ LET n == IF Same THEN guard.n + 1 ELSE 0
     IN  /\ guard' = [pc |-> cur, st |-> status, n |-> n, ran |-> FALSE]
         /\ at' = IF Limit(n) THEN "stalled" ELSE "batch"
  /\ UNCHANGED <<kvvars, cur, exvars, hivars>>

(* The driver gives up; the vthread stays as it is. *)
GiveUp ==
  /\ at = "stalled"
  /\ EndDriver
  /\ UNCHANGED <<kvvars, exvars, hivars>>

Dispatch ==
  /\ at = "batch" /\ Row(cur).op = "host"
  /\ Executed(cur)
  /\ at' = "ran" /\ guard' = [guard EXCEPT !.ran = TRUE]
  /\ UNCHANGED <<kvvars, cur, exvars, crashes>>

DispatchFails == at = "batch" /\ Row(cur).op = "host" /\ FailHere

Bug_NextInBatchStays == cur
NextInBatch == cur + 1

Bug_BatchPcBehind == pc
BatchPc == cur + 1

Advance ==
  /\ at = "ran"
  /\ WritePc(BatchPc) /\ cur' = NextInBatch /\ at' = "batch"
  /\ UNCHANGED <<status, entry, guard, exvars, stray, crashes>>

Claimed(p) == Row(p).op = "ext" /\ Row(p).rt \in Registered

(* kvlangRwirextHandoff: an entry left there is overwritten. *)
Offer ==
  /\ at = "batch" /\ Claimed(cur)
  /\ entry' = cur /\ at' = "watch"
  /\ UNCHANGED <<pc, status, cur, guard, exvars, hivars>>

Answered ==
  /\ at = "watch" /\ entry = 0
  /\ at' = "enter"
  /\ UNCHANGED <<kvvars, cur, guard, exvars, hivars>>

(* Thirty seconds are over: the vthread fails, the entry stays. *)
TimedOut == at = "watch" /\ entry # 0 /\ FailHere

(* The interpreter's own instruction again, or nobody's: ..pc is written and *)
(* the interpreter entered.                                                  *)
Bug_SkipUnclaimed == IF Row(cur).op = "ext" THEN cur + 1 ELSE cur
HandBack == cur

WriteBack ==
  /\ at = "batch" /\ Row(cur).op # "host" /\ ~ Claimed(cur)
  /\ WritePc(HandBack) /\ at' = "enter"
  /\ UNCHANGED <<status, entry, cur, guard, exvars, stray, crashes>>

Crash ==
  /\ at # "idle" /\ crashes < MaxCrashes
  /\ crashes' = crashes + 1
  /\ EndDriver
  /\ UNCHANGED <<kvvars, exvars, ran, stray>>

(***************************************************************************)
(* The executors (serveOp)                                                 *)
(***************************************************************************)
(* An executor only looks at the entry: claiming it leaves it there. *)
Claim(e) ==
  /\ eat[e] = "idle" /\ entry # 0
  /\ Row(entry).op = "ext" /\ Row(entry).rt = Serves[e]
  /\ eat' = [eat EXCEPT ![e] = "run"] /\ epc' = [epc EXCEPT ![e] = entry]
  /\ UNCHANGED <<kvvars, drvars, hivars>>

Bug_AfterRunRelease == "release"
AfterRun == "advance"

Run(e) ==
  /\ eat[e] = "run"
  /\ Executed(epc[e])
  /\ eat' = [eat EXCEPT ![e] = AfterRun]
  /\ UNCHANGED <<kvvars, drvars, epc, crashes>>

(* A failed instruction is passed too, or the driver would wait in vain. *)
Bug_AfterFailureIdle == "idle"
AfterFailure == "advance"

RunFails(e) ==
  /\ eat[e] = "run"
  /\ Executed(epc[e])
  /\ status' = IF Serves[e] \in Strict THEN "error" ELSE status
  /\ eat' = [eat EXCEPT ![e] = AfterFailure]
  /\ UNCHANGED <<pc, entry, drvars, epc, crashes>>

WriteNext(e) ==
  /\ eat[e] = "advance"
  /\ WritePc(epc[e] + 1)
  /\ eat' = [eat EXCEPT ![e] = "release"]
  /\ UNCHANGED <<status, entry, drvars, epc, stray, crashes>>

Release(e) ==
  /\ eat[e] = "release"
  /\ entry' = 0
  /\ eat' = [eat EXCEPT ![e] = "idle"] /\ epc' = [epc EXCEPT ![e] = 0]
  /\ UNCHANGED <<pc, status, drvars, hivars>>

Serve(e) == Claim(e) \/ Run(e) \/ RunFails(e) \/ WriteNext(e) \/ Release(e)

Drive ==
  \/ Enter \/ Stop \/ Core \/ Jump \/ End \/ CoreFails \/ Yield
  \/ Guard \/ GiveUp \/ Dispatch \/ DispatchFails \/ Advance
  \/ Offer \/ Answered \/ WriteBack

Next == Start \/ Drive \/ TimedOut \/ Crash \/ \E e \in Executors : Serve(e)

Spec == Init /\ [][Next]_vars

(* The driver is scheduled and started again, every executor keeps serving. *)
(* The clock is not needed: TimedOut has no fairness.                       *)
Fairness == /\ WF_vars(Start) /\ WF_vars(Drive)
            /\ \A e \in Executors : WF_vars(Serve(e))
FairSpec == Spec /\ Fairness

(***************************************************************************)
(* Properties                                                              *)
(***************************************************************************)
Follows(p, q) == IF Row(p).op = "jump" THEN q \in Row(p).to ELSE q = p + 1

(* While it has not failed, the vthread takes the program's path, whoever     *)
(* moves ..pc, and no host or handed-over instruction is passed that was not  *)
(* executed, also when the driver dies and another one starts.                *)
NoneSkipped ==
  [][pc' # pc /\ status' # "error" =>
       /\ Follows(pc, pc')
       /\ Row(pc).op \in {"host", "ext"} => ran > 0]_vars

(* Unless a driver died, no instruction is executed twice, or after or before *)
(* its turn, also when an answer comes after the driver gave it up.           *)
AtMostOnce == crashes = 0 => ran <= 1 /\ ~ stray

(* The entry's going means that the instruction is done and ..pc is behind it: *)
(* the driver does not advance it.                                             *)
AnswerMovesPc ==
  [][at = "watch" /\ at' = "enter" /\ crashes = 0 => pc = cur + 1]_vars

(* The rows that every set has which has the row behind p and is closed under *)
(* the interpreter's own instructions: where it gets from there on its own.   *)
Own(q)    == Row(q).op \in {"core", "jump"}
Closed(S) == \A q \in S : Own(q) => \A r \in AllRows : Follows(q, r) => r \in S
Beyond(p) == {q \in AllRows : \A S \in SUBSET AllRows : p + 1 \in S /\ Closed(S) => q \in S}
Alone(p)  == p \in Beyond(p)

(* The driver gives a vthread up as one at an instruction that nobody         *)
(* implements (engine.rs 479-485) only where nobody does, or where the        *)
(* instruction is the only one of its loop that the interpreter hands out: a  *)
(* turn of such a loop looks like no progress to the guard, served or not.    *)
GivenUpIsUnserved ==
  at = "stalled" => /\ Row(cur).op = "ext"
                    /\ Claimed(cur) => Alone(cur)

(* The driver never waits for ever for a runtime that is being served. *)
WatchEnds == (at = "watch" /\ \E e \in Executors : Serves[e] = Row(cur).rt) ~> at # "watch"

(* Every instruction is passed in the end, fails, or is given up, if every *)
(* runtime that has a queue is served.                                     *)
Moves == \A p \in Pcs : (pc = p /\ status \in Live) ~>
                          (pc # p \/ status \in Ended \/ at = "stalled")
==============================================================================
