------------------------------ MODULE HandoffInv ------------------------------
(***************************************************************************)
(* The inductive invariants of the drive loop and its executors.  As long  *)
(* as no driver has died there is one party at a time whose turn it is     *)
(* with ..pc: the driver, or the executor that holds the entry.  A driver  *)
(* that dies leaves an executor behind it that may still be at work while  *)
(* the next one is; after one death that is at most one.                   *)
(***************************************************************************)
EXTENDS Handoff

(* Where a party is tells what its pc can be. *)
Placed ==
  /\ at \notin {"idle", "enter"} => cur \in AllRows
  /\ at = "ran" => Row(cur).op = "host"
  /\ at # "stalled" => guard.n < 3
  /\ \A e \in Executors : eat[e] # "idle" => epc[e] \in AllRows /\ Row(epc[e]).op = "ext"

Busy(e) == eat[e] # "idle"

(* The driver, where it works on an instruction, works on the one at ..pc; an *)
(* entry is there only while it watches, or after it has given the vthread up. *)
DriversTurn ==
  /\ at \in {"core", "guard", "batch", "ran", "stalled"} => cur = pc
  /\ at = "watch" => Claimed(cur) /\ entry \in {0, cur} /\ (entry = 0 => pc = cur + 1)
  /\ entry # 0 => /\ Claimed(entry)
                  /\ \/ at = "watch" /\ entry = cur
                     \/ at = "idle" /\ status = "error"

(* An executor holds the entry from its claim to the release, and moves ..pc  *)
(* between the two.                                                           *)
ExecutorsTurn ==
  /\ \A e \in Executors : Busy(e) => /\ entry # 0 /\ epc[e] = entry
                                     /\ Serves[e] = Row(entry).rt
  /\ entry # 0 => pc = entry \/ \E e \in Executors : eat[e] = "release"
  /\ \A e \in Executors : eat[e] \in {"run", "advance"} => pc = entry
  /\ \A e \in Executors : eat[e] = "release" /\ at = "watch" => pc = entry + 1

(* The instruction at ..pc has been executed only where a step says so. *)
Counted ==
  /\ ~ stray /\ ran <= 1
  /\ ran = 1 => at = "ran" \/ \E e \in Executors : eat[e] = "advance"

Turn == DriversTurn /\ ExecutorsTurn /\ Counted

IInv == TypeOK /\ Placed /\ (crashes = 0 => Turn)

(***************************************************************************)
(* After a death, as long as the vthread has not failed                    *)
(***************************************************************************)
Working(e) == eat[e] \in {"run", "advance"}
OnRow      == {"core", "guard", "batch", "stalled"}

(* The driver works on the instruction at ..pc, or on one an executor has *)
(* just passed.                                                           *)
DriverAt ==
  /\ at \in OnRow => cur = pc \/ (Claimed(cur) /\ pc = cur + 1)
  /\ at = "ran" => cur = pc
  /\ at = "watch" => Claimed(cur) /\ pc \in {cur, cur + 1}

(* Whom an executor has not passed yet is where the driver is, and at ..pc, or *)
(* is run once more for a driver that offered it too late.                     *)
WorkAt ==
  \A f \in Executors : Working(f) =>
    /\ Row(epc[f]).rt \in Registered
    /\ at \in {"idle", "enter"} \/ (at \in OnRow \cup {"watch"} /\ cur = epc[f])
    /\ pc = epc[f] \/ (at = "watch" /\ entry = cur /\ pc = cur + 1)

ServesIt == \A f \in Executors : Busy(f) => Serves[f] = Row(epc[f]).rt

(* Executor g answers what the driver watches. *)
Proper(g) == /\ at = "watch" /\ cur = epc[g] /\ entry = cur
             /\ pc = IF eat[g] = "release" THEN cur + 1 ELSE cur

(* Of two busy executors one answers and the other is about to release an *)
(* instruction that is over.                                              *)
Pair ==
  \A e, f \in Executors : Busy(e) /\ Busy(f) /\ e # f =>
     \/ Proper(e) /\ eat[f] = "release"
     \/ Proper(f) /\ eat[e] = "release"

Resting == at \in {"idle", "enter"} \/ (at \in OnRow /\ cur = pc)

(* An entry is watched, or an executor is at it, or nobody has touched it and *)
(* its instruction is the next one.                                           *)
LeftBehind ==
  entry # 0 =>
    /\ Claimed(entry)
    /\ \/ at = "watch" /\ cur = entry
       \/ \E f \in Executors : Busy(f) /\ epc[f] = entry
       \/ (\A f \in Executors : ~ Busy(f)) /\ pc = entry /\ Resting

(* The driver is behind ..pc only where the busy executor has passed what it *)
(* works on.                                                                 *)
Overtaken ==
  /\ at \in OnRow /\ pc # cur => (\A f \in Executors : Busy(f) => epc[f] = cur)
  /\ at = "watch" /\ entry = cur /\ pc # cur /\ (\E e \in Executors : Busy(e)) =>
       \E f \in Executors : Busy(f) /\ epc[f] = cur

(* What is about to be passed has been executed. *)
BeforePassing ==
  /\ at = "ran" => ran > 0
  /\ \A f \in Executors : eat[f] = "advance" /\ pc = epc[f] => ran > 0

Shared == /\ DriverAt /\ WorkAt /\ ServesIt /\ Pair
          /\ LeftBehind /\ Overtaken /\ BeforePassing

(***************************************************************************)
(* What the guard has counted                                              *)
(***************************************************************************)
(* Whoever is busy answers for p. *)
AllOn(p) ==
  \A f \in Executors : Busy(f) => epc[f] = p /\ (eat[f] = "release" => pc = p + 1)

(* The driver is back at p, by an old entry's going, and for the first time. *)
Back(p) == guard.n = 0 /\ AllOn(p)

(* The guard remembers p, which is served and not alone in its loop: the   *)
(* driver is at it, or beyond it on the interpreter's own instructions, or *)
(* back once.                                                              *)
Served(p) ==
  /\ ~ guard.ran /\ at # "ran" /\ guard.n <= 1
  /\ at \in {"enter", "core", "guard"} => entry = 0
  /\ at \in {"batch", "watch"} => cur = p /\ (guard.n = 1 => AllOn(p))
  /\ at = "watch" /\ entry = 0 => pc = p + 1 \/ (pc = p /\ Back(p))
  /\ at = "enter" => \/ pc \in Beyond(p) /\ \A f \in Executors : ~ Working(f)
                     \/ pc = p /\ Back(p)
  /\ at \in {"core", "guard"} => cur \in Beyond(p) \/ (cur = p /\ Back(p))

Remembers(p) ==
  /\ Row(p).op \in {"host", "ext"}
  /\ Row(p).op = "host" => guard.n = 0 /\ (guard.ran \/ (at = "batch" /\ cur = p))
  /\ Claimed(p) /\ ~ Alone(p) /\ at # "stalled" => Served(p)

GuardInv ==
  /\ at = "idle" => guard.pc = 0
  /\ at = "guard" => Row(cur).op \in {"host", "ext"}
  /\ status # "error" /\ guard.pc # 0 => Remembers(guard.pc)
  /\ GivenUpIsUnserved

Handing  == status # "error" => Shared
OneDeath == Handing /\ GuardInv
===============================================================================
