----------------------------- MODULE HandoffProofs -----------------------------
(***************************************************************************)
(* What holds of the drive loop and the executors for every program and    *)
(* every set of runtimes: whose turn it is with ..pc while no driver has   *)
(* died, what one death leaves behind, and what the guard has counted.     *)
(***************************************************************************)
EXTENDS HandoffInv, TLAPS

LEMMA CodeRows ==
  /\ Len(Code) \in Nat \ {0} /\ 1 \in AllRows
  /\ Pcs = AllRows \cup {0} /\ 0 \notin AllRows
  /\ \A p \in AllRows : /\ Row(p) \in Rows
                        /\ Row(p).op \in {"core", "host", "ext"} => p + 1 \in AllRows /\ p + 1 # p
                        /\ Row(p).op = "jump" => Row(p).to \subseteq AllRows \ {p}
                        /\ Row(p).op = "ext" => Row(p).rt \in Runtimes
  BY HandoffAssumption DEF AllRows, Pcs, Row

LEMMA InitInv == Init => IInv
<1> SUFFICES ASSUME Init PROVE IInv OBVIOUS
<1>0. NoGuard \in Guards BY CodeRows DEF NoGuard, Guards, Live
<1>1. TypeOK
  <2>1. 0 \in 0 .. MaxCrashes BY HandoffAssumption
  <2>2. pc \in Pcs \ {0} /\ entry \in Pcs /\ cur \in Pcs
    BY CodeRows DEF Init, NoDriver
  <2>3. guard \in Guards BY <1>0 DEF Init, NoDriver
  <2>4. /\ eat \in [Executors -> {"idle", "run", "advance", "release"}]
        /\ epc \in [Executors -> Pcs]
    BY CodeRows DEF Init
  <2>5. stray \in BOOLEAN /\ status \in Live \cup Ended BY DEF Init, Live
  <2>6. ran \in 0 .. 2 /\ crashes \in 0 .. MaxCrashes BY <2>1 DEF Init
  <2>7. QED BY <2>2, <2>3, <2>4, <2>5, <2>6 DEF Init, TypeOK, NoDriver
<1>2. Placed BY DEF Init, Placed, NoDriver, NoGuard
<1>3. Turn
  BY DEF Init, Turn, DriversTurn, ExecutorsTurn, Counted, NoDriver, NoGuard, Busy
<1>4. QED BY <1>1, <1>2, <1>3 DEF IInv

(***************************************************************************)
(* Types and places                                                        *)
(***************************************************************************)
LEMMA DriverTyped == ASSUME TypeOK, Placed, Start \/ Drive \/ TimedOut \/ Crash
                     PROVE  TypeOK' /\ Placed'
<1> USE CodeRows DEF TypeOK, Placed, kvvars, drvars, exvars, hivars
<1>0. NoGuard \in Guards /\ NoGuard.n = 0 BY DEF NoGuard, Guards, Live
<1>1. CASE Start \/ Enter \/ Yield
  BY <1>1 DEF Start, Enter, Yield, At
<1>2. CASE Stop \/ End \/ GiveUp \/ Crash
  BY <1>2, <1>0, HandoffAssumption DEF Stop, End, GiveUp, Crash, EndDriver, Live, Ended, At
<1>3. CASE Core \/ Jump
  <2>1. PICK p \in AllRows : GoOn(p)
    BY <1>3 DEF Core, Jump, At
  <2>2. QED BY <2>1, <1>3 DEF GoOn, WritePc, Live, Core, Jump, At
<1>4. CASE CoreFails \/ DispatchFails \/ TimedOut
  BY <1>4, <1>0 DEF CoreFails, DispatchFails, TimedOut, FailHere, WritePc, EndDriver, Ended, At
<1>5. CASE Guard
  <2>1. PICK n \in 0 .. 3 : /\ guard' = [pc |-> cur, st |-> status, n |-> n, ran |-> FALSE]
                            /\ at' = IF n >= 3 THEN "stalled" ELSE "batch"
                            /\ status \in Live /\ cur \in AllRows
    <3>1. guard.n \in 0 .. 2 BY <1>5 DEF Guard, Guards
    <3>2. (IF Same THEN guard.n + 1 ELSE 0) \in 0 .. 3 BY <3>1
    <3>3. QED BY <3>2, <1>5 DEF Guard, Limit
  <2>2. guard' \in Guards /\ guard'.n = n BY <2>1 DEF Guards
  <2>3. UNCHANGED <<kvvars, cur, exvars, hivars>> BY <1>5 DEF Guard
  <2>4. TypeOK' BY <2>1, <2>2, <2>3
  <2>5. Placed' BY <2>1, <2>2, <2>3
  <2>6. QED BY <2>4, <2>5
<1>6. CASE Dispatch
  <2>1. guard' \in Guards /\ guard'.n = guard.n BY <1>6 DEF Dispatch, Guards
  <2>2. QED BY <2>1, <1>6 DEF Dispatch, Executed
<1>7. CASE Advance
  <2>1. cur + 1 \in AllRows BY <1>7 DEF Advance
  <2>2. QED BY <2>1, <1>7 DEF Advance, WritePc, BatchPc, NextInBatch
<1>8. CASE Offer \/ Answered
  BY <1>8 DEF Offer, Answered
<1>9. CASE WriteBack
  BY <1>9 DEF WriteBack, WritePc, HandBack
<1>10. QED
  BY <1>1, <1>2, <1>3, <1>4, <1>5, <1>6, <1>7, <1>8, <1>9 DEF Drive

LEMMA ExecutorTyped == ASSUME TypeOK, Placed, NEW e \in Executors, Serve(e)
                       PROVE  TypeOK' /\ Placed'
<1> USE CodeRows DEF TypeOK, Placed, kvvars, drvars, exvars, hivars
<1>1. CASE Claim(e) BY <1>1 DEF Claim
<1>2. CASE Run(e) BY <1>2 DEF Run, Executed, AfterRun
<1>3. CASE RunFails(e) BY <1>3 DEF RunFails, Executed, AfterFailure, Ended
<1>4. CASE WriteNext(e)
  <2>1. epc[e] + 1 \in AllRows BY <1>4 DEF WriteNext
  <2>2. QED BY <2>1, <1>4 DEF WriteNext, WritePc
<1>5. CASE Release(e) BY <1>5 DEF Release
<1>6. QED BY <1>1, <1>2, <1>3, <1>4, <1>5 DEF Serve

(***************************************************************************)
(* Whose turn it is                                                        *)
(***************************************************************************)
(* A runtime has one executor, so one executor is busy. *)
LEMMA OneBusy == ASSUME ExecutorsTurn, NEW e \in Executors, NEW f \in Executors, Busy(e), Busy(f)
                 PROVE  e = f
  BY HandoffAssumption DEF ExecutorsTurn

(* Without an entry the executors wait. *)
LEMMA NobodyBusy == ASSUME TypeOK, ExecutorsTurn, entry = 0
                    PROVE  \A e \in Executors : eat[e] = "idle"
  BY DEF ExecutorsTurn, Busy

(* What is executed where nothing has been yet is the instruction's one time. *)
LEMMA FirstTime == ASSUME ran = 0, ~ stray, Executed(pc) PROVE ran' = 1 /\ ~ stray'
<1>1. ran' = 1 BY SMT DEF Executed
<1>2. ~ stray' BY Zenon DEF Executed
<1>3. QED BY <1>1, <1>2

LEMMA DriverTurn ==
  ASSUME TypeOK, Placed, Turn, crashes' = 0, Start \/ Drive \/ TimedOut \/ Crash
  PROVE  Turn'
<1> USE CodeRows DEF kvvars, drvars, exvars, hivars
<1>0. ~ Crash /\ crashes = 0 BY DEF Crash, Start, Drive, TimedOut, TypeOK, Enter, Stop, Core, Jump,
  GoOn, End, CoreFails, FailHere, Yield, Guard, GiveUp, Dispatch, Executed, DispatchFails, Advance,
  Offer, Answered, WriteBack
<1>1. ASSUME entry = 0, at # "watch", entry' = 0, eat' = eat, epc' = epc, ~ stray', at' # "watch",
             ran' = 0 \/ (ran' <= 1 /\ at' = "ran"),
             at' \in {"core", "guard", "batch", "ran", "stalled"} => cur' = pc'
      PROVE  Turn'
  BY <1>1, NobodyBusy DEF Turn, DriversTurn, ExecutorsTurn, Counted, Busy
<1> DEFINE Works == at \in {"core", "guard", "batch", "ran", "stalled"}
<1>2. Works => /\ entry = 0 /\ cur = pc /\ (\A e \in Executors : eat[e] = "idle")
               /\ ~ stray /\ (ran = 0 \/ (ran = 1 /\ at = "ran"))
  BY NobodyBusy DEF Turn, DriversTurn, Counted, TypeOK
<1>3. CASE Start \/ Enter
  <2>1. entry = 0 /\ ran = 0 /\ ~ stray /\ (at = "enter" => cur' = pc)
    BY <1>3, NobodyBusy DEF Start, Enter, Turn, DriversTurn, Counted, Live, TypeOK
  <2>2. QED BY <1>1, <1>3, <2>1 DEF Start, Enter
<1>4. CASE Yield \/ GiveUp \/ Guard \/ Stop \/ End
  BY <1>1, <1>2, <1>4 DEF Yield, GiveUp, Guard, Stop, End, EndDriver, At
<1>5. CASE Core \/ Jump
  <2>1. PICK p \in AllRows : p # pc /\ GoOn(p)
    BY <1>2, <1>5 DEF Core, Jump, At, Placed
  <2>2. QED BY <1>1, <1>2, <1>5, <2>1 DEF GoOn, WritePc, Core, Jump, At
<1>6. CASE CoreFails \/ DispatchFails
  BY <1>1, <1>2, <1>6 DEF CoreFails, DispatchFails, FailHere, WritePc, EndDriver, At
<1>7. CASE WriteBack
  BY <1>1, <1>2, <1>7 DEF WriteBack, WritePc, HandBack
<1>8. CASE Dispatch
  <2>1. entry = 0 /\ cur = pc /\ ~ stray /\ ran = 0 BY <1>2, <1>8 DEF Dispatch
  <2>2. /\ UNCHANGED <<pc, entry, cur, eat, epc>> /\ at = "batch" /\ at' = "ran"
        /\ Executed(pc)
    BY <1>8, <2>1 DEF Dispatch
  <2>3. ran' = 1 /\ ~ stray' BY <2>1, <2>2, FirstTime
  <2>4. QED BY <1>1, <2>1, <2>2, <2>3
<1>9. CASE Advance
  <2>1. cur + 1 # pc BY <1>2, <1>9 DEF Advance, Placed
  <2>2. QED BY <1>1, <1>2, <1>9, <2>1 DEF Advance, WritePc, BatchPc, NextInBatch
<1>10. CASE Offer
  <2>1. entry' = pc /\ cur' = pc /\ pc \in AllRows /\ at' = "watch" /\ Claimed(pc)
    BY <1>2, <1>10 DEF Offer, Placed
  <2>2. DriversTurn'
    BY <2>1, <1>10 DEF Offer, DriversTurn, Claimed
  <2>3. ExecutorsTurn' /\ Counted'
    BY <2>1, <1>2, <1>10 DEF Offer, ExecutorsTurn, Counted, Busy
  <2>4. QED BY <2>2, <2>3 DEF Turn
<1>11. CASE Answered
  <2>1. entry = 0 /\ ran = 0 /\ (\A e \in Executors : eat[e] = "idle")
    BY <1>11, NobodyBusy DEF Answered, Turn, Counted, TypeOK
  <2>2. QED BY <2>1, <1>11 DEF Answered, Turn, DriversTurn, ExecutorsTurn, Counted, Busy
<1>12. CASE TimedOut
  <2>1. /\ cur = entry /\ Claimed(entry) /\ pc' = entry /\ at' = "idle" /\ status' = "error"
        /\ UNCHANGED <<entry, eat, epc, stray>> /\ entry # 0 /\ at = "watch"
        /\ ran' = IF cur = pc THEN ran ELSE 0
    BY <1>12 DEF TimedOut, FailHere, WritePc, EndDriver, Turn, DriversTurn
  <2>2. DriversTurn' BY <2>1 DEF DriversTurn, Claimed
  <2>3. ExecutorsTurn' BY <2>1 DEF Turn, ExecutorsTurn, Busy
  <2>4. Counted' BY <2>1 DEF Turn, Counted
  <2>5. QED BY <2>2, <2>3, <2>4 DEF Turn
<1>13. QED
  BY <1>0, <1>3, <1>4, <1>5, <1>6, <1>7, <1>8, <1>9, <1>10, <1>11, <1>12 DEF Drive

LEMMA ExecutorTurn ==
  ASSUME TypeOK, Placed, Turn, crashes' = 0, NEW e \in Executors, Serve(e)
  PROVE  Turn'
<1> USE CodeRows DEF kvvars, drvars, exvars, hivars, Turn
<1>1. CASE Claim(e)
  <2>1. \A f \in Executors : ~ Busy(f)
    BY <1>1, HandoffAssumption DEF Claim, ExecutorsTurn, Busy
  <2>2. /\ UNCHANGED <<pc, status, entry, at, cur, ran, stray>> /\ entry # 0
        /\ eat' = [eat EXCEPT ![e] = "run"] /\ epc' = [epc EXCEPT ![e] = entry]
        /\ Row(entry).rt = Serves[e]
    BY <1>1 DEF Claim
  <2>3. \A f \in Executors : /\ eat[f] = "idle"
                             /\ eat'[f] = IF f = e THEN "run" ELSE "idle"
                             /\ epc'[f] = IF f = e THEN entry ELSE epc[f]
    BY <2>1, <2>2 DEF Busy, TypeOK
  <2>4. DriversTurn' BY <2>2 DEF DriversTurn, Claimed
  <2>5. ExecutorsTurn' BY <2>2, <2>3 DEF ExecutorsTurn, Busy
  <2>6. Counted' BY <2>2, <2>3 DEF Counted
  <2>7. QED BY <2>4, <2>5, <2>6
<1>2. CASE Run(e) \/ RunFails(e) \/ WriteNext(e) \/ Release(e)
  <2>0. Busy(e) BY <1>2 DEF Run, RunFails, WriteNext, Release, Busy
  <2>1. \A f \in Executors : f # e => eat[f] = "idle"
    BY <2>0, OneBusy DEF Busy
  <2>2. epc[e] = entry /\ entry # 0 /\ entry \in AllRows /\ Serves[e] = Row(entry).rt
    BY <2>0 DEF ExecutorsTurn, TypeOK
  <2>3. /\ Claimed(entry) /\ at \notin {"core", "guard", "batch", "ran", "stalled"}
        /\ (at = "watch" => cur = entry /\ Claimed(cur))
        /\ (at = "watch" \/ (at = "idle" /\ status = "error"))
    BY <2>2 DEF DriversTurn
  <2>4. CASE Run(e) \/ RunFails(e)
    <3>1. pc = entry /\ ran = 0
      BY <2>1, <2>3, <2>4 DEF Run, RunFails, ExecutorsTurn, Counted, TypeOK
    <3>0. ~ stray /\ Executed(pc)
      BY <2>2, <2>4, <3>1 DEF Run, RunFails, Counted
    <3>2. /\ UNCHANGED <<pc, entry, at, cur, epc>> /\ ran' = 1 /\ ~ stray'
          /\ eat' = [eat EXCEPT ![e] = "advance"] /\ status' \in {"error", status}
      BY <2>4, <3>0, <3>1, FirstTime DEF Run, RunFails, AfterRun, AfterFailure
    <3>3. \A f \in Executors : eat'[f] = IF f = e THEN "advance" ELSE "idle"
      BY <2>1, <3>2 DEF TypeOK
    <3>4. DriversTurn' BY <2>2, <2>3, <3>2 DEF DriversTurn, Claimed
    <3>5. ExecutorsTurn' BY <2>2, <3>1, <3>2, <3>3 DEF ExecutorsTurn, Busy
    <3>6. Counted' BY <3>2, <3>3 DEF Counted
    <3>7. QED BY <3>4, <3>5, <3>6
  <2>5. CASE WriteNext(e)
    <3>1. /\ pc' = entry + 1 /\ ran' = 0 /\ stray' = stray
          /\ UNCHANGED <<status, entry, at, cur, epc>>
          /\ eat' = [eat EXCEPT ![e] = "release"]
      BY <2>2, <2>5 DEF WriteNext, WritePc, ExecutorsTurn
    <3>2. \A f \in Executors : eat'[f] = IF f = e THEN "release" ELSE "idle"
      BY <2>1, <3>1 DEF TypeOK
    <3>3. DriversTurn' BY <2>2, <2>3, <3>1 DEF DriversTurn, Claimed
    <3>4. ExecutorsTurn' BY <2>2, <3>1, <3>2 DEF ExecutorsTurn, Busy
    <3>5. Counted' BY <3>1 DEF Counted
    <3>6. QED BY <3>3, <3>4, <3>5
  <2>6. CASE Release(e)
    <3>1. ran = 0 BY <2>1, <2>3, <2>6 DEF Release, Counted, TypeOK
    <3>2. /\ UNCHANGED <<pc, status, at, cur, ran, stray>> /\ entry' = 0
          /\ eat' = [eat EXCEPT ![e] = "idle"]
          /\ at = "watch" => pc = cur + 1
      BY <2>3, <2>6 DEF Release, ExecutorsTurn
    <3>3. \A f \in Executors : eat'[f] = "idle" BY <2>1, <3>2 DEF TypeOK
    <3>4. DriversTurn' BY <2>3, <3>2 DEF DriversTurn, Claimed
    <3>5. ExecutorsTurn' /\ Counted'
      BY <3>1, <3>2, <3>3 DEF ExecutorsTurn, Counted, Busy
    <3>6. QED BY <3>4, <3>5
  <2>7. QED BY <1>2, <2>4, <2>5, <2>6
<1>3. QED BY <1>1, <1>2 DEF Serve

(***************************************************************************)
(* After one death                                                         *)
(***************************************************************************)
(* A row has one runtime, and that one executor. *)
LEMMA SameRow == ASSUME ServesIt, NEW e \in Executors, NEW f \in Executors, Busy(e), Busy(f),
                        epc[e] = epc[f]
                 PROVE  e = f
  BY HandoffAssumption DEF ServesIt

(* Of three busy executors two would answer the driver. *)
LEMMA NoThird == ASSUME Shared, NEW d \in Executors, NEW e \in Executors, NEW f \in Executors,
                        Busy(d), Busy(e), Busy(f), d # e, e # f, d # f
                 PROVE  FALSE
<1>1. PICK g \in {d, e} : Proper(g) BY DEF Shared, Pair
<1>2. PICK h \in {d, e, f} \ {g} : Proper(h) BY DEF Shared, Pair
<1>3. g = h BY <1>1, <1>2, SameRow DEF Shared, Proper
<1>4. QED BY <1>2, <1>3

(* While the driver is at a row of its own, or has not offered one, the *)
(* executors stand still, but for one at most.                          *)
LEMMA StillFacts ==
  ASSUME TypeOK, Placed, Shared
  PROVE  /\ at \in OnRow \cup {"ran"} /\ Row(cur).op # "ext" =>
               cur = pc /\ \A f \in Executors : ~ Working(f)
         /\ at # "watch" => \A e, f \in Executors : Busy(e) /\ Busy(f) => e = f
  BY DEF Placed, Shared, DriverAt, WorkAt, Pair, Proper, OnRow, Claimed, Working, Busy

(* The driver's steps. *)
LEMMA DriverShared ==
  ASSUME TypeOK, Placed, Shared, status' # "error", Start \/ Drive \/ TimedOut
  PROVE  Shared'
<1> USE CodeRows, StillFacts DEF kvvars, drvars, exvars, hivars, Placed, Busy, Working, OnRow
<1> USE DEF Shared, DriverAt, WorkAt, ServesIt, Pair, Proper, Resting, LeftBehind, Overtaken, BeforePassing
<1>1. CASE Start
  BY <1>1 DEF Start
<1>2. CASE Enter
  BY <1>2 DEF Enter
<1>3. CASE Stop \/ End \/ GiveUp
  BY <1>3 DEF Stop, End, GiveUp, EndDriver, At
<1>4. CASE Yield
  BY <1>4 DEF Yield, At
<1>5. CASE Guard
  BY <1>5 DEF Guard
<1>6. CASE Core \/ Jump
  <2>1. PICK p \in AllRows : p # pc /\ GoOn(p)
    BY <1>6 DEF Core, Jump, At, Placed
  <2>2. QED BY <1>6, <2>1 DEF GoOn, WritePc, Core, Jump, At, Claimed
<1>7. CASE Dispatch
  BY <1>7 DEF Dispatch, Executed, TypeOK, Claimed
<1>8. CASE Advance
  BY <1>8 DEF Advance, WritePc, BatchPc, NextInBatch, Claimed
<1>9. CASE Offer
  BY <1>9 DEF Offer, Claimed
<1>10. CASE Answered
  BY <1>10 DEF Answered
<1>11. CASE WriteBack
  BY <1>11 DEF WriteBack, WritePc, HandBack
<1>12. CASE CoreFails \/ DispatchFails \/ TimedOut
  BY <1>12 DEF CoreFails, DispatchFails, TimedOut, FailHere
<1>13. QED
  BY <1>1, <1>2, <1>3, <1>4, <1>5, <1>6, <1>7, <1>8, <1>9, <1>10, <1>11, <1>12 DEF Drive

(* The executors' steps. *)
LEMMA ExecutorShared ==
  ASSUME TypeOK, Placed, Shared, status' # "error", NEW e \in Executors, Serve(e)
  PROVE  Shared'
<1> USE CodeRows DEF kvvars, drvars, exvars, hivars, Placed, Busy, Working, OnRow
<1> USE DEF Shared, DriverAt, WorkAt, ServesIt, Pair, Proper, Resting, LeftBehind, Overtaken, BeforePassing
<1>1. CASE Claim(e)
  <2>1. /\ UNCHANGED <<pc, status, entry, at, cur, ran>> /\ entry # 0 /\ eat[e] = "idle"
        /\ Row(entry).rt = Serves[e]
        /\ \A f \in Executors : /\ eat'[f] = IF f = e THEN "run" ELSE eat[f]
                                /\ epc'[f] = IF f = e THEN entry ELSE epc[f]
    BY <1>1 DEF Claim, TypeOK
  <2>2. Claimed(entry) /\ \A f \in Executors : Busy(f) => epc[f] # entry
    BY <2>1, HandoffAssumption
  <2>3. \A f \in Executors : f # e /\ Busy(f) => /\ at = "watch" /\ cur = entry /\ pc = cur
                                                 /\ eat[f] = "release"
    <3> SUFFICES ASSUME NEW f \in Executors, f # e, Busy(f)
                 PROVE  at = "watch" /\ cur = entry /\ pc = cur /\ eat[f] = "release"
      OBVIOUS
    <3>1. at = "watch" /\ cur = entry BY <2>1, <2>2
    <3>2. pc = cur BY <2>2, <3>1, <2>1
    <3>3. eat[f] = "release" BY <2>2, <3>1 DEF TypeOK
    <3>4. QED BY <3>1, <3>2, <3>3
  <2>4. DriverAt' /\ WorkAt' BY <2>1, <2>2, <2>3 DEF Claimed
  <2>5. ServesIt' BY <2>1
  <2>6. Pair' BY <2>1, <2>3
  <2>7. LeftBehind' /\ Overtaken' /\ BeforePassing' BY <2>1, <2>2, <2>3 DEF Claimed
  <2>8. QED BY <2>4, <2>5, <2>6, <2>7
<1>2. CASE Run(e) \/ RunFails(e)
  <2>1. /\ UNCHANGED <<pc, entry, at, cur, epc>> /\ eat[e] = "run" /\ status' \in {"error", status}
        /\ \A f \in Executors : eat'[f] = IF f = e THEN "advance" ELSE eat[f]
        /\ ran' >= ran /\ (epc[e] = pc => ran' > 0)
    BY <1>2 DEF Run, RunFails, AfterRun, AfterFailure, Executed, TypeOK
  <2>2. DriverAt' /\ WorkAt' /\ ServesIt' BY <2>1 DEF Claimed
  <2>3. Pair' BY <2>1
  <2>4. LeftBehind' /\ Overtaken' BY <2>1 DEF Claimed
  <2>5. BeforePassing' BY <2>1 DEF TypeOK
  <2>6. QED BY <2>2, <2>3, <2>4, <2>5
<1>3. CASE WriteNext(e)
  <2>1. /\ pc' = epc[e] + 1 /\ UNCHANGED <<status, entry, at, cur, epc>> /\ eat[e] = "advance"
        /\ \A f \in Executors : eat'[f] = IF f = e THEN "release" ELSE eat[f]
        /\ Claimed(epc[e])
    BY <1>3 DEF WriteNext, WritePc, TypeOK, Claimed
  <2>2. \A f \in Executors : f # e /\ Busy(f) => eat[f] = "release" /\ Proper(e)
    BY <2>1
  <2>3. DriverAt' /\ WorkAt' /\ ServesIt' BY <2>1, <2>2 DEF Claimed
  <2>4. Pair' BY <2>1, <2>2, NoThird
  <2>5. LeftBehind' /\ Overtaken' /\ BeforePassing' BY <2>1, <2>2 DEF Claimed
  <2>6. QED BY <2>3, <2>4, <2>5
<1>4. CASE Release(e)
  <2>1. /\ entry' = 0 /\ UNCHANGED <<pc, status, at, cur, ran>> /\ eat[e] = "release"
        /\ \A f \in Executors : /\ eat'[f] = IF f = e THEN "idle" ELSE eat[f]
                                /\ epc'[f] = IF f = e THEN 0 ELSE epc[f]
    BY <1>4 DEF Release, TypeOK
  <2>2. \A f \in Executors : f # e /\ Working(f) => pc = epc[f]
    BY <2>1
  <2>3. DriverAt' /\ WorkAt' /\ ServesIt' BY <2>1, <2>2 DEF Claimed
  <2>4. Pair' BY <2>1, NoThird
  <2>5. LeftBehind' /\ Overtaken' /\ BeforePassing' BY <2>1, <2>2 DEF Claimed
  <2>6. QED BY <2>3, <2>4, <2>5
<1>5. QED BY <1>1, <1>2, <1>3, <1>4 DEF Serve

(* The one death: whose turn it was is left as it is. *)
LEMMA CrashShared == ASSUME TypeOK, Placed, Turn, Shared, Crash PROVE Shared'
<1> USE DEF Shared, DriverAt, WorkAt, ServesIt, Pair, Proper, Resting, LeftBehind, Overtaken, BeforePassing
<1>1. /\ UNCHANGED <<pc, status, entry, eat, epc, ran>> /\ at' = "idle"
  BY DEF Crash, EndDriver, kvvars, exvars
<1>2. \A e, f \in Executors : Busy(e) /\ Busy(f) => e = f
  BY OneBusy DEF Turn
<1>3. \A f \in Executors : Working(f) => pc = epc[f] /\ Row(epc[f]).rt \in Registered
  BY DEF Turn, DriversTurn, ExecutorsTurn, Working, Busy, Claimed
<1>4. LeftBehind' BY <1>1, CodeRows DEF Turn, DriversTurn, ExecutorsTurn, Busy, Claimed
<1>5. QED BY <1>1, <1>2, <1>3, <1>4 DEF OnRow, Working, Busy

(***************************************************************************)
(* The guard                                                               *)
(***************************************************************************)
(* Beyond has the row behind p and is closed: no induction over the program. *)
LEMMA BeyondStarts == \A p \in AllRows : p + 1 \in AllRows => p + 1 \in Beyond(p)
  BY DEF Beyond

LEMMA BeyondGoesOn ==
  ASSUME NEW p, NEW q \in Beyond(p), Own(q), NEW r \in AllRows, Follows(q, r)
  PROVE  r \in Beyond(p)
<1> SUFFICES ASSUME NEW S \in SUBSET AllRows, p + 1 \in S, Closed(S) PROVE r \in S
  BY DEF Beyond
<1>1. q \in S BY DEF Beyond
<1>2. QED BY <1>1 DEF Closed

(* The driver counts a return to a served row once, and only after an entry *)
(* of the driver before it has gone.                                        *)
LEMMA DriverGuard ==
  ASSUME TypeOK, Placed, Handing, GuardInv, Start \/ Drive \/ TimedOut \/ Crash
  PROVE  GuardInv'
<1> USE CodeRows DEF kvvars, drvars, exvars, hivars
<1> USE DEF GuardInv, Remembers, Served, Back, AllOn, GivenUpIsUnserved, Busy, Working
<1>1. CASE Start
  BY <1>1 DEF Start
<1>2. CASE Enter
  BY <1>2 DEF Enter
<1>3. CASE Stop \/ End \/ GiveUp \/ Crash \/ CoreFails \/ DispatchFails \/ TimedOut
  <2>1. at' = "idle" /\ guard' = NoGuard
    BY <1>3 DEF Stop, End, GiveUp, Crash, CoreFails, DispatchFails, TimedOut, FailHere, EndDriver
  <2>2. QED BY <2>1 DEF NoGuard
<1>4. CASE Yield
  BY <1>4 DEF Yield, At
<1>5. CASE Guard
  <2>1. PICK n \in 0 .. 3 : /\ guard' = [pc |-> cur, st |-> status, n |-> n, ran |-> FALSE]
                            /\ at' = IF n >= 3 THEN "stalled" ELSE "batch"
                            /\ status \in Live /\ cur \in AllRows /\ at = "guard"
                            /\ n = IF Same THEN guard.n + 1 ELSE 0
    <3>1. guard.n \in 0 .. 2 BY <1>5 DEF Guard, Guards, TypeOK, Placed
    <3>2. (IF Same THEN guard.n + 1 ELSE 0) \in 0 .. 3 BY <3>1
    <3>3. QED BY <3>2, <1>5 DEF Guard, Limit, Placed
  <2>2. /\ guard'.pc = cur /\ guard'.n = n /\ ~ guard'.ran
        /\ UNCHANGED <<pc, status, entry, cur, eat, epc>>
    BY <2>1, <1>5 DEF Guard
  <2>3. Row(cur).op = "host" => n = 0
    BY <2>1 DEF Same, Live
  <2>4. Claimed(cur) /\ ~ Alone(cur) => n <= 1 /\ (n = 1 => AllOn(cur))
    BY <2>1 DEF Same, Live, Alone
  <2>5. Remembers(cur)' BY <2>1, <2>2, <2>3, <2>4
  <2>6. GivenUpIsUnserved' BY <2>1, <2>2, <2>3, <2>4
  <2>7. QED BY <2>1, <2>2, <2>5, <2>6
<1>6. CASE Core \/ Jump
  <2>1. PICK q \in AllRows : /\ GoOn(q) /\ at = "core" /\ status \in Live
                             /\ Own(cur) /\ Follows(cur, q)
    BY <1>6 DEF Core, Jump, At, Placed, Own, Follows
  <2>2. cur' = q /\ at' = "core" /\ guard' = guard /\ UNCHANGED <<entry, eat, epc>>
    BY <2>1 DEF GoOn
  <2>3. ASSUME guard.pc # 0, Claimed(guard.pc), ~ Alone(guard.pc)
        PROVE  q \in Beyond(guard.pc)
    <3>1. cur \in Beyond(guard.pc) BY <2>1, <2>3 DEF Live, Own, Claimed
    <3>2. QED BY <3>1, <2>1, BeyondGoesOn
  <2>4. QED BY <2>1, <2>2, <2>3 DEF Live
<1>7. CASE Dispatch
  BY <1>7 DEF Dispatch, Claimed, TypeOK, Guards
<1>8. CASE Advance
  BY <1>8 DEF Advance
<1>9. CASE Offer
  BY <1>9 DEF Offer, Claimed, Placed
<1>10. CASE Answered
  <2>1. ASSUME status # "error", guard.pc # 0, Claimed(guard.pc), ~ Alone(guard.pc), pc = guard.pc + 1
        PROVE  pc \in Beyond(guard.pc) /\ \A f \in Executors : ~ Working(f)
    <3>1. cur = guard.pc BY <1>10, <2>1 DEF Answered
    <3>2. pc \in Beyond(guard.pc) BY <2>1, BeyondStarts DEF TypeOK, Guards
    <3>3. \A f \in Executors : ~ Working(f)
      BY <1>10, <2>1, <3>1 DEF Handing, Shared, WorkAt, Answered, TypeOK, OnRow
    <3>4. QED BY <3>2, <3>3
  <2>2. QED BY <1>10, <2>1 DEF Answered, Working
<1>11. CASE WriteBack
  BY <1>11 DEF WriteBack, Claimed
<1>12. QED
  BY <1>1, <1>2, <1>3, <1>4, <1>5, <1>6, <1>7, <1>8, <1>9, <1>10, <1>11 DEF Drive

(* No executor's step makes a return look like the first one twice. *)
LEMMA ExecutorGuard ==
  ASSUME TypeOK, Placed, Handing, GuardInv, NEW e \in Executors, Serve(e)
  PROVE  GuardInv'
<1> USE CodeRows DEF kvvars, drvars, exvars, hivars
<1>1. UNCHANGED <<at, cur, guard>>
  BY DEF Serve, Claim, Run, RunFails, WriteNext, Release
<1>a. status' # "error" => status # "error"
  BY DEF Serve, Claim, Run, RunFails, WriteNext, Release
<1>b. SUFFICES ASSUME status' # "error", NEW p, p = guard.pc, p # 0 PROVE Remembers(p)'
  <2>1. PICK p : p = guard.pc OBVIOUS
  <2>2. status' # "error" /\ p # 0 => Remembers(p)' BY <2>1
  <2>3. status' # "error" /\ guard'.pc # 0 => Remembers(guard.pc)'
    BY <1>1, <2>1, <2>2 DEF Remembers, Served, Back, AllOn, Busy, Working
  <2>4. QED BY <1>1, <2>3 DEF GuardInv, GivenUpIsUnserved
<1>c. Remembers(p) BY <1>a, <1>b DEF GuardInv
<1>2. SUFFICES ASSUME Claimed(p), ~ Alone(p), at # "stalled" PROVE Served(p)'
  BY <1>1, <1>c DEF Remembers
<1>3. Shared /\ Served(p) /\ p \in AllRows
  BY <1>a, <1>b, <1>c, <1>2 DEF Remembers, Handing, TypeOK, Guards
<1> USE DEF Served, Back, AllOn
<1>4. CASE Claim(e)
  <2>1. /\ UNCHANGED <<pc, entry>> /\ entry # 0 /\ eat[e] = "idle" /\ Row(entry).rt = Serves[e]
        /\ \A f \in Executors : /\ eat'[f] = IF f = e THEN "run" ELSE eat[f]
                                /\ epc'[f] = IF f = e THEN entry ELSE epc[f]
    BY <1>4 DEF Claim, TypeOK
  <2>2. \A f \in Executors : Busy(f) => epc[f] # entry
    BY <1>3, <2>1, HandoffAssumption DEF Shared, ServesIt, Busy
  <2>3. at \in {"batch", "watch"} => entry = p
    BY <1>3, <2>1, <2>2 DEF Shared, LeftBehind, Resting
  <2>4. QED BY <1>1, <1>3, <2>1, <2>3 DEF Busy, Working
<1>5. CASE Run(e) \/ RunFails(e)
  <2>1. /\ UNCHANGED <<pc, entry, epc>> /\ eat[e] = "run"
        /\ \A f \in Executors : eat'[f] = IF f = e THEN "advance" ELSE eat[f]
    BY <1>5 DEF Run, RunFails, AfterRun, AfterFailure, TypeOK
  <2>2. QED BY <1>1, <1>3, <2>1 DEF Busy, Working
<1>6. CASE WriteNext(e)
  <2>1. /\ pc' = epc[e] + 1 /\ UNCHANGED <<entry, epc>> /\ eat[e] = "advance"
        /\ \A f \in Executors : eat'[f] = IF f = e THEN "release" ELSE eat[f]
        /\ epc[e] \in AllRows
    BY <1>6 DEF WriteNext, WritePc, TypeOK, Placed
  <2>2. AllOn(p) => AllOn(p)' /\ pc' = p + 1 /\ \A f \in Executors : ~ Working(f)'
    BY <1>3, <2>1, SameRow DEF Shared, Busy, Working
  <2>3. p + 1 \in Beyond(p) BY <1>2, <1>3, BeyondStarts DEF Claimed
  <2>4. at = "watch" => epc[e] = p BY <1>3, <2>1 DEF Shared, WorkAt, Working
  <2>5. QED BY <1>1, <1>3, <2>1, <2>2, <2>3, <2>4 DEF Working
<1>7. CASE Release(e)
  <2>1. /\ entry' = 0 /\ UNCHANGED pc /\ eat[e] = "release"
        /\ \A f \in Executors : /\ eat'[f] = IF f = e THEN "idle" ELSE eat[f]
                                /\ epc'[f] = IF f = e THEN 0 ELSE epc[f]
    BY <1>7 DEF Release, TypeOK
  <2>2. AllOn(p) => AllOn(p)' BY <2>1 DEF Busy
  <2>3. at = "watch" /\ pc # p + 1 => pc = p /\ guard.n = 0 /\ AllOn(p)'
    <3> SUFFICES ASSUME at = "watch", pc # p + 1 PROVE pc = p /\ guard.n = 0 /\ AllOn(p)'
      OBVIOUS
    <3>1. cur = p /\ pc = p BY <1>3 DEF Shared, DriverAt
    <3>2. guard.n = 0 BY <1>2, <1>3, <2>1 DEF Busy, TypeOK, Guards
    <3>3. \A f \in Executors : Busy(f) /\ f # e => epc[f] = p /\ eat[f] # "release"
      BY <1>3, <2>1, <3>1 DEF Shared, Pair, Proper, Busy
    <3>4. QED BY <2>1, <3>1, <3>2, <3>3 DEF Busy
  <2>4. QED BY <1>1, <1>3, <2>1, <2>2, <2>3 DEF Working
<1>8. QED BY <1>4, <1>5, <1>6, <1>7 DEF Serve

(* The invariant of one death begins and stays. *)
LEMMA InitOneDeath == ASSUME Init PROVE OneDeath
<1>1. Shared
  BY DEF Init, NoDriver, Shared, DriverAt, WorkAt, ServesIt, Pair, LeftBehind, Overtaken,
         BeforePassing, Busy, Working, OnRow
<1>2. GuardInv BY DEF Init, NoDriver, NoGuard, GuardInv, GivenUpIsUnserved
<1>3. QED BY <1>1, <1>2 DEF OneDeath, Handing

LEMMA StepOneDeath == ASSUME MaxCrashes <= 1, IInv, OneDeath, [Next]_vars PROVE OneDeath'
<1>0. TypeOK /\ Placed /\ (crashes = 0 => Turn) /\ Handing /\ GuardInv
  BY DEF IInv, OneDeath, Handing
<1>1. CASE Crash
  <2>1. crashes = 0 /\ status' = status
    BY <1>0, <1>1, HandoffAssumption DEF Crash, TypeOK, kvvars
  <2>2. status' # "error" => Shared'
    BY <1>0, <1>1, <2>1, CrashShared DEF Handing
  <2>3. GuardInv' BY <1>0, <1>1, DriverGuard
  <2>4. QED BY <2>2, <2>3 DEF OneDeath, Handing
<1>2. CASE Start \/ Drive \/ TimedOut
  <2>1. status' # "error" => status # "error"
    BY <1>2 DEF Start, Drive, TimedOut, Enter, Stop, Core, Jump, GoOn, End, CoreFails, FailHere, At,
      Yield, Guard, GiveUp, Dispatch, DispatchFails, Advance, Offer, Answered, WriteBack, kvvars, Live
  <2>2. status' # "error" => Shared' BY <1>0, <1>2, <2>1, DriverShared DEF Handing
  <2>3. GuardInv' BY <1>0, <1>2, DriverGuard
  <2>4. QED BY <2>2, <2>3 DEF OneDeath, Handing
<1>3. ASSUME NEW e \in Executors, Serve(e) PROVE OneDeath'
  <2>1. status' # "error" => status # "error"
    BY <1>3 DEF Serve, Claim, Run, RunFails, WriteNext, Release, kvvars
  <2>2. status' # "error" => Shared' BY <1>0, <1>3, <2>1, ExecutorShared DEF Handing
  <2>3. GuardInv' BY <1>0, <1>3, ExecutorGuard
  <2>4. QED BY <2>2, <2>3 DEF OneDeath, Handing
<1>4. CASE UNCHANGED vars
  <2>1. Shared' <=> Shared
    BY <1>4 DEF vars, kvvars, drvars, exvars, hivars, Shared, DriverAt, WorkAt, ServesIt, Pair, Proper,
      Resting, LeftBehind, Overtaken, BeforePassing, Busy, Working, OnRow
  <2>2. GuardInv' <=> GuardInv
    BY <1>4 DEF vars, kvvars, drvars, exvars, hivars, GuardInv, Remembers, Served, Back, AllOn,
      GivenUpIsUnserved, Busy, Working
  <2>3. QED BY <1>4, <2>1, <2>2 DEF OneDeath, Handing, vars, kvvars
<1>5. QED BY <1>1, <1>2, <1>3, <1>4 DEF Next

(***************************************************************************)
(* Theorems                                                                *)
(***************************************************************************)
(* The strengthened invariant of the drive loop and its executors. *)
THEOREM Invariance == Spec => []IInv
<1>1. ASSUME IInv, [Next]_vars PROVE IInv'
  <2>1. CASE Start \/ Drive \/ TimedOut \/ Crash
    <3>1. crashes' = 0 => crashes = 0
      BY <1>1, <2>1 DEF IInv, TypeOK, Crash, Start, Drive, TimedOut, Enter, Stop, Core, Jump, GoOn, End,
        CoreFails, FailHere, Yield, Guard, GiveUp, Dispatch, DispatchFails, Advance, Offer,
        Answered, WriteBack, hivars
    <3>2. QED BY <1>1, <2>1, <3>1, DriverTyped, DriverTurn DEF IInv
  <2>2. ASSUME NEW e \in Executors, Serve(e) PROVE IInv'
    <3>1. crashes' = crashes
      BY <2>2 DEF Serve, Claim, Run, RunFails, WriteNext, Release, hivars
    <3>2. QED BY <1>1, <2>2, <3>1, ExecutorTyped, ExecutorTurn DEF IInv
  <2>3. CASE UNCHANGED vars
    BY <1>1, <2>3 DEF IInv, TypeOK, Placed, Turn, DriversTurn, ExecutorsTurn, Counted, Busy,
      Claimed, vars, kvvars, drvars, exvars, hivars
  <2>4. QED BY <1>1, <2>1, <2>2, <2>3 DEF Next
<1>2. QED BY InitInv, <1>1, PTL DEF Spec

(* The tree, the driver and the executors hold what their types say: no pc    *)
(* leaves the function, and the guard's count stays below its limit.          *)
THEOREM TypeCorrect == Spec => []TypeOK
<1>1. IInv => TypeOK BY DEF IInv
<1>2. QED BY <1>1, Invariance, PTL

(* Unless a driver dies, no instruction is executed twice or out of its turn, *)
(* in any program with any number of runtimes, however late an answer comes.  *)
THEOREM ExecutedOnce == Spec => []AtMostOnce
<1>1. IInv => AtMostOnce BY DEF IInv, Turn, Counted, AtMostOnce
<1>2. QED BY <1>1, Invariance, PTL

(* A driver that goes on after an answer finds ..pc behind the instruction. *)
THEOREM AnswerHasMovedPc == Spec => AnswerMovesPc
<1>1. ASSUME IInv, [Next]_vars
      PROVE  [at = "watch" /\ at' = "enter" /\ crashes = 0 => pc = cur + 1]_vars
  <2> SUFFICES ASSUME Next, at = "watch", at' = "enter", crashes = 0 PROVE pc = cur + 1
    BY <1>1 DEF vars
  <2>1. Answered
    BY DEF Next, Start, Drive, TimedOut, Crash, Enter, Stop, Core, Jump, GoOn, End, CoreFails,
      FailHere, Yield, Guard, GiveUp, Dispatch, DispatchFails, Advance, Offer, WriteBack, At,
      EndDriver, Serve, Claim, Run, RunFails, WriteNext, Release, drvars
  <2>2. QED BY <1>1, <2>1 DEF Answered, IInv, Turn, DriversTurn
<1>2. QED BY <1>1, Invariance, PTL DEF Spec, AnswerMovesPc

(* With one death of the driver, in any program: whoever is still busy with *)
(* an instruction, and what the guard has counted.                          *)
THEOREM OneDeathInvariance == ASSUME MaxCrashes <= 1 PROVE Spec => []OneDeath
<1>1. IInv /\ OneDeath /\ [Next]_vars => OneDeath' BY StepOneDeath
<1>2. QED BY Invariance, InitOneDeath, <1>1, PTL DEF Spec

(* One death of the driver costs no instruction of any program: whoever moves  *)
(* ..pc passes only what has been executed.  Two deaths can (README, section 3). *)
THEOREM NothingSkipped == ASSUME MaxCrashes <= 1 PROVE Spec => NoneSkipped
<1>1. ASSUME IInv, OneDeath, [Next]_vars
      PROVE  [pc' # pc /\ status' # "error" =>
                /\ Follows(pc, pc')
                /\ Row(pc).op \in {"host", "ext"} => ran > 0]_vars
  <2> SUFFICES ASSUME Next, pc' # pc, status' # "error"
               PROVE  Follows(pc, pc') /\ (Row(pc).op \in {"host", "ext"} => ran > 0)
    BY <1>1
  <2> USE <1>1 DEF IInv, OneDeath, Handing, Placed, kvvars, drvars, exvars, hivars
  <2>1. CASE Core \/ Jump
    <3>1. status # "error" /\ cur = pc
      BY <2>1 DEF Core, Jump, At, Live, Shared, DriverAt, OnRow, Claimed
    <3>2. QED BY <2>1, <3>1 DEF Core, Jump, At, GoOn, WritePc, Follows
  <2>2. CASE Advance
    <3>1. cur = pc /\ ran > 0 /\ pc' = pc + 1
      BY <2>2 DEF Advance, Shared, DriverAt, BeforePassing, WritePc, BatchPc
    <3>2. QED BY <2>2, <3>1 DEF Advance, Follows
  <2>3. CASE WriteBack
    BY <2>3 DEF WriteBack, WritePc, HandBack, Shared, DriverAt, OnRow
  <2>4. ASSUME NEW e \in Executors, WriteNext(e)
        PROVE  Follows(pc, pc') /\ (Row(pc).op \in {"host", "ext"} => ran > 0)
    <3>1. /\ eat[e] = "advance" /\ pc' = epc[e] + 1 /\ Row(epc[e]).op = "ext"
          /\ status # "error"
      BY <2>4 DEF WriteNext, WritePc
    <3>2. pc = epc[e] BY <3>1 DEF Shared, WorkAt, Working, OnRow
    <3>3. QED BY <3>1, <3>2 DEF Follows, Shared, BeforePassing
  <2>5. CASE CoreFails \/ DispatchFails \/ TimedOut
    BY <2>5 DEF CoreFails, DispatchFails, TimedOut, FailHere
  <2>6. Core \/ Jump \/ Advance \/ WriteBack \/ CoreFails \/ DispatchFails \/ TimedOut
          \/ \E e \in Executors : WriteNext(e)
    BY DEF Next, Start, Drive, Crash, Enter, Stop, End, Yield, Guard, GiveUp, Dispatch, Offer,
      Answered, EndDriver, Serve, Claim, Run, RunFails, Release
  <2>7. QED BY <2>1, <2>2, <2>3, <2>4, <2>5, <2>6
<1>2. QED BY <1>1, Invariance, OneDeathInvariance, PTL DEF Spec, NoneSkipped

(* The guard gives up an instruction only where nobody implements it or where *)
(* it is the only one of its loop that the interpreter hands out, in every    *)
(* program, whatever executor of the driver that died is still at work.       *)
THEOREM GivenUpOnlyUnserved == ASSUME MaxCrashes <= 1 PROVE Spec => []GivenUpIsUnserved
<1>1. OneDeath => GivenUpIsUnserved BY DEF OneDeath, GuardInv
<1>2. QED BY <1>1, OneDeathInvariance, PTL
================================================================================
