-------------------------- MODULE CrashResumeProofs ---------------------------
(***************************************************************************)
(* What holds of the crash/resume analysis for every function, however     *)
(* long, and of the restarts that rely on its record.                      *)
(***************************************************************************)
EXTENDS CrashResumeInv, TLAPS

(* A function has rows. *)
LEMMA FunctionRows == ASSUME NEW f \in Functions PROVE Len(f) \in Nat \ {0}
<1>1. f \in Seq(Row) \ {<<>>} BY CrashResumeAssumption
<1>2. QED BY <1>1

(* The analysis starts inside its invariant. *)
LEMMA InitInv == Init => IInv
<1> SUFFICES ASSUME Init PROVE IInv OBVIOUS
<1>1. Len(fn) \in Nat \ {0} BY FunctionRows DEF Init
<1>2. TypeOK BY <1>1, CrashResumeAssumption DEF Init, TypeOK, Rows, Visit
<1>3. InWalk /\ OutsideWalk /\ RecordedSoFar
  BY <1>1 DEF Init, InWalk, OutsideWalk, RecordedSoFar, Ran, Visiting
<1>4. Resumable BY <1>1 DEF Init, Resumable, Rows
<1>5. QED BY <1>2, <1>3, <1>4 DEF IInv

(* The record of a row that is passed: with one pair for an in-place row, with
   none for another. *)
LEMMA ContinueInv ==
  ASSUME IInv, verdict = "analyzing", index \in Rows, UNCHANGED <<fn, run>>,
         NEW pairs, Continue(pairs),
         \/ pairs = {} /\ ~ InPlace(index)
         \/ \E a \in Rows : /\ pairs = {<<index, a>>} /\ InPlace(index)
                            /\ a = 1 \/ (a < index /\ ~ InPlace(a))
  PROVE  IInv'
<1>1. fn' = fn /\ Rows' = Rows /\ (\A n : InPlace(n)' = InPlace(n))
      /\ Len(fn) \in Nat
  BY FunctionRows DEF run, Rows, InPlace, is_inplace_node, IInv, TypeOK
<1>2. /\ replay' = replay \cup pairs /\ index' = index + 1 /\ current' = 0
      /\ scan' = Visit /\ visited' = {} /\ verdict' = "analyzing"
      /\ at' = at /\ part' = part /\ crashes' = crashes
  BY DEF Continue, run
<1>3. TypeOK'
  BY <1>1, <1>2 DEF IInv, TypeOK, Rows, Visit
<1>4. InWalk' /\ OutsideWalk'
  BY <1>1, <1>2 DEF IInv, InWalk, OutsideWalk, Ran, Visiting, Visit
<1>5. RecordedSoFar'
  BY <1>1, <1>2 DEF IInv, TypeOK, RecordedSoFar, Rows
<1>6. Resumable'
  <2> SUFFICES ASSUME NEW n \in Rows, n < index + 1, InPlace(n)
               PROVE  \E a \in Rows : /\ <<n, a>> \in replay'
                                      /\ \A b \in Rows : <<n, b>> \in replay' => b = a
                                      /\ a = 1 \/ (a < n /\ ~ InPlace(a))
    BY <1>1, <1>2 DEF Resumable
  <2>1. CASE n = index
    <3>1. PICK a \in Rows : /\ pairs = {<<index, a>>} /\ InPlace(index)
                            /\ a = 1 \/ (a < index /\ ~ InPlace(a))
      BY <2>1
    <3>2. \A b \in Rows : <<n, b>> \notin replay
      BY <2>1 DEF IInv, TypeOK, RecordedSoFar, Rows
    <3>3. QED BY <3>1, <3>2, <1>2, <2>1
  <2>2. CASE n # index
    <3>1. n < index BY <2>2 DEF IInv, TypeOK, Rows
    <3>2. PICK a \in Rows : /\ <<n, a>> \in replay
                            /\ \A b \in Rows : <<n, b>> \in replay => b = a
                            /\ a = 1 \/ (a < n /\ ~ InPlace(a))
      BY <3>1 DEF IInv, Resumable
    <3>3. \A b \in Rows : <<n, b>> \in replay' => <<n, b>> \in replay
      BY <2>2, <1>2
    <3>4. QED BY <3>2, <3>3, <1>2
  <2>3. QED BY <2>1, <2>2
<1>7. QED BY <1>3, <1>4, <1>5, <1>6 DEF IInv

(* What is left alone stays as it was while the walk moves on. *)
LEMMA WalkStep ==
  ASSUME IInv, UNCHANGED <<fn, run, index, replay, verdict>>,
         current' \in 0 .. Len(fn), scan' \in [r : Nat, c : Nat, found : Nat],
         visited' \subseteq Rows, current' # 0, InWalk'
  PROVE  IInv'
<1>1. TypeOK' BY DEF IInv, TypeOK, run, Rows
<1>2. OutsideWalk' BY DEF IInv, OutsideWalk, run, Ran
<1>3. RecordedSoFar' BY DEF IInv, RecordedSoFar
<1>4. Resumable' BY DEF IInv, Resumable, Rows, InPlace, is_inplace_node
<1>5. QED BY <1>1, <1>2, <1>3, <1>4 DEF IInv

(* trace_back: the walk only goes to rows above the one it stands at. *)
LEMMA AnalysisStep ==
  ASSUME IInv, analyze_row \/ Arrive \/ Search \/ Follow \/ Finish
  PROVE  IInv'
<1> USE DEF IInv
<1>0. Len(fn) \in Nat \ {0} /\ 1 \in Rows BY FunctionRows DEF TypeOK, Rows
<1>1. CASE analyze_row
  <2>1. CASE InPlace(index)
    <3>1. /\ current' = index /\ UNCHANGED <<index, scan, visited, replay, verdict, fn, run>>
          /\ verdict = "analyzing" /\ index \in Rows /\ current = 0
      BY <1>1, <2>1 DEF analyze_row
    <3>2. InWalk'
      BY <3>1, <2>1, <1>0 DEF InWalk, OutsideWalk, Visiting, Rows, InPlace, is_inplace_node
    <3>3. QED BY <3>1, <3>2, <1>0, WalkStep DEF TypeOK, Rows
  <2>2. CASE ~ InPlace(index)
    <3>1. verdict = "analyzing" /\ index \in Rows /\ Continue({}) /\ UNCHANGED <<fn, run>>
      BY <1>1, <2>2 DEF analyze_row
    <3>2. QED BY <3>1, <2>2, ContinueInv
  <2>3. QED BY <2>1, <2>2
<1>2. CASE Arrive
  <2>1. /\ verdict = "analyzing" /\ current # 0 /\ Visiting /\ UNCHANGED <<fn, run>>
        /\ current \in 1 .. Len(fn) /\ index \in Rows /\ InPlace(index) /\ current <= index
        /\ \A v \in visited : current < v
    BY <1>2, <1>0 DEF Arrive, InWalk, TypeOK, Rows
  <2>2. current \notin visited BY <2>1
  <2>3. CASE Anchors(current)
    <3>1. Continue({<<index, current>>}) BY <1>2, <2>2, <2>3 DEF Arrive
    <3>2. current < index /\ ~ InPlace(current) /\ current \in Rows
      BY <2>1, <2>3 DEF Anchors, Rows
    <3>3. QED BY <2>1, <3>1, <3>2, ContinueInv
  <2>4. CASE ~ Anchors(current)
    <3>1. /\ visited' = visited \cup {current} /\ scan' = [r |-> 1, c |-> 1, found |-> 0]
          /\ UNCHANGED <<index, current, replay, verdict, fn, run>>
      BY <1>2, <2>2, <2>4 DEF Arrive
    <3>2. ~ Visiting' BY <3>1 DEF Visiting, Visit
    <3>3. \A v \in visited' : current <= v
      BY <2>1, <3>1 DEF TypeOK, Rows
    <3>4. scan'.found < current
      BY <2>1, <3>1
    <3>5. InWalk'
      BY <2>1, <3>1, <3>2, <3>3, <3>4 DEF InWalk, Rows, InPlace, is_inplace_node
    <3>6. QED BY <2>1, <3>1, <3>5, <1>0, WalkStep DEF TypeOK, Rows
  <2>5. QED BY <2>3, <2>4
<1>3. CASE Search
  <2>1. /\ ~ Visiting /\ UNCHANGED <<index, current, visited, replay, verdict, fn, run>>
        /\ current # 0 /\ current \in 1 .. Len(fn)
        /\ scan' = IF read \notin Globals /\ Before(scan.c)
                   THEN [scan EXCEPT !.c = @ + 1, !.found = Found(scan.c)]
                   ELSE [scan EXCEPT !.r = @ + 1, !.c = 1]
    BY <1>3, <1>0 DEF Search, Scanning, OutsideWalk, TypeOK, written_globals
  <2>2. /\ scan' \in [r : Nat, c : Nat, found : Nat]
        /\ (scan'.found = scan.found \/ scan'.found < current)
        /\ (scan'.c # 0 \/ scan'.r # 0)
    <3>1. /\ scan = [r |-> scan.r, c |-> scan.c, found |-> scan.found]
          /\ scan.r \in Nat /\ scan.c \in Nat /\ scan.found \in Nat
          /\ current \in Nat
      BY <2>1 DEF TypeOK
    <3>2. CASE read \notin Globals /\ Before(scan.c)
      <4>1. Found(scan.c) \in {scan.c, scan.found} /\ scan.c < current
        BY <3>2 DEF Before, Found
      <4>2. scan' = [r |-> scan.r, c |-> scan.c + 1, found |-> Found(scan.c)]
        BY <2>1, <3>1, <3>2
      <4>3. QED BY <3>1, <4>1, <4>2
    <3>3. CASE ~ (read \notin Globals /\ Before(scan.c))
      <4>1. scan' = [r |-> scan.r + 1, c |-> 1, found |-> scan.found] BY <2>1, <3>1, <3>3
      <4>2. QED BY <3>1, <4>1
    <3>4. QED BY <3>2, <3>3
  <2>3. ~ Visiting' BY <2>2 DEF Visiting, Visit
  <2>4. InWalk'
    BY <2>1, <2>2, <2>3 DEF InWalk, TypeOK, Rows, InPlace, is_inplace_node
  <2>5. QED BY <2>1, <2>2, <2>4, WalkStep DEF TypeOK, Rows
<1>4. CASE Follow
  <2>1. /\ verdict = "analyzing" /\ ~ Visiting /\ current # 0 /\ UNCHANGED <<fn, run>>
        /\ current \in 1 .. Len(fn) /\ index \in Rows /\ InPlace(index) /\ current <= index
        /\ \A v \in visited : current <= v
        /\ scan.found < current /\ scan.found \in Nat
    BY <1>4, <1>0 DEF Follow, InWalk, OutsideWalk, TypeOK, Rows
  <2>2. CASE scan.found = 0
    <3>1. Continue({<<index, 1>>}) BY <1>4, <2>2 DEF Follow
    <3>2. QED BY <2>1, <3>1, <1>0, ContinueInv
  <2>3. CASE scan.found # 0
    <3>1. /\ current' = scan.found /\ scan' = Visit
          /\ UNCHANGED <<index, visited, replay, verdict, fn, run>>
      BY <1>4, <2>3 DEF Follow
    <3>2. InWalk'
      BY <2>1, <2>3, <3>1 DEF InWalk, Visiting, TypeOK, Rows, InPlace, is_inplace_node
    <3>3. QED BY <2>1, <2>3, <3>1, <3>2, WalkStep DEF TypeOK, Rows, Visit
  <2>4. QED BY <2>2, <2>3
<1>5. CASE Finish
  <2>1. /\ current = 0 /\ index = Len(fn) + 1 /\ verdict' \in {"CONDITIONALLY", "ALWAYS"}
        /\ UNCHANGED <<fn, index, current, scan, visited, replay, run>>
    BY <1>5, <1>0 DEF Finish, TypeOK, Rows
  <2>2. TypeOK' BY <2>1 DEF TypeOK, Rows, run
  <2>3. InWalk' /\ OutsideWalk' BY <2>1 DEF InWalk, OutsideWalk, Ran, Visiting, run
  <2>4. RecordedSoFar' /\ Resumable'
    BY <2>1 DEF RecordedSoFar, Resumable, Rows, InPlace, is_inplace_node
  <2>5. QED BY <2>2, <2>3, <2>4
<1>6. QED BY <1>1, <1>2, <1>3, <1>4, <1>5

(* A row whose record is asked for has one. *)
LEMMA ReplayFromRow ==
  ASSUME IInv, Ran, NEW n \in Rows PROVE ReplayFrom(n) \in Rows
<1>1. n < index BY FunctionRows DEF IInv, OutsideWalk, TypeOK, Rows
<1>2. InPlace(n) => \E a \in Rows : <<n, a>> \in replay BY <1>1 DEF IInv, Resumable
<1>3. QED BY <1>2 DEF ReplayFrom

(* Running, dying and starting again leave the record alone. *)
LEMMA RunStep ==
  ASSUME IInv, Half \/ Write \/ NextPc \/ Restart
  PROVE  IInv'
<1>0. Len(fn) \in Nat \ {0} /\ MaxCrashes \in Nat
  BY FunctionRows, CrashResumeAssumption DEF IInv, TypeOK
<1>1. /\ UNCHANGED <<fn, index, current, scan, visited, replay, verdict>> /\ Ran
  BY DEF Half, Write, NextPc, Restart, analysis
<1>2. /\ at' \in 1 .. Len(fn) + 1 /\ part' \in {"new", "half", "written"}
      /\ part' # "new" => at' \in Rows
      /\ crashes' \in 0 .. MaxCrashes
  <2>1. CASE Half \/ Write
    <3>1. /\ at \in Rows /\ at' = at /\ part' \in {"half", "written"}
          /\ crashes' = crashes
      BY <2>1 DEF Half, Write
    <3>2. QED BY <3>1, <1>0 DEF IInv, TypeOK, Rows
  <2>2. CASE NextPc
    <3>1. at \in Rows /\ at' = at + 1 /\ part' = "new" /\ crashes' = crashes
      BY <2>2 DEF NextPc, IInv, TypeOK
    <3>2. QED BY <3>1, <1>0 DEF IInv, TypeOK, Rows
  <2>3. CASE Restart
    <3>1. /\ at' \in Rows /\ part' = "new"
          /\ crashes' = crashes + 1 /\ crashes < MaxCrashes
      BY <2>3, <1>1, ReplayFromRow DEF Restart
    <3>2. QED BY <3>1, <1>0 DEF IInv, TypeOK, Rows
  <2>4. QED BY <2>1, <2>2, <2>3
<1>3. TypeOK' BY <1>1, <1>2 DEF IInv, TypeOK, Rows
<1>4. InWalk' /\ OutsideWalk' /\ RecordedSoFar' /\ Resumable'
  BY <1>1 DEF IInv, InWalk, OutsideWalk, RecordedSoFar, Resumable, Ran, Visiting, Rows, InPlace,
              is_inplace_node
<1>5. QED BY <1>3, <1>4 DEF IInv

(* The invariant holds of every function layout is given. *)
THEOREM Invariance == Spec => []IInv
<1>1. ASSUME IInv, [Next]_vars PROVE IInv'
  <2>1. CASE UNCHANGED vars
    BY <1>1, <2>1 DEF IInv, TypeOK, InWalk, OutsideWalk, RecordedSoFar, Resumable, Ran, Visiting,
                      Rows, InPlace, is_inplace_node, vars, analysis, run
  <2>2. CASE Next BY <1>1, <2>2, AnalysisStep, RunStep DEF Next
  <2>3. QED BY <1>1, <2>1, <2>2
<1>2. QED BY InitInv, <1>1, PTL DEF Spec

(* The rows the analysis and the run stand at exist, behind a restart too: a
   process that starts again finds a row to replay from. *)
THEOREM TypeCorrect == Spec => []TypeOK
<1>1. IInv => TypeOK BY DEF IInv
<1>2. QED BY Invariance, <1>1, PTL

(* trace_back never comes to a row twice, in whatever function: of the ways it
   can end, CycleWithoutAnchor is none. *)
THEOREM WalksAlwaysUp == Spec => []WalksUp
<1>1. IInv => WalksUp BY DEF IInv, InWalk, WalksUp
<1>2. QED BY Invariance, <1>1, PTL

(* Every in-place row that analyze has passed has exactly one row to be
   replayed from, an earlier one that does not work in place, or the first. *)
THEOREM EveryRowResumable == Spec => []Resumable
<1>1. IInv => Resumable BY DEF IInv
<1>2. QED BY Invariance, <1>1, PTL

(***************************************************************************)
(* Anchored: records are found along nearest writers                       *)
(***************************************************************************)
(* The rows of a function and what they read. *)
LEMMA RowFacts ==
  ASSUME TypeOK
  PROVE  /\ Len(fn) \in Nat \ {0} /\ 1 \in Rows /\ fn \in Seq(Row)
         /\ \A n \in Rows : /\ n \in Nat /\ n >= 1 /\ n <= Len(fn)
                            /\ Len(fn[n].reads) \in Nat /\ fn[n].reads \in Seq(Operands)
                            /\ fn[n].writes \subseteq Operands
                            /\ \A r \in 1 .. Len(fn[n].reads) : fn[n].reads[r] \in Operands
                            /\ ReadKeys(n) \subseteq Slots /\ WriteKeys(n) \subseteq Slots
<1>1. Len(fn) \in Nat \ {0} /\ 1 \in Rows BY FunctionRows DEF TypeOK, Rows
<1>2. fn \in Seq(Row) BY CrashResumeAssumption DEF TypeOK
<1>3. ASSUME NEW n \in Rows PROVE fn[n] \in Row BY <1>1, <1>2 DEF Rows
<1>4. ASSUME NEW n \in Rows
      PROVE  /\ Len(fn[n].reads) \in Nat /\ fn[n].reads \in Seq(Operands)
             /\ fn[n].writes \subseteq Operands
             /\ \A r \in 1 .. Len(fn[n].reads) : fn[n].reads[r] \in Operands
  BY <1>3 DEF Row
<1>5. ASSUME NEW n \in Rows PROVE ReadKeys(n) \subseteq Slots /\ WriteKeys(n) \subseteq Slots
  BY <1>4, CrashResumeAssumption DEF ReadKeys, WriteKeys
<1>6. QED BY <1>1, <1>2, <1>4, <1>5 DEF Rows

(* A search that is over knows where the walk goes. *)
LEMMA SearchOver ==
  ASSUME TypeOK, NEW n \in Rows, NEW w, NEW r \in Nat, NEW c, r > Len(fn[n].reads),
         Traced(n, w, r, c)
  PROVE  Leads(n, w)
<1>1. Len(fn[n].reads) \in Nat BY RowFacts
<1>2. ReadsUpTo(n, r) = 1 .. Len(fn[n].reads)
      /\ \A q \in 1 .. Len(fn[n].reads) : Limit(n, r, c, q) = n
  BY <1>1 DEF ReadsUpTo, Limit
<1>3. QED BY <1>2 DEF Traced, Leads

(* The walk goes to one row. *)
LEMMA OneWay ==
  ASSUME TypeOK, NEW n \in Rows, NEW v \in Rows \cup {0}, NEW w \in Rows \cup {0},
         Leads(n, v), Leads(n, w)
  PROVE  v = w
<1>1. Len(fn[n].reads) \in Nat /\ n \in Nat /\ v \in Nat /\ w \in Nat /\ 0 \notin Rows
  BY RowFacts
<1>2. ASSUME NEW x \in Rows, NEW p \in 1 .. Len(fn[n].reads), LastWriter(x, n, p, n)
      PROVE  ~ Silent(n, p, n)
  BY <1>2 DEF LastWriter, Silent
<1>3. CASE v = 0 \/ w = 0 BY <1>1, <1>2, <1>3 DEF Leads
<1>4. CASE v # 0 /\ w # 0
  <2>1. PICK p \in 1 .. Len(fn[n].reads) :
          /\ LastWriter(v, n, p, n)
          /\ \A k \in 1 .. Len(fn[n].reads) : k > p => Silent(n, k, n)
    BY <1>4 DEF Leads
  <2>2. PICK q \in 1 .. Len(fn[n].reads) :
          /\ LastWriter(w, n, q, n)
          /\ \A k \in 1 .. Len(fn[n].reads) : k > q => Silent(n, k, n)
    BY <1>4 DEF Leads
  <2>3. p = q BY <1>1, <1>2, <1>4, <2>1, <2>2
  <2>4. QED BY <1>1, <2>1, <2>2, <2>3 DEF LastWriter
<1>5. QED BY <1>3, <1>4

(* The rows are what they were. *)
LEMMA SameRows ==
  ASSUME fn' = fn
  PROVE  /\ Rows' = Rows
         /\ \A n : InPlace(n)' = InPlace(n)
         /\ \A n, w : Leads(n, w)' = Leads(n, w)
         /\ \A s : TameOn(s)' = TameOn(s)
         /\ \A n : WriteKeys(n)' = WriteKeys(n)
         /\ \A G, m : Plain(G, m)' <=> Plain(G, m)
<1>1. Rows' = Rows /\ (\A n : InPlace(n)' = InPlace(n)) /\ (\A n, w : Leads(n, w)' = Leads(n, w))
  BY DEF Rows, InPlace, is_inplace_node, Leads, Silent, LastWriter
<1>2. NamesTell' = NamesTell /\ \A n : ReadKeys(n)' = ReadKeys(n) /\ WriteKeys(n)' = WriteKeys(n)
  BY <1>1 DEF NamesTell, ReadKeys, WriteKeys
<1>3. ASSUME NEW s PROVE TameOn(s)' = TameOn(s)
  BY <1>1, <1>2 DEF TameOn
<1>4. ASSUME NEW G, NEW m PROVE Plain(G, m)' <=> Plain(G, m)
  BY DEF Plain, Written, WriteKeys
<1>5. QED BY <1>1, <1>2, <1>3, <1>4

(* What the search says of a row is about the rows alone. *)
LEMMA SameSearch ==
  ASSUME fn' = fn, current' = current, NEW w, NEW r, NEW c,
         scan'.found = w, scan'.r = r, scan'.c = c, Traced(current, w, r, c)
  PROVE  Traced(current, scan.found, scan.r, scan.c)'
<1>1. Rows' = Rows BY DEF Rows
<1>2. Traced(current', w, r, c)
  OBVIOUS
<1>3. QED BY <1>1, <1>2 DEF Traced, ReadsUpTo, Limit, Silent, LastWriter

(* One more candidate of one read. *)
LEMMA ScanStep ==
  ASSUME IInv, ScanInv, Search
  PROVE  ScanInv'
<1> USE DEF IInv
<1>1. /\ ~ Visiting /\ UNCHANGED <<current, fn>> /\ current # 0 /\ current \in Rows
      /\ scan.r <= Len(fn[current].reads)
      /\ scan' = IF read \notin Globals /\ Before(scan.c)
                 THEN [scan EXCEPT !.c = @ + 1, !.found = Found(scan.c)]
                 ELSE [scan EXCEPT !.r = @ + 1, !.c = 1]
  BY RowFacts DEF Search, Scanning, OutsideWalk, TypeOK, written_globals, Rows
<1>2. /\ InPlace(current) /\ scan.r >= 1 /\ scan.c >= 1
      /\ Traced(current, scan.found, scan.r, scan.c)
      /\ scan \in [r : Nat, c : Nat, found : Nat] /\ scan.found < current
      /\ Len(fn[current].reads) \in Nat /\ current \in Nat /\ current <= Len(fn)
      /\ Len(fn) \in Nat
  BY <1>1, RowFacts DEF ScanInv, TypeOK, InWalk
<1>3. Rows' = Rows /\ InPlace(current)' BY <1>1, <1>2, SameRows
<1>4. read = ReadName(fn[current], scan.r) BY DEF read
<1> DEFINE R == ReadsUpTo(current, scan.r)
<1>5. /\ \A q \in R : q \in Nat /\ q <= scan.r /\ q \in 1 .. Len(fn[current].reads)
      /\ scan.r \in R
  BY <1>1, <1>2 DEF ReadsUpTo
<1>7. CASE read \notin Globals /\ Before(scan.c)
  <2>1. /\ scan'.r = scan.r /\ scan'.c = scan.c + 1 /\ scan'.found = Found(scan.c)
        /\ scan.c < current /\ scan.c \in Rows
    BY <1>1, <1>2, <1>7 DEF Before, Rows
  <2>2. CASE read \in fn[scan.c].writes
    <3>1. scan'.found = scan.c /\ scan.c # 0 BY <2>1, <2>2, <1>2 DEF Found
    <3>2. LastWriter(scan.c, current, scan.r, scan.c + 1)
      BY <1>2, <1>4, <1>7, <2>1, <2>2 DEF LastWriter, Rows
    <3>3. Traced(current, scan.c, scan.r, scan.c + 1)
      BY <1>5, <1>2, <3>1, <3>2 DEF Traced, Limit
    <3>4. QED
      BY <1>1, <1>2, <1>3, <2>1, <3>1, <3>3, SameSearch DEF ScanInv
  <2>3. CASE read \notin fn[scan.c].writes
    <3>1. scan'.found = scan.found BY <2>1, <2>3 DEF Found
    <3>2. ASSUME NEW q \in R, Silent(current, q, Limit(current, scan.r, scan.c, q))
          PROVE  Silent(current, q, Limit(current, scan.r, scan.c + 1, q))
      BY <3>2, <1>2, <1>4, <1>5, <2>3 DEF Silent, Limit, Rows
    <3>3. ASSUME NEW q \in R, NEW w,
                 LastWriter(w, current, q, Limit(current, scan.r, scan.c, q))
          PROVE  LastWriter(w, current, q, Limit(current, scan.r, scan.c + 1, q))
      BY <3>3, <1>2, <1>4, <1>5, <2>3 DEF LastWriter, Limit, Rows
    <3>4. Traced(current, scan.found, scan.r, scan.c + 1)
      BY <1>2, <3>2, <3>3 DEF Traced
    <3>5. QED
      BY <1>1, <1>2, <1>3, <2>1, <3>1, <3>4, SameSearch DEF ScanInv
  <2>4. QED BY <2>2, <2>3
<1>8. CASE ~ (read \notin Globals /\ Before(scan.c))
  <2>1. scan'.r = scan.r + 1 /\ scan'.c = 1 /\ scan'.found = scan.found
    BY <1>1, <1>2, <1>8
  <2>2. ASSUME NEW q \in R, Silent(current, q, Limit(current, scan.r, scan.c, q))
        PROVE  Silent(current, q, current)
    BY <2>2, <1>2, <1>4, <1>5, <1>8 DEF Silent, Limit, Rows, Before
  <2>3. ASSUME NEW q \in R, NEW w, w \in Nat, w < current,
               LastWriter(w, current, q, Limit(current, scan.r, scan.c, q))
        PROVE  LastWriter(w, current, q, current)
    BY <2>3, <1>2, <1>4, <1>5, <1>8 DEF LastWriter, Limit, Rows, Before
  <2>4. ASSUME NEW q \in ReadsUpTo(current, scan.r + 1)
        PROVE  IF q \in R THEN Limit(current, scan.r + 1, 1, q) = current
               ELSE Limit(current, scan.r + 1, 1, q) = 1 /\ Silent(current, q, 1)
    BY <1>2 DEF ReadsUpTo, Limit, Silent, Rows
  <2>5. R \subseteq ReadsUpTo(current, scan.r + 1) BY <1>2 DEF ReadsUpTo
  <2>6. Traced(current, scan.found, scan.r + 1, 1)
    <3>1. CASE scan.found = 0
      BY <3>1, <1>2, <2>2, <2>4 DEF Traced
    <3>2. CASE scan.found # 0
      <4>1. PICK p \in R :
              /\ LastWriter(scan.found, current, p, Limit(current, scan.r, scan.c, p))
              /\ \A q \in R : q > p => Silent(current, q, Limit(current, scan.r, scan.c, q))
        BY <3>2, <1>2 DEF Traced
      <4>2. LastWriter(scan.found, current, p, current) BY <4>1, <2>3, <1>2
      <4>3. QED BY <3>2, <4>1, <4>2, <2>2, <2>4, <2>5 DEF Traced
    <3>3. QED BY <3>1, <3>2
  <2>7. QED
    BY <1>1, <1>2, <1>3, <2>1, <2>6, SameSearch DEF ScanInv
<1>9. QED BY <1>7, <1>8

(* Inside a walk. *)
LEMMA WalkFacts ==
  ASSUME IInv, current # 0
  PROVE  /\ current \in Rows /\ index \in Rows /\ current \in Nat /\ index \in Nat
         /\ current <= index /\ InPlace(index) /\ 0 \notin Rows /\ 1 \in Rows
         /\ scan.found \in Rows \cup {0} \/ Visiting
<1>1. Len(fn) \in Nat /\ 1 \in Rows BY RowFacts DEF IInv
<1>2. QED BY <1>1 DEF IInv, InWalk, TypeOK, Rows

(* A walk that comes to a row ends at one row. *)
LEMMA OneOutcome ==
  ASSUME IInv, NEW n \in Rows, n < index, NEW a \in Rows, NEW b \in Rows,
         Outcome(n, a), Outcome(n, b)
  PROVE  a = b
<1>1. CASE InPlace(n)
  <2>1. <<n, a>> \in replay /\ <<n, b>> \in replay BY <1>1 DEF Outcome
  <2>2. PICK c \in Rows : \A d \in Rows : <<n, d>> \in replay => d = c
    BY <1>1 DEF IInv, Resumable
  <2>3. QED BY <2>1, <2>2
<1>2. CASE ~ InPlace(n) BY <1>2 DEF Outcome
<1>3. QED BY <1>1, <1>2

(* A row whose walk went through v is recorded with what v has. *)
LEMMA RecordStep ==
  ASSUME IInv, PairInv, fn' = fn, index \in Rows, InPlace(index), NEW a \in Rows,
         replay' = replay \cup {<<index, a>>},
         \/ Leads(index, 0) /\ a = 1
         \/ \E v \in Rows : Leads(index, v) /\ Outcome(v, a)
  PROVE  PairInv'
<1>1. Rows' = Rows /\ \A n, w : Leads(n, w)' = Leads(n, w) BY SameRows
<1>2. ASSUME NEW n \in Rows, NEW b \in Rows, Outcome(n, b) PROVE Outcome(n, b)'
  BY <1>2, SameRows DEF Outcome
<1>3. ASSUME NEW n \in Rows, NEW b \in Rows, <<n, b>> \in replay'
      PROVE  \/ Leads(n, 0) /\ b = 1
             \/ \E w \in Rows : Leads(n, w) /\ Outcome(w, b)
  BY <1>3 DEF PairInv
<1>4. QED BY <1>1, <1>2, <1>3 DEF PairInv

(* Where nothing is recorded and the walk stands where it stood. *)
LEMMA AnchorStays ==
  ASSUME AnchorInv, UNCHANGED <<fn, index, current, replay>>, ScanInv'
  PROVE  AnchorInv'
<1>1. /\ Rows' = Rows /\ \A n, w : Leads(n, w)' = Leads(n, w)
      /\ \A n, a : Outcome(n, a)' = Outcome(n, a)
  BY SameRows DEF Outcome
<1>2. QED BY <1>1 DEF AnchorInv, PairInv, WayInv

(* The end of a walk, and the next row. *)
LEMMA AnchorFollow ==
  ASSUME IInv, AnchorInv, Follow
  PROVE  AnchorInv'
<1>1. /\ ~ Visiting /\ current # 0 /\ fn' = fn /\ scan.r > Len(fn[current].reads)
      /\ scan.r \in Nat /\ scan.found \in Nat
  BY WalkFacts, RowFacts DEF Follow, Scanning, IInv, OutsideWalk, TypeOK
<1>2. /\ current \in Rows /\ index \in Rows /\ current \in Nat /\ index \in Nat
      /\ current <= index /\ InPlace(index) /\ 0 \notin Rows /\ 1 \in Rows
      /\ scan.found \in Rows \cup {0} /\ scan.found < current
  BY <1>1, WalkFacts DEF IInv, InWalk
<1>3. InPlace(current) /\ Leads(current, scan.found)
  BY <1>1, <1>2, SearchOver DEF AnchorInv, ScanInv, IInv
<1>4. \A w \in Rows \cup {0} : Leads(current, w) => w = scan.found
  BY <1>2, <1>3, OneWay DEF IInv
<1>5. Rows' = Rows /\ \A n, w : Leads(n, w)' = Leads(n, w)
  BY <1>1, SameRows
<1>6. CASE scan.found = 0
  <2>1. replay' = replay \cup {<<index, 1>>} /\ current' = 0
    BY <1>1, <1>6 DEF Follow, Continue
  <2>2. CASE current = index
    BY <1>1, <1>2, <1>3, <1>6, <2>1, <2>2, RecordStep DEF AnchorInv, ScanInv, WayInv
  <2>3. CASE current # index
    <3>1. PICK b \in Rows : <<current, b>> \in replay
      BY <1>2, <1>3, <2>3 DEF IInv, Resumable
    <3>2. b = 1 BY <1>2, <1>4, <1>6, <3>1 DEF AnchorInv, PairInv
    <3>3. Outcome(current, 1) BY <1>3, <3>1, <3>2 DEF Outcome
    <3>4. \E v \in Rows : Leads(index, v) /\ Outcome(v, 1)
      BY <1>1, <1>2, <2>3, <3>3 DEF AnchorInv, WayInv
    <3>5. QED BY <1>1, <1>2, <2>1, <3>4, RecordStep DEF AnchorInv, ScanInv, WayInv
  <2>4. QED BY <2>2, <2>3
<1>7. CASE scan.found # 0
  <2>1. current' = scan.found /\ Visiting' /\ UNCHANGED <<index, replay>>
    BY <1>1, <1>7 DEF Follow, Visiting, Visit
  <2>2. \A n, a : Outcome(n, a)' = Outcome(n, a) BY <1>1, <2>1, SameRows DEF Outcome
  <2>3. PairInv' /\ ScanInv' BY <1>5, <2>1, <2>2 DEF AnchorInv, PairInv, ScanInv
  <2>4. \E v \in Rows : /\ v < index /\ Leads(index, v)
                        /\ \A a \in Rows : Outcome(scan.found, a) => Outcome(v, a)
    <3>1. CASE current = index BY <1>2, <1>3, <1>7, <3>1
    <3>2. CASE current # index
      <4>1. PICK v \in Rows : /\ v < index /\ Leads(index, v)
                             /\ \A a \in Rows : Outcome(current, a) => Outcome(v, a)
        BY <1>1, <3>2 DEF AnchorInv, WayInv
      <4>2. ASSUME NEW a \in Rows, Outcome(scan.found, a) PROVE Outcome(current, a)
        <5>1. PICK b \in Rows : <<current, b>> \in replay
          BY <1>2, <1>3, <3>2 DEF IInv, Resumable
        <5>2. Outcome(scan.found, b)
          BY <1>2, <1>4, <1>7, <5>1 DEF AnchorInv, PairInv
        <5>3. scan.found \in Rows /\ scan.found < index
          BY <1>1, <1>2, <1>7
        <5>4. a = b BY <4>2, <5>2, <5>3, OneOutcome
        <5>5. QED BY <1>3, <5>1, <5>4 DEF Outcome
      <4>3. QED BY <4>1, <4>2
    <3>3. QED BY <3>1, <3>2
  <2>5. WayInv' BY <1>5, <2>1, <2>2, <2>4 DEF WayInv
  <2>6. QED BY <2>3, <2>5 DEF AnchorInv
<1>8. QED BY <1>6, <1>7

(* Every record is found along nearest writers. *)
LEMMA AnchorStep ==
  ASSUME IInv, AnchorInv, [Next]_vars
  PROVE  AnchorInv'
<1>1. CASE analyze_row
  <2>1. /\ fn' = fn /\ replay' = replay /\ Visiting' /\ current' \in {0, index'}
    BY <1>1 DEF analyze_row, Continue, Visiting, Visit, IInv, OutsideWalk
  <2>2. /\ Rows' = Rows /\ \A n, w : Leads(n, w)' = Leads(n, w)
        /\ \A n, a : Outcome(n, a)' = Outcome(n, a)
    BY <2>1, SameRows DEF Outcome
  <2>3. QED BY <2>1, <2>2 DEF AnchorInv, ScanInv, PairInv, WayInv
<1>2. CASE Arrive
  <2>1. /\ current # 0 /\ Visiting /\ fn' = fn /\ current \notin visited
        /\ current \in Rows /\ index \in Rows /\ current <= index /\ InPlace(index)
    BY <1>2, WalkFacts DEF Arrive, IInv, InWalk, TypeOK, Rows
  <2>2. CASE Anchors(current)
    <3>1. replay' = replay \cup {<<index, current>>} /\ current' = 0
      BY <1>2, <2>1, <2>2 DEF Arrive, Continue
    <3>2. Outcome(current, current) /\ current # index
      BY <2>2 DEF Anchors, Outcome
    <3>3. \E v \in Rows : Leads(index, v) /\ Outcome(v, current)
      BY <2>1, <3>2 DEF AnchorInv, WayInv
    <3>4. PairInv' BY <2>1, <3>1, <3>3, RecordStep DEF AnchorInv
    <3>5. QED BY <3>1, <3>4 DEF AnchorInv, ScanInv, WayInv
  <2>3. CASE ~ Anchors(current)
    <3>1. /\ scan' = [r |-> 1, c |-> 1, found |-> 0] /\ UNCHANGED <<index, current, replay>>
          /\ InPlace(current)
      BY <1>2, <2>1, <2>3 DEF Arrive, Anchors
    <3>2. \A k \in Rows : ~ (k < 1) BY RowFacts DEF IInv
    <3>3. Traced(current, 0, 1, 1)
      BY <3>2 DEF Traced, ReadsUpTo, Limit, Silent
    <3>4. Traced(current, scan.found, scan.r, scan.c)'
      BY <2>1, <3>1, <3>3, SameSearch
    <3>5. ScanInv' BY <2>1, <3>1, <3>4, SameRows DEF ScanInv
    <3>6. QED BY <2>1, <3>1, <3>5, AnchorStays
  <2>4. QED BY <2>2, <2>3
<1>3. CASE Search
  <2>1. ScanInv' BY <1>3, ScanStep DEF AnchorInv
  <2>2. UNCHANGED <<fn, index, current, replay>>
    BY <1>3 DEF Search, written_globals
  <2>3. QED BY <2>1, <2>2, AnchorStays
<1>4. CASE Follow BY <1>4, AnchorFollow
<1>5. CASE Finish \/ Half \/ Write \/ NextPc \/ Restart \/ UNCHANGED vars
  <2>1. UNCHANGED <<fn, index, current, scan, replay>>
    BY <1>5 DEF Finish, Half, Write, NextPc, Restart, vars, analysis
  <2>2. ScanInv'
    BY <2>1, SameRows, SameSearch DEF AnchorInv, ScanInv, Visiting
  <2>3. QED BY <2>1, <2>2, AnchorStays
<1>6. QED BY <1>1, <1>2, <1>3, <1>4, <1>5 DEF Next

(* Every in-place row is recorded with a row found along nearest writers: its  *)
(* own nearest writer, what the writer it depends on is recorded with, or the  *)
(* first row where nobody has written what it reads.                           *)
THEOREM AlwaysAnchored == Spec => []Anchored
<1>1. Init => AnchorInv
  BY DEF Init, AnchorInv, ScanInv, PairInv, WayInv
<1>2. IInv /\ AnchorInv /\ [Next]_vars => AnchorInv'
  BY AnchorStep
<1>3. IInv /\ AnchorInv => Anchored
  <2>1. SUFFICES ASSUME IInv, AnchorInv, NEW p \in replay
                 PROVE  LET n == p[1]  a == p[2] IN
                        \/ Feeds(a, n)
                        \/ \E m \in Rows : InPlace(m) /\ Feeds(m, n) /\ <<m, a>> \in replay
                        \/ a = 1 /\ \A s \in Reads(n) \ Globals : \A m \in Rows :
                                     m < n => s \notin fn[m].writes
    BY DEF Anchored
  <2>2. PICK n \in Rows, a \in Rows : p = <<n, a>>
    BY <2>1 DEF IInv, TypeOK
  <2>3. CASE Leads(n, 0) /\ a = 1
    <3>1. \A s \in Reads(n) \ Globals : \A m \in Rows : m < n => s \notin fn[m].writes
      BY <2>3 DEF Leads, Silent, Reads
    <3>2. QED BY <2>2, <2>3, <3>1
  <2>4. CASE \E w \in Rows : Leads(n, w) /\ Outcome(w, a)
    <3>1. PICK w \in Rows : Leads(n, w) /\ Outcome(w, a) BY <2>4
    <3>2. w # 0 BY <2>1, RowFacts DEF IInv
    <3>3. Feeds(w, n)
      <4>1. PICK r \in 1 .. Len(fn[n].reads) : LastWriter(w, n, r, n)
        BY <3>1, <3>2 DEF Leads
      <4>2. ReadName(fn[n], r) # NoName
        BY <2>1, <4>1, RowFacts, CrashResumeAssumption DEF IInv, LastWriter
      <4>3. ReadName(fn[n], r) \in Reads(n) \ Globals
        BY <4>1, <4>2 DEF LastWriter, Reads
      <4>4. QED BY <4>1, <4>3 DEF LastWriter, Feeds
    <3>4. QED BY <2>2, <3>1, <3>3 DEF Outcome
  <2>5. QED BY <2>1, <2>2, <2>3, <2>4 DEF AnchorInv, PairInv
<1>4. QED BY Invariance, <1>1, <1>2, <1>3, PTL DEF Spec

(***************************************************************************)
(* ReplaySound: a run with crashes leaves what one without leaves          *)
(***************************************************************************)
(* In a tame function the walk goes to a row that writes the slot. *)
LEMMA TameWay ==
  ASSUME TypeOK, NEW s \in Slots, TameOn(s), NEW n \in Rows, InPlace(n),
         NEW w \in Rows \cup {0}, Leads(n, w)
  PROVE  w \in Rows /\ s \in WriteKeys(w)
<1> DEFINE l == Len(fn[n].reads)
           x == ReadName(fn[n], l)
<1>1. l \in Nat /\ l \in 1 .. l /\ fn[n].reads[l] \in Operands /\ Key[fn[n].reads[l]] = s
  <2>1. fn[n].reads # <<>> /\ Key[fn[n].reads[l]] = s BY DEF TameOn
  <2>2. fn[n].reads \in Seq(Operands) /\ l \in Nat BY RowFacts
  <2>3. l \in 1 .. l BY <2>1, <2>2
  <2>4. QED BY <2>1, <2>2, <2>3, RowFacts
<1>2. x \notin Globals BY <1>1 DEF TameOn, ReadName
<1>3. ~ Silent(n, l, n)
  <2>1. PICK m \in Rows : m < n /\ s \in WriteKeys(m) BY DEF TameOn
  <2>2. PICK v \in fn[m].writes : Key[v] = s BY <2>1 DEF WriteKeys
  <2>3. x = v BY <1>1, <2>2 DEF TameOn, NamesTell
  <2>4. QED BY <1>2, <2>1, <2>3 DEF Silent
<1>4. w # 0 BY <1>1, <1>3 DEF Leads
<1>5. PICK p \in 1 .. l : LastWriter(w, n, p, n) /\ \A q \in 1 .. l : q > p => Silent(n, q, n)
  BY <1>4 DEF Leads
<1>6. p = l BY <1>1, <1>3, <1>5
<1>7. w \in Rows /\ x \in fn[w].writes BY <1>5, <1>6 DEF LastWriter
<1>8. Key[x] = s BY <1>1, <1>7 DEF TameOn, NamesTell
<1>9. QED BY <1>7, <1>8 DEF WriteKeys

(* Replays start where the slot is made. *)
LEMMA RemakesStep ==
  ASSUME IInv, AnchorInv, RemakesInv, [Next]_vars
  PROVE  RemakesInv'
<1>f. fn' = fn
  BY DEF Next, analyze_row, Arrive, Search, Follow, Finish, Half, Write, NextPc, Restart, vars
<1>r. Rows' = Rows /\ (\A n : InPlace(n)' = InPlace(n)) /\ (\A s : TameOn(s)' = TameOn(s))
      /\ \A n : WriteKeys(n)' = WriteKeys(n)
  BY <1>f, SameRows
<1> SUFFICES ASSUME NEW s \in Slots, TameOn(s)
             PROVE  /\ current' # 0 /\ current' # index' => s \in WriteKeys(current')
                    /\ \A n, a \in Rows : <<n, a>> \in replay' =>
                         ~ InPlace(a) /\ s \in WriteKeys(a)
  BY <1>f, <1>r DEF RemakesInv
<1>s. /\ current # 0 /\ current # index => s \in WriteKeys(current)
      /\ \A n, a \in Rows : <<n, a>> \in replay => ~ InPlace(a) /\ s \in WriteKeys(a)
  BY DEF RemakesInv
<1>1. CASE analyze_row
  BY <1>1, <1>s DEF analyze_row, Continue
<1>2. CASE Arrive
  <2>c. current \notin visited
    BY <1>2, WalkFacts DEF Arrive, IInv, InWalk, TypeOK
  <2>1. CASE Anchors(current)
    <3>1. /\ replay' = replay \cup {<<index, current>>} /\ current' = 0
          /\ ~ InPlace(current) /\ s \in WriteKeys(current)
      BY <1>2, <2>1, <2>c, <1>s DEF Arrive, Continue, Anchors
    <3>2. QED BY <3>1, <1>s
  <2>2. CASE ~ Anchors(current)
    BY <1>2, <2>2, <1>s DEF Arrive, Refuse
  <2>3. QED BY <2>1, <2>2
<1>3. CASE Follow
  <2>1. /\ ~ Visiting /\ current # 0 /\ scan.r > Len(fn[current].reads) /\ scan.r \in Nat
    BY <1>3, WalkFacts, RowFacts DEF Follow, Scanning, IInv, OutsideWalk, TypeOK
  <2>2. /\ current \in Rows /\ InPlace(current) /\ 0 \notin Rows
        /\ scan.found \in Rows \cup {0} /\ Leads(current, scan.found)
    BY <2>1, WalkFacts, SearchOver DEF AnchorInv, ScanInv, IInv
  <2>3. scan.found \in Rows /\ s \in WriteKeys(scan.found)
    BY <2>2, TameWay DEF IInv
  <2>4. current' = scan.found /\ replay' = replay
    BY <1>3, <2>2, <2>3 DEF Follow
  <2>5. QED BY <2>3, <2>4, <1>s
<1>4. CASE Search \/ Finish \/ Half \/ Write \/ NextPc \/ Restart \/ UNCHANGED vars
  <2>1. UNCHANGED <<index, current, replay>>
    BY <1>4 DEF Search, Refuse, Finish, Half, Write, NextPc, Restart, vars, analysis
  <2>2. QED BY <2>1, <1>s
<1>5. QED BY <1>1, <1>2, <1>3, <1>4 DEF Next

(* What a row leaves in a slot. *)
LEMMA RowWrites ==
  ASSUME NEW G, Plain(G, Len(fn)), TypeOK, NEW n \in Rows, NEW s \in Slots
  PROVE  /\ G[n] = Written(G[n - 1], n, FALSE)
         /\ s \notin WriteKeys(n) => G[n][s] = G[n - 1][s]
<1>1. n \in 0 .. Len(fn) /\ n # 0 BY RowFacts
<1>2. G[n] = Written(G[n - 1], n, FALSE) BY <1>1 DEF Plain
<1>3. QED BY <1>2 DEF Written

(* A row that reads what it should writes what it should. *)
LEMMA RowSame ==
  ASSUME TypeOK, NEW n \in Rows, NEW st, NEW tt, \A x \in ReadKeys(n) : st[x] = tt[x],
         NEW s \in Slots, s \in WriteKeys(n)
  PROVE  Written(st, n, FALSE)[s] = Written(tt, n, FALSE)[s]
<1>1. \A r \in 1 .. Len(fn[n].reads) : st[Key[fn[n].reads[r]]] = tt[Key[fn[n].reads[r]]]
  BY DEF ReadKeys
<1>2. [r \in 1 .. Len(fn[n].reads) |-> st[Key[fn[n].reads[r]]]]
      = [r \in 1 .. Len(fn[n].reads) |-> tt[Key[fn[n].reads[r]]]]
  BY <1>1
<1>3. QED BY <1>2 DEF Written

(* The analysis, and what else leaves the run where it is. *)
LEMMA StoreStays ==
  ASSUME StoreInv, UNCHANGED <<fn, at, part, store>>
  PROVE  StoreInv'
<1>1. /\ Rows' = Rows /\ (\A n : InPlace(n)' = InPlace(n)) /\ (\A s : TameOn(s)' = TameOn(s))
      /\ (\A n : WriteKeys(n)' = WriteKeys(n))
      /\ \A G, m : Plain(G, m)' <=> Plain(G, m)
  BY SameRows
<1>2. Passed' = Passed BY DEF Passed
<1>3. ASSUME NEW G, Kept(G) PROVE Kept(G)'
  BY <1>1, <1>2, <1>3 DEF Kept
<1>4. ASSUME NEW G, NEW a, Stored(G, a) PROVE Stored(G, a)'
  BY <1>1, <1>2, <1>4 DEF Stored
<1>5. QED BY <1>1, <1>2, <1>3, <1>4 DEF StoreInv

(* Where the run may be. *)
LEMMA RunFacts ==
  ASSUME IInv
  PROVE  /\ at \in Nat /\ at >= 1 /\ at <= Len(fn) + 1 /\ Len(fn) \in Nat
         /\ Passed \in Nat /\ Passed <= Len(fn) /\ at - 1 <= Passed /\ Passed <= at
         /\ part \in {"new", "half", "written"}
BY RowFacts DEF IInv, TypeOK, Passed, Rows

(* The store behind a row is a function of the slots. *)
LEMMA StoreShape ==
  ASSUME NEW st, NEW n, NEW half
  PROVE  Written(st, n, half) = [s \in Slots |-> Written(st, n, half)[s]]
BY DEF Written

(* A row that is half done has spoilt slots it writes: the one worked on, which *)
(* a replay makes anew, or others, which the row writes again.                  *)
LEMMA HalfStore ==
  ASSUME IInv, StoreInv, Half
  PROVE  StoreInv'
<1>1. /\ at \in Rows /\ part = "new" /\ store' = Written(store, at, TRUE)
      /\ part' = "half" /\ fn' = fn /\ at' = at /\ Passed' = Passed
  BY DEF Half, Passed
<1>2. /\ Rows' = Rows /\ (\A n : InPlace(n)' = InPlace(n)) /\ (\A s : TameOn(s)' = TameOn(s))
      /\ (\A n : WriteKeys(n)' = WriteKeys(n))
      /\ \A G, m : Plain(G, m)' <=> Plain(G, m)
  BY <1>1, SameRows
<1>3. store' = [s \in Slots |-> store'[s]] BY <1>1, StoreShape
<1>4. ASSUME NEW G, Kept(G) PROVE Kept(G)'
  BY <1>1, <1>2, <1>4 DEF Kept
<1>5. ASSUME NEW G, NEW a \in Slots, TameOn(a), Stored(G, a) PROVE Stored(G, a)'
  <2>1. ASSUME NEW s \in Slots, s \notin WriteKeys(at) PROVE store'[s] = store[s]
    BY <1>1, <2>1 DEF Written
  <2>2. at > Passed BY <1>1, RunFacts DEF Passed
  <2>3. ASSUME NEW s \in Slots, s # a
        PROVE  store'[s] = G[Passed][s] \/ \E n \in Rows : n > Passed /\ s \in WriteKeys(n)
    BY <1>1, <1>5, <2>1, <2>2, <2>3 DEF Stored
  <2>4. store'[a] = G[at - 1][a] \/ a \in WriteKeys(at)
    BY <1>1, <1>5, <2>1 DEF Stored
  <2>5. QED BY <1>1, <1>2, <2>3, <2>4 DEF Stored
<1>6. QED BY <1>1, <1>2, <1>3, <1>4, <1>5 DEF StoreInv

(* A row reads what it reads in a run without a crash. *)
LEMMA ReadsRight ==
  ASSUME IInv, at \in Rows, part = "new", NEW G, NEW a \in Slots, TameOn(a), Stored(G, a),
         NEW x \in ReadKeys(at)
  PROVE  store[x] = G[at - 1][x]
<1>1. x \in Slots BY RowFacts DEF IInv
<1>2. Passed = at - 1 /\ at \in Nat BY RunFacts DEF Passed
<1>3. CASE x = a
  <2>1. at \in Rows /\ ~ InPlace(at) => a \notin WriteKeys(at)
    BY <1>3 DEF TameOn
  <2>2. QED BY <1>3, <2>1 DEF Stored
<1>4. CASE x # a
  <2>1. ASSUME NEW n \in Rows, n > Passed, x \in WriteKeys(n) PROVE FALSE
    <3>1. n \in Nat /\ n >= at BY <1>2, <2>1, RowFacts DEF IInv
    <3>2. CASE n = at BY <1>4, <2>1, <3>2 DEF TameOn
    <3>3. CASE at < n BY <1>1, <1>4, <2>1, <3>3 DEF TameOn
    <3>4. QED BY <1>2, <3>1, <3>2, <3>3
  <2>2. QED BY <1>1, <1>2, <1>4, <2>1 DEF Stored
<1>5. QED BY <1>3, <1>4

(* A row is written. *)
LEMMA WriteStore ==
  ASSUME IInv, StoreInv, Write
  PROVE  StoreInv'
<1>1. /\ at \in Rows /\ part = "new" /\ store' = Written(store, at, FALSE)
      /\ part' = "written" /\ fn' = fn /\ at' = at
  BY DEF Write
<1>2. /\ Rows' = Rows /\ (\A n : InPlace(n)' = InPlace(n)) /\ (\A s : TameOn(s)' = TameOn(s))
      /\ (\A n : WriteKeys(n)' = WriteKeys(n))
      /\ \A G, m : Plain(G, m)' <=> Plain(G, m)
  BY <1>1, SameRows
<1>3. /\ at \in Nat /\ at >= 1 /\ at <= Len(fn) /\ Len(fn) \in Nat /\ at - 1 \in Nat
      /\ Passed = at - 1 /\ Passed' = at
  BY <1>1, RowFacts DEF IInv, Passed
<1>4. store' = [s \in Slots |-> store'[s]] BY <1>1, StoreShape
<1>5. \E G : Plain(G, at)
  <2>1. PICK H : Plain(H, at - 1) BY <1>3 DEF StoreInv
  <2>2. DEFINE G == [n \in 0 .. at |-> IF n = at THEN Written(H[at - 1], at, FALSE) ELSE H[n]]
  <2>3. ASSUME NEW n \in 0 .. at
        PROVE  G[n] = IF n = 0 THEN Fresh ELSE Written(G[n - 1], n, FALSE)
    <3>1. CASE n = at
      <4>1. G[n] = Written(H[at - 1], at, FALSE) /\ n # 0 BY <1>3, <3>1
      <4>2. G[n - 1] = H[at - 1] BY <1>3, <3>1
      <4>3. QED BY <3>1, <4>1, <4>2
    <3>2. CASE n # at
      <4>1. n \in 0 .. at - 1 /\ G[n] = H[n] BY <1>3, <3>2
      <4>2. H[n] = IF n = 0 THEN Fresh ELSE Written(H[n - 1], n, FALSE)
        BY <2>1, <4>1 DEF Plain
      <4>3. n # 0 => n - 1 \in 0 .. at /\ n - 1 # at BY <1>3, <4>1
      <4>4. n # 0 => G[n - 1] = H[n - 1] BY <4>3
      <4>5. QED BY <4>1, <4>2, <4>4
    <3>3. QED BY <3>1, <3>2
  <2>4. G = [n \in 0 .. at |-> G[n]] OBVIOUS
  <2> HIDE DEF G
  <2>5. Plain(G, at) BY <2>3, <2>4 DEF Plain
  <2>6. QED BY <2>5
<1> SUFFICES ASSUME NEW G, Plain(G, Len(fn))
             PROVE  Kept(G)' /\ \A a \in Slots : TameOn(a) => Stored(G, a)'
  BY <1>1, <1>2, <1>3, <1>4, <1>5 DEF StoreInv
<1>6. Kept(G) /\ \A a \in Slots : TameOn(a) => Stored(G, a)
  BY DEF StoreInv
<1>7. \A s \in Slots : s \notin WriteKeys(at) => G[at][s] = G[at - 1][s]
  BY <1>1, RowWrites DEF IInv
<1>8. Kept(G)'
  <2>1. SUFFICES ASSUME NEW p \in 0 .. at, NEW q \in 0 .. at, NEW s \in Slots, p <= q,
                        \A k \in Rows : p < k /\ k <= q => s \notin WriteKeys(k)
                 PROVE  G[q][s] = G[p][s]
    BY <1>1, <1>2, <1>3 DEF Kept
  <2>2. CASE q # at
    <3>1. p \in 0 .. at - 1 /\ q \in 0 .. at - 1 BY <1>3, <2>1, <2>2
    <3>2. QED BY <1>3, <1>6, <2>1, <3>1 DEF Kept
  <2>3. CASE q = at /\ p # at
    <3>1. /\ p \in 0 .. at - 1 /\ at - 1 \in 0 .. at - 1 /\ p <= at - 1 /\ p < at
      BY <1>3, <2>1, <2>3
    <3>2. \A k \in Rows : p < k /\ k <= at - 1 => k <= q
      BY <1>3, <2>3, RowFacts DEF IInv
    <3>3. G[at - 1][s] = G[p][s] BY <1>3, <1>6, <2>1, <3>1, <3>2 DEF Kept
    <3>4. s \notin WriteKeys(at) BY <1>1, <1>3, <2>1, <2>3, <3>1
    <3>5. QED BY <1>7, <2>3, <3>3, <3>4
  <2>4. QED BY <2>2, <2>3
<1>9. ASSUME NEW a \in Slots, TameOn(a) PROVE Stored(G, a)'
  <2>1. Stored(G, a) BY <1>6, <1>9
  <2>2. \A x \in ReadKeys(at) : store[x] = G[at - 1][x]
    BY <1>1, <1>9, <2>1, ReadsRight
  <2>3. ASSUME NEW s \in Slots, s \in WriteKeys(at) PROVE store'[s] = G[at][s]
    <3>1. Written(store, at, FALSE)[s] = Written(G[at - 1], at, FALSE)[s]
      <4>1. PICK tt : tt = G[at - 1] OBVIOUS
      <4>2. TypeOK /\ \A x \in ReadKeys(at) : store[x] = tt[x] BY <2>2, <4>1 DEF IInv
      <4>3. Written(store, at, FALSE)[s] = Written(tt, at, FALSE)[s]
        BY <1>1, <2>3, <4>2, RowSame
      <4>4. QED BY <4>1, <4>3
    <3>2. G[at] = Written(G[at - 1], at, FALSE) BY <1>1, <2>3, RowWrites DEF IInv
    <3>3. QED BY <1>1, <3>1, <3>2
  <2>4. ASSUME NEW s \in Slots, s \notin WriteKeys(at) PROVE store'[s] = store[s]
    BY <1>1, <2>4 DEF Written
  <2>5. ASSUME NEW s \in Slots, s # a
        PROVE  \/ store'[s] = G[at][s]
               \/ \E n \in Rows : n > at /\ s \in WriteKeys(n)
    <3>1. CASE s \in WriteKeys(at) BY <2>3, <3>1
    <3>2. CASE s \notin WriteKeys(at)
      <4>1. CASE store[s] = G[at - 1][s] BY <1>7, <2>4, <3>2, <4>1
      <4>2. CASE \E n \in Rows : n > at - 1 /\ s \in WriteKeys(n)
        <5>1. PICK n \in Rows : n > at - 1 /\ s \in WriteKeys(n)
          BY <4>2
        <5>2. n # at /\ n \in Nat BY <3>2, <5>1, RowFacts DEF IInv
        <5>3. n > at BY <1>3, <5>1, <5>2
        <5>4. QED BY <5>1, <5>3
      <4>3. QED BY <1>3, <2>1, <2>5, <4>1, <4>2 DEF Stored
    <3>3. QED BY <3>1, <3>2
  <2>6. store'[a] = G[at][a]
    <3>1. CASE a \in WriteKeys(at) BY <2>3, <3>1
    <3>2. CASE a \notin WriteKeys(at)
      <4>1. store[a] = G[at - 1][a] BY <1>1, <2>1, <3>2 DEF Stored
      <4>2. QED BY <1>7, <2>4, <3>2, <4>1
    <3>3. QED BY <3>1, <3>2
  <2>7. QED BY <1>1, <1>2, <1>3, <2>5, <2>6 DEF Stored
<1>10. QED BY <1>8, <1>9

(* The pc moves behind a row that is written. *)
LEMMA NextPcStore ==
  ASSUME IInv, StoreInv, NextPc
  PROVE  StoreInv'
<1>1. /\ part = "written" /\ part' = "new" /\ at' = at + 1 /\ UNCHANGED <<fn, store>>
      /\ at \in Nat
  BY RunFacts DEF NextPc
<1>2. /\ Rows' = Rows /\ (\A n : InPlace(n)' = InPlace(n)) /\ (\A s : TameOn(s)' = TameOn(s))
      /\ (\A n : WriteKeys(n)' = WriteKeys(n))
      /\ \A G, m : Plain(G, m)' <=> Plain(G, m)
  BY <1>1, SameRows
<1>3. Passed' = Passed /\ at' - 1 = at BY <1>1 DEF Passed
<1>4. ASSUME NEW G, Kept(G) PROVE Kept(G)'
  BY <1>1, <1>2, <1>3, <1>4 DEF Kept
<1>5. ASSUME NEW G, NEW a, Stored(G, a) PROVE Stored(G, a)'
  BY <1>1, <1>2, <1>3, <1>5 DEF Stored
<1>6. QED BY <1>1, <1>2, <1>3, <1>4, <1>5 DEF StoreInv

(* A restart goes back to where the slot is made, or to the row that was left. *)
LEMMA RestartStore ==
  ASSUME IInv, RemakesInv, StoreInv, Restart
  PROVE  StoreInv'
<1>1. /\ Ran /\ at \in Rows /\ at' = ReplayFrom(at) /\ part' = "new"
      /\ UNCHANGED <<fn, store>> /\ at' \in Rows
  BY ReplayFromRow DEF Restart
<1>2. /\ Rows' = Rows /\ (\A n : InPlace(n)' = InPlace(n)) /\ (\A s : TameOn(s)' = TameOn(s))
      /\ (\A n : WriteKeys(n)' = WriteKeys(n))
      /\ \A G, m : Plain(G, m)' <=> Plain(G, m)
  BY <1>1, SameRows
<1>3. InPlace(at) => <<at, at'>> \in replay /\ at' <= at
  <2>1. at < index /\ at \in Nat /\ at >= 1
    BY <1>1, RowFacts DEF IInv, OutsideWalk, TypeOK
  <2>2. SUFFICES ASSUME InPlace(at) PROVE <<at, at'>> \in replay /\ at' <= at
    OBVIOUS
  <2>3. PICK b \in Rows : /\ <<at, b>> \in replay
                          /\ \A c \in Rows : <<at, c>> \in replay => c = b
                          /\ b = 1 \/ b < at
    BY <1>1, <2>1, <2>2 DEF IInv, Resumable
  <2>4. at' = CHOOSE c \in Rows : <<at, c>> \in replay BY <1>1, <2>2 DEF ReplayFrom
  <2>5. at' = b BY <2>3, <2>4
  <2>6. b <= at BY <2>1, <2>3, RowFacts DEF IInv
  <2>7. QED BY <2>3, <2>5, <2>6
<1>4. ~ InPlace(at) => at' = at BY <1>1 DEF ReplayFrom
<1>5. /\ at \in Nat /\ at' \in Nat /\ at' >= 1 /\ at' <= at /\ Passed \in Nat
      /\ at - 1 <= Passed /\ Passed <= Len(fn) /\ Len(fn) \in Nat
      /\ Passed' = at' - 1 /\ Passed' \in Nat /\ Passed' <= Passed
  BY <1>1, <1>3, <1>4, RunFacts, RowFacts DEF IInv, Passed
<1>p. PICK m \in Nat, pp \in Nat : m = Passed' /\ pp = Passed BY <1>5
<1>q. m <= pp /\ (\A p \in 0 .. m : p \in 0 .. pp) /\ pp \in 0 .. pp /\ m \in 0 .. pp
  <2>1. m <= pp BY <1>5, <1>p
  <2>2. QED BY <2>1
<1>6. \E G : Plain(G, Passed')
  <2>1. PICK H : Plain(H, Passed) BY DEF StoreInv
  <2>3. DEFINE G == [n \in 0 .. m |-> H[n]]
  <2>4. ASSUME NEW n \in 0 .. m
        PROVE  G[n] = IF n = 0 THEN Fresh ELSE Written(G[n - 1], n, FALSE)
    <3>1. n \in 0 .. Passed /\ (n # 0 => n - 1 \in 0 .. m) BY <1>p, <1>q
    <3>2. H[n] = IF n = 0 THEN Fresh ELSE Written(H[n - 1], n, FALSE)
      BY <2>1, <3>1 DEF Plain
    <3>3. QED BY <3>1, <3>2
  <2>5. G = [n \in 0 .. m |-> G[n]] OBVIOUS
  <2> HIDE DEF G
  <2>6. Plain(G, m) BY <2>4, <2>5 DEF Plain
  <2>7. QED BY <1>p, <2>6
<1> SUFFICES ASSUME NEW G, Plain(G, Len(fn))
             PROVE  Kept(G)' /\ \A a \in Slots : TameOn(a) => Stored(G, a)'
  BY <1>1, <1>2, <1>6 DEF StoreInv
<1>7. Kept(G) /\ \A a \in Slots : TameOn(a) => Stored(G, a)
  BY DEF StoreInv
<1>8. Kept(G)'
  BY <1>1, <1>2, <1>7, <1>p, <1>q DEF Kept
<1>9. ASSUME NEW a \in Slots, TameOn(a) PROVE Stored(G, a)'
  <2>1. Stored(G, a) BY <1>7, <1>9
  <2>2. ASSUME NEW s \in Slots, s # a
        PROVE  store[s] = G[Passed'][s] \/ \E n \in Rows : n > Passed' /\ s \in WriteKeys(n)
    <3>1. CASE \E n \in Rows : n > Passed' /\ s \in WriteKeys(n) BY <3>1
    <3>2. CASE ~ \E n \in Rows : n > Passed' /\ s \in WriteKeys(n)
      <4>1. store[s] = G[Passed][s]
        BY <1>5, <2>1, <2>2, <3>2, RowFacts DEF IInv, Stored
      <4>2. Passed' \in 0 .. Passed /\ Passed \in 0 .. Passed BY <1>p, <1>q
      <4>3. G[Passed][s] = G[Passed'][s] BY <1>5, <1>7, <3>2, <4>2 DEF Kept
      <4>4. QED BY <4>1, <4>3
    <3>3. QED BY <3>1, <3>2
  <2>3. \/ store[a] = G[at' - 1][a]
        \/ ~ InPlace(at') /\ a \in WriteKeys(at')
    <3>1. CASE InPlace(at) BY <1>1, <1>3, <1>9, <3>1 DEF RemakesInv
    <3>2. CASE ~ InPlace(at)
      <4>1. part \in {"new", "half", "written"} BY RunFacts
      <4>2. a \notin WriteKeys(at) => G[at][a] = G[at - 1][a]
        BY <1>1, RowWrites DEF IInv
      <4>3. QED BY <1>4, <2>1, <3>2, <4>1, <4>2 DEF Stored
    <3>3. QED BY <3>1, <3>2
  <2>4. QED BY <1>1, <1>2, <2>2, <2>3 DEF Stored
<1>10. QED BY <1>8, <1>9

(* The analysis leaves the run alone, and the run keeps its invariant. *)
LEMMA StoreStep ==
  ASSUME IInv, RemakesInv, StoreInv, [Next]_vars
  PROVE  StoreInv'
<1>1. CASE analyze_row \/ Arrive \/ Search \/ Follow \/ Finish \/ UNCHANGED vars
  BY <1>1, StoreStays DEF analyze_row, Arrive, Search, Follow, Finish, vars, run
<1>2. CASE Half BY <1>2, HalfStore
<1>3. CASE Write BY <1>3, WriteStore
<1>4. CASE NextPc BY <1>4, NextPcStore
<1>5. CASE Restart BY <1>5, RestartStore
<1>6. QED BY <1>1, <1>2, <1>3, <1>4, <1>5 DEF Next

(* Nothing has been written. *)
LEMMA StoreInit ==
  ASSUME Init
  PROVE  RemakesInv /\ StoreInv
<1>1. RemakesInv BY DEF Init, RemakesInv
<1>2. at = 1 /\ part = "new" /\ store = Fresh /\ Passed = 0 BY DEF Init, Passed
<1>3. store = [s \in Slots |-> store[s]] BY <1>2 DEF Fresh
<1>4. Plain([n \in 0 .. 0 |-> Fresh], 0)
  <2>1. \A n \in 0 .. 0 : n = 0 OBVIOUS
  <2>2. QED BY <2>1 DEF Plain
<1>5. ASSUME NEW G, Plain(G, Len(fn))
      PROVE  Kept(G) /\ \A a \in Slots : Stored(G, a)
  <2>1. Len(fn) \in Nat BY InitInv, RowFacts DEF IInv
  <2>2. G[0] = Fresh BY <1>5, <2>1 DEF Plain
  <2>3. Kept(G)
    <3>1. \A p \in 0 .. 0 : p = 0 OBVIOUS
    <3>2. QED BY <1>2, <3>1 DEF Kept
  <2>4. QED BY <1>2, <2>2, <2>3 DEF Stored
<1>6. QED BY <1>1, <1>2, <1>3, <1>4, <1>5 DEF StoreInv

(* What a function leaves without a crash is well defined. *)
LEMMA ResultIs ==
  ASSUME NEW H, Plain(H, Len(fn))
  PROVE  \E G : Plain(G, Len(fn)) /\ Result = G[Len(fn)]
BY DEF Plain, Result

(* However often the process dies, in a function whose names tell which slots   *)
(* are the same and that works in place on one: replaying from the row the       *)
(* record names repairs what a death half way through a row left, and running    *)
(* any row that does not work in place again changes nothing, so that the        *)
(* function leaves in every slot what it leaves without a crash.                 *)
THEOREM ReplayAlwaysSound == Spec => []ReplaySound
<1>1. Init => AnchorInv /\ RemakesInv /\ StoreInv
  BY StoreInit DEF Init, AnchorInv, ScanInv, PairInv, WayInv
<1>2. IInv /\ AnchorInv /\ RemakesInv /\ StoreInv /\ [Next]_vars
      => (AnchorInv /\ RemakesInv /\ StoreInv)'
  BY AnchorStep, RemakesStep, StoreStep
<1>3. IInv /\ StoreInv => ReplaySound
  <2>1. SUFFICES ASSUME IInv, StoreInv, Done, NEW a \in Slots, TameOn(a)
                 PROVE  store = Result
    BY DEF ReplaySound, Tame
  <2>2. /\ at = Len(fn) + 1 /\ Len(fn) \in Nat \ {0} /\ at \notin Rows
    BY <2>1, RowFacts DEF Done, IInv, Rows
  <2>3. part = "new" /\ Passed = Len(fn) /\ at - 1 = Len(fn)
    BY <2>1, <2>2, RunFacts DEF IInv, TypeOK, Passed
  <2>4. PICK G : Plain(G, Len(fn)) /\ Result = G[Len(fn)]
    BY <2>1, <2>3, ResultIs DEF StoreInv
  <2>5. Stored(G, a) BY <2>1, <2>4 DEF StoreInv
  <2>6. \A n \in Rows : ~ (n > Len(fn)) BY <2>1, RowFacts DEF IInv
  <2>7. \A s \in Slots : store[s] = G[Len(fn)][s]
    BY <2>2, <2>3, <2>5, <2>6 DEF Stored
  <2>8. G[Len(fn)] = [s \in Slots |-> G[Len(fn)][s]]
    <3>1. Len(fn) \in 0 .. Len(fn) /\ Len(fn) # 0 BY <2>2
    <3>2. G[Len(fn)] = Written(G[Len(fn) - 1], Len(fn), FALSE) BY <2>4, <3>1 DEF Plain
    <3>3. Written(G[Len(fn) - 1], Len(fn), FALSE)
          = [s \in Slots |-> Written(G[Len(fn) - 1], Len(fn), FALSE)[s]]
      BY StoreShape
    <3>4. QED BY <3>2, <3>3
  <2>9. store = [s \in Slots |-> store[s]] BY <2>1 DEF StoreInv
  <2>10. QED BY <2>4, <2>7, <2>8, <2>9
<1>4. QED BY Invariance, <1>1, <1>2, <1>3, PTL DEF Spec
===============================================================================
