----------------------------- MODULE CrashResume ------------------------------
(***************************************************************************)
(* The crash/resume record layout writes beside every function             *)
(* (layout/src/crash_resume.rs, called from code.rs): which rows work in   *)
(* place, and from which row each of them may be replayed.  The analysis   *)
(* looks at names only, and at the rows in the order they are laid out.    *)
(*                                                                         *)
(* A function is analysed and then run: a row writes its slots first and   *)
(* the pc afterwards, the process may die in between or, in a row that may *)
(* work in place, half way, and the record says where the next one starts. *)
(* The analysis sees the text of the operands, the run the slots they      *)
(* stand for.  Rows are counted from 1 here.                               *)
(***************************************************************************)
EXTENDS Naturals, Sequences

CONSTANTS
  Ops,         \* operators
  Permitting,  \* those whose result may share a slot with an operand
  Operands,    \* the text of operands: names, *names, literals, absolute keys
  NoName,      \* no text at all
  Trim,        \* an operand without the * in front
  Globals,     \* the absolute keys among the operands
  Slots,       \* where values are
  Key,         \* the slot an operand stands for; pointers are not moved
  Functions,   \* the functions laid out: sequences of rows
  MaxCrashes   \* bound on process deaths

Row == [op : Ops, reads : Seq(Operands), writes : SUBSET Operands]

ASSUME CrashResumeAssumption ==
  /\ Permitting \subseteq Ops /\ Globals \subseteq Operands /\ NoName \notin Operands
  /\ Trim \in [Operands -> Operands \cup {NoName}] /\ Key \in [Operands -> Slots]
  /\ Functions \subseteq Seq(Row) \ {<<>>}
  /\ MaxCrashes \in Nat

VARIABLES
  fn,       \* the rows
  (* analysis *)
  index,    \* the row analyze has come to
  current,  \* where trace_back stands, 0 outside it
  scan,     \* its search for a writer: "visit" before it, else read and candidate
  visited,  \* rows it has been to
  replay,   \* pairs <<in-place row, row to replay from>>
  verdict,  \* "analyzing", "ALWAYS", "CONDITIONALLY" or "NOT"
  (* run *)
  at, part, \* the row the pc names; how far it is: "new", "half", "written"
  store,    \* slot -> value
  crashes

analysis == <<index, current, scan, visited, replay, verdict>>
run      == <<at, part, store, crashes>>
vars     == <<fn, analysis, run>>

Rows == 1 .. Len(fn)

(* crash_resume_slots: the analysis reads names without their *, and none    *)
(* where nothing is left; it takes the names that are written as they stand. *)
ReadName(row, r) == Trim[row.reads[r]]
Reads(n) == {ReadName(fn[n], r) : r \in 1 .. Len(fn[n].reads)} \ {NoName}

(***************************************************************************)
(* is_inplace_node: what cannot be told counts as in place.                *)
(***************************************************************************)
is_inplace_node(row) ==
  /\ row.op \in Permitting
  /\ \/ \A r \in 1 .. Len(row.reads) : ReadName(row, r) = NoName
     \/ row.writes = {}
     \/ \E r \in 1 .. Len(row.reads) : ReadName(row, r) \in row.writes
InPlace(n) == is_inplace_node(fn[n])

(* The keys written by the function, as its caller hands them over: none. *)
written_globals == {}

(***************************************************************************)
(* trace_back                                                              *)
(***************************************************************************)
Visit == [r |-> 0, c |-> 0, found |-> 0]
Visiting == scan = Visit

(* A row that does not work in place ends the walk, unless it began there. *)
Bug_AnyRowAnchors(n) == n # index
Anchors(n) == n # index /\ ~ InPlace(n)

Continue(pairs) == /\ replay' = replay \cup pairs
                   /\ index' = index + 1 /\ current' = 0
                   /\ scan' = Visit /\ visited' = {}
                   /\ UNCHANGED verdict
Refuse == /\ verdict' = "NOT"
          /\ UNCHANGED <<index, current, scan, visited, replay>>

analyze_row == /\ verdict = "analyzing" /\ current = 0 /\ index \in Rows
               /\ IF InPlace(index)
                  THEN current' = index /\ UNCHANGED <<index, scan, visited, replay, verdict>>
                  ELSE Continue({})
               /\ UNCHANGED <<fn, run>>

Arrive == /\ verdict = "analyzing" /\ current # 0 /\ Visiting
          /\ IF current \in visited THEN Refuse
             ELSE IF Anchors(current) THEN Continue({<<index, current>>})
             ELSE /\ visited' = visited \cup {current}
                  /\ scan' = [r |-> 1, c |-> 1, found |-> 0]
                  /\ UNCHANGED <<index, current, replay, verdict>>
          /\ UNCHANGED <<fn, run>>

(* The reads in their order; for each of them the rows before, the last one  *)
(* that writes it being kept over what the reads before it have found.       *)
Scanning == ~ Visiting /\ scan.r <= Len(fn[current].reads)
read     == ReadName(fn[current], scan.r)

Bug_BeforeIsUpTo(c) == c <= current
Before(c) == c < current

Bug_FoundFirst(c) == IF read \in fn[c].writes /\ scan.found = 0 THEN c ELSE scan.found
Found(c) == IF read \in fn[c].writes THEN c ELSE scan.found

Search ==
  /\ verdict = "analyzing" /\ Scanning
  /\ IF read \in Globals /\ read \in written_globals THEN Refuse
     ELSE /\ scan' = IF read \notin Globals /\ Before(scan.c)
                     THEN [scan EXCEPT !.c = @ + 1, !.found = Found(scan.c)]
                     ELSE [scan EXCEPT !.r = @ + 1, !.c = 1]
          /\ UNCHANGED <<index, current, visited, replay, verdict>>
  /\ UNCHANGED <<fn, run>>

(* Up to the writer, or to the entry of the function when there is none. *)
Follow ==
  /\ verdict = "analyzing" /\ ~ Visiting /\ ~ Scanning
  /\ IF scan.found = 0 THEN Continue({<<index, 1>>})
     ELSE current' = scan.found /\ scan' = Visit /\ UNCHANGED <<index, visited, replay, verdict>>
  /\ UNCHANGED <<fn, run>>

Finish == /\ verdict = "analyzing" /\ current = 0 /\ index \notin Rows
          /\ verdict' = IF \E n \in Rows : InPlace(n) THEN "CONDITIONALLY" ELSE "ALWAYS"
          /\ UNCHANGED <<fn, index, current, scan, visited, replay, run>>

(***************************************************************************)
(* Running the function                                                    *)
(***************************************************************************)
(* A value is known by the row that made it and from what. *)
Value(n, s, of, half) == [n |-> n, s |-> s, of |-> of, half |-> half]
Fresh == [s \in Slots |-> Value(0, s, <<>>, FALSE)]

ReadKeys(n)  == {Key[fn[n].reads[r]] : r \in 1 .. Len(fn[n].reads)}
WriteKeys(n) == {Key[w] : w \in fn[n].writes}
Written(st, n, half) ==
  [s \in Slots |->
     IF s \in WriteKeys(n)
     THEN Value(n, s, [r \in 1 .. Len(fn[n].reads) |-> st[Key[fn[n].reads[r]]]], half)
     ELSE st[s]]

Ran == verdict \notin {"analyzing", "NOT"}

(* Half a row of an operator that works on its slot piece by piece: the slot, *)
(* an operand or not, is neither what it was nor the result.                  *)
Half == /\ Ran /\ at \in Rows /\ part = "new" /\ fn[at].op \in Permitting
        /\ crashes < MaxCrashes
        /\ store' = Written(store, at, TRUE) /\ part' = "half"
        /\ UNCHANGED <<fn, analysis, at, crashes>>

Write == /\ Ran /\ at \in Rows /\ part = "new"
         /\ store' = Written(store, at, FALSE) /\ part' = "written"
         /\ UNCHANGED <<fn, analysis, at, crashes>>

NextPc == /\ Ran /\ part = "written"
          /\ at' = at + 1 /\ part' = "new"
          /\ UNCHANGED <<fn, analysis, store, crashes>>

(* The process dies; the next one starts where the record says. *)
ReplayFrom(n) == IF InPlace(n) THEN CHOOSE a \in Rows : <<n, a>> \in replay ELSE n
Restart == /\ Ran /\ at \in Rows /\ crashes < MaxCrashes
           /\ crashes' = crashes + 1
           /\ at' = ReplayFrom(at) /\ part' = "new"
           /\ UNCHANGED <<fn, analysis, store>>

Init == /\ fn \in Functions
        /\ index = 1 /\ current = 0 /\ scan = Visit /\ visited = {} /\ replay = {}
        /\ verdict = "analyzing"
        /\ at = 1 /\ part = "new" /\ store = Fresh /\ crashes = 0

Next == \/ analyze_row \/ Arrive \/ Search \/ Follow \/ Finish
        \/ Half \/ Write \/ NextPc \/ Restart
Spec == Init /\ [][Next]_vars

(***************************************************************************)
(* Properties                                                              *)
(***************************************************************************)
(* The rows the analysis and the run stand at are rows of the function: a
   restart, too, finds a row to start from. *)
TypeOK == /\ fn \in Functions
          /\ index \in 1 .. Len(fn) + 1 /\ current \in 0 .. Len(fn)
          /\ scan \in [r : Nat, c : Nat, found : Nat]
          /\ visited \subseteq Rows /\ replay \subseteq Rows \X Rows
          /\ verdict \in {"analyzing", "ALWAYS", "CONDITIONALLY", "NOT"}
          /\ at \in 1 .. Len(fn) + 1 /\ part \in {"new", "half", "written"}
          /\ part # "new" => at \in Rows
          /\ crashes \in 0 .. MaxCrashes

(* trace_back walks up: it never comes to a row twice, however operands and
   writers refer to each other, so that its fourth outcome (crash_resume.rs
   CycleWithoutAnchor) does not exist. *)
WalksUp == current # 0 /\ Visiting => \A v \in visited : current < v

(* Every in-place row analyze has passed has one row to be replayed from: an
   earlier one that does not work in place, or the first (crash_resume.rs
   188-199). *)
Resumable ==
  \A n \in Rows : n < index /\ InPlace(n) =>
    \E a \in Rows : /\ <<n, a>> \in replay
                    /\ \A b \in Rows : <<n, b>> \in replay => b = a
                    /\ (a = 1 \/ (a < n /\ ~ InPlace(a)))

(* The nearest writer: row m wrote what row n reads, and no row between them
   has written that again. *)
Feeds(m, n) == \E s \in Reads(n) \ Globals :
  /\ m < n /\ s \in fn[m].writes
  /\ \A k \in Rows : m < k /\ k < n => s \notin fn[k].writes

(* The replay point is found along nearest writers, in-place ones on the way
   (the spec's "nearest rwir that wrote the read operand"); the first row when
   nobody wrote what is read. *)
Anchored == \A p \in replay : LET n == p[1]  a == p[2] IN
  \/ Feeds(a, n)
  \/ \E m \in Rows : InPlace(m) /\ Feeds(m, n) /\ <<m, a>> \in replay
  \/ a = 1 /\ \A s \in Reads(n) \ Globals : \A m \in Rows : m < n => s \notin fn[m].writes

(* The inductive invariant: above every row the walk has visited, and the
   record complete for the rows analyze has passed, and only for them. *)
InWalk == current # 0 =>
  /\ verdict = "analyzing" /\ index \in Rows /\ InPlace(index) /\ current <= index
  /\ \A v \in visited : IF Visiting THEN current < v ELSE current <= v
  /\ ~ Visiting => scan.found < current
OutsideWalk == /\ current = 0 => Visiting /\ visited = {}
               /\ verdict # "NOT"
               /\ Ran => index = Len(fn) + 1
               /\ ~ Ran => at = 1 /\ part = "new"
RecordedSoFar == \A p \in replay : p[1] < index
IInv == TypeOK /\ InWalk /\ OutsideWalk /\ RecordedSoFar /\ Resumable

(* What the function leaves when nothing dies. *)
Result ==
  LET Store[n \in 0 .. Len(fn)] == IF n = 0 THEN Fresh ELSE Written(Store[n - 1], n, FALSE)
  IN Store[Len(fn)]
Done == Ran /\ at = Len(fn) + 1

(* The names tell which slots are the same: what a row reads has the name of
   what a row writes just if the two are one slot, and no row moves a pointer
   that another one writes through. *)
NamesTell ==
  \A m, n \in Rows : \A w \in fn[m].writes :
    /\ \A r \in 1 .. Len(fn[n].reads) :
         ReadName(fn[n], r) = w <=> Key[fn[n].reads[r]] = Key[w]
    /\ \A v \in fn[n].writes : w = Trim[v] => w = v

(* Functions that work in place on one slot, made by a row of the function and
   the last operand of the rows that work on it; the other slots are written at
   most once and not after they are read, none by a row that reads it. *)
TameOn(a) ==
  /\ NamesTell
  /\ \A n \in Rows :
       IF InPlace(n)
       THEN /\ WriteKeys(n) = {a}
            /\ fn[n].reads # <<>> /\ Key[fn[n].reads[Len(fn[n].reads)]] = a
            /\ \E m \in Rows : m < n /\ ~ InPlace(m) /\ a \in WriteKeys(m)
       ELSE WriteKeys(n) \cap ReadKeys(n) = {}
  /\ \A s \in Slots \ {a} : \A m, n \in Rows :
       m < n /\ s \in WriteKeys(n) => s \notin WriteKeys(m) \cup ReadKeys(m)
  /\ \A x \in Operands : Key[x] = a => Trim[x] \notin Globals
Tame == \E a \in Slots : TameOn(a)

(* Replaying from the recorded row repairs what a crash in an in-place row left,
   and a row that does not work in place can be run again: the function leaves
   what it leaves without a crash. *)
ReplaySound == Tame /\ Done => store = Result

(* "No false green" (the header of crash_resume.rs): a function whose record
   lets it resume, whatever its rows are, leaves what it leaves without a
   crash.  It does not hold: rows that read what they write are missed, by
   their operator or because of a *, and no function is refused. *)
NoFalseGreen == Done => store = Result
=============================================================================
