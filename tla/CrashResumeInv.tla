---------------------------- MODULE CrashResumeInv -----------------------------
(***************************************************************************)
(* The invariants behind Anchored and ReplaySound: what trace_back knows   *)
(* of the rows it has searched, along which rows a record was found, and   *)
(* how the slots of a run relate to those of a run without a crash.        *)
(***************************************************************************)
EXTENDS CrashResume

(***************************************************************************)
(* Tracing back                                                            *)
(***************************************************************************)
(* What read r of row n finds among the rows before c: no writer, or w last. *)
Silent(n, r, c) ==
  ReadName(fn[n], r) \in Globals \/ \A k \in Rows : k < c => ReadName(fn[n], r) \notin fn[k].writes
LastWriter(w, n, r, c) ==
  /\ ReadName(fn[n], r) \notin Globals
  /\ w \in Rows /\ w < c /\ ReadName(fn[n], r) \in fn[w].writes
  /\ \A k \in Rows : w < k /\ k < c => ReadName(fn[n], r) \notin fn[k].writes

(* The search from row n has come to candidate c of read r and holds w: the   *)
(* last writer of the last read that has one.                                 *)
ReadsUpTo(n, r) == {q \in 1 .. Len(fn[n].reads) : q <= r}
Limit(n, r, c, q) == IF q < r THEN n ELSE c
Traced(n, w, r, c) ==
  IF w = 0 THEN \A q \in ReadsUpTo(n, r) : Silent(n, q, Limit(n, r, c, q))
  ELSE \E p \in ReadsUpTo(n, r) :
         /\ LastWriter(w, n, p, Limit(n, r, c, p))
         /\ \A q \in ReadsUpTo(n, r) : q > p => Silent(n, q, Limit(n, r, c, q))

(* The search is over: the walk goes from n to w, or ends when w is 0. *)
Leads(n, w) ==
  IF w = 0 THEN \A q \in 1 .. Len(fn[n].reads) : Silent(n, q, n)
  ELSE \E p \in 1 .. Len(fn[n].reads) :
         /\ LastWriter(w, n, p, n)
         /\ \A q \in 1 .. Len(fn[n].reads) : q > p => Silent(n, q, n)

ScanInv == current # 0 /\ ~ Visiting =>
  InPlace(current) /\ scan.r >= 1 /\ scan.c >= 1 /\ Traced(current, scan.found, scan.r, scan.c)

(* Row a is where a walk that comes to row n ends. *)
Outcome(n, a) == IF InPlace(n) THEN <<n, a>> \in replay ELSE a = n

(* A record is that of the row its walk went to first. *)
PairInv == \A n, a \in Rows : <<n, a>> \in replay =>
  \/ Leads(n, 0) /\ a = 1
  \/ \E w \in Rows : Leads(n, w) /\ Outcome(w, a)
WayInv == current # 0 /\ current # index =>
  \E w \in Rows : /\ w < index /\ Leads(index, w)
                  /\ \A a \in Rows : Outcome(current, a) => Outcome(w, a)

AnchorInv == ScanInv /\ PairInv /\ WayInv

(***************************************************************************)
(* Running                                                                 *)
(***************************************************************************)
(* In a tame function a replay starts where the slot is made. *)
RemakesInv == \A s \in Slots : TameOn(s) =>
  /\ current # 0 /\ current # index => s \in WriteKeys(current)
  /\ \A n, a \in Rows : <<n, a>> \in replay => ~ InPlace(a) /\ s \in WriteKeys(a)

(* Passed rows have done their writing.  G[n] is the store behind row n when  *)
(* nothing dies.                                                              *)
Passed == IF part = "written" THEN at ELSE at - 1
Plain(G, m) == G = [n \in 0 .. m |-> IF n = 0 THEN Fresh ELSE Written(G[n - 1], n, FALSE)]

(* A slot nobody writes keeps its value, as far as the run has come. *)
Kept(G) == \A p, q \in 0 .. Passed : \A s \in Slots :
  p <= q /\ (\A k \in Rows : p < k /\ k <= q => s \notin WriteKeys(k)) => G[q][s] = G[p][s]

(* The slot worked on in place is right whenever it is going to be read, unless *)
(* the row that is half done spoils it; any other one is right, or is going to   *)
(* be written.                                                                   *)
Stored(G, a) ==
  /\ \A s \in Slots \ {a} :
       store[s] = G[Passed][s] \/ \E n \in Rows : n > Passed /\ s \in WriteKeys(n)
  /\ part = "written" => store[a] = G[at][a]
  /\ part = "half" => store[a] = G[at - 1][a] \/ a \in WriteKeys(at)
  /\ part = "new" => \/ store[a] = G[at - 1][a]
                     \/ at \in Rows /\ ~ InPlace(at) /\ a \in WriteKeys(at)

StoreInv ==
  /\ store = [s \in Slots |-> store[s]]
  /\ \E G : Plain(G, Passed)
  /\ \A G : Plain(G, Len(fn)) => /\ Kept(G)
                                 /\ \A a \in Slots : TameOn(a) => Stored(G, a)
===============================================================================
