------------------------------ MODULE Structured ------------------------------
(***************************************************************************)
(* The structured statements of a kvlang function and what running them    *)
(* means: instructions in the order the source gives them, tests before    *)
(* branches, loops until their test fails, break, continue, named blocks   *)
(* entered by falling into them, goto and br to a block's label.           *)
(*                                                                         *)
(* An instruction is known by the place of its statement and by what it is *)
(* there for; operands and values do not exist.                            *)
(***************************************************************************)
EXTENDS Naturals, Sequences

(* Statements: [k |-> "inst" | "return" | "break" | "continue"], "goto" with *)
(* l, "br" with l and m, "if" with t and e, "while" and "for" with b, and    *)
(* "block" with l and b.  A place is the path of positions that leads there. *)
Leaf(k)     == [k |-> k]
Inst        == Leaf("inst")
Return      == Leaf("return")
Break       == Leaf("break")
Continue    == Leaf("continue")
Goto(l)     == [k |-> "goto", l |-> l]
Br(l, m)    == [k |-> "br", l |-> l, m |-> m]
If(t, e)    == [k |-> "if", t |-> t, e |-> e]
While(b)    == [k |-> "while", b |-> b]
For(b)      == [k |-> "for", b |-> b]
Block(l, b) == [k |-> "block", l |-> l, b |-> b]

Loops == {"while", "for"}

(* What is observed of a run: [p |-> place, w |-> purpose]. *)
Obs(p, w) == [p |-> p, w |-> w]
TheEnd    == Obs(<<>>, "return")

(***************************************************************************)
(* Continuations: what is still to be run, the next first.  An item is a   *)
(* statement with its place and how far it has come: "new", "test" (the    *)
(* condition is evaluated), "again" (a loop behind its body), "elem" (a    *)
(* for loop about to fetch the element).                                   *)
(***************************************************************************)
Item(s, p, w) == [s |-> s, p |-> p, w |-> w]
Load(ss, p)   == [i \in 1 .. Len(ss) |-> Item(ss[i], Append(p, i), "new")]

(* Parts of if: the place of a statement in the then or the else branch. *)
Then(p) == Append(p, 1)
Else(p) == Append(p, 2)

(* From the innermost loop that is running on. *)
FromLoop(K) ==
  LET n == CHOOSE n \in 1 .. Len(K) :
             K[n].w = "again" /\ \A m \in 1 .. n - 1 : K[m].w # "again"
  IN SubSeq(K, n, Len(K))

(* What is left to run from the block labelled l on: its statements, those  *)
(* behind it, and what is behind the statements it lies in.                 *)
RECURSIVE From(_, _, _, _)
From(ss, p, K, l) ==
  LET Rest(i)  == SubSeq(Load(ss, p), i + 1, Len(ss)) \o K
      In(i) == LET s == ss[i]  q == Append(p, i) IN
        CASE s.k = "block" -> IF s.l = l THEN { Load(s.b, q) \o Rest(i) }
                              ELSE From(s.b, q, Rest(i), l)
          [] s.k = "if"    -> From(s.t, Then(q), Rest(i), l) \cup From(s.e, Else(q), Rest(i), l)
          [] s.k \in Loops -> From(s.b, q, << Item(s, q, "again") >> \o Rest(i), l)
          [] OTHER         -> {}
  IN UNION {In(i) : i \in 1 .. Len(ss)}

AtLabel(prog, l) == CHOOSE K \in From(prog, <<>>, <<>>, l) : TRUE

(* Up to the next thing that can be observed. *)
RECURSIVE Settle(_)
Settle(K) ==
  IF K = <<>> THEN <<>>
  ELSE LET h == Head(K) IN
    CASE h.s.k = "block"    -> Settle(Load(h.s.b, h.p) \o Tail(K))
      [] h.s.k = "break"    -> Settle(Tail(FromLoop(K)))
      [] h.s.k = "continue" -> FromLoop(K)
      [] h.s.k = "return"   -> <<>>
      [] OTHER              -> K

(* A for loop that has not begun sets its index up; every test of an if or *)
(* a loop evaluates its condition and then branches on it.                 *)
Expected(K) ==
  IF K = <<>> THEN TheEnd
  ELSE LET h == Head(K) IN
    CASE h.s.k \in {"inst", "goto", "br"}   -> Obs(h.p, h.s.k)
      [] h.s.k = "for" /\ h.w = "new"       -> Obs(h.p, "init")
      [] h.w \in {"test", "elem"}           -> Obs(h.p, h.w)
      [] OTHER                              -> Obs(h.p, "cond")

(* The continuation behind what is expected; yes is the outcome of a test. *)
After(prog, K, yes) ==
  LET h == Head(K)
      Now(w) == << [h EXCEPT !.w = w] >> \o Tail(K)
      Body(p, b) == Settle(Load(b, p) \o
                      (IF h.s.k \in Loops THEN << [h EXCEPT !.w = "again"] >> ELSE <<>>) \o Tail(K))
  IN CASE h.s.k = "inst"                   -> Settle(Tail(K))
       [] h.s.k = "goto"                   -> Settle(AtLabel(prog, h.s.l))
       [] h.s.k = "br"                     -> Settle(AtLabel(prog, IF yes THEN h.s.l ELSE h.s.m))
       [] h.s.k = "for" /\ h.w = "new"     -> Now("again")
       [] h.w # "test" /\ h.w # "elem"     -> Now("test")
       [] h.w = "elem"                     -> Body(h.p, h.s.b)
       [] h.s.k = "if"                     -> IF yes THEN Body(Then(h.p), h.s.t)
                                              ELSE Body(Else(h.p), h.s.e)
       [] ~ yes                            -> Settle(Tail(K))
       [] h.s.k = "for"                    -> Now("elem")
       [] OTHER                            -> Body(h.p, h.s.b)
==============================================================================
