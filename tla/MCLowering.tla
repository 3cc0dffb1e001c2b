------------------------------ MODULE MCLowering ------------------------------
EXTENDS Lowering

(* Lists of at most n statements of S. *)
Lists(S, n) == UNION {[1 .. m -> S] : m \in 0 .. n}

Atoms  == {Inst, Return, Break, Continue}
Small  == Lists(Atoms, 1)
Simple == {If(t, e) : t \in Small, e \in Small} \cup {While(b) : b \in Small} \cup {For(b) : b \in Small}
Bodies == Lists(Atoms \cup Simple, 2)

(* One statement of every shape down to depth three, with one behind it. *)
Deep == {<<s, Inst>> : s \in {While(b) : b \in Bodies} \cup {For(b) : b \in Bodies}}
        \cup {<<Inst, If(t, e), Inst>> : t \in Lists(Simple, 1), e \in Lists(Simple, 1)}
        \cup Bodies

Loop(b) == {<<While(b), Inst>>, <<For(b)>>}
(* Blocks and jumps of the user: in a row, at the end of a body, and refused. *)
L(b) == Block("L", b)
M(b) == Block("M", b)
Jumps ==
  {<<Inst, L(b), Inst>> : b \in Lists({Inst, Return}, 2)}
  \cup {<<L(<<Inst, Br("L", "M")>>), M(b), Inst>> : b \in {<<Inst>>, <<Goto("L")>>, <<L(<<>>)>>}}
  \cup {<<Inst, Goto("M"), L(<<Inst>>), M(<<Inst>> \o b), Inst>> : b \in {<<>>, <<Br("L", "M")>>}}
  \cup {<<L(<<Inst, M(<<Inst>>), Inst>>), While(<<Goto("M")>>)>>, <<Goto("N")>>, <<Break, L(<<>>)>>}
  \cup UNION {Loop(<<Inst, L(b)>>) : b \in Lists({Inst, Break, Continue, Goto("L")} \cup
                                             {If(t, e) : t \in {<<Break>>, <<Inst>>}, e \in {<<>>, <<Inst>>}}, 2)}
  \cup UNION {Loop(<<If(<<L(<<Inst>>)>>, e)>>) : e \in {<<>>, <<Goto("L")>>, <<M(<<Br("L", "M")>>)>>}}

MCPrograms == Deep \cup Jumps

(* What lowering makes of the programs: its statements and those in them. *)
RECURSIVE Within(_)
Within(b) == LET own == {b[i] : i \in 1 .. Len(b)}
             IN own \cup UNION {Within(s.b) : s \in {t \in own : IsBlock(t)}}
MCStmts == UNION {Within(lower_func(p)) : p \in {q \in Programs : ~ OutsideLoop(q)}}

RECURSIVE MCCloses(_)
MCCloses(s) == is_terminator(s) \/ (IsBlock(s) /\ s.b # <<>> /\ MCCloses(Last(s.b)))

(* A block with a statement behind it in the body of an if or a loop, or    *)
(* behind one.                                                              *)
Behind ==
  {<<If(<<L(<<Inst>>), Inst>>, <<>>)>>, <<While(<<L(<<Inst>>), Inst>>)>>,
   <<If(<<>>, <<>>), L(<<Inst>>), Inst>>}
===============================================================================
