------------------------------- MODULE Lowering -------------------------------
(***************************************************************************)
(* How layout turns the structured statements of a function into one       *)
(* linear sequence of rows (layout/src/lower.rs and code.rs): if, while    *)
(* and for become blocks entered by goto and br, blocks are taken out of   *)
(* the lists they stand in, every synthetic block is made to leave by a    *)
(* jump, and the blocks are flattened and their labels resolved to rows.   *)
(*                                                                         *)
(* The specification takes a function, lowers it, flattens it (Linear) and *)
(* runs the rows beside the structured statements.                         *)
(***************************************************************************)
EXTENDS Structured, Linear, SequencesExt

CONSTANT Programs   \* the functions to be laid out: lists of statements

(* Labels: users', and those of LabelGen, one for each statement and purpose. *)
User(l)      == Obs(<<>>, l)
Label(p, w)  == Obs(p, w)
NoLabel      == Obs(<<>>, "none")

(* Lowered statements: rows, and blocks of them.  A row o is what it does; *)
(* the gotos that lowering adds do nothing.                                *)
Row(k, o, l, m) == [k |-> k, o |-> o, l |-> l, m |-> m, b |-> <<>>, syn |-> FALSE]
Silent          == Obs(<<>>, "silent")
InstRow(o)      == Row("inst", o, NoLabel, NoLabel)
GotoRow(o, l)   == Row("goto", o, l, NoLabel)
BrRow(o, l, m)  == Row("br", o, l, m)
ReturnRow       == Row("return", TheEnd, NoLabel, NoLabel)
goto_label(l)   == GotoRow(Silent, l)
Scope(l, b, syn) == [k |-> "block", o |-> Silent, l |-> l, m |-> NoLabel, b |-> b, syn |-> syn]

(***************************************************************************)
(* lower_body                                                              *)
(***************************************************************************)
(* A body is made to end in a goto, down into its last block. *)
RECURSIVE inject_goto(_, _)
inject_goto(b, l) ==
  IF b = <<>> THEN << goto_label(l) >>
  ELSE IF Last(b).k = "block"
       THEN Append(Front(b), [Last(b) EXCEPT !.b = inject_goto(@, l)])
  ELSE IF is_terminator(Last(b)) THEN b
  ELSE Append(b, goto_label(l))

Insts(b)  == SelectSeq(b, IsInst)
Blocks(b) == SelectSeq(b, IsBlock)
inject_goto_blocks(bs, l) ==
  [i \in 1 .. Len(bs) |-> [bs[i] EXCEPT !.b = inject_goto(@, l)]]

(* The blocks of a branch or a loop body, each of them with a way out. *)
Bug_BlocksOutNotInjected(b, l) == Blocks(b)
BlocksOut(b, l) == inject_goto_blocks(Blocks(b), l)

RECURSIVE collect_goto_targets(_)
collect_goto_targets(ss) ==
  UNION {LET s == ss[i] IN
         CASE s.k = "goto"  -> {s.l}
           [] s.k = "br"    -> {s.l, s.m}
           [] s.k = "if"    -> collect_goto_targets(s.t) \cup collect_goto_targets(s.e)
           [] s.k \in Loops \cup {"block"} -> collect_goto_targets(s.b)
           [] OTHER         -> {} : i \in 1 .. Len(ss)}

NoLoop == [brk |-> NoLabel, cont |-> NoLabel]

Bug_ContinueRepeatsBody(p, brk, cont) ==
  [brk |-> Label(p, brk), cont |-> Label(p, IF cont = "while" THEN "do" ELSE "for_body")]
LoopLabels(p, brk, cont) == [brk |-> Label(p, brk), cont |-> Label(p, cont)]

(* Statements i, i + 1, ... of ss, which stands at p, behind the rows pre    *)
(* they follow; lc are the labels of the loop around them.  Whatever follows *)
(* an if or a loop moves into the block the two branches meet in, or the     *)
(* loop is left for; whatever follows a break in its list is dropped.        *)
RECURSIVE lower_body(_, _, _, _, _, _, _)
lower_body(ss, p, i, pre, lc, targets, adjacent) ==
  IF i > Len(ss) THEN pre
  ELSE
    LET s == ss[i]
        q == Append(p, i)
        L(w) == Label(q, w)
        Go(row) == lower_body(ss, p, i + 1, Append(pre, row), lc, targets, adjacent)
        cont == lower_body(ss, p, i + 1, <<>>, lc, targets, FALSE)
        Branch(b, r, meet) == inject_goto(lower_body(b, r, 1, <<>>, lc, targets, FALSE), meet)
        LoopBody(b, first, brk, again) ==
          inject_goto(first \o lower_body(b, q, 1, <<>>, LoopLabels(q, brk, again), targets, FALSE),
                      Label(q, again))
        Test(t, e) == << InstRow(Obs(q, "cond")), BrRow(Obs(q, "test"), L(t), L(e)) >>
    IN
    CASE s.k = "inst"   -> Go(InstRow(Obs(q, "inst")))
      [] s.k = "return" -> Go(ReturnRow)
      [] s.k = "goto"   -> Go(GotoRow(Obs(q, "goto"), User(s.l)))
      [] s.k = "br"     -> Go(BrRow(Obs(q, "br"), User(s.l), User(s.m)))
      [] s.k = "break"    -> Append(pre, goto_label(lc.brk))
      [] s.k = "continue" -> Append(pre, goto_label(lc.cont))
      [] s.k = "if" ->
           LET then == Branch(s.t, Then(q), L("merge"))
               else == Branch(s.e, Else(q), L("merge"))
           IN pre \o << goto_label(L("if")),
                        Scope(L("if"), Test("then", "else"), TRUE),
                        Scope(L("then"), Insts(then), TRUE),
                        Scope(L("else"), Insts(else), TRUE),
                        Scope(L("merge"), Insts(cont), TRUE) >>
                  \o BlocksOut(then, L("merge")) \o BlocksOut(else, L("merge"))
                  \o Blocks(cont)
      [] s.k = "while" ->
           LET body == LoopBody(s.b, <<>>, "exit", "while")
           IN pre \o << goto_label(L("while")),
                        Scope(L("while"), Test("do", "exit"), TRUE),
                        Scope(L("do"), Insts(body), TRUE),
                        Scope(L("exit"), Insts(cont), TRUE) >>
                  \o BlocksOut(body, L("while")) \o Blocks(cont)
      [] s.k = "for" ->
           LET body == LoopBody(s.b, << InstRow(Obs(q, "elem")) >>, "for_exit", "for_cond")
           IN pre \o << goto_label(L("for_init")),
                        Scope(L("for_init"), << InstRow(Obs(q, "init")),
                                                goto_label(L("for_cond")) >>, TRUE),
                        Scope(L("for_cond"), Test("for_body", "for_exit"), TRUE),
                        Scope(L("for_body"), Insts(body), TRUE),
                        Scope(L("for_exit"), Insts(cont), TRUE) >>
                  \o BlocksOut(body, L("for_cond")) \o Blocks(cont)
      [] s.k = "block" ->
           LET direct == pre = <<>> /\ adjacent /\ s.l \in targets
           IN (IF direct \/ ~ EndsOpen(pre) THEN pre
               ELSE Append(pre, goto_label(User(s.l))))
              \o << Scope(User(s.l), lower_body(s.b, q, 1, <<>>, lc, targets, TRUE), FALSE) >>
              \o lower_body(ss, p, i + 1, <<>>, lc, targets, TRUE)

(* Open paths of the function and of its synthetic blocks end in a return; *)
(* a list that ends in a block is left as it is.                           *)
Closed(b) == IF b # <<>> /\ (IsBlock(Last(b)) \/ is_terminator(Last(b))) THEN b
             ELSE Append(b, ReturnRow)
Bug_TerminateFunctionOnly(b) == Closed(b)
RECURSIVE terminate(_)
terminate(b) == Closed([i \in 1 .. Len(b) |->
  IF IsBlock(b[i]) /\ b[i].syn THEN [b[i] EXCEPT !.b = terminate(@)] ELSE b[i]])

(* A break or continue with no loop around it is the one error of lowering. *)
RECURSIVE OutsideLoop(_)
OutsideLoop(ss) == \E i \in 1 .. Len(ss) : LET s == ss[i] IN
  CASE s.k \in {"break", "continue"} -> TRUE
    [] s.k = "if"    -> OutsideLoop(s.t) \/ OutsideLoop(s.e)
    [] s.k = "block" -> OutsideLoop(s.b)
    [] OTHER         -> FALSE

lower_func(prog) ==
  terminate(lower_body(prog, <<>>, 1, <<>>, NoLoop, collect_goto_targets(prog), TRUE))

(***************************************************************************)
(* Laying a function out and running its rows                              *)
(***************************************************************************)
VARIABLES prog,    \* the function
          pc,      \* the row about to be run, 0 once the function has returned
          K        \* what the structured statements have left to run

vars == <<prog, lowered, todo, seq, labels, verdict, rows, pc, K>>

Init == /\ prog \in Programs
        /\ verdict = "source"
        /\ lowered = <<>> /\ todo = <<>> /\ seq = <<>> /\ labels = <<>> /\ rows = <<>>
        /\ pc = 0 /\ K = <<>>

Lower == /\ verdict = "source"
         /\ IF OutsideLoop(prog)
            THEN verdict' = "outside loop" /\ UNCHANGED <<lowered, todo, seq, labels, rows>>
            ELSE Flatten(lower_func(prog))
         /\ UNCHANGED <<prog, pc, K>>

Walk == (Take \/ EnterBlock \/ LeaveBlock \/ Refuse) /\ UNCHANGED <<prog, pc, K>>

Enter == /\ Emit
         /\ pc' = 1
         /\ K' = Settle(Load(prog, <<>>))
         /\ UNCHANGED prog

At == rows[pc]
Running == pc \in 1 .. Len(rows)

(* The statements take the step the row stands for, as long as it is theirs. *)
Beside(yes) == K' = IF K # <<>> /\ At.o = Expected(K) THEN After(prog, K, yes) ELSE K

Run == /\ Running /\ At.k = "inst"
       /\ pc' = pc + 1
       /\ Beside(TRUE)
       /\ UNCHANGED <<prog, lvars>>

Goto_ == /\ Running /\ At.k = "goto"
         /\ pc' = At.l
         /\ IF At.o = Silent THEN K' = K ELSE Beside(TRUE)
         /\ UNCHANGED <<prog, lvars>>

Branch == /\ Running /\ At.k = "br"
          /\ \E yes \in BOOLEAN : /\ pc' = IF yes THEN At.l ELSE At.m
                                  /\ Beside(yes)
          /\ UNCHANGED <<prog, lvars>>

Leave == /\ Running /\ At.k = "return"
         /\ pc' = 0
         /\ UNCHANGED <<prog, lvars, K>>

Next == Lower \/ Walk \/ Enter \/ Run \/ Goto_ \/ Branch \/ Leave
Spec == Init /\ [][Next]_vars

(* A jump that is reached is taken (the interpreter's loop, see KvCpu). *)
FairSpec == Spec /\ WF_vars(Goto_)

(***************************************************************************)
(* Properties                                                              *)
(***************************************************************************)
(* The rows do what the statements say: whenever a row is about to do
   something, it is what the structured statements are about to do, down the
   same branches; a run never leaves the rows (layout/src/lower.rs 1138-1523,
   and the linear code of code.rs). *)
Agree == pc # 0 => Running /\ (At.o # Silent => At.o = Expected(K))

(* if, while, for, break and continue are always laid out: the errors of
   collect_insts and check_jumps (code.rs 1392-1463) are about blocks and jumps
   the user wrote, and lowering never trips over its own.  What it hands over
   is flat, which is all that flattening asks (AcceptsFlat), and its end is
   closed. *)
RECURSIVE IsStructured(_)
IsStructured(ss) == \A i \in 1 .. Len(ss) : LET s == ss[i] IN
  CASE s.k \in {"block", "goto", "br"} -> FALSE
    [] s.k = "if"    -> IsStructured(s.t) /\ IsStructured(s.e)
    [] s.k \in Loops -> IsStructured(s.b)
    [] OTHER         -> TRUE
AcceptsStructured == IsStructured(prog) =>
  \/ verdict = "source"
  \/ OutsideLoop(prog) /\ verdict = "outside loop"
  \/ verdict \in {Open, NoError} /\ Flat(lowered) /\ EndsClosed(lowered)

(* The gotos that lowering adds always arrive at a row that does something
   (lower.rs 1761-1792): no chain of them runs in a circle. *)
AtSilent == Running /\ At.o = Silent
GotosArrive == AtSilent ~> ~ AtSilent
=============================================================================
