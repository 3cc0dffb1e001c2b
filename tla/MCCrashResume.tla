----------------------------- MODULE MCCrashResume ----------------------------
EXTENDS CrashResumeInv

Inst(op, reads, writes) == [op |-> op, reads |-> reads, writes |-> writes]

(* p is a pointer to the slot t. *)
MCTrim == [x \in Operands |-> IF x = "*p" THEN "p" ELSE x]
MCKey  == [x \in Operands |-> IF x = "*p" THEN "t" ELSE x]

(* Making a slot, computing one from another, working in place on one, through *)
(* a pointer too.                                                              *)
MCRows == {Inst("new", <<>>, {"a"}), Inst("add", <<"b">>, {"a"}), Inst("add", <<"a", "a">>, {"b"}),
           Inst("copy", <<"a">>, {"b"}), Inst("copy", <<"a">>, {"a"}), Inst("set", <<"a", "b">>, {"a"}),
           Inst("set", <<"b", "a">>, {"a"}), Inst("set", <<"/g">>, {"/g"}), Inst("add", <<"a">>, {"/g"}),
           Inst("copy", <<"*p">>, {"a"}), Inst("set", <<"*p", "a">>, {"*p"})}
MCFunctions == UNION {[1 .. n -> MCRows] : n \in 1 .. 4}

(* i + 1 -> i, a member of *p written, each before a global worked on in place. *)
Unsafe == {<<row, Inst("set", <<"/g", "1">>, {"/g"})>> :
             row \in {Inst("add", <<"i", "1">>, {"i"}), Inst("set", <<"*p", "1">>, {"*p"})}}
===============================================================================
