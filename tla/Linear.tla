-------------------------------- MODULE Linear --------------------------------
(***************************************************************************)
(* How layout flattens the lowered body of a function into rows            *)
(* (layout/src/code.rs): collect_insts walks the body, a block's label is  *)
(* the number of the row it starts with; check_jumps looks every label up; *)
(* then the labels in the rows become numbers.  Whatever is wrong refuses  *)
(* the function.                                                           *)
(*                                                                         *)
(* collect_insts calls itself for a block.  Here its frames are one list,  *)
(* what is left to be walked: the rest of the innermost block, a mark for  *)
(* its end, the rest of the block around it, ...                           *)
(***************************************************************************)
EXTENDS Naturals, Sequences

(* A lowered statement is a record with kind k: a row ("inst", "goto" to l, *)
(* "br" to l or m, "return"; o is what it does), or a "block" with label l, *)
(* body b, and syn if lowering made it.                                     *)
CONSTANTS Stmts,      \* the statements of the bodies, and those inside them
          Closes(_)   \* of a statement: control never falls out of its end

is_terminator(s) == s.k \in {"return", "goto", "br"}
IsInst(s)  == s.k # "block"
IsBlock(s) == s.k = "block"
EndsOpen(b) == b = <<>> \/ ~ is_terminator(b[Len(b)])

RowKinds == {"inst", "goto", "br", "return"}

(* A statement closes what it is the last of if it is a jump or a return, or *)
(* a block whose own last statement closes it.                               *)
ASSUME BodiesAssumption ==
  LET S == Stmts IN
  \A s \in S : /\ \/ s.k \in RowKinds
                  \/ s.k = "block" /\ s.syn \in BOOLEAN /\ s.b \in Seq(S)
               /\ Closes(s) => \/ is_terminator(s)
                               \/ IsBlock(s) /\ s.b # <<>> /\ Closes(s.b[Len(s.b)])

EndsClosed(b) == b # <<>> /\ Closes(b[Len(b)])

VARIABLES lowered,   \* the lowered body of the function
          todo,      \* what of it is left to be walked
          seq,       \* the rows so far
          labels,    \* the row each label stands for
          verdict,   \* Open, NoError, or the error the function is refused with
          rows       \* /lib/<func>/<n>

lvars == <<lowered, todo, seq, labels, verdict, rows>>

Open    == "open"
NoError == "none"

(* The end of the block that began with row start. *)
End(s, start) == [k |-> "end", start |-> start, syn |-> s.syn]

(* The function body is handed over. *)
Flatten(b) == /\ lowered' = b /\ todo' = b
              /\ seq' = <<>> /\ labels' = <<>> /\ rows' = <<>>
              /\ verdict' = Open

(* Labels become the numbers of rows; a row without one keeps 0. *)
Targets(row) == CASE row.k = "goto" -> {row.l} [] row.k = "br" -> {row.l, row.m} [] OTHER -> {}
resolve_label(l) == IF l \in DOMAIN labels THEN labels[l] ELSE 0
Emitted == [i \in 1 .. Len(seq) |->
  LET r == seq[i] IN [k |-> r.k, o |-> r.o, l |-> resolve_label(r.l), m |-> resolve_label(r.m)]]

Bug_JumpsUnchecked == NoError
check_jumps == IF \E i \in 1 .. Len(seq) : ~ (Targets(seq[i]) \subseteq DOMAIN labels)
               THEN "unknown label" ELSE NoError

(* What is wrong with the statement, or the end, that is next. *)
EnterError(s) == CASE s.l \in DOMAIN labels       -> "duplicate label"
                   [] seq # <<>> /\ EndsOpen(seq) -> "falls into block"
                   [] OTHER                       -> NoError
LeaveError(e) == IF e.syn /\ (Len(seq) < e.start \/ EndsOpen(seq)) THEN "open block" ELSE NoError
Error == IF todo = <<>> THEN check_jumps
         ELSE LET s == Head(todo) IN
           CASE s.k = "block" -> EnterError(s)
             [] s.k = "end"   -> LeaveError(s)
             [] OTHER         -> NoError

(***************************************************************************)
(* collect_insts and check_jumps                                           *)
(***************************************************************************)
Walking == verdict = Open /\ todo # <<>> /\ Error = NoError

Take == /\ Walking /\ Head(todo).k \in RowKinds
        /\ seq' = Append(seq, Head(todo))
        /\ todo' = Tail(todo)
        /\ UNCHANGED <<lowered, labels, verdict, rows>>

EnterBlock == /\ Walking /\ Head(todo).k = "block"
              /\ LET s == Head(todo)  start == Len(seq) + 1 IN
                   /\ labels' = [l \in DOMAIN labels \cup {s.l} |->
                                   IF l = s.l THEN start ELSE labels[l]]
                   /\ todo' = s.b \o << End(s, start) >> \o Tail(todo)
              /\ UNCHANGED <<lowered, seq, verdict, rows>>

LeaveBlock == /\ Walking /\ Head(todo).k = "end"
              /\ todo' = Tail(todo)
              /\ UNCHANGED <<lowered, seq, labels, verdict, rows>>

Emit == /\ verdict = Open /\ todo = <<>> /\ Error = NoError
        /\ verdict' = NoError
        /\ rows' = Emitted
        /\ UNCHANGED <<lowered, todo, seq, labels>>

Refuse == /\ verdict = Open /\ Error # NoError
          /\ verdict' = Error
          /\ UNCHANGED <<lowered, todo, seq, labels, rows>>

LinearNext == Take \/ EnterBlock \/ LeaveBlock \/ Emit \/ Refuse

LinearInit == /\ lowered \in Seq(Stmts) /\ todo = lowered
              /\ seq = <<>> /\ labels = <<>> /\ rows = <<>>
              /\ verdict = Open
LinearSpec == LinearInit /\ [][LinearNext]_lvars

(* What lowering makes of if, while and for: blocks side by side, each of    *)
(* rows that end in a jump or a return, entered by jumps under labels of     *)
(* their own; every jump goes to one of them.                                *)
LabelsOf(b) == {b[i].l : i \in {j \in 1 .. Len(b) : IsBlock(b[j])}}
Side(b, i) == /\ ~ EndsOpen(b[i].b)
              /\ \A j \in 1 .. Len(b[i].b) : /\ ~ IsBlock(b[i].b[j])
                                             /\ Targets(b[i].b[j]) \subseteq LabelsOf(b)
              /\ i > 1 => IsBlock(b[i - 1]) \/ is_terminator(b[i - 1])
              /\ \A j \in 1 .. Len(b) : IsBlock(b[j]) /\ b[j].l = b[i].l => j = i
Flat(b) == \A i \in 1 .. Len(b) : /\ IsBlock(b[i]) => Side(b, i)
                                  /\ Targets(b[i]) \subseteq LabelsOf(b)

(***************************************************************************)
(* Properties                                                              *)
(***************************************************************************)
(* Every row, reachable or not, is one the interpreter can stand on: a row that
   does not jump has one behind it and a jump names a row (code.rs 1392-1463).
   It is what the model of the interpreter takes for granted of laid-out code
   (KvCpu's CodeAssumption).  The walk itself does not look at the end of the
   function: nothing is said of a body whose end is open. *)
Stands(i) == /\ rows[i].k = "inst" => i < Len(rows)
             /\ Targets(rows[i]) \subseteq 1 .. Len(rows)
IsCode == verdict = NoError /\ EndsClosed(lowered) =>
            /\ rows # <<>>
            /\ \A i \in 1 .. Len(rows) : Stands(i)

(* A block is entered by a jump only, never from the row in front of it, even
   when blocks are empty or the first row of several (code.rs 1409-1416). *)
NeverFallenInto == verdict = NoError =>
  \A l \in DOMAIN labels : labels[l] > 1 => rows[labels[l] - 1].k # "inst"

(* Such a body is not refused (code.rs 1392-1463). *)
AcceptsFlat == Flat(lowered) => verdict \in {Open, NoError}
=============================================================================
