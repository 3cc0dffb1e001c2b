---------------------------- MODULE LinearProofs ----------------------------
(***************************************************************************)
(* What flattening guarantees of the rows of every function whose lowered  *)
(* body it accepts.                                                        *)
(***************************************************************************)
EXTENDS Linear, TLAPS

Marks  == [k : {"end"}, start : Nat \ {0}, syn : BOOLEAN]
RowSet == {s \in Stmts : s.k \in RowKinds}

(* What is left is statements and ends; a label stands for a row or for the *)
(* one that comes next.                                                     *)
Typed == /\ lowered \in Seq(Stmts)
         /\ todo \in Seq(Stmts \cup Marks)
         /\ seq \in Seq(RowSet)
         /\ \A l \in DOMAIN labels : labels[l] \in 1 .. Len(seq) + 1

(* The row in front of a block is a jump or a return. *)
Entered == \A l \in DOMAIN labels :
             labels[l] > 1 => is_terminator(seq[labels[l] - 1])

(* Either a statement that closes the function is still to come, with *)
(* nothing but ends behind it, or its rows are closed and no label is  *)
(* left that stands for the row behind them.                           *)
AllEnds(i) == \A j \in 1 .. Len(todo) : j > i => todo[j].k = "end"
Ahead(i)   == /\ i \in 1 .. Len(todo)
              /\ todo[i] \in Stmts /\ Closes(todo[i])
              /\ AllEnds(i)
Shut == /\ AllEnds(0)
        /\ ~ EndsOpen(seq)
        /\ \A l \in DOMAIN labels : labels[l] <= Len(seq)
Ending == EndsClosed(lowered) => Shut \/ \E i \in 1 .. Len(todo) : Ahead(i)

(* What Emit leaves behind. *)
Written == verdict = NoError => /\ todo = <<>> /\ check_jumps = NoError
                                /\ rows = Emitted

IInv == Typed /\ Entered /\ Ending /\ Written

(***************************************************************************)
(* The statements                                                          *)
(***************************************************************************)
(* A statement is a row or a block of statements. *)
LEMMA StmtKinds ==
  ASSUME NEW s \in Stmts
  PROVE  /\ s.k \in RowKinds \/ (s.k = "block" /\ s.syn \in BOOLEAN /\ s.b \in Seq(Stmts))
         /\ Closes(s) => \/ is_terminator(s)
                         \/ IsBlock(s) /\ s.b # <<>> /\ Closes(s.b[Len(s.b)])
  BY BodiesAssumption

(* Rows are no blocks, blocks are no rows, ends are neither. *)
LEMMA Kinds ==
  ASSUME NEW x \in Stmts \cup Marks
  PROVE  /\ x.k \in RowKinds => x \in RowSet
         /\ x.k = "block" => x \in Stmts
         /\ x.k = "end" => x \in Marks
         /\ x.k \in RowKinds \cup {"block", "end"}
         /\ x \in Marks => x.k = "end"
  BY StmtKinds DEF Marks, RowSet, RowKinds

(***************************************************************************)
(* Steps                                                                   *)
(***************************************************************************)
LEMMA InitIInv == LinearInit => IInv
<1> SUFFICES ASSUME LinearInit PROVE IInv OBVIOUS
<1> USE DEF LinearInit
<1>1. Typed
  BY DEF Typed
<1>2. Entered
  BY DEF Entered
<1>3. Ending
  <2> SUFFICES ASSUME EndsClosed(lowered) PROVE \E i \in 1 .. Len(todo) : Ahead(i)
    BY DEF Ending
  <2>1. Len(lowered) \in 1 .. Len(lowered) /\ lowered[Len(lowered)] \in Stmts
    BY DEF EndsClosed
  <2>2. Ahead(Len(lowered))
    BY <2>1 DEF Ahead, AllEnds, EndsClosed
  <2> QED BY <2>1, <2>2
<1>4. Written
  BY DEF Written, Open, NoError
<1> QED BY <1>1, <1>2, <1>3, <1>4 DEF IInv

(* A row is taken. *)
LEMMA TakeStep == ASSUME IInv, Take PROVE IInv'
<1> USE DEF IInv
<1>1. /\ todo # <<>> /\ todo \in Seq(Stmts \cup Marks) /\ seq \in Seq(RowSet)
      /\ Head(todo) = todo[1] /\ todo[1] \in Stmts \cup Marks
      /\ todo[1].k \in RowKinds
      /\ verdict = Open
  BY DEF Take, Walking, Typed
<1> DEFINE r == todo[1]
<1>2. r \in RowSet
  BY <1>1, Kinds
<1>3. /\ seq' = Append(seq, r) /\ todo' = Tail(todo)
      /\ lowered' = lowered /\ labels' = labels /\ verdict' = verdict
  BY <1>1 DEF Take
<1>4. /\ Len(seq') = Len(seq) + 1 /\ seq' \in Seq(RowSet)
      /\ \A i \in 1 .. Len(seq) : seq'[i] = seq[i]
      /\ seq'[Len(seq) + 1] = r
  BY <1>1, <1>2, <1>3
<1>5. /\ todo' \in Seq(Stmts \cup Marks) /\ Len(todo') = Len(todo) - 1
      /\ \A i \in 1 .. Len(todo) - 1 : todo'[i] = todo[i + 1]
      /\ Len(todo) \in Nat /\ Len(todo) >= 1
  BY <1>1, <1>3
<1>6. Typed'
  BY <1>3, <1>4, <1>5 DEF Typed
<1>7. Entered'
  BY <1>1, <1>3, <1>4 DEF Entered, Typed
<1>8. Ending'
  <2> SUFFICES ASSUME EndsClosed(lowered)'
               PROVE  Shut' \/ \E i \in 1 .. Len(todo') : Ahead(i)'
    BY DEF Ending
  <2>1. EndsClosed(lowered)
    BY <1>3 DEF EndsClosed
  <2>2. ~ Shut
    BY <1>1 DEF Shut, AllEnds, RowKinds
  <2>3. PICK i \in 1 .. Len(todo) : Ahead(i)
    BY <2>1, <2>2 DEF Ending
  <2>4. CASE i = 1
    <3>1. is_terminator(r)
      BY <2>3, <2>4, <1>1, StmtKinds DEF Ahead, IsBlock, RowKinds
    <3>2. AllEnds(0)'
      BY <2>3, <2>4, <1>5 DEF Ahead, AllEnds
    <3>3. (~ EndsOpen(seq))'
      BY <3>1, <1>1, <1>4 DEF EndsOpen, is_terminator
    <3>4. (\A l \in DOMAIN labels : labels[l] <= Len(seq))'
      BY <1>1, <1>3, <1>4 DEF Typed
    <3> QED BY <3>2, <3>3, <3>4 DEF Shut
  <2>5. CASE i # 1
    <3>1. Ahead(i - 1)'
      BY <2>3, <2>5, <1>5 DEF Ahead, AllEnds
    <3> QED BY <3>1, <1>5, <2>3, <2>5 DEF Ahead
  <2> QED BY <2>4, <2>5
<1>9. Written'
  BY <1>1, <1>3 DEF Written, Open, NoError
<1> QED BY <1>6, <1>7, <1>8, <1>9

(* A block is entered. *)
LEMMA EnterStep == ASSUME IInv, EnterBlock PROVE IInv'
<1> USE DEF IInv
<1>1. /\ todo # <<>> /\ todo \in Seq(Stmts \cup Marks) /\ seq \in Seq(RowSet)
      /\ Head(todo) = todo[1] /\ todo[1] \in Stmts \cup Marks
      /\ todo[1].k = "block"
      /\ verdict = Open /\ Error = NoError
  BY DEF EnterBlock, Walking, Typed
<1> DEFINE s == todo[1]
           e == End(s, Len(seq) + 1)
<1>2. s \in Stmts /\ s.syn \in BOOLEAN /\ s.b \in Seq(Stmts)
  BY <1>1, Kinds, StmtKinds DEF RowKinds
<1>3. e \in Marks /\ e.k = "end"
  BY <1>1, <1>2 DEF End, Marks
<1>4. /\ labels' = [l \in DOMAIN labels \cup {s.l} |->
                      IF l = s.l THEN Len(seq) + 1 ELSE labels[l]]
      /\ todo' = s.b \o << e >> \o Tail(todo)
      /\ lowered' = lowered /\ seq' = seq /\ verdict' = verdict
  BY <1>1 DEF EnterBlock
<1>5. PICK n \in Nat : n = Len(s.b)
  BY <1>2
<1>6. /\ Len(todo) \in Nat /\ Len(todo) >= 1
      /\ todo' \in Seq(Stmts \cup Marks)
      /\ Len(todo') = n + Len(todo)
      /\ \A i \in 1 .. n : todo'[i] = s.b[i]
      /\ todo'[n + 1] = e
      /\ \A i \in 2 .. Len(todo) : todo'[n + i] = todo[i]
  <2> HIDE DEF e
  <2>1. s.b \in Seq(Stmts \cup Marks) /\ << e >> \in Seq(Stmts \cup Marks)
        /\ Tail(todo) \in Seq(Stmts \cup Marks)
    BY <1>1, <1>2, <1>3
  <2> QED BY <1>1, <1>2, <1>4, <1>5, <2>1
<1>7. EnterError(s) = NoError
  BY <1>1 DEF Error
<1>8. s.l \notin DOMAIN labels /\ (seq = <<>> \/ ~ EndsOpen(seq))
  BY <1>7 DEF EnterError, NoError
<1>9. Typed'
  BY <1>1, <1>4, <1>6 DEF Typed
<1>10. Entered'
  BY <1>1, <1>4, <1>8 DEF Entered, EndsOpen
<1>11. Ending'
  <2> SUFFICES ASSUME EndsClosed(lowered)'
               PROVE  \E i \in 1 .. Len(todo') : Ahead(i)'
    BY DEF Ending
  <2>1. EndsClosed(lowered)
    BY <1>4 DEF EndsClosed
  <2>2. ~ Shut
    BY <1>1, <1>6 DEF Shut, AllEnds
  <2>3. PICK i \in 1 .. Len(todo) : Ahead(i)
    BY <2>1, <2>2 DEF Ending
  <2>4. CASE i = 1
    <3>1. s.b # <<>> /\ Closes(s.b[n])
      BY <2>3, <2>4, <1>1, <1>5, StmtKinds DEF Ahead, is_terminator
    <3>2. n \in 1 .. Len(todo') /\ todo'[n] = s.b[n] /\ s.b[n] \in Stmts
      <4>1. n \in 1 .. n /\ s.b[n] \in Stmts
        BY <3>1, <1>2, <1>5
      <4> QED BY <4>1, <1>6
    <3>3. AllEnds(1)
      BY <2>3, <2>4 DEF Ahead
    <3>4. AllEnds(n)'
      <4> SUFFICES ASSUME NEW j \in 1 .. Len(todo'), j > n PROVE todo'[j].k = "end"
        BY DEF AllEnds
      <4>1. CASE j = n + 1
        BY <4>1, <1>3, <1>6
      <4>2. CASE j # n + 1
        <5>1. j - n \in 2 .. Len(todo) /\ j = n + (j - n)
          BY <4>2, <1>6
        <5>2. todo'[j] = todo[j - n]
          BY <5>1, <1>6
        <5> QED BY <5>1, <5>2, <3>3 DEF AllEnds
      <4> QED BY <4>1, <4>2
    <3> QED BY <3>1, <3>2, <3>4 DEF Ahead
  <2>5. CASE i # 1
    <3>1. n + i \in 1 .. Len(todo') /\ todo'[n + i] = todo[i]
      BY <2>3, <2>5, <1>6
    <3>2. AllEnds(n + i)'
      <4> SUFFICES ASSUME NEW j \in 1 .. Len(todo'), j > n + i PROVE todo'[j].k = "end"
        BY DEF AllEnds
      <4>1. j - n \in 2 .. Len(todo) /\ j = n + (j - n) /\ j - n > i
        BY <1>6, <2>3, <2>5
      <4>2. todo'[j] = todo[j - n]
        BY <4>1, <1>6
      <4> QED BY <4>1, <4>2, <2>3 DEF AllEnds, Ahead
    <3> QED BY <3>1, <3>2, <2>3 DEF Ahead
  <2> QED BY <2>4, <2>5
<1>12. Written'
  BY <1>1, <1>4 DEF Written, Open, NoError
<1> QED BY <1>9, <1>10, <1>11, <1>12

(* A block is left. *)
LEMMA LeaveStep == ASSUME IInv, LeaveBlock PROVE IInv'
<1> USE DEF IInv
<1>1. /\ todo # <<>> /\ todo \in Seq(Stmts \cup Marks)
      /\ Head(todo) = todo[1] /\ todo[1] \in Stmts \cup Marks
      /\ todo[1].k = "end"
      /\ verdict = Open
  BY DEF LeaveBlock, Walking, Typed
<1>2. /\ todo' = Tail(todo)
      /\ lowered' = lowered /\ seq' = seq /\ labels' = labels /\ verdict' = verdict
  BY DEF LeaveBlock
<1>3. /\ todo' \in Seq(Stmts \cup Marks) /\ Len(todo') = Len(todo) - 1
      /\ \A i \in 1 .. Len(todo) - 1 : todo'[i] = todo[i + 1]
      /\ Len(todo) \in Nat /\ Len(todo) >= 1
  BY <1>1, <1>2
<1>4. Typed'
  BY <1>2, <1>3 DEF Typed
<1>5. Entered'
  BY <1>2 DEF Entered
<1>6. Ending'
  <2> SUFFICES ASSUME EndsClosed(lowered)'
               PROVE  Shut' \/ \E i \in 1 .. Len(todo') : Ahead(i)'
    BY DEF Ending
  <2>1. EndsClosed(lowered)
    BY <1>2 DEF EndsClosed
  <2>2. CASE Shut
    <3>1. AllEnds(0)'
      BY <2>2, <1>3 DEF Shut, AllEnds
    <3> QED BY <3>1, <2>2, <1>2 DEF Shut, EndsOpen
  <2>3. CASE ~ Shut
    <3>1. PICK i \in 1 .. Len(todo) : Ahead(i)
      BY <2>1, <2>3 DEF Ending
    <3>2. i # 1
      BY <3>1, <1>1, StmtKinds DEF Ahead, RowKinds
    <3>3. Ahead(i - 1)'
      BY <3>1, <3>2, <1>3 DEF Ahead, AllEnds
    <3> QED BY <3>1, <3>2, <3>3, <1>3
  <2> QED BY <2>2, <2>3
<1>7. Written'
  BY <1>1, <1>2 DEF Written, Open, NoError
<1> QED BY <1>4, <1>5, <1>6, <1>7

(* The rows are written, or the function is refused. *)
LEMMA EndStep == ASSUME IInv, Emit \/ Refuse \/ UNCHANGED lvars PROVE IInv'
<1> USE DEF IInv
<1>1. /\ lowered' = lowered /\ todo' = todo /\ seq' = seq /\ labels' = labels
  BY DEF Emit, Refuse, lvars
<1>2. Typed'
  BY <1>1 DEF Typed
<1>3. Entered'
  BY <1>1 DEF Entered
<1>4. Ending'
  BY <1>1 DEF Ending, Shut, Ahead, AllEnds, EndsOpen, EndsClosed
<1>5. check_jumps' = check_jumps /\ Emitted' = Emitted
  BY <1>1 DEF check_jumps, Emitted, resolve_label
<1>6. Written'
  <2>1. CASE Emit
    BY <2>1, <1>1, <1>5 DEF Emit, Written, Error
  <2>2. CASE Refuse
    BY <2>2 DEF Refuse, Written
  <2>3. CASE UNCHANGED lvars
    BY <2>3, <1>1, <1>5 DEF lvars, Written
  <2> QED BY <2>1, <2>2, <2>3
<1> QED BY <1>2, <1>3, <1>4, <1>6

THEOREM Invariance == LinearSpec => []IInv
<1>1. IInv /\ [LinearNext]_lvars => IInv'
  BY TakeStep, EnterStep, LeaveStep, EndStep DEF LinearNext
<1> QED BY <1>1, InitIInv, PTL DEF LinearSpec

(***************************************************************************)
(* What follows                                                            *)
(***************************************************************************)
(* The rows of every accepted function whose end is closed can be run: none *)
(* but a jump or a return is the last one and every jump arrives at a row   *)
(* (IsCode), whatever the labels, however the blocks are nested.            *)
THEOREM RowsAreCode == LinearSpec => []IsCode
<1>1. IInv => IsCode
  <2> SUFFICES ASSUME IInv, verdict = NoError, EndsClosed(lowered)
               PROVE  rows # <<>> /\ \A i \in 1 .. Len(rows) : Stands(i)
    BY DEF IsCode
  <2>1. todo = <<>> /\ check_jumps = NoError /\ rows = Emitted
    BY DEF IInv, Written
  <2>2. ~ EndsOpen(seq) /\ \A l \in DOMAIN labels : labels[l] \in 1 .. Len(seq)
    BY <2>1 DEF IInv, Ending, Ahead, Shut, Typed
  <2>3. seq \in Seq(RowSet) /\ Len(seq) \in Nat /\ seq # <<>>
    BY <2>2 DEF IInv, Typed, EndsOpen
  <2>4. \A i \in 1 .. Len(seq) : Targets(seq[i]) \subseteq DOMAIN labels
    BY <2>1 DEF check_jumps, NoError
  <2>5. Len(rows) = Len(seq) /\ rows # <<>>
    BY <2>1, <2>3 DEF Emitted
  <2>6. ASSUME NEW i \in 1 .. Len(rows) PROVE Stands(i)
    <3>1. rows[i] = [k |-> seq[i].k, o |-> seq[i].o, l |-> resolve_label(seq[i].l),
                     m |-> resolve_label(seq[i].m)]
      BY <2>1, <2>5, <2>6 DEF Emitted
    <3>2. rows[i].k = "inst" => i < Len(rows)
      BY <3>1, <2>2, <2>3, <2>5, <2>6 DEF EndsOpen, is_terminator
    <3>3. Targets(seq[i]) \subseteq DOMAIN labels
      BY <2>4, <2>5, <2>6
    <3>4. Targets(rows[i]) \subseteq 1 .. Len(rows)
      BY <3>1, <3>3, <2>2, <2>5 DEF Targets, resolve_label
    <3> QED BY <3>2, <3>4 DEF Stands
  <2> QED BY <2>5, <2>6
<1> QED BY <1>1, Invariance, PTL

(* No block is entered from the row in front of it (NeverFallenInto). *)
THEOREM BlocksAreEnteredByJumps == LinearSpec => []NeverFallenInto
<1>1. IInv => NeverFallenInto
  <2> SUFFICES ASSUME IInv, verdict = NoError, NEW l \in DOMAIN labels, labels[l] > 1
               PROVE  rows[labels[l] - 1].k # "inst"
    BY DEF NeverFallenInto
  <2>1. rows = Emitted /\ labels[l] - 1 \in 1 .. Len(seq)
    BY DEF IInv, Written, Typed
  <2>2. rows[labels[l] - 1].k = seq[labels[l] - 1].k
    BY <2>1 DEF Emitted
  <2> QED BY <2>2 DEF IInv, Entered, is_terminator
<1> QED BY <1>1, Invariance, PTL

(***************************************************************************)
(* Flat bodies                                                             *)
(***************************************************************************)
(* i statements of the body are behind the walk; of the block among them  *)
(* that it is in, if any, j rows are.                                      *)
Met(i) == DOMAIN labels = {lowered[k].l : k \in {m \in 1 .. i : IsBlock(lowered[m])}}

Between(i) ==
  /\ i \in 0 .. Len(lowered)
  /\ Met(i)
  /\ Len(todo) = Len(lowered) - i
  /\ \A k \in 1 .. Len(todo) : todo[k] = lowered[i + k]
  /\ i = 0 => seq = <<>>
  /\ i > 0 /\ (IsBlock(lowered[i]) \/ is_terminator(lowered[i])) => ~ EndsOpen(seq)

Inside(i, j) ==
  /\ i \in 1 .. Len(lowered) /\ IsBlock(lowered[i])
  /\ j \in 0 .. Len(lowered[i].b)
  /\ Met(i)
  /\ Len(todo) = Len(lowered[i].b) - j + 1 + (Len(lowered) - i)
  /\ \A k \in 1 .. Len(lowered[i].b) - j : todo[k] = lowered[i].b[j + k]
  /\ LET e == Len(lowered[i].b) - j + 1 IN
       /\ todo[e].k = "end" /\ todo[e].start + j = Len(seq) + 1
       /\ \A k \in 1 .. Len(lowered) - i : todo[e + k] = lowered[i + k]
  /\ j > 0 => seq[Len(seq)] = lowered[i].b[j]

Walked == (\E i \in 0 .. Len(lowered) : Between(i))
          \/ (\E i \in 1 .. Len(lowered) : \E j \in Nat : Inside(i, j))

FlatInv == Flat(lowered) =>
  /\ verdict \in {Open, NoError}
  /\ verdict = Open => Walked
  /\ \A r \in 1 .. Len(seq) : Targets(seq[r]) \subseteq LabelsOf(lowered)

(* A flat body, statement by statement. *)
LEMMA FlatFacts ==
  ASSUME NEW b \in Seq(Stmts), Flat(b), NEW i \in 1 .. Len(b)
  PROVE  /\ Targets(b[i]) \subseteq LabelsOf(b)
         /\ IsBlock(b[i]) =>
              /\ b[i].b \in Seq(Stmts) /\ b[i].syn \in BOOLEAN /\ ~ EndsOpen(b[i].b)
              /\ \A j \in 1 .. Len(b[i].b) : /\ ~ IsBlock(b[i].b[j])
                                             /\ b[i].b[j].k \in RowKinds
                                             /\ Targets(b[i].b[j]) \subseteq LabelsOf(b)
              /\ i > 1 => IsBlock(b[i - 1]) \/ is_terminator(b[i - 1])
              /\ \A j \in 1 .. Len(b) : IsBlock(b[j]) /\ b[j].l = b[i].l => j = i
         /\ ~ IsBlock(b[i]) => b[i].k \in RowKinds
<1>1. b[i] \in Stmts
  OBVIOUS
<1>2. /\ Targets(b[i]) \subseteq LabelsOf(b)
      /\ IsBlock(b[i]) => Side(b, i)
  BY DEF Flat
<1>3. ~ IsBlock(b[i]) => b[i].k \in RowKinds
  BY <1>1, StmtKinds DEF IsBlock
<1>4. ASSUME IsBlock(b[i])
      PROVE  /\ b[i].b \in Seq(Stmts) /\ b[i].syn \in BOOLEAN
             /\ \A j \in 1 .. Len(b[i].b) : ~ IsBlock(b[i].b[j]) => b[i].b[j].k \in RowKinds
  <2>1. b[i].b \in Seq(Stmts) /\ b[i].syn \in BOOLEAN
    BY <1>1, <1>4, StmtKinds DEF IsBlock, RowKinds
  <2>2. ASSUME NEW j \in 1 .. Len(b[i].b), ~ IsBlock(b[i].b[j]) PROVE b[i].b[j].k \in RowKinds
    <3>1. b[i].b[j] \in Stmts
      BY <2>1
    <3> QED BY <3>1, <2>2, StmtKinds DEF IsBlock
  <2> QED BY <2>1, <2>2
<1> QED BY <1>2, <1>3, <1>4 DEF Side

(* What is next of a flat body that is being walked. *)
LEMMA BetweenNext ==
  ASSUME Typed, Flat(lowered), NEW i \in 0 .. Len(lowered), Between(i), todo # <<>>
  PROVE  /\ i + 1 \in 1 .. Len(lowered) /\ Head(todo) = lowered[i + 1] /\ todo[1] = lowered[i + 1]
         /\ lowered[i + 1].k # "end"
         /\ Len(todo) >= 1
<1>1. Len(todo) >= 1 /\ Len(todo) \in Nat /\ Head(todo) = todo[1] /\ Len(lowered) \in Nat
  BY DEF Typed
<1>2. i + 1 \in 1 .. Len(lowered) /\ todo[1] = lowered[i + 1]
  BY <1>1 DEF Between
<1>3. lowered[i + 1] \in Stmts
  BY <1>2 DEF Typed
<1> QED BY <1>1, <1>2, <1>3, StmtKinds DEF RowKinds

LEMMA InsideNext ==
  ASSUME Typed, Flat(lowered), NEW i \in 1 .. Len(lowered), NEW j \in Nat, Inside(i, j)
  PROVE  /\ todo # <<>> /\ Len(todo) >= 1 /\ Head(todo) = todo[1]
         /\ lowered[i].b \in Seq(Stmts) /\ Len(lowered[i].b) \in Nat \ {0}
         /\ j < Len(lowered[i].b) => /\ todo[1] = lowered[i].b[j + 1]
                                     /\ todo[1].k \in RowKinds
         /\ j >= Len(lowered[i].b) => j = Len(lowered[i].b) /\ todo[1].k = "end"
<1>1. lowered \in Seq(Stmts) /\ todo \in Seq(Stmts \cup Marks)
  BY DEF Typed
<1>2. /\ lowered[i].b \in Seq(Stmts) /\ ~ EndsOpen(lowered[i].b)
      /\ \A k \in 1 .. Len(lowered[i].b) : lowered[i].b[k].k \in RowKinds
  BY <1>1, FlatFacts DEF Inside
<1>3. Len(lowered[i].b) \in Nat \ {0}
  BY <1>2 DEF EndsOpen
<1>4. Len(todo) >= 1 /\ todo # <<>> /\ Head(todo) = todo[1]
  BY <1>1, <1>3 DEF Inside
<1>5. ASSUME j < Len(lowered[i].b)
      PROVE  todo[1] = lowered[i].b[j + 1] /\ todo[1].k \in RowKinds
  <2>1. 1 \in 1 .. Len(lowered[i].b) - j /\ j + 1 \in 1 .. Len(lowered[i].b)
    BY <1>3, <1>5
  <2> QED BY <2>1, <1>2 DEF Inside
<1>6. ASSUME j >= Len(lowered[i].b)
      PROVE  j = Len(lowered[i].b) /\ todo[1].k = "end"
  <2>1. j = Len(lowered[i].b)
    BY <1>3, <1>6 DEF Inside
  <2>2. Len(lowered[i].b) - j + 1 = 1
    BY <2>1, <1>3
  <2> QED BY <2>1, <2>2 DEF Inside
<1> QED BY <1>2, <1>3, <1>4, <1>5, <1>6

(* Nothing is wrong with it. *)
LEMMA NoneWrong ==
  ASSUME Typed, Flat(lowered), FlatInv, verdict = Open
  PROVE  Error = NoError
<1>1. CASE \E i \in 0 .. Len(lowered) : Between(i)
  <2>1. PICK i \in 0 .. Len(lowered) : Between(i)
    BY <1>1
  <2>2. CASE todo = <<>>
    <3>1. i = Len(lowered)
      BY <2>1, <2>2 DEF Between, Typed
    <3>2. DOMAIN labels = LabelsOf(lowered)
      BY <2>1, <3>1 DEF Between, Met, LabelsOf
    <3>3. check_jumps = NoError
      BY <3>2 DEF FlatInv, check_jumps
    <3> QED BY <2>2, <3>3 DEF Error
  <2>3. CASE todo # <<>>
    <3>1. /\ i + 1 \in 1 .. Len(lowered) /\ Head(todo) = lowered[i + 1]
          /\ lowered[i + 1].k # "end"
      BY <2>1, <2>3, BetweenNext
    <3>2. CASE lowered[i + 1].k = "block"
      <4>1. lowered \in Seq(Stmts)
        BY DEF Typed
      <4>2. /\ i + 1 > 1 => IsBlock(lowered[i]) \/ is_terminator(lowered[i])
            /\ \A k \in 1 .. Len(lowered) :
                 IsBlock(lowered[k]) /\ lowered[k].l = lowered[i + 1].l => k = i + 1
        BY <3>1, <3>2, <4>1, FlatFacts DEF IsBlock
      <4>3. lowered[i + 1].l \notin DOMAIN labels
        <5> SUFFICES ASSUME lowered[i + 1].l \in DOMAIN labels PROVE FALSE
          OBVIOUS
        <5>1. PICK k \in 1 .. i : IsBlock(lowered[k]) /\ lowered[k].l = lowered[i + 1].l
          BY <2>1 DEF Between, Met
        <5>2. k \in 1 .. Len(lowered) /\ k # i + 1
          BY <3>1, <5>1
        <5> QED BY <4>2, <5>1, <5>2
      <4>4. seq = <<>> \/ ~ EndsOpen(seq)
        BY <2>1, <4>2 DEF Between
      <4> QED BY <2>3, <3>1, <3>2, <4>3, <4>4 DEF Error, EnterError
    <3> QED BY <2>3, <3>1, <3>2 DEF Error
  <2> QED BY <2>2, <2>3
<1>2. CASE \E i \in 1 .. Len(lowered) : \E j \in Nat : Inside(i, j)
  <2>1. PICK i \in 1 .. Len(lowered), j \in Nat : Inside(i, j)
    BY <1>2
  <2>2. /\ todo # <<>> /\ Head(todo) = todo[1]
        /\ lowered[i].b \in Seq(Stmts) /\ Len(lowered[i].b) \in Nat \ {0}
        /\ j < Len(lowered[i].b) => todo[1].k \in RowKinds
        /\ j >= Len(lowered[i].b) => j = Len(lowered[i].b) /\ todo[1].k = "end"
    BY <2>1, InsideNext
  <2>3. CASE j < Len(lowered[i].b)
    BY <2>2, <2>3 DEF Error, RowKinds
  <2>4. CASE j >= Len(lowered[i].b)
    <3>1. ~ EndsOpen(lowered[i].b)
      BY <2>1, FlatFacts DEF Typed, Inside
    <3>2. seq[Len(seq)] = lowered[i].b[Len(lowered[i].b)]
      BY <2>1, <2>2, <2>4 DEF Inside
    <3>3. todo[1] \in Marks /\ Len(seq) \in Nat /\ seq \in Seq(RowSet)
      BY <2>2, <2>4, Kinds DEF Typed
    <3>4. Len(lowered[i].b) - j + 1 = 1
      BY <2>2, <2>4
    <3>5. todo[1].start + j = Len(seq) + 1 /\ todo[1].start \in Nat \ {0}
      BY <2>1, <3>3, <3>4 DEF Inside, Marks
    <3>6. LeaveError(todo[1]) = NoError
      <4>1. is_terminator(seq[Len(seq)])
        BY <3>1, <3>2 DEF EndsOpen
      <4>2. Len(seq) >= todo[1].start /\ seq # <<>>
        BY <2>2, <2>4, <3>3, <3>5
      <4>3. ~ (Len(seq) < todo[1].start \/ EndsOpen(seq))
        BY <4>1, <4>2, <3>3, <3>5 DEF EndsOpen
      <4> QED BY <4>3 DEF LeaveError
    <3> QED BY <2>2, <2>4, <3>6 DEF Error
  <2> QED BY <2>2, <2>3, <2>4
<1> QED BY <1>1, <1>2 DEF FlatInv, Walked

(* A row is taken: one more statement of the body, or one more of a block. *)
LEMMA FlatTake ==
  ASSUME Typed, Flat(lowered), FlatInv, verdict = Open, Take
  PROVE  FlatInv'
<1>1. /\ todo # <<>> /\ todo[1] \in RowSet /\ todo[1].k \in RowKinds
      /\ seq' = Append(seq, todo[1]) /\ todo' = Tail(todo)
      /\ lowered' = lowered /\ labels' = labels /\ verdict' = verdict
      /\ seq \in Seq(RowSet) /\ todo \in Seq(Stmts \cup Marks) /\ lowered \in Seq(Stmts)
  <2>1. todo # <<>> /\ Head(todo) = todo[1] /\ todo[1] \in Stmts \cup Marks
        /\ seq \in Seq(RowSet) /\ todo \in Seq(Stmts \cup Marks) /\ lowered \in Seq(Stmts)
    BY DEF Take, Walking, Typed
  <2> QED BY <2>1, Kinds DEF Take
<1>2. /\ Len(todo) \in Nat \ {0} /\ Len(todo') = Len(todo) - 1
      /\ \A k \in 1 .. Len(todo) - 1 : todo'[k] = todo[k + 1]
      /\ Len(seq) \in Nat /\ Len(seq') = Len(seq) + 1
      /\ seq'[Len(seq')] = todo[1] /\ seq' # <<>>
      /\ \A r \in 1 .. Len(seq) : seq'[r] = seq[r]
      /\ Len(lowered) \in Nat
  BY <1>1
<1>3. \A i \in Nat : Met(i)' <=> Met(i)
  BY <1>1 DEF Met
<1>4. CASE \E i \in 0 .. Len(lowered) : Between(i)
  <2>1. PICK i \in 0 .. Len(lowered) : Between(i)
    BY <1>4
  <2>2. i + 1 \in 1 .. Len(lowered) /\ todo[1] = lowered[i + 1]
    BY <1>1, <2>1, BetweenNext
  <2>3. Targets(todo[1]) \subseteq LabelsOf(lowered) /\ ~ IsBlock(todo[1])
    BY <1>1, <2>2, FlatFacts DEF IsBlock, RowKinds
  <2>4. Met(i + 1)
    <3>1. {m \in 1 .. i + 1 : IsBlock(lowered[m])} = {m \in 1 .. i : IsBlock(lowered[m])}
      BY <2>2, <2>3
    <3> QED BY <2>1, <3>1 DEF Between, Met
  <2>5. \A k \in 1 .. Len(todo') : todo'[k] = lowered[i + 1 + k]
    <3> SUFFICES ASSUME NEW k \in 1 .. Len(todo') PROVE todo'[k] = lowered[i + 1 + k]
      OBVIOUS
    <3>1. k + 1 \in 1 .. Len(todo) /\ todo'[k] = todo[k + 1] /\ i + (k + 1) = i + 1 + k
      BY <1>2
    <3> QED BY <2>1, <3>1 DEF Between
  <2>6. is_terminator(lowered[i + 1]) => (~ EndsOpen(seq))'
    BY <1>2, <2>2 DEF EndsOpen
  <2>7. Between(i + 1)'
    BY <1>1, <1>2, <1>3, <2>1, <2>2, <2>3, <2>4, <2>5, <2>6 DEF Between
  <2>8. Walked'
    BY <1>1, <2>2, <2>7 DEF Walked
  <2> QED BY <1>1, <1>2, <2>3, <2>8 DEF FlatInv
<1>5. CASE \E i \in 1 .. Len(lowered) : \E j \in Nat : Inside(i, j)
  <2>1. PICK i \in 1 .. Len(lowered), j \in Nat : Inside(i, j)
    BY <1>5
  <2>2. PICK n \in Nat : n = Len(lowered[i].b)
    BY <1>1, <2>1, InsideNext
  <2>3. j < n /\ todo[1] = lowered[i].b[j + 1]
    <3>1. todo[1].k # "end"
      BY <1>1 DEF RowKinds
    <3>2. /\ Len(lowered[i].b) \in Nat \ {0}
          /\ j < Len(lowered[i].b) => todo[1] = lowered[i].b[j + 1]
          /\ j >= Len(lowered[i].b) => todo[1].k = "end"
      BY <2>1, InsideNext
    <3> QED BY <2>2, <3>1, <3>2
  <2>4. Targets(todo[1]) \subseteq LabelsOf(lowered)
    <3>1. j + 1 \in 1 .. Len(lowered[i].b)
      BY <2>2, <2>3
    <3> QED BY <1>1, <2>1, <2>3, <3>1, FlatFacts DEF Inside
  <2>5. Inside(i, j + 1)'
    <3>0. PICK e \in Nat : e = n - j + 1
      BY <2>3
    <3>1. /\ Len(todo) = n - j + 1 + (Len(lowered) - i)
          /\ \A k \in 1 .. n - j : todo[k] = lowered[i].b[j + k]
          /\ todo[e].k = "end" /\ todo[e].start + j = Len(seq) + 1
          /\ \A k \in 1 .. Len(lowered) - i : todo[e + k] = lowered[i + k]
      BY <3>0, <2>1, <2>2 DEF Inside
    <3>2. Len(todo') = n - (j + 1) + 1 + (Len(lowered) - i)
      BY <1>2, <3>1
    <3>3. \A k \in 1 .. n - (j + 1) : todo'[k] = lowered[i].b[j + 1 + k]
      <4> SUFFICES ASSUME NEW k \in 1 .. n - (j + 1) PROVE todo'[k] = lowered[i].b[j + 1 + k]
        OBVIOUS
      <4>1. k + 1 \in 1 .. n - j /\ todo'[k] = todo[k + 1] /\ j + (k + 1) = j + 1 + k
        BY <1>2, <2>3, <3>1
      <4> QED BY <3>1, <4>1
    <3>4. todo'[e - 1] = todo[e] /\ e - 1 = n - (j + 1) + 1
      <4>1. e - 1 \in 1 .. Len(todo) - 1 /\ (e - 1) + 1 = e
        BY <1>1, <1>2, <2>1, <2>3, <3>0, <3>1
      <4>2. todo'[e - 1] = todo[e]
        BY <1>2, <4>1
      <4> QED BY <3>0, <4>2
    <3>5. todo[e].start + (j + 1) = Len(seq') + 1
      <4>1. e \in 1 .. Len(todo)
        BY <2>3, <3>0, <3>1
      <4>2. todo[e] \in Marks
        BY <1>1, <3>1, <4>1, Kinds
      <4>3. PICK start \in Nat : start = todo[e].start
        BY <4>2 DEF Marks
      <4>4. PICK n0 \in Nat : n0 = Len(seq) /\ n0 + 1 = Len(seq')
        BY <1>2
      <4>5. start + j = n0 + 1
        BY <3>1, <4>3, <4>4
      <4> QED BY <4>3, <4>4, <4>5
    <3>6. \A k \in 1 .. Len(lowered) - i : todo'[e - 1 + k] = lowered[i + k]
      <4> SUFFICES ASSUME NEW k \in 1 .. Len(lowered) - i PROVE todo'[e - 1 + k] = lowered[i + k]
        OBVIOUS
      <4>1. e - 1 + k \in 1 .. Len(todo) - 1 /\ (e - 1 + k) + 1 = e + k
        BY <1>2, <2>3, <3>0, <3>1
      <4>2. todo'[e - 1 + k] = todo[e + k]
        BY <1>2, <4>1
      <4> QED BY <3>1, <4>2
    <3>7. j + 1 \in 0 .. n /\ seq'[Len(seq')] = lowered[i].b[j + 1]
      BY <1>2, <2>3
    <3>8. IsBlock(lowered[i]) /\ Met(i)'
      BY <2>1, <1>3 DEF Inside
    <3>9. PICK f \in Nat : f = n - (j + 1) + 1 /\ f = e - 1
      BY <2>3, <3>0
    <3>10. /\ todo'[f].k = "end" /\ todo'[f].start + (j + 1) = Len(seq') + 1
           /\ \A k \in 1 .. Len(lowered) - i : todo'[f + k] = lowered[i + k]
      BY <3>1, <3>4, <3>5, <3>6, <3>9
    <3> QED BY <1>1, <2>2, <3>2, <3>3, <3>7, <3>8, <3>9, <3>10 DEF Inside
  <2>6. Walked'
    BY <1>1, <2>1, <2>5 DEF Walked
  <2> QED BY <1>1, <1>2, <2>4, <2>6 DEF FlatInv
<1> QED BY <1>4, <1>5 DEF FlatInv, Walked

(* A block is entered: it is the next statement of the body. *)
LEMMA FlatEnter ==
  ASSUME Typed, Flat(lowered), FlatInv, verdict = Open, EnterBlock
  PROVE  FlatInv'
<1>1. /\ todo # <<>> /\ todo[1].k = "block" /\ Head(todo) = todo[1]
      /\ lowered' = lowered /\ seq' = seq /\ verdict' = verdict
      /\ seq \in Seq(RowSet) /\ todo \in Seq(Stmts \cup Marks) /\ lowered \in Seq(Stmts)
  BY DEF EnterBlock, Walking, Typed
<1>2. \A j \in Nat : \A i \in 1 .. Len(lowered) : ~ Inside(i, j)
  <2> SUFFICES ASSUME NEW j \in Nat, NEW i \in 1 .. Len(lowered), Inside(i, j) PROVE FALSE
    OBVIOUS
  <2>1. /\ Len(lowered[i].b) \in Nat
        /\ j < Len(lowered[i].b) => todo[1].k \in RowKinds
        /\ j >= Len(lowered[i].b) => todo[1].k = "end"
    BY InsideNext
  <2>2. todo[1].k \notin RowKinds /\ todo[1].k # "end"
    BY <1>1 DEF RowKinds
  <2> QED BY <2>1, <2>2
<1>3. PICK i \in 0 .. Len(lowered) : Between(i)
  BY <1>2 DEF FlatInv, Walked
<1>4. PICK p \in 1 .. Len(lowered) : p = i + 1 /\ todo[1] = lowered[p]
  BY <1>1, <1>3, BetweenNext
<1>5. PICK s \in Stmts : s = lowered[p] /\ s = todo[1] /\ IsBlock(s)
  BY <1>1, <1>4 DEF IsBlock
<1>6. s.b \in Seq(Stmts) /\ s.syn \in BOOLEAN
  BY <1>1, <1>5, FlatFacts
<1>7. PICK n \in Nat : n = Len(s.b)
  BY <1>6
<1>8. PICK e \in Marks : e = End(s, Len(seq) + 1)
  <2>1. Len(seq) + 1 \in Nat \ {0}
    BY <1>1
  <2> QED BY <1>6, <2>1 DEF End, Marks
<1>9. /\ labels' = [l \in DOMAIN labels \cup {s.l} |->
                      IF l = s.l THEN Len(seq) + 1 ELSE labels[l]]
      /\ todo' = s.b \o << e >> \o Tail(todo)
  BY <1>1, <1>5, <1>8 DEF EnterBlock
<1>10. /\ Len(todo) \in Nat /\ Len(todo) >= 1
       /\ Len(todo') = n + Len(todo)
       /\ \A k \in 1 .. n : todo'[k] = s.b[k]
       /\ todo'[n + 1] = e
       /\ \A k \in 2 .. Len(todo) : todo'[n + k] = todo[k]
  <2>1. s.b \in Seq(Stmts \cup Marks) /\ << e >> \in Seq(Stmts \cup Marks)
        /\ Tail(todo) \in Seq(Stmts \cup Marks)
    BY <1>1, <1>6
  <2> QED BY <1>1, <1>7, <1>9, <2>1
<1>11. Met(p)'
  <2>1. DOMAIN labels' = DOMAIN labels \cup {s.l}
    BY <1>9
  <2>2. {m \in 1 .. p : IsBlock(lowered[m])} = {m \in 1 .. i : IsBlock(lowered[m])} \cup {p}
    BY <1>3, <1>4, <1>5
  <2>3. DOMAIN labels = {lowered[k].l : k \in {m \in 1 .. i : IsBlock(lowered[m])}}
    BY <1>3 DEF Between, Met
  <2> QED BY <1>1, <1>5, <2>1, <2>2, <2>3 DEF Met
<1>12. Inside(p, 0)'
  <2>1. Len(todo) = Len(lowered) - i /\ \A k \in 1 .. Len(todo) : todo[k] = lowered[i + k]
    BY <1>3 DEF Between
  <2>2. Len(todo') = n - 0 + 1 + (Len(lowered) - p)
    BY <1>1, <1>4, <1>10, <2>1
  <2>3. \A k \in 1 .. n - 0 : todo'[k] = s.b[0 + k]
    BY <1>10
  <2>4. PICK f \in Nat : f = n + 1 /\ f = n - 0 + 1
    OBVIOUS
  <2>5. todo'[f].k = "end" /\ todo'[f].start + 0 = Len(seq') + 1
    BY <1>1, <1>8, <1>10, <2>4 DEF End
  <2>6. \A k \in 1 .. Len(lowered) - p : todo'[f + k] = lowered[p + k]
    <3> SUFFICES ASSUME NEW k \in 1 .. Len(lowered) - p PROVE todo'[f + k] = lowered[p + k]
      OBVIOUS
    <3>1. k + 1 \in 2 .. Len(todo) /\ n + (k + 1) = f + k /\ i + (k + 1) = p + k
      BY <1>4, <1>10, <2>1, <2>4
    <3>2. todo'[f + k] = todo[k + 1]
      BY <1>10, <3>1
    <3>3. todo[k + 1] = lowered[i + (k + 1)]
      BY <2>1, <3>1
    <3> QED BY <3>1, <3>2, <3>3
  <2> QED BY <1>1, <1>5, <1>7, <1>11, <2>2, <2>3, <2>4, <2>5, <2>6 DEF Inside
<1>13. Walked'
  BY <1>1, <1>12 DEF Walked
<1> QED BY <1>1, <1>13 DEF FlatInv

(* A block is left: its last row was a jump or a return. *)
LEMMA FlatLeave ==
  ASSUME Typed, Flat(lowered), FlatInv, verdict = Open, LeaveBlock
  PROVE  FlatInv'
<1>1. /\ todo # <<>> /\ todo[1].k = "end" /\ todo' = Tail(todo)
      /\ lowered' = lowered /\ seq' = seq /\ labels' = labels /\ verdict' = verdict
      /\ seq \in Seq(RowSet) /\ todo \in Seq(Stmts \cup Marks) /\ lowered \in Seq(Stmts)
  BY DEF LeaveBlock, Walking, Typed
<1>2. /\ Len(todo) \in Nat \ {0} /\ Len(todo') = Len(todo) - 1
      /\ \A k \in 1 .. Len(todo) - 1 : todo'[k] = todo[k + 1]
  BY <1>1
<1>3. \A i \in 0 .. Len(lowered) : ~ Between(i)
  BY <1>1, BetweenNext
<1>4. PICK i \in 1 .. Len(lowered), j \in Nat : Inside(i, j)
  BY <1>3 DEF FlatInv, Walked
<1>5. PICK n \in Nat : n = Len(lowered[i].b) /\ n = j /\ n # 0
  <2>1. /\ Len(lowered[i].b) \in Nat \ {0}
        /\ j < Len(lowered[i].b) => todo[1].k \in RowKinds
        /\ j >= Len(lowered[i].b) => j = Len(lowered[i].b)
    BY <1>4, InsideNext
  <2>2. todo[1].k \notin RowKinds
    BY <1>1 DEF RowKinds
  <2> QED BY <2>1, <2>2
<1>6. n - j + 1 = 1
  BY <1>5
<1>7. /\ Met(i) /\ IsBlock(lowered[i])
      /\ Len(todo) = 1 + (Len(lowered) - i)
      /\ \A k \in 1 .. Len(lowered) - i : todo[1 + k] = lowered[i + k]
      /\ seq[Len(seq)] = lowered[i].b[n]
      /\ todo[1].start + n = Len(seq) + 1
  BY <1>4, <1>5, <1>6 DEF Inside
<1>8. ~ EndsOpen(seq)
  <2>1. ~ EndsOpen(lowered[i].b)
    BY <1>1, <1>7, FlatFacts
  <2>2. is_terminator(seq[Len(seq)])
    BY <1>5, <1>7, <2>1 DEF EndsOpen
  <2>3. seq # <<>>
    <3>1. todo[1] \in Marks
      BY <1>1, Kinds
    <3> QED BY <1>5, <1>7, <3>1 DEF Marks
  <2> QED BY <2>2, <2>3 DEF EndsOpen
<1>9. Between(i)'
  <2>1. Len(todo') = Len(lowered) - i
    BY <1>1, <1>2, <1>7
  <2>2. \A k \in 1 .. Len(todo') : todo'[k] = lowered[i + k]
    <3> SUFFICES ASSUME NEW k \in 1 .. Len(todo') PROVE todo'[k] = lowered[i + k]
      OBVIOUS
    <3>1. k \in 1 .. Len(todo) - 1 /\ k \in 1 .. Len(lowered) - i /\ k + 1 = 1 + k
      BY <1>2, <2>1
    <3> QED BY <1>2, <1>7, <3>1
  <2>3. Met(i)' /\ (~ EndsOpen(seq))'
    BY <1>1, <1>7, <1>8 DEF Met, EndsOpen
  <2> QED BY <1>1, <2>1, <2>2, <2>3 DEF Between
<1>10. Walked'
  BY <1>1, <1>9 DEF Walked
<1> QED BY <1>1, <1>10 DEF FlatInv

LEMMA FlatInit == ASSUME LinearInit PROVE FlatInv
<1> USE DEF LinearInit
<1>1. Between(0)
  BY DEF Between, Met
<1> QED BY <1>1 DEF FlatInv, Walked, Open, NoError

LEMMA FlatStep == ASSUME IInv, FlatInv, [LinearNext]_lvars PROVE FlatInv'
<1> SUFFICES ASSUME Flat(lowered)' PROVE FlatInv'
  BY DEF FlatInv
<1>1. lowered' = lowered
  BY DEF LinearNext, Take, EnterBlock, LeaveBlock, Emit, Refuse, lvars
<1>2. Flat(lowered) /\ Typed
  BY <1>1 DEF IInv
<1>3. CASE Take
  BY <1>2, <1>3, FlatTake DEF Take, Walking
<1>4. CASE EnterBlock
  BY <1>2, <1>4, FlatEnter DEF EnterBlock, Walking
<1>5. CASE LeaveBlock
  BY <1>2, <1>5, FlatLeave DEF LeaveBlock, Walking
<1>6. CASE Emit
  BY <1>2, <1>6 DEF Emit, FlatInv, Open, NoError
<1>7. CASE Refuse
  BY <1>2, <1>7, NoneWrong DEF Refuse
<1>8. CASE UNCHANGED lvars
  <2>1. lowered' = lowered /\ todo' = todo /\ seq' = seq /\ labels' = labels /\ verdict' = verdict
    BY <1>8 DEF lvars
  <2>2. Walked' <=> Walked
    BY <2>1 DEF Walked, Between, Inside, Met, EndsOpen
  <2> QED BY <1>2, <2>1, <2>2 DEF FlatInv
<1> QED BY <1>3, <1>4, <1>5, <1>6, <1>7, <1>8 DEF LinearNext

(* A flat body is laid out: no label is taken twice, no block fallen into or *)
(* left open, no jump without its label (AcceptsFlat).  Together with what   *)
(* AcceptsStructured checks of lowering: if, while and for are never refused. *)
THEOREM FlatIsAccepted == LinearSpec => []AcceptsFlat
<1>1. LinearInit => IInv /\ FlatInv
  BY InitIInv, FlatInit
<1>2. IInv /\ FlatInv /\ [LinearNext]_lvars => FlatInv'
  BY FlatStep
<1>3. FlatInv => AcceptsFlat
  BY DEF FlatInv, AcceptsFlat
<1> QED BY <1>1, <1>2, <1>3, Invariance, PTL DEF LinearSpec
=============================================================================
