------------------------------ MODULE MCDelegate ------------------------------
(***************************************************************************)
(* Two backends for one instruction, one of them also for an instruction   *)
(* that has a local function; outputs of an earlier instruction are those  *)
(* of a later one too.                                                     *)
(***************************************************************************)
EXTENDS Delegate

Row(op, S) == [op |-> op, outs |-> S]

MCBackends == {"b1", "b2"}
MCOps      == {"send", "mul"}
MCKnows    == [b \in MCBackends |-> IF b = "b1" THEN MCOps ELSE {"send"}]
MCCode     == << Row("send", {"x", "y"}), Row("mul", {"x"}), Row("send", {"y"}), Row("end", {}) >>
==============================================================================
