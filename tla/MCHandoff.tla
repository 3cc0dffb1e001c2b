------------------------------ MODULE MCHandoff ------------------------------
(***************************************************************************)
(* Two runtimes and a program with handed-over instructions of both, in a  *)
(* row and behind host instructions, in a loop, and with one that nobody   *)
(* implements.                                                             *)
(***************************************************************************)
EXTENDS HandoffInv

Op(op)    == [op |-> op, to |-> {}, rt |-> None]
ExtOf(r)  == [Op("ext") EXCEPT !.rt = r]
JumpTo(S) == [Op("jump") EXCEPT !.to = S]

MCRuntimes == {"json", "numpy", "gpu"}
MCStrict   == {"json"}
MCQueued   == {"json", "numpy"}   \* nobody registered gpu

MCExecutors == {"j1", "n1"}
MCServes    == [e \in MCExecutors |-> IF e = "j1" THEN "json" ELSE "numpy"]

Mixed == << ExtOf("json"), Op("core"), JumpTo({1, 4}), ExtOf("numpy"), ExtOf("json"), ExtOf("numpy"),
            Op("host"), Op("host"), ExtOf("json"), Op("host"), JumpTo({2, 12, 13}),
            ExtOf("gpu"), Op("end") >>
==============================================================================
