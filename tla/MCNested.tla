------------------------------ MODULE MCNested ------------------------------
(***************************************************************************)
(* Two programs.  In the first, vthreads are run from the entry function   *)
(* only, which is never parked: three levels deep, twice in a row, with    *)
(* calls before, inside and after, host instructions in called functions,  *)
(* and a pause.  In the second, a called function does it.                 *)
(***************************************************************************)
EXTENDS NestedInv

Op(op)      == [op |-> op, fn |-> None]
CallOf(f)   == [Op("call") EXCEPT !.fn = f]
CreateOf(f) == [Op("create") EXCEPT !.fn = f]

MCFuncs == {"main", "work", "sub", "f", "g"}
MCMain  == "main"

Entry ==
  [x \in MCFuncs |->
     CASE x = "main" -> << CallOf("f"), CreateOf("work"), Op("run"), CallOf("f"),
                           Op("run"), Op("return") >>
       [] x = "work" -> << CallOf("g"), CreateOf("sub"), Op("run"), Op("status"),
                           CallOf("f"), Op("return") >>
       [] x = "sub"  -> << CallOf("g"), CallOf("f"), Op("return") >>
       [] x = "f"    -> << Op("native"), Op("return") >>
       [] x = "g"    -> << Op("host"), Op("host"), Op("return") >>]

Called == [Entry EXCEPT !["main"] = << CallOf("work"), Op("return") >>,
                        !["work"] = << CreateOf("sub"), Op("run"), Op("return") >>]
=============================================================================
