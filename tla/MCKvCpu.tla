------------------------------ MODULE MCKvCpu ------------------------------
(***************************************************************************)
(* A small program for TLC: three functions that call each other directly  *)
(* and by name, at depths up to and beyond the limit, reuse parked frames  *)
(* from different call sites, yield host instructions in a row and pause.  *)
(***************************************************************************)
EXTENDS KvCpuInv

Nop(op)      == [op |-> op, to |-> {}, fn |-> None, st |-> "running", w |-> {}]
NativeTo(x)  == [Nop("native") EXCEPT !.w = {x}]
HostTo(x)    == [Nop("host") EXCEPT !.w = {x}]
JumpTo(S)    == [Nop("jump") EXCEPT !.to = S]
CallOf(f)    == [Nop("call") EXCEPT !.fn = f]
DynCallOf(f) == [Nop("dyncall") EXCEPT !.fn = f]
StatusTo(s)  == [Nop("status") EXCEPT !.st = s]
Ret          == Nop("return")

MCFuncs == {"main", "f", "g"}
MCMain  == "main"

MCCode ==
  [x \in MCFuncs |->
     CASE x = "main" -> << CallOf("f"), CallOf("f"), HostTo("x"), HostTo("x"),
                           CallOf("g"), StatusTo("wait"), CallOf("f"), Ret >>
       [] x = "f"    -> << NativeTo("x"), JumpTo({3, 4}), DynCallOf("g"),
                           HostTo("x"), Ret >>
       [] x = "g"    -> << JumpTo({2, 4}), CallOf("f"), StatusTo("paused"), Ret >>]

MCLocals == {"x"}

WideG == MCFuncs \ {"g"}   \* g has too many parameters to be parked
==============================================================================
