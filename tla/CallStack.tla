------------------------------ MODULE CallStack ------------------------------
(***************************************************************************)
(* What the interpreter promises of one vthread: kvlang code running on a  *)
(* call stack.  Frames, parked frames, drivers, crashes and pauses do not  *)
(* exist here; KvCpu is shown to implement this module.                    *)
(***************************************************************************)
EXTENDS Naturals, Sequences

CONSTANTS Funcs,     \* rwfuncs laid out under /lib
          Main,      \* the entry function of the vthread
          Code,      \* [Funcs -> sequence of instruction rows]
          MaxDepth   \* MAX_STACK_DEPTH

VARIABLES stack,     \* from the entry function to the running one; <<>> once halted
          outcome    \* "live", or how the vthread ended

Here == stack[Len(stack)]
Row  == Code[Here.fn][Here.i]
Live == outcome = "live"

Init == /\ stack = << [fn |-> Main, i |-> 1] >>
        /\ outcome = "live"

GoTo(j) == stack' = [stack EXCEPT ![Len(stack)].i = j]

(* An instruction that stays in its function: the next row, or a goto/br target. *)
Move == /\ Live /\ Len(stack) <= MaxDepth
        /\ \/ Row.op \in {"native", "status", "host"} /\ GoTo(Here.i + 1)
           \/ Row.op = "jump" /\ \E j \in Row.to : GoTo(j)
        /\ UNCHANGED outcome

(* A call enters the first row of the callee; the caller resumes behind the call. *)
Push == /\ Live /\ Len(stack) <= MaxDepth
        /\ Row.op \in {"call", "dyncall"}
        /\ stack' = Append([stack EXCEPT ![Len(stack)].i = Here.i + 1],
                           [fn |-> Row.fn, i |-> 1])
        /\ UNCHANGED outcome

(* A return resumes the caller exactly where its call left it. *)
Pop == /\ Live /\ Len(stack) \in 2 .. MaxDepth
       /\ Row.op = "return"
       /\ stack' = SubSeq(stack, 1, Len(stack) - 1)
       /\ UNCHANGED outcome

Finish == /\ Live /\ Len(stack) = 1
          /\ Row.op = "return"
          /\ stack' = <<>>
          /\ outcome' = "ok"

(* Every instruction but return may fail, and the stack may be too deep. *)
Abort == /\ Live
         /\ Len(stack) > MaxDepth \/ Row.op # "return"
         /\ stack' = <<>>
         /\ outcome' = "error"

Next == Move \/ Push \/ Pop \/ Finish \/ Abort

Spec == Init /\ [][Next]_<<stack, outcome>>
==============================================================================
