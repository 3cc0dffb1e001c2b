# kvlang: TLA+ models of the runtime

kvlang runs programs whose whole execution state lives in a key-value tree
(*kvspace*): the program counter, the status, the call frames and the values of
a *vthread* are keys under `/vthread/<vid>/`, the code is a tree of instruction
rows under `/lib/`. Any process may pick a vthread up, run some of it and die;
another one is supposed to go on from the tree alone. The hard part of the
program is what this directory is about: keeping that promise while frames are
cached in process memory, instructions are executed by other processes, and
other clients write the same keys.

## 1. Inventory

| component | state | operations | hard behaviour |
|---|---|---|---|
| interpreter loop `runtime/src/kvcpu.c` | `..pc`, `..status` in the tree; frame contexts, `last_depth` in memory | status gate, frame switch, row fetch, execute, yield, epilogue | status written by others, death anywhere, cached frame contexts, the recursion limit |
| call, return, jumps, parked frames `kvcpu_call.c` | frames in the tree (`..lib`, `..returnpc`, `..arg`, locals); `parked_frames[]` in memory | call, `vthread.call`, return, goto, br, cleanup | several writes per call, skipped writes on reuse, eviction, order of pc and cleanup |
| vthread state `vthread.c` | `..pc`, `..status`, `..msg` | NextPc, SetDone, SetError | two writes per step, the second conditional |
| vthread instructions `rwir_vthread.c` | | setstatus, debugger, call, create, run, sleep | pausing oneself; nested runs sharing thread-local frames |
| spawn, bootstrap `runtime.c` | `/vthread/..seq`, frame 1 | allocate a vid, spawn, execute | read-modify-write of the sequence, half-made vthreads |
| drive loop `byteseek/src/engine.rs` | guard counters | run, batch of host instructions, handoff | status looked at once per batch, at-least-once execution, no-progress guard |
| handoff `kvcpu_route.c`, executors `extruntime_tutorial/` | `/lib/<op>/vids/<vid>` | offer, watch; claim, run, advance, release | timeout against a late answer, a queue shared by runtimes, executor crash |
| delegation `dispatch.c` | command queue, task status, heartbeats, negative cache | pick a backend, enqueue, wait, check outputs | stale duty, timeout against a late write, unconditional status writes |
| function and frame caches `func_code.c` | rows, operand bindings | load, bind, re-enter | staleness |
| layout compiler `layout/` | `/lib/` rows | parse, check, lower structured statements to rows, resolve labels | blocks moved out of lists, every path returns, targets are rows |
| crash/resume analysis `layout/src/crash_resume.rs` | the record beside a function | which rows work in place, trace back to a replay point | several reads, several writers, a walk that has to end |
| values, native operators, fast kernel | none of their own | pure operations, shared-memory views | equivalence of two implementations |
| runtimec, runtimec2 | registers, JIT code | a rewrite behind the same ABI | the C runtime above is what they are compared with |

The interpreter is entered by the drive loop through
`kvlangRuntimeExecuteVthread`; it runs until the vthread stops or meets an
instruction of another runtime, returns that pc, and the drive loop executes the
instruction itself, hands it to an executor, or writes the pc back and re-enters.
Everything is exchanged through keys of the tree; within one process the parked
frames survive from one entry to the next.

What makes them correct: the pc and the frames in the tree always form a
complete call chain; a return goes back to its own call, with that call's
arguments; code is fetched from the function the frame names; a paused vthread
stays put and can be resumed; nothing stays behind a finished vthread; a
handed-over instruction is executed, and only once unless somebody dies; a
driver neither waits for ever nor skips an instruction.

PROJECT.json lists every component with what is left out, and the hazards, each
at its line.

## 2. Modules

| module | what it is |
|---|---|
| `CallStack` | the promise: a call stack of `[fn, i]` entries with move, push, pop, finish and abort |
| `KvCpu` | interpreter, frames, parked frames, drive loop, process death and debugger |
| `KvCpuInv` | the inductive invariants of `KvCpu` |
| `KvCpuProofs` | the theorems about its chain, arguments, pauses and clean end |
| `KvCpuRefines` | `KvCpu` implements `CallStack`; what holds of `KvCpu` with outside pauses too |
| `MCKvCpu` | a three-function program for TLC |
| `Handoff` | one vthread between the drive loop, its no-progress guard and the executors of other runtimes |
| `MCHandoff` | a program for TLC with every kind of instruction |
| `HandoffInv` | its inductive invariants: before a driver died, and after one death |
| `HandoffProofs` | its theorems |
| `Delegate` | one vthread whose instructions are executed by backends: lookup, negative cache, tasks, queues, timeouts |
| `DelegateProofs` | its theorems |
| `MCDelegate` | two backends, a program whose instructions share output slots |
| `Nested` | vthreads that create and run vthreads on one thread with one table of parked frames; instantiates `CallStack` for each |
| `NestedInv` | the inductive invariant of `Nested` |
| `NestedProofs` | its theorems |
| `NestedRefines` | each vthread of `Nested` implements `CallStack` |
| `MCNested` | two programs: vthreads run from an entry function, and from a called one |
| `Structured` | what the structured statements of a function mean (the reference definition) |
| `Linear` | how layout flattens a lowered body to rows: the walk, the labels, what it refuses |
| `LinearProofs` | its theorems |
| `Lowering` | how layout lowers the statements, and the flattened rows run beside them; extends `Structured` and `Linear` |
| `MCLowering` | the functions TLC lowers |
| `CrashResume` | the crash/resume analysis of a function, and the function run, killed and restarted by its record |
| `CrashResumeInv` | its invariants: how a record was found, and how a run relates to one without a crash |
| `CrashResumeProofs` | its theorems |
| `MCCrashResume` | the functions TLC analyses |

`KvCpu` and `Nested` say what the interpreter does with frames, `Handoff` and
`Delegate` take a pc as a row of one function and say what happens at a row the
interpreter does not execute itself. `Lowering` and `Linear` are where the code
they all run comes from: `CodeAssumption` of `KvCpu` is what `IsCode` says there
of a function whose end is closed.

### KvCpu

*State.* `pc`, `status`, `msg` are the keys `..pc`, `..status`, `..msg` of the
vthread, `frame[k]` the subtree `/vthread/<vid>/[k]`: its `..lib`, its
`..returnpc`, the call site its `..arg` pointers lead to and the locals that hold
a value. They outlive the process. `cur`, `known` (`status_known`), `last`
(`last_depth`), `ctx` (`fctx`), `park` (`parked_frames`), `next` and `nstat` (the
arguments of `kvlangVthreadNextPc`) are memory, lost when the process ends.
`at` is the place in the loop. A pc is a frame depth and a row.

*Actions.* Every write to the tree that another process could see or a crash
could separate is a step of its own. A call is `CallReuse` or `CallBuild`
(delete and remake the frame), `WriteReturnPc`, `WriteLib`, `BindArgs` or
`CallFails`, then `WritePc` and `WriteStatus`. A return is `Return`, `WritePc`,
`WriteStatus`, `DropFrame`; from the entry function it is `Done`, `DropFrame`.
`Yield` leaves the loop at a host instruction, `HostGate`, `Dispatch` and
`Advance` are the drive loop's batch. `Exit` is the cleanup at the end of the
loop and the end of the process; `Crash` ends it anywhere. `Pause` and `Resume`
are another client.

*Abstractions.* Values, operand names and types are not modelled: an instruction
fails or succeeds (`OpFails`, `CallFails`), argument pointers are represented by
the call site whose operands they name, and locals by the set that holds a
value. `DeleteTree`, `MakeIndex` and the extension index of a frame are one
step, and so are the three writes of `SetError` (one `kvlangKvspaceSet`). A
process that ends is not entered again; a restart is a new process. Storage
errors are not modelled.

*Assumption on the code* (`CodeAssumption`): every function has a row, only a
return or a jump ends it, jump targets are rows of the function, callees exist.
The first three are what layout guarantees of a function whose end is closed
(`RowsAreCode`, section 4); functions with an open end, which layout also lets
through (section 3), are outside the model of the interpreter.

### Handoff

*State.* `pc` and `status` as above; `entry` is the one key
`/lib/<op>/vids/<vid>`: the queues of all instructions are one (`Ptr`), so a
vthread has one entry whatever the instruction. `at`, `cur` and `guard` are the
drive loop's place, its `c` and its `guard_*` variables; `eat[e]`, `epc[e]` an
executor's place in `serveOp` and the pc it read. `ran` and `stray` are history: what
has been executed at the current pc, and whether anything else was.

*Actions.* `Enter` reads the pc, `Core`, `Jump`, `End`, `CoreFails` are the
interpreter in single steps, `Yield` its return; `Guard` and `GiveUp` the
no-progress guard; `Dispatch`, `DispatchFails`, `Advance` the batch; `Offer`,
`Answered`, `TimedOut` the handoff; `WriteBack` the pc handed back to the
interpreter. An executor is `Claim`, `Run` or `RunFails`, `WriteNext`, `Release`.

*Abstractions.* Frames are left to `KvCpu`: a program is one function's rows.
The interpreter writes pc and status in one step and nobody pauses. An executor
does not die, and a runtime has one process: claiming is a plain read, so two
processes would execute an instruction twice. `ran` counts to 2.

### Delegate

*State.* `val[x]` says who wrote an output slot last; `duty[b]` is what status
and heartbeat under `/sys/rwir-backend/<b>` say: on duty, off, dead with a
heartbeat that still counts, or stale. `cmd[b]` is a backend's command queue,
`asked[t]` the pc a task was made for, `done` the tasks whose status is "done".
In the interpreter's memory are `neg`, the 250 ms negative cache, `seq`, the
task counter, and the progress of whatever loop it is in (`left`, `found`).
`job[b]` is the task a backend executes. `steady` is history: the backends that
were on duty for the instruction all the time since it was fetched.

*Actions.* `Route`, `Look` (one backend of a scan at a time), `IsDelegated`,
then `LocalAfterAll`, `TwoDefinitions` or `OneDefinition`, `Select`, `Make` (the
task is "pending"), `Clear` per output slot, `Push`, `Wait`, `Answered`,
`TimedOut`, `AnsweredLate` or `GiveUp`, `Check` per output, `Unwritten` or
`Advance`. The backends `Arrive`, `Leave`, `Die`, `GetStale`, `Take`, write an
`Output`, `Finish` with or without having written, and `Abandon` a task.
No program of the repository is a backend; what one does is taken from the
executor of `runtime/tests/delegate_test.c`.

*Abstractions.* Load is not modelled: `Select` takes any backend on duty. Local
functions and handed-over instructions are one step (`RunOther`). A task id is
the interpreter's incarnation and a number, which stands for pid, boot time and
counter. Loops are unrolled, so a pc has one task per incarnation. `RoutedByDuty`
allows what the code accepts: an instruction routed by a negative entry that outlives
the registration of a backend, and a task for a dead backend whose heartbeat is
fresh. It is about decisions taken from a scan while duties change.

### Nested

*State.* The tree of `KvCpu` once per vthread, and `seq`, the last vid given.
`loops` are the nested interpreter loops of the thread, the innermost last, each
with its own `last_depth` and frame contexts; `park` is the one table they
share, an entry naming the vthread it belongs to. `kid[v]` is the handle that
`vthread.create` left in `v`.

*Actions.* `Call` and `Return` are one step here. `Create`, `Bootstrap` or
`BootFails`, `SetInit` and `Emit` are `vthread.create`; `Run` starts a nested
loop, `Leave` and `Fails` end one, `Continue` goes on behind it in the loop
around. `Yield` leaves all the loops at once, `Dispatch`, `DispatchFails` and
`Advance` are the drive loop's batch, which moves the pc of the vthread that owns
it and enters the outermost loop again.

*Abstractions.* All the cleanup of the levels a yield passes is one step. The
drive loop ends a process where it ends; the vthreads it leaves can be started
one by one (`Start(v)`). A spawn that fails leaves its vid with the status "error"
(`BootFails`) and the parent goes on; the stack index it also leaves behind
(`runtime.c:89`) is not in the model, and no property looks at either.

### Structured, Lowering and Linear

A statement is an instruction, a return, a jump, `if`, `while`, `for`, `break`,
`continue` or a named block; an instruction is known by its place and its
purpose. `Structured` gives their meaning by continuations: what is left to run.
`Lowering` translates `lower_body` and the three functions it calls, `terminate`
and `inject_goto` as recursive operators, has the result flattened by `Linear` and
runs the rows, taking each branch both ways, with the statements run beside them.
Expressions, their temporaries, the simple-slot shortcut of conditions and the
second instruction of a `for` over a container are left out: none of them moves
control.

`Linear` is `collect_insts`, `check_jumps` and `resolve_label`, for any body of the
statements `Stmts`. The recursion of `collect_insts` is a walk: `todo` is what its
frames have left, the innermost first, with a mark where each block ends; `seq` and
`labels` are its two results. An action takes a row, enters a block, leaves one,
hands the rows out or refuses the function. A recursive operator could not be
proved about; this module can, and `Lowering` runs exactly its actions (`Walk`).
`Closes` says of a statement that control never falls out of its end. It is a
constant with an assumption (`BodiesAssumption`), because it is recursive too;
`MCLowering` defines it by the depth of the statement.

### CrashResume

*State.* `index`, `current`, `scan` and `visited` are where `analyze` and
`trace_back` stand, `replay` is `replay_from`. The run has `at` and `part`, the
row the pc names and how far it is, and `store`. A value is a term that says
which row made it from what, and whether only half.

*Names and slots.* An operand is a text, `Operands`, and a slot is where its value
is, `Key`. The run goes by slots, the analysis by names, and those as
`crash_resume_slots` (`code.rs:391-401`) takes them: a read without the `*` in
front (`Trim`, `ReadName`), none where nothing is left, and a write as it stands. So
`*p` read is the name `p`, `*p` written the name `*p`, and the slot of both is the
one `p` points to.

*Actions.* `analyze_row`, `Arrive`, `Search` (one candidate for one read),
`Follow`, `Finish`; then `Half`, `Write`, `NextPc` and `Restart`. The runtime does
write the value before the pc; a row of an operator that may share its slots
(`Permitting`) may also be left half way, whether the analysis calls it in place or
not. The restart is what
`spec/05-runtime语义/13-crash语义与inplace恢复.kv` describes, because no driver
reads the record yet.

*Abstractions.* The operands of a row are given; taking the leaves out of an
expression is not modelled. Rows run in the order they are laid out: jumps are in
neither the analysis nor the run. `Key` is fixed: a row that moves a pointer writes
the slot of the pointer, and what it points to stays. A member is a slot of its own,
though writing a container also writes its members.

## 3. Runs

The program of `MCKvCpu` has three functions that call each other directly and
dynamically, twice from different sites (a reused frame with the same and with
changed arguments), a recursion that reaches the depth limit 3 and one beyond,
two host instructions in a row, host instructions inside a callee, a self-pause
and a `wait`. Depth 3 gives a frame below, at and above every frame the
properties compare; deeper frames repeat the middle one. One or two crashes are
enough to stop any multi-step operation and then also the recovery.

| run | setting | shows |
|---|---|---|
| `KvCpu_core` | all functions parked, pauses by the program, 2 crashes | type, chain, arguments, code, parked entries, clean end, kept frames, paused stays put, refinement of `CallStack`, termination |
| `KvCpu_paused` | all functions parked, outside pauses, 1 crash | only the cleanup of a loop a pause cut short may cost a frame, every other step is the call stack's, and no instruction is executed on a damaged chain |
| `KvCpu_pause_resume` | all parked, outside pauses | violated: `PausedIsResumable` |
| `KvCpu_wide_callee` | one function too wide to be parked | violated: `RunsFramesLib` |
| `Handoff_drive` | two served runtimes and one nobody registered, 1 crash | nothing skipped, nothing executed twice without a death, the answer moves the pc, the guard gives up only what nobody serves or what is alone in its loop, no endless wait, every instruction is passed |
| `Delegate_run` | two backends, one instruction of theirs with a local function, 1 crash | task ids never collide, a late backend writes into no instruction but its own, routing follows duty, an instruction is passed with its own results, every instruction ends |
| `Nested_run` | `Entry`, up to 5 vthreads, depth 2, 1 crash | frames of a running chain are kept, parked entries agree with the tree, a `vthread.run` waits for its child, each vthread is spawned once, each is a call stack of its own, the first one ends |
| `Nested_frames` | `Called` | violated: `ChainKept` |
| `Lowering_run` | `MCPrograms` | rows and statements agree, the rows of a function with a closed end are code, structured functions lower to bodies that are flat and closed and are accepted, no block is fallen into, jumps arrive |
| `Lowering_blocks` | `Behind` | violated: `Agree` |
| `CrashResume_run` | all functions of up to 4 rows of `MCRows`, 1 crash | the walk goes up, one replay point per in-place row, found along nearest writers, and in a tame function a replay repairs the crash |
| `CrashResume_green` | `Unsafe`: `i + 1 -> i`, or `*p` read and written, before a global worked on in place | violated: `NoFalseGreen` |

*Bounds.* `MCDelegate`: two backends are enough for one to be chosen while the
other one still has an old task; `x` and `y` are outputs of several instructions,
so a late answer has something to destroy. `MCNested`: depth 2 is where the
frames of several vthreads meet in one entry of the table, and three levels of
`vthread.run` give a loop in the middle. The 5 vthreads are what the program
creates, one crash included: after a crash a `vthread.create` may be executed
again, which leaves an orphan, as the code does. `MCLowering`: lists of two
statements below two levels of nesting have every statement before, behind and
inside every other one; user blocks are put where they are legal.
`MCCrashResume`: four rows are an in-place row, the one before it in its chain,
the anchor, and one that disturbs. Two of the rows go through a pointer, one reading,
one working in place.

Deadlock is not checked because a vthread that ended is not driven any more (in
`Lowering` and `CrashResume`, a function that returned).
Each property of a passing run has a mutant: a `Bug_` operator next to the
definition it replaces, a bug one could plausibly write there.

*Fairness.* `KvCpu` (`Halts` only): `WF(Start)`, an operator runs a vthread that
may run (`kvlang run <vid>`); `WF(Drive)`, the process is scheduled, and it never
waits for anything in this model; `WF(Resume)`, whoever debugs resumes. Nothing
is assumed of `Crash` and `Pause`; crashes are bounded by `MaxCrashes`, and
`Halts` is checked without outside pauses. The program calls itself without
bound, so the recursion limit is what ends it.

`Handoff` (`WatchEnds`, `Moves`): `WF(Start)` and `WF(Drive)` as above, and
`WF(Serve(e))`, an executor's endless loop (`Serve` in json.go, `serve` in
numpy.py). `TimedOut` has no fairness: the clock is never needed for progress as
long as the runtime is served. The program has the instructions of two runtimes
next to each other and behind host instructions, some in a loop with a host
instruction, one in a loop of its own, and one of a runtime that has no queue; the
last two end in the guard. One crash is what the code survives.

`Delegate` (`Ends`): `WF(Start)`, `WF(Drive)` and `WF(TimedOut)`, the thirty
seconds of `timeout_for` pass. Nothing is asked of the backends.
`Nested` (`Ends`): `WF(Start(1))`, the driver starts the first vthread again
whenever it is left live, and `WF(Drive)`. Nothing is asked about a nested
vthread that is left paused: the run that started it goes on without it.
`Lowering` (`GotosArrive`): a goto that is reached is executed.

### Findings

1. **A pause can make a vthread unresumable** (`KvCpu_pause_resume`). The cleanup
   at the end of the loop deletes every parked frame below `last_depth`, whether
   it is on the running chain or not. When a pause is seen right after a call
   wrote the callee's pc, `last_depth` is the caller's. The damage does not spread:
   what is driven on afterwards ends in an error (`RunsOnIntactChain`), and no
   other step costs a frame (`OnlyCutShortDamages`).
2. **A wide callee runs the wrong code** (`KvCpu_wide_callee`). A callee with
   more than 16 parameters does not evict the parked entry of its depth, and
   the frame switch believes that entry.
3. **A child's call deletes its parent's frame** (`Nested_frames`). The parked
   frames of a thread are one entry per depth for all its vthreads. A nested
   `vthread.run` evicts whatever stands at the depth it calls to, `active` or not,
   and with it the frame in another vthread's tree. From the entry function
   (`Nested_run`) nothing can happen, because frame 1 is never parked; from a
   called function the caller's own frame is gone when the child has run.
4. **A statement behind a named block changes its place** (`Lowering_blocks`).
   Blocks are taken out of the list they stand in whenever the list is a branch,
   a loop body or what follows one of them; the rest of the list is not.
5. **A counter counts twice after a crash** (`CrashResume_green`). A row that
   reads the slot it writes is "not in place" unless its operator is in a list of
   nine, and is replayed on its own result. `lower_for` itself makes such a row for
   every loop (`idx + 1 -> idx`).
6. **A row in place through a pointer is not seen** (`CrashResume_green`). The `*`
   is trimmed from reads and not from writes, so that `*p` never meets `*p`.
7. **What should be refused is recorded as resumable** (`CrashResume_green`). The
   specification wants NOT_RESUMABLE for an in-place row that reads a global the
   function writes; the unit tests hand the written globals to `analyze` and get it,
   `code.rs:371` hands over none. The specification adds that its corpus has no
   such function yet.

`NoFalseGreen` is the rule the header of `crash_resume.rs` states: a function that is
not refused leaves what it leaves without a crash. Every function of `Unsafe` has a
row of finding 7 and, before it, one of finding 5 or 6. In the trace the verdict is
CONDITIONALLY where it had to be NOT, the record has a pair for the global only, and
the crash between value and pc of the row before it counts twice. Were the refusal
made, the run would pass. Each of the three rows violates `NoFalseGreen` as a function
of its own as well: `i + 1 -> i` and `*p` with the verdict ALWAYS and the same double
count, the global with CONDITIONALLY and a row left half way and run again on what
it left.

Observed with the same modules, without a run of their own:

* A pause written while an instruction runs is overwritten by that instruction's
  own status write (`vthread.c:308` compares with the status it read before);
  `dispatch.c:637` and the drive loop's `..pc` writes do not look at it either.
* A parked frame is entered again with the values its locals had when it last
  returned; a frame that is built starts empty.
* With two deaths of the driver `NoneSkipped` fails in `Handoff`: an entry of an
  instruction that is over is still in the queue, is executed again, and the
  executor's unconditional `..pc` write turns the vthread back.
* A loop that yields at one handed-over instruction only is given up by the
  no-progress guard on its fourth turn, as "not implemented by any runtime",
  though every turn was served: `guard_ran` is set by in-process instructions
  only. `GivenUpIsUnserved` says so (`Alone`), the first loop of `MCHandoff` is
  such a one, and the theorem `GivenUpOnlyUnserved` says that nothing else is
  given up.
* `engine.rs:493-498` ends the drive loop when a host instruction of a nested
  vthread fails, although `rwir_vthread.c:44-46` wants the parent to go on; a
  child that fails in the interpreter does not stop it.
* Of the reasons `crash_resume.rs` has for NOT_RESUMABLE, a cycle cannot occur at all
  (`WalksAlwaysUp`); the other one is finding 7. With several reads the analysis follows the last writer of the last read that has one,
  not the nearest one of all; outside the functions `Tame` describes a replay may
  start behind an operand that has been overwritten. The rows are analysed in
  the order they are laid out; jumps are not looked at.
* A function whose body ends in an open named block, `{ L: { a } }`, gets no
  `return`: `terminate` (`lower.rs:1089-1099`) leaves a list alone that ends in a
  block, and blocks of the user are not terminated. Its last row has none behind
  it, and a jump to an empty last block names a row that is not there. The run ends
  in "no instruction at" instead of returning, though the comment at
  `kvcpu.c:521-526` has layout append a return to every path and
  `spec/04-layout语义/05-控制流.kv:31` keeps the implicit `return` of every function.
  With such a function in `MCPrograms`, `Agree` is violated. `IsCode` is stated for
  functions whose end is closed for this reason; the structured functions without
  named blocks of `MCPrograms` all have one (`AcceptsStructured`).
* A named block at top level whose body contains an `if` is refused ("synthetic
  block does not end"), and so is a named block entered by falling out of the one
  before it when it is the target of a jump.

## 4. Proofs

Every theorem is about the specification with arbitrary constants; TLC has
checked each inductive invariant below on the runs' instances before it was
proved. What a theorem assumes stands in its statement and is named here.

### KvCpu

For every set of functions, every code that satisfies `CodeAssumption`, every
depth limit and number of crashes. Two assumptions occur:

* `Safe`: no function is parked, or all are and nobody pauses from outside.
  Findings 1 and 2 are exactly what happens without it.
* `Uniform`: no function is parked, or all are, with pauses at any moment.
  Finding 2 lies outside; finding 1 does not, and the theorems say how far its
  damage goes.

`KvCpuProofs`, under `Safe`: `Invariant` (`Spec => []IInv`) and from it
`ChainAlwaysIntact`, `ArgsAlwaysMatchCall`, `ChainErrorsNeverReported`,
`PausedAlwaysResumable`, `PausedAlwaysStaysPut` (without outside pauses),
`LiveFramesAlwaysKept` and `DoneAlwaysClean`. `ChainIntact` alone is not
inductive. A step that moves the pc relies on the frame it moves into having
been prepared, a call that reuses a frame on the process remembering it
correctly, a fetch on the frame contexts being those of the chain. `IInv` adds
one conjunct for each place of the loop (`FetchInv`, `ExecInv`, `CallInv`,
`GotoInv`, `MarkInv`, `DropInv`, `HostInv`, `ExitInv`, `IdleInv`) that says what
has been written by then, plus `ParkInv` and `CtxInv` for the two caches. The
proof has one lemma per action, and the frames below the pc are handled by
`KeepStack` (a step that keeps frames and pc keeps the chain) and `ChainFacts`.
`DoneAlwaysClean` has an invariant of its own on top, `CleanInv`: while no process
has died, each frame that is there is accounted for (on the chain, parked, being
built for a call, or about to be dropped), and a finished vthread has none.

`KvCpuRefines`, under `Safe`: `RefinesCallStack` (`Spec => ImplementsCallStack`).
The stack is read off the frames and the return pcs. Only the write of `..pc`, the
final status and an error move it; `GoalInv` remembers which instruction has
chosen the pc that is about to be written, so that the write can be matched with
`CallStack`'s move, push or pop. All other steps are stutters.

The second part of `KvCpuRefines`, under `Uniform`: `IntactOrCut` (`Spec => []UInv`),
`TypeCorrect`, `FramesLibIsRun` (`RunsFramesLib`), `ParksAlwaysCoherent`,
`RunsAlwaysOnIntactChain` and `OnlyCutShortAlwaysDamages`. A pause may cost the
frame at the pc, so the invariant is a disjunction: `IInv`, or `CutInv`, the state
behind such a cleanup, in which the process has forgotten everything and no
instruction is executed any more. That the cleanup can cut only at the pc, and
nothing in the middle of the chain, is `WarmInv`: the frames a process has pushed
are the upper part of the chain, and all of them are warm.

### Nested

`NestedProofs`: `Invariant`, `TypeCorrect`, `ChainAlwaysKept`,
`ParksAlwaysCoherent`, `AlwaysSpawnedOnce` and `RunAlwaysBlocks`; `NestedRefines`:
`EachAlwaysACallStack`, for every program, number of vthreads, depth and number of
crashes. All assume `EntryOnly`: a function that runs vthreads, or pauses its own
by `vthread.setstatus`, is an entry function that nothing calls. This is finding 3 seen from
the other side: a running chain keeps its frames because those in the shared
table belong to the vthread on top. A `vthread.run` in a called function leaves
a parked frame in the table while another vthread runs; so does a child that
is paused inside a called function, whose frame falls to its parent's next call
at that depth (the same line, `kvcpu_call.c:641`).

The invariant follows the stack of loops: each loop but the innermost stands at
its `vthread.run` in frame 1 with the next one as its child (`Blocked`), and the
vids of the loops increase, so no vthread is in two. `ChainInv` is the call chain
of each vthread, `ParkInv` what the table says of the tree, and `HotInv` that a
frame that is parked and on a chain belongs to the vthread whose turn it is: every
other one in between is blocked in frame 1 (`LeadsTo`), which is never parked. The
refinement maps creating and running vthreads to native instructions.

### CrashResume

`CrashResumeProofs` proves, for every set of functions, operators and slots and
every number of crashes: `Invariance` (`Spec => []IInv`), `TypeCorrect`,
`WalksAlwaysUp` (`WalksUp`), `EveryRowResumable` (`Resumable`), `AlwaysAnchored`
(`Anchored`) and `ReplayAlwaysSound` (`ReplaySound`). `WalksUp` is not inductive:
that the walk only goes up needs that a search finds nothing at or behind the row
it starts at (`InWalk`). `IInv` also states that the verdict is never NOT: a fact of
the empty set of written globals (finding 7), not a property of the analysis.
`Resumable` needs that the record has pairs for passed rows only
(`RecordedSoFar`), so that a new pair is the only one of its row. A restart then
finds exactly one row to start from, which is what keeps `at` a row in
`TypeCorrect`.

`Anchored` says where a record comes from, so its invariant follows the search:
`ScanInv` what is known of the reads and candidates looked at so far (`Traced`),
`WayInv` that a walk under way has come along rows that lead to one another
(`Leads`), `PairInv` that a finished pair is the outcome of such a walk.
`ReplaySound` compares a run that is killed with one that is not. An induction
over the rows of a function is out of the prover's reach, so it is done along the
run: `StoreInv` takes every function `G` that is the store behind each row of an
undisturbed run, and says of each slot that it is right, or that a row still to come
writes it again. `RemakesInv` says that a replay starts where the slot that is worked
on in place is made.

`ReplaySound` and its theorem speak of functions that are `Tame`. The condition that
bears on findings 5 and 6 is `NamesTell` and the two branches of `TameOn`: a read has
the name of a write just if the two are one slot, and a row that is not in place does
not read what it writes. A pointer that is only read through, while neither it nor
its target is written, is in; `*p` read and written is out, as is a slot written
both as `p`'s target and under a name of its own. The theorem says that the replay
points are right where the analysis can see what it has to; what it cannot see is
`NoFalseGreen`. The half that a crash leaves may be in any row of a `Permitting`
operator, in place or not.

### Handoff

`HandoffProofs`, for every program and every set of runtimes with at most one
executor each. With any number of crashes: `Invariance`, `TypeCorrect`,
`ExecutedOnce` (`AtMostOnce`) and `AnswerHasMovedPc` (`AnswerMovesPc`). That an
instruction is executed once says nothing about who may execute it next; the
invariant says whose turn it is. `DriversTurn`: the driver works on the
instruction at `..pc`, and an entry exists only while it watches or after it gave
the vthread up with an error. `ExecutorsTurn`: an executor that is busy holds that
entry, and `..pc` is at it until the executor moves it. `Counted` ties the history
to the two. The three are claimed while no driver has died: the next driver may
run an instruction whose executor is still at it. `Placed` (a pc that is worked on
is a row that has one behind it) holds always and carries the types.

With at most one death (`MaxCrashes <= 1`): `OneDeathInvariance`,
`NothingSkipped` (`NoneSkipped`) and `GivenUpOnlyUnserved`
(`GivenUpIsUnserved`). Two deaths break `NoneSkipped` (above), so the bound
belongs to the statement. After a death the old executor and the new driver work
on the same instruction; `Shared` says how far apart they can be. The driver is at
`..pc` or at a row an executor has just passed (`DriverAt`), an executor that has
not passed its row is where the driver is (`WorkAt`), of two busy ones one
answers and the other only has an old entry to take away (`Pair`), and an
entry that is left has an executor or is the next instruction (`LeftBehind`).
That nothing is skipped then needs only that what is about to be passed has been
executed (`BeforePassing`). For the guard, `Served` follows the driver from a
served row through what the interpreter does on its own behind it (`Beyond`, the
rows in every set that is closed under its instructions: no induction over the
program is needed) and shows that it comes back at most once, when an old entry
goes that was taken for the answer. The guard's limit of three is never reached.

### Delegate

`DelegateProofs` proves, for every function, set of backends and number of
restarts: `Invariance`, `TypeCorrect`, `IdsNeverCollide` (`NoCollision`),
`NothingRunsBehindALiveVthread` (`NothingRunsBehind`), `DutyDecidesRoute`
(`RoutedByDuty`) and `ResultsAreOwn` (`OwnResult`). `Numbers` keeps the task number
of a process below `..pc`, one task per instruction, so a new id is new;
`OnePlace` and `Held` say that a task is in one queue, with one backend or done,
so that a done one runs nowhere; `Results` follows the writers of each output from
the clear to the check; `Steady` says that a backend on duty all the time is among
the found or the ones still to be looked at.

### Linear

`LinearProofs` proves, for every set of statements that satisfies
`BodiesAssumption` and every body of them, however deep: `Invariance`
(`LinearSpec => []IInv`), `RowsAreCode` (`IsCode`), `BlocksAreEnteredByJumps`
(`NeverFallenInto`) and `FlatIsAccepted` (`AcceptsFlat`). The assumption says that a
body is a finite list of rows and of blocks with such bodies, and what `Closes` may
claim: a statement is closed if it is a jump or a return, or a block whose last
statement is closed. No induction over the depth of a body is needed. It is done
along the walk.

`IsCode` is not inductive, since nothing in the rows written so far says how the
function will end. `Ending` does: as long as the end of the body has not been
reached, the last statement of what is left closes it (`Ahead`), through all the
marks around it; from then on the last row is a jump or a return (`Shut`).
`Entered` says that each label stands for a row or for the next one to be written, and
that the row in front of it does not fall into it; a label whose block is empty
counts on the next row, which is where `Shut` is needed. `Written` carries both to
the resolved rows, with the check of the jumps. `FlatIsAccepted` has an invariant
of its own, `FlatInv`: the walk is between two statements of the body (`Between`) or
in a block of rows only (`Inside`), the labels are those of the blocks behind it,
and so none of the four refusals applies.

What `lower_body` makes of a function without named blocks is flat and closed:
TLC checks that for `MCPrograms` (`AcceptsStructured`). Where it holds, the theorems
say that `if`, `while` and `for` are not refused by the flattening and leave rows the
interpreter can stand on.

### Only model-checked

`Agree` and `AcceptsStructured` of `Lowering`: its operators are
recursive over nested statements, which neither the SMT backend nor the induction
theorems can be used for. Liveness (`Halts`, `Moves`, `WatchEnds`, `Ends`,
`GotosArrive`), which is out of the prover's reach. Of what the assumptions leave
out, `KvCpu_wide_callee` and `Nested_frames` show that the properties need not
hold there; of `GivenUpIsUnserved` after two deaths nothing is claimed.

## 5. Not modelled

Storage itself (kvspace is a submodule that is not in the repository), encodings
and shared-memory views of values, the native operators and the fast kernel,
operand binding and its caches, scanner, parser, type inference and the emission
of rows in layout, runtimec and runtimec2, the network operators of byteseek, the
retired Go implementation, the Lean formalisation.

Of the modelled parts: the allocation of one vid by two processes
(`runtime.c:57-75` reads and writes `..seq` without anything in between them that
would separate them), storage writes that fail between two steps of a delegation
or a spawn, `vthread.sleep`, two drivers of one vthread, two executor processes of
one runtime.

The C and Rust code above is where control, shared keys and crashes meet. Most
of the repository's lines are elsewhere: operator tables, generated handlers, the
two rewrites of the runtime and their code generators, encoders. Their
correctness is that of pure functions on encoded values.

## 6. Plan

Done: `KvCpu`, `Handoff`, `Delegate`, `Nested`, `Lowering`, `CrashResume` and the
proofs above. What is left:

1. Two processes over one tree: vid allocation, two drivers of one vthread.
2. The in-loop handoff of watch mode, and the type checks at a route.
3. `runtimec2`: the specialisation gate of the JIT (when a compiled trace may run
   in place of the rows) against the rows.
4. Proofs: every safety property of the passing runs is a theorem but the two of
   `Lowering` that speak of its recursive operators. `lower_body` could be given the
   form `Linear` has, a walk with explicit frames, to prove that what it makes is
   `Flat`.
