------------------------------ MODULE NestedInv ------------------------------
(***************************************************************************)
(* The inductive invariant behind the properties of Nested, which          *)
(* NestedProofs proves for every program that keeps vthread.run and        *)
(* vthread.status in entry functions.                                      *)
(***************************************************************************)
EXTENDS Nested

(* A function that runs vthreads, or pauses its own, is an entry function: no *)
(* call names it.  The run Nested_frames shows what a called one loses.       *)
EntryOnly ==
  \A f, g \in Funcs : \A i \in 1 .. Len(Code[f]), j \in 1 .. Len(Code[g]) :
    Code[f][i].op \in {"run", "status"} /\ Code[g][j].op = "call" => Code[g][j].fn # f

(* A vid is handed out once, and a handle leads to a younger vthread. *)
SpawnInv ==
  /\ \A v \in Vids : /\ status[v] = "none" => pc[v] = Nowhere
                     /\ pc[v] = Nowhere => status[v] \in {"none", "error"}
                     /\ v > seq => status[v] = "none" /\ kid[v] = NoVid
                     /\ kid[v] # NoVid => kid[v] > v /\ pc[kid[v]] # Nowhere
  /\ at \in {"boot", "init", "emit"} => seq >= 1
  /\ at \in {"boot", "init"} => status[seq] = "none"
  /\ at = "init" => frame[seq][1].lib \in Funcs
  /\ at = "emit" => Me < seq /\ pc[seq] # Nowhere

Linked(v, k) ==
  /\ frame[v][k].lib \in Funcs
  /\ k > 1 => /\ frame[v][k].ret > 1
              /\ CallsAt(v, At(k - 1, frame[v][k].ret - 1), frame[v][k].lib)

ChainInv == \A v \in Vids : Unfinished(v) =>
  /\ \A k \in 1 .. pc[v].d : Linked(v, k)
  /\ HasRow(frame[v][pc[v].d].lib, pc[v].i)

ParkInv == \A k \in Depths : park[k].vid # NoVid =>
  /\ k \in 2 .. MaxDepth /\ park[k].f \in Funcs
  /\ frame[park[k].vid][k] = [lib |-> park[k].f, ret |-> park[k].ret]

(* Where the thread is, and which loops it is in. *)
PhaseInv ==
  /\ at = "idle" => driven = NoVid /\ loops = <<>> /\ \A k \in Depths : park[k].vid = NoVid
  /\ at \in {"host", "advance"} => driven # NoVid /\ loops = <<>>
  /\ at \notin {"idle", "host", "advance"} =>
       Len(loops) >= 1 /\ loops[1].vid = driven
  /\ at \notin {"host", "advance"} => host = NoHost
  /\ driven # NoVid => pc[driven] # Nowhere

(* A vthread at its vthread.run, in its entry function. *)
Blocked(v) == AtRun(v) /\ status[v] \in Live /\ pc[v].d = 1 /\ kid[v] # NoVid

LoopInv == \A n \in 1 .. Len(loops) :
  LET l == loops[n]
  IN /\ pc[l.vid] # Nowhere /\ l.vid >= n
     /\ \A m \in 1 .. n - 1 : loops[m].vid < l.vid
     /\ l.last = 0 => \A k \in Depths : l.ctx[k] = None
     /\ Unfinished(l.vid) => \A k \in Depths :
          k <= l.last /\ k <= pc[l.vid].d /\ l.ctx[k] # None => l.ctx[k] = frame[l.vid][k].lib
     /\ n < Len(loops) => /\ Blocked(l.vid) /\ kid[l.vid] = loops[n + 1].vid
                          /\ l.last = 1 /\ l.ctx[1] # None

FetchInv == at = "loop" /\ Unfinished(Me) => Top.last = 0 \/ Here.d <= Top.last + 1

ExecInv == at \in {"exec", "boot", "init", "emit", "fail", "next", "ran"} =>
  /\ Unfinished(Me) /\ status[Me] \in Live
  /\ Here.d = Top.last /\ Top.ctx[Here.d] = frame[Me][Here.d].lib
  /\ at \in {"boot", "init", "emit", "fail", "next"} => Row.op = "create"
  /\ at = "ran" => Row.op = "run" /\ kid[Me] # NoVid

HostInv == at \in {"host", "advance"} =>
  /\ host.vid # NoVid /\ Unfinished(host.vid) /\ status[host.vid] \in Live
  /\ host.p = pc[host.vid] /\ host.p.d <= MaxDepth
  /\ HostRowAt(host.vid, host.p)

(* A parked frame is on a chain only while its vthread is the one being run: *)
(* every loop around it, and every loop to be entered on the way back to it, *)
(* stands at a vthread.run.                                                  *)
Hot(w) == Unfinished(w) /\ \E k \in Depths : park[k].vid = w /\ k <= pc[w].d

LeadsTo(w, C) ==
  /\ w \in C /\ driven \in C /\ host.vid \in {NoVid, w}
  /\ \A n \in 1 .. Len(loops) : loops[n].vid \in C
  /\ \A u \in C \ {w} : Blocked(u) /\ kid[u] \in C

HotInv == \A w \in Vids : Hot(w) =>
  /\ status[w] \in Live /\ at # "ran"
  /\ \E C \in SUBSET Vids : LeadsTo(w, C)

IInv == /\ TypeOK /\ SpawnInv /\ ChainInv /\ ParkInv
        /\ PhaseInv /\ LoopInv /\ FetchInv /\ ExecInv /\ HostInv /\ HotInv
==============================================================================
