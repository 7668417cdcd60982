------------------------------- MODULE MCSched -------------------------------
(***************************************************************************)
(* Sched instantiated for TLC: two CPUs, two user threads of one process   *)
(* and a kernel thread, with the interrupt table scaled to 8 vectors.    *)
(***************************************************************************)
EXTENDS Sched, TLC

CONSTANTS w1, w2, w3, p1

MCWorkers == {w1, w2, w3}
MCProcOf == (w1 :> p1) @@ (w2 :> p1) @@ (w3 :> NoProc)

\* An 8-vector table of 4 classes of 2: class 0 holds the CPU exceptions
\* (vectors 0..31 of the real table), the scheduler asks for class 1,
\* and drivers may already hold any of vectors 2..5, which fills class 1
\* and makes the request spill into class 2 or 3.
MCExceptions == {0, 1}
MCBootTaken == SUBSET {2, 3, 4, 5}
====
