-------------------------------- MODULE Sched --------------------------------
(***************************************************************************)
(* The x86_64 scheduler of src/kernel/src/arch/x86_64/sched.c, with the    *)
(* generic run queue it calls (sched_thread_next, sched_thread_drop and    *)
(* the unblocking of a thread), which live outside src/ and are modelled   *)
(* from the design (spec 4.6, 5).                                          *)
(*                                                                         *)
(* Each CPU brings itself up (x86_64_sched_init_cpu), then runs threads.   *)
(* A running thread is preempted by the LAPIC one-shot timer or enters     *)
(* x86_64_sched_next by itself after yielding, blocking or exiting.        *)
(* sched_next and sched_switch run with interrupts off, so the selection   *)
(* of the next thread and the switch to its stack are one step; the        *)
(* incoming thread's sched_thread_drop(prev) and timer re-arm (at the end  *)
(* of sched_switch and x86_64_sched_next, or in common_thread_init for a   *)
(* thread's first run) are the next step, between which other CPUs can    *)
(* take the run queue.                                                     *)
(***************************************************************************)
EXTENDS Integers, SequencesExt, Interrupt

CONSTANTS
  CPUs,        \* processors; BSP latches X86_64_INIT_FLAG_SCHED
  BSP,
  Workers,     \* threads created and scheduled at boot
  Procs,       \* processes owning the user threads
  ProcOf,      \* [Workers -> Procs \cup {NoProc}]: thread->proc
  NoProc,      \* the NULL proc of a kernel thread
  NoThread,    \* a NULL thread pointer
  CanUnblock,  \* whether running threads wake blocked ones
  PREEMPT,     \* X86_64_INTERRUPT_PRIORITY_PREEMPT
  Exceptions,  \* vectors 0..31, the CPU exceptions
  BootTaken,   \* the sets of vectors drivers may hold before sched init
  SchedEntry, Device, ExceptionUnhandled  \* interrupt handlers

ASSUME BSP \in CPUs /\ CanUnblock \in BOOLEAN

\* The idle thread and the bootstrap thread of each CPU.
Idle(c) == <<"idle", c>>
Boot(c) == <<"boot", c>>
Threads == Workers \cup {Idle(c) : c \in CPUs} \cup {Boot(c) : c \in CPUs}
IsIdle(t) == \E c \in CPUs : t = Idle(c)

\* thread_state_t
READY == "ready"
BLOCKED == "blocked"
DESTROY == "destroy"

GlobalAS == "global"

\* The interrupt table x86_64_sched_init finds: exception vectors carry
\* the unhandled-exception reporter (spec 4.4), and drivers brought up
\* before the scheduler hold the vectors in taken.
BootTable(taken) ==
  [v \in Vectors |->
     IF v \in Exceptions THEN [free |-> FALSE, handler |-> ExceptionUnhandled, priority |-> 0]
     ELSE IF v \in taken THEN [free |-> FALSE, handler |-> Device, priority |-> v \div CLASS]
     ELSE InterruptInitialize[v]]
\* The address space sched_switch loads for a thread.
AddressSpace(t) == IF t \in Workers /\ ProcOf[t] # NoProc THEN ProcOf[t] ELSE GlobalAS

VARIABLES
  state,     \* [thread -> thread_state_t]
  freed,     \* threads whose descriptor and stacks have been released
  queue,     \* the run queue, FIFO
  cur,       \* [cpu -> thread]: the GS base, arch_sched_thread_current()
  stack,     \* [cpu -> thread]: whose kernel stack the CPU executes on
  prev,      \* [cpu -> thread]: the thread handed over by the context switch
  cr3,       \* [cpu -> address space]: arch_ptm_load_address_space
  armed,     \* [cpu -> BOOLEAN]: the LAPIC one-shot timer is counting
  pc,        \* [cpu -> "init" | "run" | "next" | "drop" | "panic"]
  released,  \* X86_64_INIT_FLAG_SCHED
  procThreads, \* [proc -> set of threads]: proc->threads; {} once destroyed
  entries,     \* g_entries of interrupt.c
  schedVector, \* g_sched_vector
  devices      \* the vectors drivers took before sched init (fixed)

irqVars == <<entries, schedVector, devices>>
vars == <<state, freed, queue, cur, stack, prev, cr3, armed, pc,
          released, procThreads, entries, schedVector, devices>>

(***************************************************************************)
(* The state after boot: the workers were created (create_thread: READY,   *)
(* an init frame seeded on a fresh kernel stack) and scheduled, and the user ones attached to their *)
(* process's thread list; every CPU is still on its pre-SMP stack.         *)
(***************************************************************************)
Init ==
  /\ state = [t \in Threads |-> IF t \in {Boot(c) : c \in CPUs} THEN DESTROY ELSE READY]
  /\ freed = {}
  /\ queue = SetToSeq(Workers)
  /\ cur = [c \in CPUs |-> NoThread]
  /\ stack = [c \in CPUs |-> Boot(c)]
  /\ prev = [c \in CPUs |-> NoThread]
  /\ cr3 = [c \in CPUs |-> GlobalAS]
  /\ armed = [c \in CPUs |-> FALSE]
  /\ pc = [c \in CPUs |-> IF c = BSP THEN "boot" ELSE "init"]
  /\ released = FALSE
  /\ procThreads = [p \in Procs |-> {w \in Workers : ProcOf[w] = p}]
  /\ devices \in BootTaken
  /\ entries = BootTable(devices)
  /\ schedVector = 0

\* sched_switch(this, next) up to the return of the context switch: load
\* next's address space, write GS base, and swap stacks; next now runs
\* and holds this as prev.
SchedSwitch(c, this, next) ==
  /\ cr3' = [cr3 EXCEPT ![c] = AddressSpace(next)]
  /\ cur' = [cur EXCEPT ![c] = next]
  /\ stack' = [stack EXCEPT ![c] = next]
  /\ prev' = [prev EXCEPT ![c] = this]
  /\ pc' = [pc EXCEPT ![c] = "drop"]

(***************************************************************************)
(* x86_64_sched_init (sched.c:296-300), on the BSP before it brings itself *)
(* up: request a vector of the preemption class for sched_entry; the      *)
(* ASSERT halts the CPU when there is none.                               *)
(***************************************************************************)
SchedInit(c) ==
  /\ pc[c] = "boot"
  /\ LET v == RequestedVector(entries, PREEMPT) IN
       /\ entries' = InterruptRequest(entries, PREEMPT, SchedEntry)
       /\ IF v >= 0 THEN schedVector' = v /\ pc' = [pc EXCEPT ![c] = "init"]
          ELSE pc' = [pc EXCEPT ![c] = "panic"] /\ UNCHANGED schedVector
  /\ UNCHANGED <<state, freed, queue, cur, stack, prev, cr3, armed, released, procThreads, devices>>

(***************************************************************************)
(* x86_64_sched_init_cpu (sched.c:275-294): the idle thread (created at    *)
(* boot here) and a bootstrap thread in DESTROY own the CPU; the BSP sets  *)
(* the init flag, the others spin until it is set; then the CPU switches   *)
(* from the bootstrap thread to its idle thread.                           *)
(***************************************************************************)
InitCpu(c) ==
  /\ pc[c] = "init"
  /\ c = BSP \/ released
  /\ released' = (released \/ c = BSP)
  /\ SchedSwitch(c, Boot(c), Idle(c))
  /\ UNCHANGED <<state, freed, queue, armed, procThreads>>
  /\ UNCHANGED irqVars

\* The LAPIC one-shot fires g_sched_vector on a CPU running a thread with
\* interrupts on; interrupt_handler runs the vector's handler, and
\* sched_entry (sched.c:271-273) calls x86_64_sched_next.  Any other
\* handler returns to the interrupted thread.
Tick(c) ==
  /\ pc[c] = "run" /\ armed[c]
  /\ armed' = [armed EXCEPT ![c] = FALSE]
  /\ pc' = IF InterruptHandler(entries, schedVector) = SchedEntry
             THEN [pc EXCEPT ![c] = "next"] ELSE pc
  /\ UNCHANGED <<state, freed, queue, cur, stack, prev, cr3, released, procThreads>>
  /\ UNCHANGED irqVars

\* A worker gives up the CPU by itself (spec 5): it stays READY (yield),
\* becomes BLOCKED, or DESTROY (exit), and calls x86_64_sched_next.
Suspend(c) ==
  /\ pc[c] = "run" /\ stack[c] \in Workers
  /\ \E s \in {READY, BLOCKED, DESTROY} : state' = [state EXCEPT ![stack[c]] = s]
  /\ pc' = [pc EXCEPT ![c] = "next"]
  /\ UNCHANGED <<freed, queue, cur, stack, prev, cr3, armed, released, procThreads>>
  /\ UNCHANGED irqVars

\* sched_thread_queue: append to the tail of the run queue.
EnqueueFront(q, t) == <<t>> \o q
Enqueue(q, t) == Append(q, t)

\* The unblocker (spec 5) sets a BLOCKED thread back to READY and
\* enqueues it.
Unblock(c) ==
  /\ CanUnblock
  /\ pc[c] = "run"
  /\ \E t \in Workers \ freed :
       /\ state[t] = BLOCKED
       /\ state' = [state EXCEPT ![t] = READY]
       /\ queue' = Enqueue(queue, t)
  /\ UNCHANGED <<freed, cur, stack, prev, cr3, armed, pc, released, procThreads>>
  /\ UNCHANGED irqVars

(***************************************************************************)
(* x86_64_sched_next (sched.c:255-269): take the next READY thread         *)
(* (sched_thread_next, a FIFO dequeue); with none, stay on the idle thread *)
(* and re-arm the timer if it is current, otherwise switch to it.  A next  *)
(* thread that is the current one fails the ASSERT and halts the CPU.      *)
(***************************************************************************)
SwitchTo(c, next) ==
  IF cur[c] = next THEN pc' = [pc EXCEPT ![c] = "panic"] /\ UNCHANGED <<cur, stack, prev, cr3>>
  ELSE SchedSwitch(c, cur[c], next)

SchedNextPeek(c) ==
  /\ pc[c] = "next"
  /\ \/ /\ queue # <<>>
        /\ SwitchTo(c, Head(queue))
        /\ UNCHANGED <<armed, queue>>
     \/ /\ queue = <<>> /\ cur[c] = Idle(c)
        /\ armed' = [armed EXCEPT ![c] = TRUE]
        /\ pc' = [pc EXCEPT ![c] = "run"]
        /\ UNCHANGED <<queue, cur, stack, prev, cr3>>
     \/ /\ queue = <<>> /\ cur[c] # Idle(c)
        /\ SwitchTo(c, Idle(c))
        /\ UNCHANGED <<queue, armed>>
  /\ UNCHANGED <<state, freed, released, procThreads>>
  /\ UNCHANGED irqVars

SchedNext(c) ==
  /\ pc[c] = "next"
  /\ \/ /\ queue # <<>>
        /\ queue' = Tail(queue)
        /\ SwitchTo(c, Head(queue))
        /\ UNCHANGED armed
     \/ /\ queue = <<>> /\ cur[c] = Idle(c)
        /\ armed' = [armed EXCEPT ![c] = TRUE]
        /\ pc' = [pc EXCEPT ![c] = "run"]
        /\ UNCHANGED <<queue, cur, stack, prev, cr3>>
     \/ /\ queue = <<>> /\ cur[c] # Idle(c)
        /\ SwitchTo(c, Idle(c))
        /\ UNCHANGED <<queue, armed>>
  /\ UNCHANGED <<state, freed, released, procThreads>>
  /\ UNCHANGED irqVars

(***************************************************************************)
(* The incoming thread's first act: sched_thread_drop(prev) (sched.c:122,  *)
(* or common_thread_init, sched.c:82-86, on a thread's first run), then   *)
(* the timer is armed again (sched.c:85, 268).  thread_drop (spec 4.6)     *)
(* re-enqueues a READY thread, other than an idle thread, which its CPU    *)
(* owns exclusively (spec 5), and destroys a DESTROY one                  *)
(* (arch_sched_thread_destroy, sched.c:126-137): it leaves its process's   *)
(* thread list, which destroys the process when it was the last, and its   *)
(* storage is freed.                                                       *)
(***************************************************************************)
RequeueIdle(t) == state[t] = READY
RequeueNotDestroy(t) == state[t] # DESTROY /\ ~IsIdle(t)
Requeue(t) == state[t] = READY /\ ~IsIdle(t)

DestroyProcess(t) ==
  /\ freed' = freed \cup {t}
  /\ procThreads' = [p \in Procs |-> IF t \in procThreads[p] THEN {} ELSE procThreads[p]]

DestroyThread(t) ==
  /\ freed' = freed \cup {t}
  /\ procThreads' = [p \in Procs |-> procThreads[p] \ {t}]

DropNoArm(c) ==
  LET t == prev[c] IN
  /\ pc[c] = "drop"
  /\ queue' = IF Requeue(t) THEN Enqueue(queue, t) ELSE queue
  /\ IF state[t] = DESTROY THEN DestroyThread(t) ELSE UNCHANGED <<freed, procThreads>>
  /\ prev' = [prev EXCEPT ![c] = NoThread]
  /\ pc' = [pc EXCEPT ![c] = "run"]
  /\ UNCHANGED <<state, cur, stack, cr3, released, armed>>
  /\ UNCHANGED irqVars

Drop(c) ==
  LET t == prev[c] IN
  /\ pc[c] = "drop"
  /\ queue' = IF Requeue(t) THEN Enqueue(queue, t) ELSE queue
  /\ IF state[t] = DESTROY THEN DestroyThread(t) ELSE UNCHANGED <<freed, procThreads>>
  /\ armed' = [armed EXCEPT ![c] = TRUE]
  /\ prev' = [prev EXCEPT ![c] = NoThread]
  /\ pc' = [pc EXCEPT ![c] = "run"]
  /\ UNCHANGED <<state, cur, stack, cr3, released>>
  /\ UNCHANGED irqVars

Next ==
  \E c \in CPUs : SchedInit(c) \/ InitCpu(c) \/ Tick(c) \/ Suspend(c) \/ Unblock(c) \/ SchedNext(c) \/ Drop(c)

\* Bring-up, the scheduler's own steps and the hardware timer are weakly
\* fair on every CPU; what threads do is not.
Spec == Init /\ [][Next]_vars
        /\ \A c \in CPUs : WF_vars(SchedInit(c)) /\ WF_vars(InitCpu(c)) /\ WF_vars(SchedNext(c))
                           /\ WF_vars(Drop(c)) /\ WF_vars(Tick(c))

-----------------------------------------------------------------------------
(***************************************************************************)
(* Properties.                                                             *)
(***************************************************************************)
PCs == {"boot", "init", "run", "next", "drop", "panic"}
TypeOK ==
  /\ state \in [Threads -> {READY, BLOCKED, DESTROY}]
  /\ freed \subseteq Threads
  /\ queue \in Seq(Workers)
  /\ cur \in [CPUs -> Threads \cup {NoThread}]
  /\ stack \in [CPUs -> Threads]
  /\ prev \in [CPUs -> Threads \cup {NoThread}]
  /\ cr3 \in [CPUs -> Procs \cup {GlobalAS}]
  /\ armed \in [CPUs -> BOOLEAN]
  /\ pc \in [CPUs -> PCs]
  /\ procThreads \in [Procs -> SUBSET Workers]
  /\ entries \in [Vectors -> [free : BOOLEAN, handler : {SchedEntry, Device, ExceptionUnhandled, NoHandler},
                              priority : 0..((IDT_SIZE - 1) \div CLASS)]]
  /\ schedVector \in Vectors

\* No two CPUs ever execute on the same kernel stack: a thread is handed
\* back to the run queue only by the thread that replaced it, after the
\* switch off its stack (spec 9, stack hand-off of the outgoing thread).
StackExclusive == \A c, d \in CPUs : c # d => stack[c] # stack[d]

\* The run queue holds each thread at most once, and only READY threads
\* that no CPU is running or still has to drop, that are not freed and
\* are no CPU's idle thread.
QueueSound ==
  /\ IsInjective(queue)
  /\ \A t \in ToSet(queue) :
       /\ state[t] = READY /\ t \notin freed /\ ~IsIdle(t)
       /\ \A c \in CPUs : stack[c] # t /\ prev[c] # t

\* Nothing that is freed is used: no CPU runs on, points at or has to
\* drop a freed thread, and no CPU has the address space of a destroyed
\* process (one whose last thread was destroyed) loaded.
NoUseAfterFree ==
  /\ \A c \in CPUs : stack[c] \notin freed /\ cur[c] \notin freed /\ prev[c] \notin freed
  /\ \A c \in CPUs : cr3[c] # GlobalAS => procThreads[cr3[c]] # {}

\* Spec 8, scheduler liveness: a thread that is in the run queue is
\* eventually running on some CPU.
QueuedThreadRuns ==
  \A t \in Workers : t \in ToSet(queue) ~> \E c \in CPUs : stack[c] = t

\* x86_64_sched_init gets the vector spec 4.4 prescribes, the lowest free
\* one at or above PREEMPT * 16 in the table it found (spilling into a
\* higher class when PREEMPT's is full), the timer's vector dispatches to
\* sched_entry, and no vector a driver or the exception reporter holds
\* has changed hands.
SchedVectorAllocated ==
  pc[BSP] # "boot" =>
    /\ schedVector = LowestFree(BootTable(devices), PREEMPT)
    /\ \A v \in Vectors :
         InterruptHandler(entries, v) =
           IF v = schedVector THEN SchedEntry ELSE InterruptHandler(BootTable(devices), v)
=============================================================================
