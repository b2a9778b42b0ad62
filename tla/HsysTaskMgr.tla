----------------------------- MODULE HsysTaskMgr -----------------------------
(***************************************************************************)
(* Start-up of the managed tasks (hsys_task_mgr.cpp).  The main thread     *)
(* creates the tasks of k_task_table one after the other; each task runs   *)
(* pre_init, init and post_init of its modules with a barrier after each   *)
(* phase, then enters its message loop.  The barrier is a counter under a  *)
(* mutex, a comparison with s_task_count outside it, and one bit of an     *)
(* event group, whose two implementations (FreeRTOS, mac_os) are modelled. *)
(***************************************************************************)
EXTENDS Naturals, FiniteSets

CONSTANTS
  N,         \* tasks in the table
  MaxTasks,  \* HSYS_MAX_TASKS
  Failures,  \* calls that may fail for want of memory: "queue", "task"
  Atomic     \* xEventGroupWaitBits tests and blocks in one step; the port
             \* to a condition variable (mac_os/hsys_event.cpp) does not

ASSUME TaskMgrAssumption ==
  /\ N \in Nat \ {0}
  /\ MaxTasks \in 1..255
  /\ Failures \subseteq {"queue", "task"}
  /\ Atomic \in BOOLEAN

Tasks  == 1..N
Phases == 1..3    \* pre_init, init, post_init

VARIABLES
  main,    \* hsys_task_mgr_init: where it is, and the task it is creating
  count,   \* s_task_count
  done,    \* s_pre_init_done, s_init_done, s_post_init_done
  bits,    \* the phases whose bit is set in s_lifecycle_eg
  thr,     \* the tasks
  cohort   \* history: the tasks that existed when a barrier was first opened

vars == <<main, count, done, bits, thr, cohort>>

Unborn == [pc |-> "unborn", phase |-> 1, val |-> 0]

Init ==
  /\ main = [pc |-> "queue", task |-> 1]
  /\ count = 0
  /\ done = [p \in Phases |-> 0]
  /\ bits = {}
  /\ thr = [i \in Tasks |-> Unborn]
  /\ cohort = [p \in Phases |-> {}]

Born == {i \in Tasks : thr[i].pc # "unborn"}

-----------------------------------------------------------------------------
(* hsys_task_mgr_create, called for each descriptor in turn.  No task takes *)
(* s_mutex here, so every step of it interleaves with the tasks running.    *)

MainGoes(pc) == main' = [main EXCEPT !.pc = pc]

\* The queue exists and the modules are bound: s_task_count++.
Register ==
  /\ main.pc = "queue"
  /\ count < MaxTasks
  /\ count' = count + 1
  /\ MainGoes("spawn")
  /\ UNCHANGED <<done, bits, thr, cohort>>

\* No memory for the queue, or no slot: hsys_task_mgr_init gives up.
RegisterFails ==
  /\ main.pc = "queue"
  /\ "queue" \in Failures \/ count >= MaxTasks
  /\ MainGoes("failed")
  /\ UNCHANGED <<count, done, bits, thr, cohort>>

Spawn ==
  /\ main.pc = "spawn"
  /\ thr' = [thr EXCEPT ![main.task].pc = "run"]
  /\ main' = IF main.task = N THEN [main EXCEPT !.pc = "ready"]
             ELSE [pc |-> "queue", task |-> main.task + 1]
  /\ UNCHANGED <<count, done, bits, cohort>>

SpawnFails ==
  /\ main.pc = "spawn"
  /\ "task" \in Failures
  /\ MainGoes("undo")
  /\ UNCHANGED <<count, done, bits, thr, cohort>>

\* s_task_count-- and return HSYS_ERR_NO_MEM; app.cpp ignores the status.
Undo ==
  /\ main.pc = "undo"
  /\ count' = count - 1
  /\ MainGoes("undone")
  /\ UNCHANGED <<done, bits, thr, cohort>>

-----------------------------------------------------------------------------
(* dispatch_loop up to the message loop.                                   *)

Goes(i, pc) == thr' = [thr EXCEPT ![i].pc = pc]

\* The modules of the task have run the phase; the locked half of
\* barrier_complete_phase.
Bump(i) ==
  /\ thr[i].pc = "run"
  /\ LET p == thr[i].phase
         val == (done[p] + 1) % 256
     IN /\ done' = [done EXCEPT ![p] = val]
        /\ thr' = [thr EXCEPT ![i] = [pc |-> "compare", phase |-> p, val |-> val]]
  /\ UNCHANGED <<main, count, bits, cohort>>

\* Variants of Opens: off by one, either way.
OpensEarly(i) == thr[i].val + 1 >= count
OpensNever(i) == thr[i].val > count

\* if (val >= s_task_count), after the unlock.
Opens(i) == thr[i].val >= count

Compare(i) ==
  /\ thr[i].pc = "compare"
  /\ LET p == thr[i].phase
     IN \/ /\ Opens(i)
           /\ Goes(i, "set")
           /\ cohort' = IF cohort[p] = {} THEN [cohort EXCEPT ![p] = Born] ELSE cohort
        \/ /\ ~Opens(i)
           /\ Goes(i, "wait")
           /\ UNCHANGED cohort
  /\ UNCHANGED <<main, count, done, bits>>

\* hsys_event_group_set_bits.  Through FreeRTOS it also readies the waiters.
SetBits(i) ==
  /\ thr[i].pc = "set"
  /\ bits' = bits \cup {thr[i].phase}
  /\ Goes(i, IF Atomic THEN "wait" ELSE "notify")
  /\ UNCHANGED <<main, count, done, cohort>>

\* mac_os: cv.notify_all() readies those asleep at this moment.
Notify(i) ==
  /\ thr[i].pc = "notify"
  /\ thr' = [j \in Tasks |-> IF j = i \/ thr[j].pc = "asleep"
                             THEN [thr[j] EXCEPT !.pc = "wait"] ELSE thr[j]]
  /\ UNCHANGED <<main, count, done, bits, cohort>>

\* eg->mtx, held from the test of the predicate until cv.wait() sleeps.
Locked == \E j \in Tasks : thr[j].pc = "block"

\* hsys_event_group_wait_bits returns: the next phase, or the message loop.
Pass(i) ==
  /\ thr[i].pc = "wait"
  /\ thr[i].phase \in bits
  /\ ~Locked
  /\ thr' = [thr EXCEPT ![i] = IF @.phase = 3 THEN [@ EXCEPT !.pc = "loop"]
                               ELSE [pc |-> "run", phase |-> @.phase + 1, val |-> 0]]
  /\ UNCHANGED <<main, count, done, bits, cohort>>

\* mac_os: the predicate is false, and the thread is about to sleep on it.
FindClear(i) ==
  /\ ~Atomic
  /\ thr[i].pc = "wait"
  /\ thr[i].phase \notin bits
  /\ ~Locked
  /\ Goes(i, "block")
  /\ UNCHANGED <<main, count, done, bits, cohort>>

Sleep(i) ==
  /\ thr[i].pc = "block"
  /\ Goes(i, "asleep")
  /\ UNCHANGED <<main, count, done, bits, cohort>>

\* A condition variable may wake for no reason; the predicate is tested again.
SpuriousWake(i) ==
  /\ thr[i].pc = "asleep"
  /\ Goes(i, "wait")
  /\ UNCHANGED <<main, count, done, bits, cohort>>

-----------------------------------------------------------------------------
Main == Register \/ RegisterFails \/ Spawn \/ SpawnFails \/ Undo

\* What the scheduler keeps giving time to.
Run(i) == Bump(i) \/ Compare(i) \/ SetBits(i) \/ Notify(i)
          \/ Pass(i) \/ FindClear(i) \/ Sleep(i)

Next == Main \/ \E i \in Tasks : Run(i) \/ SpuriousWake(i)

Spec == Init /\ [][Next]_vars

\* Every thread gets time: the phase handlers return ("init" methods do not
\* block for ever) and nothing else in the start-up waits without a bound.  A
\* thread that finds the event group's mutex free again and again takes it.
FairSpec == Spec /\ WF_vars(Main) /\ \A i \in Tasks : SF_vars(Run(i))

-----------------------------------------------------------------------------
(* Properties                                                              *)

\* The types of the start-up state.
TypeOK ==
  /\ main \in [pc : {"queue", "spawn", "undo", "ready", "failed", "undone"}, task : Tasks]
  /\ count \in 0..MaxTasks
  /\ done \in [Phases -> 0..255]
  /\ bits \subseteq Phases
  /\ thr \in [Tasks -> [pc : {"unborn", "run", "compare", "set", "notify", "wait",
                              "block", "asleep", "loop"},
                        phase : Phases, val : 0..255]]
  /\ cohort \in [Phases -> SUBSET Tasks]

Finished(i, p) == \/ thr[i].phase > p
                  \/ thr[i].phase = p /\ thr[i].pc \notin {"unborn", "run"}

Past(i, p) == thr[i].phase > p \/ (thr[i].phase = p /\ thr[i].pc = "loop")

\* No task goes past a barrier before every task that existed when the barrier
\* was opened has finished the phase, however creation and phases interleave.
BarrierHolds ==
  \A p \in Phases : (\E i \in Tasks : Past(i, p)) =>
    /\ cohort[p] # {}
    /\ \A j \in cohort[p] : Finished(j, p)

\* A thread sleeps on a bit that is set, and nobody is left to wake it: the mac_os
\* port sets the bit without the mutex, between the test of the bit and the sleep.
LostWakeup == \E i \in Tasks : /\ thr[i].pc = "asleep" /\ thr[i].phase \in bits
                              /\ \A j \in Tasks : thr[j].pc # "notify"

\* Whoever waits for a phase that is over is woken.  It holds when Atomic is TRUE.
AllWoken == ~LostWakeup

\* Every task that was created gets to its message loop: the comparison outside
\* the mutex never lets the last one through a phase without setting its bit.  The
\* two things that may hold a task up are a wake-up that was lost (mac_os) and a
\* thread that could not be created, but was counted when the others compared.
CreatedEnterLoop ==
  \A i \in Tasks : thr[i].pc = "run" ~>
    (thr[i].pc = "loop" \/ main.pc = "undone" \/ LostWakeup)

\* "All three phases complete globally before any task enters its message loop."
LoopAfterAllPhases ==
  (\E i \in Tasks : thr[i].pc = "loop") => \A j \in Tasks : Finished(j, 3)
=============================================================================
