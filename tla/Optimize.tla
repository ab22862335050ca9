------------------------------ MODULE Optimize ------------------------------
(***************************************************************************)
(* The optimize task of src/siri/optimize.c: a timer of the main thread    *)
(* queues the task on a worker thread, and the main thread can pause the   *)
(* task, let it continue and cancel it.  The two threads share `status'    *)
(* and `pause' without a lock, so every read and every write of them by    *)
(* the worker is a step of its own; a callback of the main thread is one   *)
(* step.                                                                   *)
(***************************************************************************)
EXTENDS Integers

CONSTANTS
    Shards,       \* shards that one run of the task optimizes
    MaxPause      \* bound: pauses held at the same time

UINT16 == 65536

ASSUME OptimizeAssumption == Shards \in Nat /\ MaxPause \in 1 .. UINT16 - 1

VARIABLES
    status,       \* optimize.status
    pause,        \* optimize.pause
    held,         \* pauses that databases took and have not given back
    timer,        \* is optimize.timer still going?
    task,         \* optimize.work as libuv sees it
    pc,           \* where the worker thread is
    left,         \* shards still to be optimized in this run
    idx           \* the temporary index file (optimize.idx_fn, idx_fp)

vars == <<status, pause, held, timer, task, pc, left, idx>>
mainvars == <<pause, held, timer, task>>

PENDING == 0
RUNNING == 1
CANCELLED == 2
PAUSED == 3
PAUSED_MAIN == 4

SIRI_OPTIMZE_IS_PAUSED == status >= PAUSED

Tasks == {"none", "queued", "started", "finished"}

Locations == {"idle", "enter", "set_paused", "close", "sleep", "switch",
              "set_running", "return", "work", "cleanup"}

-----------------------------------------------------------------------------
(* The main thread.                                                        *)

(* After siri_optimize_stop the databases are no longer RUNNING and refuse *)
(* the requests that lead to a pause.                                      *)
siri_optimize_pause ==
    /\ timer
    /\ held < MaxPause
    /\ held' = held + 1
    /\ pause' = (pause + 1) % UINT16
    /\ status' = IF status = PENDING THEN PAUSED_MAIN ELSE status
    /\ UNCHANGED <<timer, task, pc, left, idx>>

\* Mutant: a task that the worker paused is taken for a pending one.
siri_optimize_continue_AnyPaused ==
    /\ held > 0
    /\ held' = held - 1
    /\ pause' = (pause - 1) % UINT16
    /\ status' = IF pause' = 0 /\ status >= PAUSED THEN PENDING ELSE status
    /\ UNCHANGED <<timer, task, pc, left, idx>>

(* A database that took a pause gives it back: on_repl_finished,           *)
(* INITSYNC_next_series_id, REINDEX_next or siri_backup_disable.  It may   *)
(* do so after siri_optimize_stop, which has cleared the counter: a build  *)
(* without assert (optimize.pause) then wraps around.                      *)
siri_optimize_continue ==
    /\ held > 0
    /\ held' = held - 1
    /\ pause' = (pause - 1) % UINT16
    /\ status' = IF pause' = 0 /\ status = PAUSED_MAIN THEN PENDING ELSE status
    /\ UNCHANGED <<timer, task, pc, left, idx>>

(* uv_cancel succeeds only when no thread has picked up the work yet.      *)
siri_optimize_stop ==
    /\ timer
    /\ timer' = FALSE
    /\ status' = CANCELLED
    /\ pause' = 0
    /\ task' = IF task = "queued" THEN "finished" ELSE task
    /\ UNCHANGED <<held, pc, left, idx>>

OPTIMIZE_cb ==
    /\ timer
    /\ status = PENDING
    /\ status' = RUNNING
    /\ task' = "queued"
    /\ UNCHANGED <<pause, held, timer, pc, left, idx>>

OPTIMIZE_work_finish ==
    /\ task = "finished"
    /\ task' = "none"
    /\ status' = IF status = RUNNING THEN PENDING ELSE status
    /\ UNCHANGED <<pause, held, timer, pc, left, idx>>

-----------------------------------------------------------------------------
(* The worker thread: OPTIMIZE_work, which calls siri_optimize_wait.       *)

OPTIMIZE_work ==
    /\ task = "queued"
    /\ task' = "started"
    /\ pc' = "enter"
    /\ left' = Shards
    /\ UNCHANGED <<status, pause, held, timer, idx>>

\* Mutant: one pause is not enough.
WaitEnter_Two ==
    /\ pc = "enter"
    /\ pc' = IF pause > 1 THEN "set_paused" ELSE "return"
    /\ UNCHANGED <<status, mainvars, left, idx>>

\* if (optimize.pause)
WaitEnter ==
    /\ pc = "enter"
    /\ pc' = IF pause > 0 THEN "set_paused" ELSE "return"
    /\ UNCHANGED <<status, mainvars, left, idx>>

\* optimize.status = SIRI_OPTIMIZE_PAUSED
WaitSetPaused ==
    /\ pc = "set_paused"
    /\ status' = PAUSED
    /\ pc' = "close"
    /\ UNCHANGED <<mainvars, left, idx>>

WaitCloseIdx ==
    /\ pc = "close"
    /\ idx' = IF idx = "open" THEN "closed" ELSE idx
    /\ pc' = "sleep"
    /\ UNCHANGED <<status, mainvars, left>>

\* Mutant: while (optimize.pause || optimize.status != PAUSED)
WaitSleep_Status ==
    /\ pc = "sleep"
    /\ pause = 0
    /\ status = PAUSED
    /\ pc' = "switch"
    /\ UNCHANGED <<status, mainvars, left, idx>>

\* while (optimize.pause) sleep(5)
WaitSleep ==
    /\ pc = "sleep"
    /\ pause = 0
    /\ pc' = "switch"
    /\ UNCHANGED <<status, mainvars, left, idx>>

\* switch (optimize.status)
WaitSwitch ==
    /\ pc = "switch"
    /\ pc' = IF status = PAUSED THEN "set_running" ELSE "return"
    /\ UNCHANGED <<status, mainvars, left, idx>>

\* optimize.status = SIRI_OPTIMIZE_RUNNING, and the index file is re-opened
WaitSetRunning ==
    /\ pc = "set_running"
    /\ status' = RUNNING
    /\ idx' = IF idx = "closed" THEN "open" ELSE idx
    /\ pc' = "return"
    /\ UNCHANGED <<mainvars, left>>

\* return optimize.status
WaitReturn ==
    /\ pc = "return"
    /\ pc' = IF status = CANCELLED \/ left = 0 THEN "cleanup" ELSE "work"
    /\ UNCHANGED <<status, mainvars, left, idx>>

(* siridb_shard_optimize: the new shard and its index file are made, the   *)
(* series are copied with a siri_optimize_wait in between, and then both   *)
(* files get their final names.                                            *)
siri_optimize_create_idx ==
    /\ idx = "none"
    /\ idx' = "open"
    /\ UNCHANGED left

siri_optimize_finish_idx ==
    /\ idx # "none"
    /\ idx' = "none"
    /\ left' = left - 1

siridb_shard_optimize ==
    /\ pc = "work"
    /\ pc' = "enter"
    /\ siri_optimize_create_idx \/ siri_optimize_finish_idx
    /\ UNCHANGED <<status, mainvars>>

(* The task ends; an index file of an unfinished shard is removed.         *)
WorkEnd ==
    /\ pc = "cleanup"
    /\ pc' = "idle"
    /\ task' = "finished"
    /\ idx' = "none"
    /\ UNCHANGED <<status, pause, held, timer, left>>

-----------------------------------------------------------------------------

Init ==
    /\ status = PENDING
    /\ pause = 0
    /\ held = 0
    /\ timer = TRUE
    /\ task = "none"
    /\ pc = "idle"
    /\ left = 0
    /\ idx = "none"

Wait == \/ WaitEnter \/ WaitSetPaused \/ WaitCloseIdx \/ WaitSleep
        \/ WaitSwitch \/ WaitSetRunning \/ WaitReturn

Worker == OPTIMIZE_work \/ Wait \/ siridb_shard_optimize \/ WorkEnd

Main == \/ siri_optimize_pause \/ siri_optimize_continue
        \/ siri_optimize_stop \/ OPTIMIZE_cb \/ OPTIMIZE_work_finish

Next == Main \/ Worker

Spec == Init /\ [][Next]_vars

(* The worker thread is scheduled, libuv reports a finished task, and the  *)
(* timer repeats.  Nothing obliges anybody to pause, continue or stop.     *)
Fairness ==
    /\ WF_vars(Worker)
    /\ WF_vars(OPTIMIZE_work_finish)
    /\ WF_vars(OPTIMIZE_cb)

FairSpec == Spec /\ Fairness

-----------------------------------------------------------------------------
(* Properties.                                                             *)

(* The type of every variable.                                             *)
TypeOK ==
    /\ status \in PENDING .. PAUSED_MAIN
    /\ pause \in 0 .. UINT16 - 1
    /\ held \in 0 .. MaxPause
    /\ timer \in BOOLEAN
    /\ task \in Tasks
    /\ pc \in Locations
    /\ left \in 0 .. Shards
    /\ idx \in {"none", "open", "closed"}

(* optimize.h: "There is one and only one optimize task thread running".   *)
(* OPTIMIZE_cb looks only at the status before it queues optimize.work, so *)
(* a pending or main-paused status must mean that no task is anywhere      *)
(* between uv_queue_work and OPTIMIZE_work_finish.                         *)
OneTask ==
    status \in {PENDING, PAUSED_MAIN} => task = "none"

(* A status PAUSED can be trusted: if the main thread sees it and holds a  *)
(* pause, the worker is inside siri_optimize_wait and touches no shard.    *)
PausedMeansWaiting ==
    SIRI_OPTIMZE_IS_PAUSED =>
        pc \in {"idle", "close", "sleep", "switch", "set_running"}

(* default: assert (0) in the switch of siri_optimize_wait: nobody but     *)
(* siri_optimize_stop writes the status while the worker sleeps.           *)
SwitchAssertion == pc = "switch" => status \in {PAUSED, CANCELLED}

(* The worker never writes to, or closes, an index file that               *)
(* siri_optimize_wait has closed (optimize.idx_fp == NULL), also when      *)
(* siri_optimize_stop comes while it is paused.                            *)
IdxUsable == pc = "work" => idx # "closed"

(* OPTIMIZE_cb skips its work while the status is PAUSED_MAIN, and only a  *)
(* siri_optimize_continue that brings the counter to zero ends that: so    *)
(* long as the server is not stopped somebody must still owe that call.    *)
MainPauseIsHeld == status = PAUSED_MAIN => held > 0 /\ pause = held

(* What the threads rely on although they share status and pause without a *)
(* lock: there is one task, a paused one touches no shard, the status that *)
(* siri_optimize_wait finds after its sleep is one it knows, the index     *)
(* file that a pause closes is not used, and no pause is left behind.      *)
TaskSafe ==
    /\ OneTask /\ PausedMeansWaiting /\ SwitchAssertion /\ IdxUsable
    /\ MainPauseIsHeld

(* When databases keep holding pauses, the task does become paused (the   *)
(* backup and re-index tasks poll for it), whatever the worker was doing,  *)
(* unless the server is stopped.                                           *)
PauseTakesEffect ==
    <>[](held > 0 /\ timer) => <>[]SIRI_OPTIMZE_IS_PAUSED

(* A pause that is given back after siri_optimize_stop makes the counter   *)
(* wrap around.                                                            *)
GivenBackLate == ~timer /\ pause # 0

(* Every queued task is finished once nobody holds a pause any more, and   *)
(* siri_optimize_stop ends it although pauses are held, so that shutting   *)
(* down does not wait for ever: provided no pause is given back after the  *)
(* stop.  Even then the only place where a task can stay is the sleep of   *)
(* siri_optimize_wait.                                                     *)
TaskEnds ==
    /\ task = "queued" ~> task = "none" \/ pc = "sleep"
    /\ []~GivenBackLate =>
         /\ <>[](held = 0) => (task = "queued" ~> task = "none")
         /\ ~timer ~> task = "none"

(* A pause is obeyed and a task comes to its end, although the worker only *)
(* looks at pause and status between its sleeps.                           *)
TaskProgress == PauseTakesEffect /\ TaskEnds

(* REINDEX_work asserts SIRI_OPTIMZE_IS_PAUSED on every call after having  *)
(* seen it once: a paused task stays paused as long as a pause is held.    *)
PausedIsStable ==
    [][SIRI_OPTIMZE_IS_PAUSED /\ held > 0 /\ held' > 0 /\ timer'
         => SIRI_OPTIMZE_IS_PAUSED']_vars
=============================================================================
