--------------------------- MODULE OptimizeProofs ---------------------------
(***************************************************************************)
(* Proofs about the optimize task, for any number of shards and any bound  *)
(* on the pauses that are held at the same time.                           *)
(***************************************************************************)
EXTENDS Optimize, TLAPS

(* Where the worker thread is agrees with what libuv knows of the task.    *)
ThreadIsTask == (pc = "idle") <=> (task # "started")

(* A shard is worked on only when there is one left.                       *)
WorkIsLeft == pc = "work" => left > 0

(* Only the worker, inside siri_optimize_wait, writes PAUSED, and before   *)
(* it leaves that function it has replaced the value, or the main thread   *)
(* has.                                                                    *)
PausedByWorker ==
    status = PAUSED => pc \in {"close", "sleep", "switch", "set_running"}

(* While the worker sleeps the status is the one it wrote, or CANCELLED.   *)
SleepStatus ==
    pc \in {"close", "sleep", "switch", "set_running"}
        => status \in {PAUSED, CANCELLED}

(* A closed index file is opened again before siri_optimize_wait returns,  *)
(* unless the task is cancelled, which is final for this run.              *)
ClosedIdx ==
    idx = "closed" =>
        \/ pc \in {"sleep", "switch", "set_running", "cleanup"}
        \/ pc = "return" /\ status = CANCELLED

(* siri_optimize_pause and siri_optimize_continue count the holders until  *)
(* siri_optimize_stop clears the counter; a status PAUSED_MAIN does not    *)
(* outlive a stop.                                                         *)
CounterIsHeld ==
    /\ timer => pause = held
    /\ status = PAUSED_MAIN => timer /\ held > 0

(* OneTask is not inductive: OPTIMIZE_work_finish gives back PENDING,      *)
(* which is right only if no thread is at work (ThreadIsTask), and a       *)
(* worker that writes RUNNING or PAUSED must have a task to its name.      *)
IInv ==
    /\ TypeOK /\ OneTask
    /\ ThreadIsTask /\ WorkIsLeft /\ PausedByWorker /\ SleepStatus /\ ClosedIdx

LEMMA Width == UINT16 \in Nat /\ UINT16 > 1
  BY SMT DEF UINT16

(* What the two operations do to a counter of any width.                   *)
LEMMA Wraps ==
  ASSUME NEW n \in Nat, n > 0, NEW p \in 0 .. n - 1
  PROVE  /\ (p + 1) % n \in 0 .. n - 1
         /\ (p - 1) % n \in 0 .. n - 1
  OBVIOUS

LEMMA NoWrap ==
  ASSUME NEW n \in Nat, NEW p \in 0 .. n - 1
  PROVE  /\ p > 0 => (p - 1) % n = p - 1
         /\ p < n - 1 => (p + 1) % n = p + 1
  OBVIOUS

LEMMA InitIInv == Init => IInv
  BY OptimizeAssumption, Width
  DEF Init, IInv, TypeOK, OneTask, ThreadIsTask, WorkIsLeft, PausedByWorker,
      SleepStatus, ClosedIdx,
      Tasks, Locations, PENDING, RUNNING, CANCELLED, PAUSED, PAUSED_MAIN

(* Every step of the main thread and of the worker preserves IInv.         *)
LEMMA NextIInv == IInv /\ [Next]_vars => IInv'
<1> SUFFICES ASSUME IInv, [Next]_vars PROVE IInv'
  OBVIOUS
<1> USE OptimizeAssumption
    DEF IInv, TypeOK, OneTask, ThreadIsTask, WorkIsLeft, PausedByWorker,
        SleepStatus, ClosedIdx, Tasks, Locations, PENDING, RUNNING, CANCELLED, PAUSED, PAUSED_MAIN
<1>p. pause \in 0 .. UINT16 - 1
  OBVIOUS
<1>1. CASE siri_optimize_pause
  <2>1. pause' \in 0 .. UINT16 - 1
    BY <1>1, <1>p, Wraps, Width DEF siri_optimize_pause
  <2> QED
    BY <1>1, <2>1 DEF siri_optimize_pause
<1>2. CASE siri_optimize_continue
  <2>1. pause' \in 0 .. UINT16 - 1
    BY <1>2, <1>p, Wraps, Width DEF siri_optimize_continue
  <2>2. status' \in {status, PENDING} /\ (status' # status => status = PAUSED_MAIN)
    BY <1>2 DEF siri_optimize_continue
  <2> QED
    BY <1>2, <2>1, <2>2 DEF siri_optimize_continue
<1>3. CASE siri_optimize_stop
  <2>1. timer' \in BOOLEAN
    BY <1>3, Zenon DEF siri_optimize_stop
  <2>2. pause' \in 0 .. UINT16 - 1
    BY <1>3, Width DEF siri_optimize_stop
  <2> QED
    BY <1>3, <2>1, <2>2 DEF siri_optimize_stop
<1>4. CASE OPTIMIZE_cb
  BY <1>4 DEF OPTIMIZE_cb
<1>5. CASE OPTIMIZE_work_finish
  BY <1>5 DEF OPTIMIZE_work_finish
<1>6. CASE OPTIMIZE_work
  BY <1>6 DEF OPTIMIZE_work
<1>7. CASE WaitEnter
  BY <1>7 DEF WaitEnter, mainvars
<1>8. CASE WaitSetPaused
  BY <1>8 DEF WaitSetPaused, mainvars
<1>9. CASE WaitCloseIdx
  BY <1>9 DEF WaitCloseIdx, mainvars
<1>10. CASE WaitSleep
  BY <1>10 DEF WaitSleep, mainvars
<1>11. CASE WaitSwitch
  BY <1>11 DEF WaitSwitch, mainvars
<1>12. CASE WaitSetRunning
  BY <1>12 DEF WaitSetRunning, mainvars
<1>13. CASE WaitReturn
  BY <1>13 DEF WaitReturn, mainvars
<1>14. CASE siridb_shard_optimize
  BY <1>14 DEF siridb_shard_optimize, siri_optimize_create_idx,
               siri_optimize_finish_idx, mainvars
<1>15. CASE WorkEnd
  BY <1>15 DEF WorkEnd
<1>16. CASE UNCHANGED vars
  BY <1>16 DEF vars
<1> QED
  BY <1>1, <1>2, <1>3, <1>4, <1>5, <1>6, <1>7, <1>8, <1>9, <1>10, <1>11,
     <1>12, <1>13, <1>14, <1>15, <1>16
  DEF Next, Main, Worker, Wait

(* IInv holds in every reachable state.                                    *)
THEOREM Inductive == Spec => []IInv
  BY InitIInv, NextIInv, PTL DEF Spec

(* Every step of the main thread keeps the count of the holders.           *)
LEMMA NextCounter == IInv /\ CounterIsHeld /\ [Next]_vars => CounterIsHeld'
<1> SUFFICES ASSUME IInv, CounterIsHeld, [Next]_vars PROVE CounterIsHeld'
  OBVIOUS
<1>t. /\ pause \in 0 .. UINT16 - 1 /\ held \in 0 .. MaxPause
      /\ MaxPause < UINT16 /\ MaxPause \in Nat /\ UINT16 \in Nat
  BY OptimizeAssumption, Width DEF IInv, TypeOK
<1>1. CASE siri_optimize_pause
  <2>1. timer /\ timer' = timer /\ pause = held /\ held < MaxPause
    BY <1>1 DEF siri_optimize_pause, CounterIsHeld
  <2>2. pause' = pause + 1 /\ held' = held + 1
    BY <1>1, <1>t, <2>1, NoWrap DEF siri_optimize_pause
  <2>3. pause' = held' /\ held' > 0
    BY <1>t, <2>1, <2>2
  <2> QED
    BY <2>1, <2>3 DEF CounterIsHeld
<1>2. CASE siri_optimize_continue
  <2>1. held > 0 /\ held' = held - 1 /\ timer' = timer /\ pause' = (pause - 1) % UINT16
    BY <1>2 DEF siri_optimize_continue
  <2>2. ASSUME timer PROVE pause' = held'
    BY <1>t, <2>1, <2>2, NoWrap DEF CounterIsHeld
  <2>3. ASSUME status' = PAUSED_MAIN PROVE status = PAUSED_MAIN /\ pause' # 0
    BY <1>2, <2>3 DEF siri_optimize_continue, PENDING, PAUSED_MAIN
  <2>4. ASSUME status' = PAUSED_MAIN PROVE timer /\ held' > 0
    <3>1. timer
      BY <2>3, <2>4 DEF CounterIsHeld
    <3>2. held' # 0
      BY <2>2, <2>3, <2>4, <3>1
    <3> QED
      BY <1>t, <2>1, <3>1, <3>2
  <2> QED
    BY <2>1, <2>2, <2>4 DEF CounterIsHeld
<1>3. CASE siri_optimize_stop
  <2>1. ~timer' /\ status' # PAUSED_MAIN
    BY <1>3 DEF siri_optimize_stop, CANCELLED, PAUSED_MAIN
  <2> QED
    BY <2>1 DEF CounterIsHeld
<1>4. CASE UNCHANGED <<pause, held, timer>> /\ (status' = PAUSED_MAIN => status = PAUSED_MAIN)
  BY <1>4 DEF CounterIsHeld
<1>5. CASE OPTIMIZE_cb \/ OPTIMIZE_work_finish
  BY <1>5, <1>4 DEF OPTIMIZE_cb, OPTIMIZE_work_finish, PENDING, RUNNING, PAUSED_MAIN
<1>6. CASE Worker
  BY <1>6, <1>4
  DEF Worker, OPTIMIZE_work, Wait, WaitEnter, WaitSetPaused, WaitCloseIdx,
      WaitSleep, WaitSwitch, WaitSetRunning, WaitReturn, siridb_shard_optimize,
      WorkEnd, mainvars, RUNNING, PAUSED, PAUSED_MAIN
<1>7. CASE UNCHANGED vars
  BY <1>7, <1>4 DEF vars
<1> QED
  BY <1>1, <1>2, <1>3, <1>5, <1>6, <1>7 DEF Next, Main

(* Until the server stops, the counter that the worker thread reads is the *)
(* number of pauses that databases hold, and a task that the main thread   *)
(* paused is owed a siri_optimize_continue.                                *)
THEOREM MainPauseIsHeldHolds == Spec => []MainPauseIsHeld
<1>1. Init => CounterIsHeld
  BY DEF Init, CounterIsHeld, PENDING, PAUSED_MAIN
<1>2. CounterIsHeld => MainPauseIsHeld
  BY DEF CounterIsHeld, MainPauseIsHeld
<1> QED
  BY Inductive, NextCounter, <1>1, <1>2, PTL DEF Spec

(* There is one and only one optimize task: OPTIMIZE_cb never queues       *)
(* optimize.work a second time, however the threads interleave.            *)
THEOREM OneTaskHolds == Spec => []OneTask
  BY Inductive, PTL DEF IInv

(* While the main thread sees the task as paused, the worker thread is     *)
(* idle or inside siri_optimize_wait.                                      *)
THEOREM PausedMeansWaitingHolds == Spec => []PausedMeansWaiting
<1>1. IInv => PausedMeansWaiting
  <2> SUFFICES ASSUME IInv, SIRI_OPTIMZE_IS_PAUSED
               PROVE  pc \in {"idle", "close", "sleep", "switch",
                              "set_running"}
    BY DEF PausedMeansWaiting
  <2>1. CASE status = PAUSED
    BY <2>1 DEF IInv, PausedByWorker
  <2>2. CASE status = PAUSED_MAIN
    BY <2>2 DEF IInv, OneTask, ThreadIsTask
  <2> QED
    BY <2>1, <2>2
    DEF IInv, TypeOK, SIRI_OPTIMZE_IS_PAUSED, PENDING, RUNNING, CANCELLED,
        PAUSED, PAUSED_MAIN
<1> QED
  BY Inductive, <1>1, PTL

(* default: assert (0) of siri_optimize_wait is not reached.               *)
THEOREM SwitchAssertionHolds == Spec => []SwitchAssertion
<1>1. IInv => SwitchAssertion
  BY DEF IInv, SleepStatus, SwitchAssertion
<1> QED
  BY Inductive, <1>1, PTL

(* The worker thread uses no index file that a pause has closed.           *)
THEOREM IdxUsableHolds == Spec => []IdxUsable
<1>1. IInv => IdxUsable
  BY DEF IInv, ClosedIdx, IdxUsable
<1> QED
  BY Inductive, <1>1, PTL

(* However the two threads interleave there is one task, a paused task     *)
(* touches no shard, the assertion of siri_optimize_wait holds, a closed   *)
(* index file is not used and a pause of the main thread is held.          *)
THEOREM TaskSafeHolds == Spec => []TaskSafe
  BY OneTaskHolds, PausedMeansWaitingHolds, SwitchAssertionHolds, IdxUsableHolds,
     MainPauseIsHeldHolds, PTL
  DEF TaskSafe
=============================================================================
