-------------------------- MODULE PoolStateProofs --------------------------
(***************************************************************************)
(* Proofs about the flags and the pause counter of the two servers of a    *)
(* pool, for any number of stops, backups, new pools and inserts.          *)
(***************************************************************************)
EXTENDS PoolState, TLAPS

(* Synchronization and backup mode share one pause, so no server may be in *)
(* both at the same time.                                                  *)
NotBoth == \A s \in Servers : ~("SYNC" \in flags[s] /\ "BACKUP" \in flags[s])

(* A running server has a re-index task exactly while it has the flag.     *)
TaskHasFlag ==
    \A s \in Servers : up[s] => (reindex[s] = "task" <=> "REINDEX" \in flags[s])

(* PauseIsHeld is not inductive: a server must not give up a flag without  *)
(* the pause that goes with it.  REINDEX_next returns a pause for the      *)
(* re-index task and siridb_server_drop takes away SYNC, so both need to   *)
(* know which flags there are.                                             *)
PauseInv == TypeOK /\ PauseIsHeld /\ NotBoth /\ TaskHasFlag

(* The re-index file holds ids only while a running server works on them.  *)
LeftHasTask == \A s \in Servers : left[s] => up[s] /\ reindex[s] = "task"

ReindexInv == TypeOK /\ TaskHasFlag /\ LeftHasTask

-----------------------------------------------------------------------------
(* Facts about the operators of PoolState.                                 *)

(* Each server of the pool is the peer of the other one.                   *)
LEMMA PeerType == \A s \in Servers : Peer(s) \in Servers /\ Peer(s) # s
  BY DEF Servers, Peer

LEMMA Width == UINT16 \in Nat /\ UINT16 > 4
  BY SMT DEF UINT16

(* The counter stays an unsigned 16-bit integer, and while it is small it  *)
(* is the number of pauses.                                                *)
LEMMA Wraps == \A k \in Int : k % UINT16 \in 0 .. UINT16 - 1
  BY Width, SMT

LEMMA NoWrap == \A k \in 0 .. 4 : k % UINT16 = k
  BY Width, SMT

LEMMA BType == \A b \in BOOLEAN : B(b) \in {0, 1}
  BY DEF B

(* Two reasons to pause at the start of a server fit into the counter.     *)
LEMMA TwoReasons == \A b, c \in BOOLEAN : B(b) + B(c) \in 0 .. UINT16 - 1
  BY BType, Width

-----------------------------------------------------------------------------
(* Types.                                                                  *)

LEMMA TypeInit == Init => TypeOK
<1> SUFFICES ASSUME Init PROVE TypeOK
  OBVIOUS
<1>1. init \in [Servers -> BOOLEAN]
  BY DEF Init
<1>2. pause \in [Servers -> 0 .. UINT16 - 1]
  <2>1. \A b \in BOOLEAN : B(b) \in 0 .. UINT16 - 1
    BY BType, Width
  <2>2. \A s \in Servers : (s = 2 \/ init[s]) \in BOOLEAN
    BY <1>1, Zenon
  <2> QED BY <2>1, <2>2 DEF Init
<1>3. /\ flags \in [Servers -> SUBSET Flags]
      /\ view \in [Servers -> {GONE} \cup (SUBSET Flags)]
      /\ reindex \in [Servers -> {"none", "task", "wait"}]
  BY DEF Init, Flags
<1>4. /\ up \in [Servers -> BOOLEAN] /\ replica \in [Servers -> BOOLEAN]
      /\ data \in [Servers -> BOOLEAN] /\ awake \in [Servers -> BOOLEAN]
      /\ fin \in [Servers -> BOOLEAN] /\ left \in [Servers -> BOOLEAN]
  BY DEF Init
<1> QED
  BY <1>1, <1>2, <1>3, <1>4 DEF TypeOK

(* The variables keep their types in every step, whatever Env is: the      *)
(* counter is taken modulo 2^16, as an unsigned 16-bit integer is.         *)
LEMMA TypeNext == TypeOK /\ [Next]_vars => TypeOK'
<1> SUFFICES ASSUME TypeOK, [Next]_vars PROVE TypeOK'
  OBVIOUS
<1> USE PeerType DEF TypeOK
<1>w. \A k \in 0 .. UINT16 - 1 : (k + 1) % UINT16 \in 0 .. UINT16 - 1
                                 /\ (k - 1) % UINT16 \in 0 .. UINT16 - 1
  BY Wraps, Width
<1>1. ASSUME NEW s \in Servers, Stop(s) PROVE TypeOK'
  BY <1>1, Width DEF Stop
<1>2. ASSUME NEW s \in Servers, Start(s) PROVE TypeOK'
  BY <1>2, TwoReasons DEF Start, Flags
<1>3. ASSUME NEW s \in Servers, BSERVER_flags_update(s) PROVE TypeOK'
  <2>1. awake' \in [Servers -> BOOLEAN]
    BY <1>3, Zenon DEF BSERVER_flags_update, Wakes
  <2>2. view' \in [Servers -> {GONE} \cup (SUBSET Flags)]
    BY <1>3 DEF BSERVER_flags_update
  <2> QED BY <1>3, <2>1, <2>2 DEF BSERVER_flags_update
<1>4. ASSUME NEW s \in Servers, Insert(s) PROVE TypeOK'
  BY <1>4 DEF Insert
<1>5. ASSUME NEW s \in Servers, INITSYNC_next_series_id(s) PROVE TypeOK'
  BY <1>5, <1>w DEF INITSYNC_next_series_id, siri_optimize_continue
<1>6. ASSUME NEW s \in Servers, REPLICATE_work(s) PROVE TypeOK'
  BY <1>6 DEF REPLICATE_work, IsFinished, synchronizing
<1>7. ASSUME NEW s \in Servers, on_repl_finished(s) PROVE TypeOK'
  BY <1>7, <1>w DEF on_repl_finished, siri_optimize_continue
<1>8. ASSUME NEW s \in Servers, siri_backup_enable(s) PROVE TypeOK'
  BY <1>8, <1>w DEF siri_backup_enable, siri_optimize_pause, Flags
<1>9. ASSUME NEW s \in Servers, siri_backup_disable(s) PROVE TypeOK'
  <2>1. CASE KeepsPause(s)
    <3>1. (flags[s] \ {"BACKUP"}) \cup {"SYNC"} \in SUBSET Flags
      BY DEF Flags
    <3> QED BY <1>9, <2>1, <3>1 DEF siri_backup_disable
  <2>2. CASE ~KeepsPause(s)
    BY <1>9, <2>2, <1>w DEF siri_backup_disable, siri_optimize_continue
  <2> QED BY <2>1, <2>2
<1>10. ASSUME NEW s \in Servers, REINDEX_next(s) PROVE TypeOK'
  BY <1>10, <1>w DEF REINDEX_next, siri_optimize_continue
<1>11. ASSUME NEW s \in Servers, siridb_server_drop(s) PROVE TypeOK'
  BY <1>11 DEF siridb_server_drop
<1>12. CASE siridb_servers_register
  <2>1. pause' \in [Servers -> 0 .. UINT16 - 1]
    BY <1>12, <1>w DEF siridb_servers_register
  <2>2. flags' \in [Servers -> SUBSET Flags]
    BY <1>12 DEF siridb_servers_register, Flags
  <2> QED BY <1>12, <2>1, <2>2 DEF siridb_servers_register
<1>13. CASE UNCHANGED vars
  BY <1>13 DEF vars
<1> QED
  BY <1>1, <1>2, <1>3, <1>4, <1>5, <1>6, <1>7, <1>8, <1>9, <1>10, <1>11, <1>12, <1>13
  DEF Next, Steps

(* The flags, the counter and the views of both servers keep their types.  *)
THEOREM TypeCorrect == Spec => []TypeOK
  BY TypeInit, TypeNext, PTL DEF Spec

-----------------------------------------------------------------------------
(* The pause counter.                                                      *)

(* The pauses that a server with flags f has to hold; i tells whether it   *)
(* has an initial synchronization to do.                                   *)
Reasons(f, i) == B("SYNC" \in f \/ "BACKUP" \in f) + B("REINDEX" \in f) + B(i)

LEMMA ReasonsType == \A f, i : Reasons(f, i) \in 0 .. 3
  BY DEF Reasons, B

LEMMA PauseIsReasons ==
  PauseIsHeld <=> \A s \in Servers : up[s] => pause[s] = Reasons(flags[s], init[s])
<1>1. \A f : (f \cap {"SYNC", "BACKUP"} # {}) = ("SYNC" \in f \/ "BACKUP" \in f)
  OBVIOUS
<1> QED
  BY <1>1, Zenon DEF PauseIsHeld, Reasons

(* Backup mode and synchronization do not meet when backup mode is refused *)
(* to a synchronizing server, and a synchronizing server that is dropped   *)
(* by the other one would take a pause with it.                            *)
LEMMA PauseInit == Init => PauseInv
<1> SUFFICES ASSUME Init PROVE PauseInv
  OBVIOUS
<1>1. \A s \in Servers : flags[s] = (IF s = 2 THEN {"SYNC"} ELSE {})
  BY DEF Init
<1>2. NotBoth /\ TaskHasFlag
  BY <1>1 DEF NotBoth, TaskHasFlag, Init
<1>3. ASSUME NEW s \in Servers PROVE pause[s] = Reasons(flags[s], init[s])
  <2>1. pause[s] = B(s = 2 \/ init[s])
    BY DEF Init
  <2>2. s = 2 => ~init[s]
    <3>1. PICK b \in BOOLEAN : init = [t \in Servers |-> t = 1 /\ b]
      BY DEF Init
    <3>2. init[s] => s = 1
      BY <3>1
    <3> QED BY <3>2
  <2> QED BY <1>1, <2>1, <2>2 DEF Reasons, B
<1> QED
  BY TypeInit, <1>2, <1>3, PauseIsReasons DEF PauseInv

(* Every step of a pool in which backup mode is refused to a synchronizing *)
(* server, and a synchronizing server or one that is to be synchronized is *)
(* not dropped, preserves PauseInv.                                        *)
LEMMA PauseNext ==
  ASSUME "sync_backup" \notin Env, "drop_sync" \notin Env
  PROVE  PauseInv /\ [Next]_vars => PauseInv'
<1> SUFFICES ASSUME PauseInv, [Next]_vars PROVE PauseInv'
  OBVIOUS
<1>t. TypeOK /\ TypeOK'
  BY TypeNext DEF PauseInv
<1>p. \A s \in Servers : up[s] => pause[s] = Reasons(flags[s], init[s])
  BY PauseIsReasons DEF PauseInv
<1>i. NotBoth /\ TaskHasFlag
  BY DEF PauseInv
(* It is enough to look at one server at a time. *)
<1>q. SUFFICES ASSUME NEW r \in Servers
      PROVE  /\ ~("SYNC" \in flags'[r] /\ "BACKUP" \in flags'[r])
             /\ up'[r] => (reindex'[r] = "task" <=> "REINDEX" \in flags'[r])
             /\ up'[r] => pause'[r] = Reasons(flags'[r], init'[r])
  <2>1. PauseIsHeld' <=> \A s \in Servers : up'[s] => pause'[s] = Reasons(flags'[s], init'[s])
    <3>1. \A f : (f \cap {"SYNC", "BACKUP"} # {}) = ("SYNC" \in f \/ "BACKUP" \in f)
      OBVIOUS
    <3> QED BY <3>1, Zenon DEF PauseIsHeld, Reasons
  <2> QED BY <1>t, <2>1 DEF PauseInv, NotBoth, TaskHasFlag
<1>c. \A k \in 0 .. 3 : (k + 1) % UINT16 = k + 1 /\ ((k + 1) - 1) % UINT16 = k
  BY NoWrap
<1> DEFINE Goal == /\ ~("SYNC" \in flags'[r] /\ "BACKUP" \in flags'[r])
                   /\ up'[r] => (reindex'[r] = "task" <=> "REINDEX" \in flags'[r])
                   /\ up'[r] => pause'[r] = Reasons(flags'[r], init'[r])
<1> USE DEF TypeOK
<1>1. ASSUME NEW s \in Servers, Stop(s) PROVE Goal
  BY <1>1, <1>t, <1>p, <1>i DEF Stop, NotBoth, TaskHasFlag
<1>2. ASSUME NEW s \in Servers, Start(s) PROVE Goal
  BY <1>2, <1>t, <1>p, <1>i DEF Start, NotBoth, TaskHasFlag, Reasons, B
<1>3. ASSUME NEW s \in Servers, BSERVER_flags_update(s) PROVE Goal
  BY <1>3, <1>t, <1>p, <1>i DEF BSERVER_flags_update, CanEndReindex, NotBoth, TaskHasFlag
<1>4. ASSUME NEW s \in Servers, Insert(s) PROVE Goal
  BY <1>4, <1>t, <1>p, <1>i DEF Insert, NotBoth, TaskHasFlag
<1>5. ASSUME NEW s \in Servers, INITSYNC_next_series_id(s) PROVE Goal
  BY <1>5, <1>t, <1>p, <1>i, <1>c
  DEF INITSYNC_next_series_id, siri_optimize_continue, NotBoth, TaskHasFlag, Reasons, B
<1>6. ASSUME NEW s \in Servers, REPLICATE_work(s) PROVE Goal
  BY <1>6, <1>t, <1>p, <1>i DEF REPLICATE_work, NotBoth, TaskHasFlag
<1>7. ASSUME NEW s \in Servers, on_repl_finished(s) PROVE Goal
  BY <1>7, <1>t, <1>p, <1>i, <1>c
  DEF on_repl_finished, siri_optimize_continue, NotBoth, TaskHasFlag, Reasons, B
<1>8. ASSUME NEW s \in Servers, siri_backup_enable(s) PROVE Goal
  BY <1>8, <1>t, <1>p, <1>i, <1>c
  DEF siri_backup_enable, siri_optimize_pause, NotBoth, TaskHasFlag, Reasons, B
<1>9. ASSUME NEW s \in Servers, siri_backup_disable(s) PROVE Goal
  BY <1>9, <1>t, <1>p, <1>i, <1>c
  DEF siri_backup_disable, siri_optimize_continue, NotBoth, TaskHasFlag, Reasons, B
<1>10. ASSUME NEW s \in Servers, REINDEX_next(s) PROVE Goal
  BY <1>10, <1>t, <1>p, <1>i, <1>c
  DEF REINDEX_next, siri_optimize_continue, NotBoth, TaskHasFlag, Reasons, B
<1>11. ASSUME NEW s \in Servers, siridb_server_drop(s) PROVE Goal
  <2>1. "REINDEX" \notin flags[s]
    BY <1>11, <1>i DEF siridb_server_drop, TaskHasFlag
  <2>2. "SYNC" \notin flags[s]
    <3> SUFFICES ASSUME "SYNC" \in flags[s] PROVE FALSE
      OBVIOUS
    <3>1. flags[s] = {"SYNC"}
      BY <2>1, <1>t, <1>i DEF NotBoth, Flags
    <3> QED BY <3>1, <1>11 DEF siridb_server_drop
  <2>3. flags' = flags
    BY <1>11, <2>2, <1>t DEF siridb_server_drop
  <2>4. init[s] = FALSE
    <3>1. init[s] \in BOOLEAN
      BY <1>t
    <3>2. ~init[s]
      BY <1>11 DEF siridb_server_drop
    <3> QED BY <3>1, <3>2
  <2>5. init' = init
    BY <1>11, <2>4, <1>t DEF siridb_server_drop
  <2> QED
    BY <1>11, <1>t, <1>p, <1>i, <2>3, <2>5 DEF siridb_server_drop, NotBoth, TaskHasFlag
<1>12. CASE siridb_servers_register
  BY <1>12, <1>t, <1>p, <1>i, <1>c
  DEF siridb_servers_register, available, NotBoth, TaskHasFlag, Reasons, B
<1>13. CASE UNCHANGED vars
  BY <1>13, <1>t, <1>p, <1>i DEF vars, NotBoth, TaskHasFlag
<1> QED
  BY <1>1, <1>2, <1>3, <1>4, <1>5, <1>6, <1>7, <1>8, <1>9, <1>10, <1>11, <1>12, <1>13
  DEF Next, Steps

(* siri_optimize_pause and siri_optimize_continue are called in pairs, in  *)
(* whatever order synchronization, backup mode, re-indexing, drops and     *)
(* restarts come, as long as backup mode is refused to a synchronizing     *)
(* server and no server is dropped while a synchronization waits for it    *)
(* (with either, PauseIsHeld does not hold: see README.md).                *)
THEOREM PausesExact ==
  ASSUME "sync_backup" \notin Env, "drop_sync" \notin Env
  PROVE  Spec => []PausesOK
<1>1. PauseInv /\ [Next]_vars => PauseInv'
  BY PauseNext
<1>2. PauseInv => PausesOK
  BY DEF PauseInv, PausesOK
<1> QED
  BY PauseInit, <1>1, <1>2, PTL DEF Spec

-----------------------------------------------------------------------------
(* Re-indexing.                                                            *)

LEMMA ReindexInit == Init => ReindexInv
  BY TypeInit DEF Init, ReindexInv, TaskHasFlag, LeftHasTask

(* Every step preserves ReindexInv, when no server stops while it moves    *)
(* series.                                                                 *)
LEMMA ReindexNext ==
  ASSUME "reindex_stop" \notin Env
  PROVE  ReindexInv /\ [Next]_vars => ReindexInv'
<1> SUFFICES ASSUME ReindexInv, [Next]_vars PROVE ReindexInv'
  OBVIOUS
<1>t. TypeOK /\ TypeOK'
  BY TypeNext DEF ReindexInv
<1>i. TaskHasFlag /\ LeftHasTask
  BY DEF ReindexInv
<1> USE <1>t, <1>i DEF ReindexInv, TaskHasFlag, LeftHasTask, TypeOK
<1>1. ASSUME NEW s \in Servers, Stop(s) PROVE ReindexInv'
  BY <1>1 DEF Stop
<1>2. ASSUME NEW s \in Servers, Start(s) PROVE ReindexInv'
  BY <1>2 DEF Start
<1>3. ASSUME NEW s \in Servers, BSERVER_flags_update(s) PROVE ReindexInv'
  BY <1>3 DEF BSERVER_flags_update, CanEndReindex
<1>4. ASSUME NEW s \in Servers, Insert(s) PROVE ReindexInv'
  BY <1>4 DEF Insert
<1>5. ASSUME NEW s \in Servers, INITSYNC_next_series_id(s) PROVE ReindexInv'
  BY <1>5 DEF INITSYNC_next_series_id
<1>6. ASSUME NEW s \in Servers, REPLICATE_work(s) PROVE ReindexInv'
  BY <1>6 DEF REPLICATE_work
<1>7. ASSUME NEW s \in Servers, on_repl_finished(s) PROVE ReindexInv'
  BY <1>7 DEF on_repl_finished
<1>8. ASSUME NEW s \in Servers, siri_backup_enable(s) PROVE ReindexInv'
  BY <1>8 DEF siri_backup_enable
<1>9. ASSUME NEW s \in Servers, siri_backup_disable(s) PROVE ReindexInv'
  BY <1>9 DEF siri_backup_disable
<1>10. ASSUME NEW s \in Servers, REINDEX_next(s) PROVE ReindexInv'
  BY <1>10 DEF REINDEX_next
<1>11. ASSUME NEW s \in Servers, siridb_server_drop(s) PROVE ReindexInv'
  BY <1>11 DEF siridb_server_drop
<1>12. CASE siridb_servers_register
  BY <1>12 DEF siridb_servers_register
<1>13. CASE UNCHANGED vars
  BY <1>13 DEF vars
<1> QED
  BY <1>1, <1>2, <1>3, <1>4, <1>5, <1>6, <1>7, <1>8, <1>9, <1>10, <1>11, <1>12, <1>13
  DEF Next, Steps

(* siridb_reindex_status_update destroys siridb->reindex only when the     *)
(* re-index file names no series any more, if no server stops while it     *)
(* moves series (siridb_reindex_open does not resume the task after a      *)
(* restart: see README.md).                                                *)
THEOREM ReindexIsDoneHolds ==
  ASSUME "reindex_stop" \notin Env
  PROVE  Spec => []ReindexIsDone
<1>1. ReindexInv /\ [Next]_vars => ReindexInv'
  BY ReindexNext
<1>2. ReindexInv => ReindexIsDone
  BY DEF ReindexInv, LeftHasTask, ReindexIsDone
<1> QED
  BY ReindexInit, <1>1, <1>2, PTL DEF Spec

=============================================================================
