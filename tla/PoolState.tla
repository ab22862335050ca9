----------------------------- MODULE PoolState -----------------------------
(***************************************************************************)
(* The status flags of the two servers of a pool, and what depends on them *)
(* (include/siri/db/server.h, db/pools.c, db/reindex.c, db/replicate.c,    *)
(* net/bserver.c, siri/backup.c): a server that starts is SYNCHRONIZING    *)
(* until the other one has emptied its fifo and says so; it may be         *)
(* RE-INDEXING when a pool is added, and in BACKUP MODE.  Each of these    *)
(* reasons pauses the optimize task, by a counter that has to return to    *)
(* zero.  Other servers test the flags they know for equality.             *)
(*                                                                         *)
(* RUNNING is `up'.  The fifo is abstracted to whether it has data (see    *)
(* Fifo and Replicate), the re-index file to whether it has ids left, and  *)
(* the server of the new pool is always available.                         *)
(***************************************************************************)
EXTENDS Integers, FiniteSets

CONSTANTS
    MaxStops,       \* bound: times that a server stops
    MaxBackups,     \* bound: times that backup mode is enabled
    MaxPools,       \* bound: pools that are added
    MaxInserts,     \* bound: inserts; a fifo that is filled as fast as it
                    \* is emptied would keep the other server synchronizing
    Env             \* what the surroundings do, see Surroundings

Surroundings == {
    "sync_backup",     \* backup mode is enabled on a synchronizing server
    "reindex_backup",  \* ... and on a re-indexing one
    "reindex_stop",    \* a server stops while it is re-indexing
    "drop_sync" }      \* a server is dropped while the other one, or the
                       \* initial synchronization, waits for it

Servers == {1, 2}
Peer(s) == 3 - s

UINT16 == 65536

ASSUME PoolStateAssumption ==
    /\ MaxStops \in Nat /\ MaxBackups \in Nat
    /\ MaxPools \in Nat /\ MaxInserts \in Nat
    /\ Env \subseteq Surroundings

VARIABLES
    up,         \* is the server running?
    flags,      \* siridb->server->flags, without RUNNING
    pause,      \* optimize.pause
    replica,    \* siridb->replica # NULL
    view,       \* siridb->replica->flags, {"GONE"} when not connected
    data,       \* siridb_fifo_has_data
    init,       \* is there an initial synchronization to be done?
    awake,      \* replicate->status is RUNNING
    fin,        \* a BPROTO_REPL_FINISHED is on its way to this server
    reindex,    \* siridb->reindex: none, with its task, or waiting
    left,       \* does the re-index file hold series ids?
    stops, backups, pools, inserts

hist == <<stops, backups, pools, inserts>>
vars == <<up, flags, pause, replica, view, data, init, awake, fin, reindex,
          left, hist>>

Flags == {"SYNC", "REINDEX", "BACKUP"}
GONE == {"GONE"}

\* The tests of server.h.
available(f) == f = {}
accessible(f) == f \in {{}, {"REINDEX"}}
synchronizing(f) == f = {"SYNC"}

B(b) == IF b THEN 1 ELSE 0

siri_optimize_pause(s) == pause' = [pause EXCEPT ![s] = (@ + 1) % UINT16]
siri_optimize_continue(s) == pause' = [pause EXCEPT ![s] = (@ - 1) % UINT16]

-----------------------------------------------------------------------------
(* Stop and start.                                                         *)

Stop(s) ==
    /\ up[s]
    /\ stops < MaxStops
    /\ reindex[s] = "task" => "reindex_stop" \in Env
    /\ stops' = stops + 1
    /\ up' = [up EXCEPT ![s] = FALSE]
    /\ flags' = [flags EXCEPT ![s] = {}]
    /\ pause' = [pause EXCEPT ![s] = 0]
    /\ view' = [i \in Servers |-> GONE]
    /\ awake' = [awake EXCEPT ![s] = FALSE]
    /\ fin' = [i \in Servers |-> FALSE]
    /\ UNCHANGED <<replica, data, init, reindex, left, backups, pools,
                   inserts>>

(* siridb_load: POOLS_arrange, siridb_initsync_open(siridb, 0) and         *)
(* siridb_reindex_open(siridb, 0).  The last one takes ftello of a file    *)
(* that was just opened for the size, which is zero: no task is made and   *)
(* the server only waits for the others.                                   *)
Start(s) ==
    /\ ~up[s]
    /\ replica[Peer(s)]
    /\ up' = [up EXCEPT ![s] = TRUE]
    /\ flags' = [flags EXCEPT ![s] = IF replica[s] THEN {"SYNC"} ELSE {}]
    /\ pause' = [pause EXCEPT ![s] = B(replica[s]) + B(init[s])]
    /\ reindex' = [reindex EXCEPT
                     ![s] = IF @ = "none" THEN "none" ELSE "wait"]
    /\ UNCHANGED <<replica, view, data, init, awake, fin, left, hist>>

-----------------------------------------------------------------------------
(* Flags.                                                                  *)

\* Mutant: the re-index flag of this server itself is not looked at.
CanEndReindex_NotOwn(s, f) == reindex[s] # "none" /\ available(f)

\* Mutant: the status is never updated.
CanEndReindex_Never(s, f) == FALSE

\* siridb_reindex_status_update, for the flags f of the other server.
CanEndReindex(s, f) ==
    /\ reindex[s] # "none"
    /\ "REINDEX" \notin flags[s]
    /\ available(f)

\* siridb_replicate_start is for idle tasks, not for paused ones.
Wakes(s) == "BACKUP" \notin flags[s]

BSERVER_flags_update(s) ==
    /\ up[s] /\ up[Peer(s)]
    /\ replica[s]
    /\ view' = [view EXCEPT ![s] = flags[Peer(s)]]
    /\ reindex' = [reindex EXCEPT
                     ![s] = IF CanEndReindex(s, view'[s]) THEN "none" ELSE @]
    /\ awake' = [awake EXCEPT ![s] = @ \/ Wakes(s)]
    /\ UNCHANGED <<up, flags, pause, replica, data, init, fin, left, hist>>

-----------------------------------------------------------------------------
(* Replication.                                                            *)

(* on_insert of clserver.c: the package goes to the fifo too.              *)
Insert(s) ==
    /\ up[s]
    /\ replica[s]
    /\ accessible(flags[s])
    /\ inserts < MaxInserts
    /\ inserts' = inserts + 1
    /\ data' = [data EXCEPT ![s] = TRUE]
    /\ awake' = [awake EXCEPT ![s] = TRUE]
    /\ UNCHANGED <<up, flags, pause, replica, view, init, fin, reindex, left,
                   stops, backups, pools>>

\* The last series of the initial synchronization has been sent.
INITSYNC_next_series_id(s) ==
    /\ up[s] /\ awake[s]
    /\ init[s]
    /\ synchronizing(view[s])
    /\ init' = [init EXCEPT ![s] = FALSE]
    /\ siri_optimize_continue(s)
    /\ UNCHANGED <<up, flags, replica, view, data, awake, fin, reindex, left,
                   hist>>

IsFinished(s) == synchronizing(view[s]) /\ ~data[s]

REPLICATE_work(s) ==
    /\ up[s] /\ awake[s]
    /\ ~init[s]
    /\ IF data[s] /\ (accessible(view[s]) \/ synchronizing(view[s]))
         THEN /\ data' = [data EXCEPT ![s] = FALSE]
              /\ UNCHANGED <<awake, fin>>
         ELSE /\ fin' = [fin EXCEPT ![Peer(s)] = @ \/ IsFinished(s)]
              /\ awake' = [awake EXCEPT ![s] = FALSE]
              /\ UNCHANGED data
    /\ UNCHANGED <<up, flags, pause, replica, view, init, reindex, left, hist>>

on_repl_finished(s) ==
    /\ up[s]
    /\ fin[s]
    /\ fin' = [fin EXCEPT ![s] = FALSE]
    /\ IF "SYNC" \in flags[s]
         THEN /\ flags' = [flags EXCEPT ![s] = @ \ {"SYNC"}]
              /\ siri_optimize_continue(s)
         ELSE UNCHANGED <<flags, pause>>
    /\ UNCHANGED <<up, replica, view, data, init, awake, reindex, left, hist>>

-----------------------------------------------------------------------------
(* Backup mode.                                                            *)

siri_backup_enable(s) ==
    /\ up[s]
    /\ "BACKUP" \notin flags[s]
    /\ backups < MaxBackups
    /\ "SYNC" \in flags[s] => "sync_backup" \in Env
    /\ reindex[s] # "none" => "reindex_backup" \in Env
    /\ backups' = backups + 1
    /\ flags' = [flags EXCEPT ![s] = @ \cup {"BACKUP"}]
    /\ IF "SYNC" \in flags[s] THEN UNCHANGED pause ELSE siri_optimize_pause(s)
    /\ awake' = [awake EXCEPT ![s] = FALSE]
    /\ UNCHANGED <<up, replica, view, data, init, fin, reindex, left, stops,
                   pools, inserts>>

\* "Optimize will be continued when synchronization has finished or now if
\* we do not have a replica server."
KeepsPause(s) == replica[s]

\* Mutant: the pause is returned at once, not handed over.
siri_backup_disable_Returns(s) ==
    /\ up[s]
    /\ "BACKUP" \in flags[s]
    /\ flags' = [flags EXCEPT
                   ![s] = (@ \ {"BACKUP"}) \cup
                          (IF KeepsPause(s) THEN {"SYNC"} ELSE {})]
    /\ awake' = [awake EXCEPT ![s] = @ \/ KeepsPause(s)]
    /\ siri_optimize_continue(s)
    /\ UNCHANGED <<up, replica, view, data, init, fin, reindex, left, hist>>

siri_backup_disable(s) ==
    /\ up[s]
    /\ "BACKUP" \in flags[s]
    /\ IF KeepsPause(s)
         THEN /\ flags' = [flags EXCEPT ![s] = (@ \ {"BACKUP"}) \cup {"SYNC"}]
              /\ awake' = [awake EXCEPT ![s] = TRUE]
              /\ UNCHANGED pause
         ELSE /\ flags' = [flags EXCEPT ![s] = @ \ {"BACKUP"}]
              /\ siri_optimize_continue(s)
              /\ UNCHANGED awake
    /\ UNCHANGED <<up, replica, view, data, init, fin, reindex, left, hist>>

-----------------------------------------------------------------------------
(* Other servers come and go.                                              *)

(* siridb_servers_register for a new pool: every server has to be exactly  *)
(* RUNNING; siridb_reindex_open(siridb, 1) makes the re-index task.        *)
siridb_servers_register ==
    /\ pools < MaxPools
    /\ \A s \in Servers : /\ up[s] /\ available(flags[s])
                          /\ replica[s] /\ available(view[s])
                          /\ reindex[s] = "none"
    /\ pools' = pools + 1
    /\ reindex' = [s \in Servers |-> "task"]
    /\ left' = [s \in Servers |-> TRUE]
    /\ flags' = [s \in Servers |-> {"REINDEX"}]
    /\ pause' = [s \in Servers |-> (pause[s] + 1) % UINT16]
    /\ UNCHANGED <<up, replica, view, data, init, awake, fin, stops, backups,
                   inserts>>

\* The last series has been moved: the end of REINDEX_next.
REINDEX_next(s) ==
    /\ up[s]
    /\ reindex[s] = "task"
    /\ left' = [left EXCEPT ![s] = FALSE]
    /\ flags' = [flags EXCEPT ![s] = @ \ {"REINDEX"}]
    /\ siri_optimize_continue(s)
    /\ reindex' = [reindex EXCEPT
                     ![s] = IF available(view[s]) THEN "none" ELSE "wait"]
    /\ UNCHANGED <<up, replica, view, data, init, awake, fin, hist>>

(* siridb_server_drop: the other server is not connected and is removed.   *)
siridb_server_drop(s) ==
    /\ up[s] /\ ~up[Peer(s)]
    /\ replica[s]
    /\ reindex[s] = "none"
    /\ flags[s] = {"SYNC"} \/ init[s] => "drop_sync" \in Env
    /\ replica' = [replica EXCEPT ![s] = FALSE]
    /\ flags' = [flags EXCEPT ![s] = @ \ {"SYNC"}]
    /\ init' = [init EXCEPT ![s] = FALSE]
    /\ data' = [data EXCEPT ![s] = FALSE]
    /\ awake' = [awake EXCEPT ![s] = FALSE]
    /\ UNCHANGED <<up, pause, view, fin, reindex, left, hist>>

-----------------------------------------------------------------------------

(* Server 2 has just been registered as the replica of server 1, which has *)
(* series to synchronize or not.                                           *)
Init ==
    /\ up = [s \in Servers |-> TRUE]
    /\ flags = [s \in Servers |-> IF s = 2 THEN {"SYNC"} ELSE {}]
    /\ init \in {[s \in Servers |-> s = 1 /\ b] : b \in BOOLEAN}
    /\ pause = [s \in Servers |-> B(s = 2 \/ init[s])]
    /\ replica = [s \in Servers |-> TRUE]
    /\ view = [s \in Servers |-> GONE]
    /\ data = [s \in Servers |-> FALSE]
    /\ awake = [s \in Servers |-> FALSE]
    /\ fin = [s \in Servers |-> FALSE]
    /\ reindex = [s \in Servers |-> "none"]
    /\ left = [s \in Servers |-> FALSE]
    /\ stops = 0 /\ backups = 0 /\ pools = 0 /\ inserts = 0

Steps(s) ==
    \/ BSERVER_flags_update(s)
    \/ INITSYNC_next_series_id(s)
    \/ REPLICATE_work(s)
    \/ on_repl_finished(s)
    \/ REINDEX_next(s)

Next ==
    \/ \E s \in Servers :
         \/ Steps(s)
         \/ Stop(s)
         \/ Start(s)
         \/ Insert(s)
         \/ siri_backup_enable(s)
         \/ siri_backup_disable(s)
         \/ siridb_server_drop(s)
    \/ siridb_servers_register

Spec == Init /\ [][Next]_vars

(* Heart-beats repeat, timers fire, messages arrive while both servers are *)
(* up, the series of a task are finitely many, and the operator starts a   *)
(* stopped server and ends a backup.                                       *)
Fairness ==
    \A s \in Servers :
        /\ WF_vars(BSERVER_flags_update(s))
        /\ WF_vars(INITSYNC_next_series_id(s))
        /\ WF_vars(REPLICATE_work(s))
        /\ WF_vars(on_repl_finished(s))
        /\ WF_vars(REINDEX_next(s))
        /\ WF_vars(Start(s))
        /\ WF_vars(siri_backup_disable(s))

FairSpec == Spec /\ Fairness

-----------------------------------------------------------------------------
(* Properties.                                                             *)

(* The type of every variable.                                             *)
TypeOK ==
    /\ up \in [Servers -> BOOLEAN]
    /\ flags \in [Servers -> SUBSET Flags]
    /\ pause \in [Servers -> 0 .. UINT16 - 1]
    /\ replica \in [Servers -> BOOLEAN]
    /\ view \in [Servers -> {GONE} \cup (SUBSET Flags)]
    /\ data \in [Servers -> BOOLEAN]
    /\ init \in [Servers -> BOOLEAN]
    /\ awake \in [Servers -> BOOLEAN]
    /\ fin \in [Servers -> BOOLEAN]
    /\ reindex \in [Servers -> {"none", "task", "wait"}]
    /\ left \in [Servers -> BOOLEAN]

(* pools.c: "pause optimize task while synchronize flag is set", and the   *)
(* same for the other reasons: the counter is the number of reasons, where *)
(* synchronizing and backup mode share one (siri_backup_disable hands its  *)
(* pause over to the synchronization).  Then the optimize task sleeps when *)
(* a file may be closed or a series moved, wakes up afterwards, and        *)
(* assert (optimize.pause) in siri_optimize_continue holds.                *)
PauseIsHeld ==
    \A s \in Servers : up[s] =>
        pause[s] = B(flags[s] \cap {"SYNC", "BACKUP"} # {})
                   + B("REINDEX" \in flags[s]) + B(init[s])

(* A server does not stay synchronizing, where it answers no query.        *)
SyncEnds ==
    \A s \in Servers : "SYNC" \in flags[s] ~> "SYNC" \notin flags[s]

(* What is in the fifo gets to the other server, whatever flags the two    *)
(* had, unless the other server drops this one.                            *)
BacklogIsSent ==
    \A s \in Servers : data[s] ~> ~data[s] \/ ~replica[Peer(s)]

(* siridb_reindex_status_update: "This task can destroy siridb->reindex    *)
(* when all servers are finished with re-indexing": not while the file     *)
(* still names series to be moved.                                         *)
ReindexIsDone ==
    \A s \in Servers : reindex[s] = "none" => ~left[s]

(* Every server learns that all are finished, and leaves the re-indexing   *)
(* state, in which half of the queries are refused.                        *)
ReindexEnds ==
    \A s \in Servers : reindex[s] # "none" ~> \/ reindex[s] = "none"
                                              \/ ~replica[Peer(s)]

(* The pause counter of the optimize task is exact after any order of      *)
(* synchronization, backup mode, re-indexing, drops and restarts.          *)
PausesOK ==
    /\ TypeOK
    /\ PauseIsHeld

(* No server waits for ever: synchronization, the sending of the backlog   *)
(* and re-indexing all come to an end.                                     *)
TasksEnd ==
    /\ SyncEnds
    /\ BacklogIsSent
    /\ ReindexEnds

=============================================================================
