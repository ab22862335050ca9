----------------------------- MODULE Replicate -----------------------------
(***************************************************************************)
(* Replication inside a pool: one server takes inserts and keeps its       *)
(* replica up to date (src/siri/db/replicate.c, initsync.c, the insert     *)
(* path of insert.c and net/bserver.c, siridb_servers_register, the        *)
(* promises of db/server.c and backup mode of siri/backup.c).              *)
(*                                                                         *)
(* A new replica first receives every series that existed when it was      *)
(* registered (the initial synchronization); packages with new points wait *)
(* in the fifo meanwhile.  A series that is still to be synchronized is    *)
(* left out of those packages, since its points will be read later.        *)
(*                                                                         *)
(* The fifo is the queue of ReplQueue.  A package is a set of points, a    *)
(* point is a series and a number; all callbacks of a server run in its    *)
(* main thread, so a callback is one action.  Release builds are modelled: *)
(* assertions are not evaluated.                                           *)
(***************************************************************************)
EXTENDS Integers, Sequences, FiniteSets

CONSTANTS
    Series,         \* series ids
    OldSeries,      \* series that have a point before the replica exists
    MaxPoints,      \* bound: points in a behaviour
    MaxFaults,      \* bound: network failures, restarts and early timeouts
    MaxBackups,     \* bound: times that backup mode is enabled
    Env             \* what the surroundings do, see Surroundings

Surroundings == {
    "restart",      \* this server crashes and starts again
    "refuse",       \* the replica answers with an error (it is closing)
    "backend",      \* inserts of other pools arrive while in backup mode
    "early",        \* a replica is registered while inserts are going on
    "init_backup",  \* backup mode comes during the initial synchronization
    "drop_server",  \* a disconnected replica is dropped
    "drop_series" } \* series are dropped

ASSUME ReplicateAssumption ==
    /\ Series \subseteq Nat
    /\ IsFiniteSet(Series)
    /\ OldSeries \subseteq Series
    /\ MaxPoints \in Nat \ {0} /\ MaxFaults \in Nat /\ MaxBackups \in Nat
    /\ Env \subseteq Surroundings

VARIABLES
    \* the points on this server
    data,           \* points stored
    tasks,          \* points of running insert tasks (siridb->insert_tasks)
    series,         \* siridb->series_map
    dropped,        \* series that were dropped
    n,              \* number of the next point
    \* the replication task
    replica,        \* siridb->replica # NULL
    status,         \* replicate->status
    timer,          \* the callback for which replicate->timer is set
    fifo, isopen,   \* the fifo, and whether its files are open
    init, initfp,   \* the series ids in the initsync file, is it open?
    initpkg,        \* initsync->pkg_points: <<>> or one package
    flagged,        \* series with flag SIRIDB_SERIES_INIT_REPL
    backup,         \* SERVER_FLAG_BACKUP_MODE
    \* the connection to the replica
    view,           \* the flags of the replica as known here
    promise,        \* is a promise for a data package open?
    msg, late,      \* its package on the way; packages that timed out
    reply,          \* the answer on the way back
    finmsg,         \* a BPROTO_REPL_FINISHED is on the way
    \* the replica
    bsync,          \* SERVER_FLAG_SYNCHRONIZING of the replica
    got,            \* how often each point was inserted
    \* history
    gaveUp,         \* points of packages committed with an error
    restarted,      \* was this server restarted?
    faults, backups

store == <<data, tasks, series, dropped, n>>
repl == <<status, timer>>
queue == <<fifo, isopen>>
isync == <<init, initfp, initpkg, flagged>>
net == <<view, promise, msg, late, reply, finmsg>>
peer == <<bsync, got>>
hist == <<gaveUp, restarted, faults, backups>>

vars == <<store, replica, repl, queue, isync, backup, net, peer, hist>>

Point == Series \X (1 .. MaxPoints)
Packages == {<<>>} \cup {<<p>> : p \in SUBSET Point}

Statuses == {"IDLE", "RUNNING", "PAUSED", "STOPPING"}
Timers == {"off", "REPLICATE_work", "INITSYNC_work", "INITSYNC_send"}

(* The exact-flag tests of server.h, on what is known of the replica.      *)
Connected == view # "gone"
siridb_server_is_synchronizing == view = "sync"
siridb_server_is_accessible == view = "online"

siridb_fifo_has_data == fifo # <<>>
insert_tasks == Cardinality(tasks)

Fault == faults < MaxFaults /\ faults' = faults + 1

-----------------------------------------------------------------------------
(* siridb_replicate_start, on the values that the variables have then.     *)

\* Mutant: the initial synchronization is forgotten.
siridb_replicate_start_NoInit(ids, pkg) ==
    /\ status' = "RUNNING"
    /\ timer' = "REPLICATE_work"

\* siridb_initsync_run
RunTimer(pkg) == IF pkg = <<>> THEN "INITSYNC_work" ELSE "INITSYNC_send"

siridb_replicate_start(ids, pkg) ==
    /\ status' = "RUNNING"
    /\ timer' = IF ids = <<>> THEN "REPLICATE_work" ELSE RunTimer(pkg)

\* Mutant: the status is not looked at.
StartIfIdle_Always == siridb_replicate_start(init, initpkg)

StartIfIdle ==
    IF status = "IDLE" THEN siridb_replicate_start(init, initpkg)
                       ELSE UNCHANGED repl

-----------------------------------------------------------------------------
(* Inserts.                                                                *)

\* Mutant: nothing is left out.
Filtered_Not(pkg) == pkg

\* siridb_replicate_pkg_filter
Filtered(pkg) == {p \in pkg : p[1] \notin flagged}

(* A package with a point for this pool: it is appended to the fifo, which *)
(* wakes up an idle task, and a local insert task is started.  In backup   *)
(* mode clients are refused; only inserts of other pools still come in.    *)
Insert(s) ==
    /\ n <= MaxPoints
    /\ s \notin dropped
    /\ backup => "backend" \in Env
    /\ n' = n + 1
    /\ tasks' = tasks \cup {<<s, n>>}
    /\ IF replica
         THEN /\ fifo' = Append(fifo, Filtered({<<s, n>>}))
              /\ StartIfIdle
         ELSE UNCHANGED <<fifo, repl>>
    /\ UNCHANGED <<data, series, dropped, replica, isopen, isync, backup,
                   net, peer, hist>>

(* INSERT_local_task and INSERT_local_free_cb: the point is stored.        *)
INSERT_local_task ==
    \E p \in tasks :
        /\ tasks' = tasks \ {p}
        /\ data' = data \cup {p}
        /\ series' = series \cup {p[1]}
        /\ UNCHANGED <<dropped, n, replica, repl, queue, isync, backup, net,
                       peer, hist>>

(* A series that is inserted again after a drop is another series.         *)
siridb_series_drop(s) ==
    /\ "drop_series" \in Env
    /\ s \in series
    /\ \A p \in tasks : p[1] # s
    /\ series' = series \ {s}
    /\ dropped' = dropped \cup {s}
    /\ data' = {p \in data : p[1] # s}
    /\ flagged' = flagged \ {s}
    /\ UNCHANGED <<tasks, n, replica, repl, queue, init, initfp, initpkg,
                   backup, net, peer, hist>>

-----------------------------------------------------------------------------
(* siridb_servers_register: a new, empty replica for this pool.            *)

\* imap_walk over the series: each id of S once, in some order.
IsWalk(ids, S) ==
    /\ \A s \in S : \E k \in DOMAIN ids : ids[k] = s
    /\ \A j, k \in DOMAIN ids : ids[j] = ids[k] => j = k

siridb_servers_register ==
    /\ ~replica
    /\ ~backup
    /\ tasks # {} => "early" \in Env
    /\ replica' = TRUE
    /\ flagged' = series
    /\ \E ids \in [1 .. Cardinality(series) -> series] :
         IsWalk(ids, series) /\ init' = ids
    /\ initfp' = (series # {})
    /\ initpkg' = <<>>
    /\ fifo' = <<>>
    /\ isopen' = TRUE
    /\ status' = "IDLE"
    /\ timer' = "off"
    /\ bsync' = TRUE
    /\ got' = [p \in Point |-> 0]
    /\ gaveUp' = {}
    /\ UNCHANGED <<store, backup, net, restarted, faults, backups>>

(* BSERVER_flags_update: the replica tells its flags, when it connects, at *)
(* every heart-beat and when they change.                                  *)
BSERVER_flags_update ==
    /\ replica
    /\ view' = IF bsync THEN "sync" ELSE "online"
    /\ StartIfIdle
    /\ UNCHANGED <<store, replica, queue, isync, backup, promise, msg, late,
                   reply, finmsg, peer, hist>>

-----------------------------------------------------------------------------
(* The replication task.                                                   *)

Send(pkg) ==
    /\ promise' = TRUE
    /\ msg' = <<pkg>>
    /\ UNCHANGED <<view, late, reply>>

\* Mutant: the test of the fifo is turned round.
IsFinished_HasData == siridb_server_is_synchronizing /\ siridb_fifo_has_data

IsFinished == siridb_server_is_synchronizing /\ ~siridb_fifo_has_data

REPLICATE_work ==
    /\ timer = "REPLICATE_work"
    /\ timer' = "off"
    /\ IF /\ status = "RUNNING"
          /\ siridb_fifo_has_data
          /\ siridb_server_is_accessible \/ siridb_server_is_synchronizing
         THEN /\ Send(Head(fifo))
              /\ UNCHANGED <<status, finmsg>>
         ELSE /\ status' = IF status = "STOPPING" THEN "PAUSED" ELSE "IDLE"
              /\ finmsg' = (finmsg \/ IsFinished)
              /\ UNCHANGED <<view, promise, msg, late, reply>>
    /\ UNCHANGED <<store, replica, queue, isync, backup, peer, hist>>

(* REPLICATE_on_repl_response.  Whatever the answer, the package is        *)
(* committed, unless it could not be written to the socket.                *)
REPLICATE_on_repl_response(result) ==
    /\ timer' = "REPLICATE_work"
    /\ CASE result = "WRITE_ERROR" -> UNCHANGED <<fifo, gaveUp>>
         [] result = "SUCCESS" -> fifo' = Tail(fifo) /\ UNCHANGED gaveUp
         [] OTHER -> fifo' = Tail(fifo) /\ gaveUp' = gaveUp \cup Head(fifo)
    /\ UNCHANGED <<status, isopen, isync>>

-----------------------------------------------------------------------------
(* The initial synchronization.                                            *)

Last(s) == s[Len(s)]

INITSYNC_pause ==
    /\ initfp' = FALSE
    /\ status' = "PAUSED"
    /\ timer' = "off"

(* The id that is done is cut off the file.  With the last one the file    *)
(* goes, and siridb_replicate_start is called whatever the status is.      *)
INITSYNC_next_series_id ==
    /\ initpkg' = <<>>
    /\ init' = SubSeq(init, 1, Len(init) - 1)
    /\ IF Len(init) >= 2
         THEN IF status = "STOPPING"
                THEN INITSYNC_pause
                ELSE timer' = RunTimer(<<>>) /\ UNCHANGED <<status, initfp>>
         ELSE initfp' = FALSE /\ siridb_replicate_start(<<>>, <<>>)

\* Mutant: running insert tasks are not waited for.
CanRead_Any == TRUE

CanRead == insert_tasks = 0

(* While insert tasks run the timer is set again, which changes nothing.   *)
INITSYNC_work ==
    /\ timer = "INITSYNC_work"
    /\ CanRead
    /\ \/ /\ Last(init) \in series
          /\ flagged' = flagged \ {Last(init)}
          /\ initpkg' = <<{p \in data : p[1] = Last(init)}>>
          /\ timer' = "INITSYNC_send"
          /\ UNCHANGED <<status, init, initfp>>
       \/ /\ Last(init) \notin series
          /\ INITSYNC_next_series_id
          /\ UNCHANGED flagged
    /\ UNCHANGED <<store, replica, queue, backup, net, peer, hist>>

(* When the replica is not synchronizing the timer is set again.           *)
INITSYNC_send ==
    /\ timer = "INITSYNC_send"
    /\ \/ /\ status = "STOPPING"
          /\ INITSYNC_pause
          /\ UNCHANGED net
       \/ /\ status # "STOPPING"
          /\ siridb_server_is_synchronizing
          /\ Send(initpkg[1])
          /\ timer' = "off"
          /\ UNCHANGED <<status, initfp, finmsg>>
    /\ UNCHANGED <<store, replica, queue, init, initpkg, flagged, backup,
                   peer, hist>>

INITSYNC_on_insert_response(result) ==
    /\ IF result = "WRITE_ERROR"
         THEN /\ timer' = "INITSYNC_send"
              /\ UNCHANGED <<status, init, initfp, initpkg, gaveUp>>
         ELSE /\ INITSYNC_next_series_id
              /\ gaveUp' = IF result = "SUCCESS" THEN gaveUp
                                                 ELSE gaveUp \cup initpkg[1]
    /\ UNCHANGED <<queue, flagged>>

-----------------------------------------------------------------------------
(* Promises: the ways in which an open promise ends.                       *)

Callback(result) ==
    /\ promise' = FALSE
    /\ reply' = "none"
    /\ IF init = <<>> THEN REPLICATE_on_repl_response(result)
                      ELSE INITSYNC_on_insert_response(result)
    /\ UNCHANGED <<store, replica, backup, view, finmsg, peer, restarted,
                   backups>>

\* on_data: the answer, an ACK or an error.
PromiseAnswered ==
    /\ promise
    /\ reply # "none"
    /\ Callback(IF reply = "ack" THEN "SUCCESS" ELSE "ERROR")
    /\ UNCHANGED <<msg, late, faults>>

(* SERVER_timeout_pkg: the package or its answer got lost, ...             *)
PromiseTimeout ==
    /\ promise
    /\ msg = <<>>
    /\ reply = "none"
    /\ Callback("TIMEOUT")
    /\ UNCHANGED <<msg, late, faults>>

(* ... or is slow, and then a late answer is ignored.                      *)
PromiseTimeoutEarly ==
    /\ promise
    /\ msg # <<>> \/ reply # "none"
    /\ Fault
    /\ late' = late \cup {msg[k] : k \in DOMAIN msg}
    /\ msg' = <<>>
    /\ Callback("TIMEOUT")

\* SERVER_write_cb with an error: the package was not sent.
PromiseWriteError ==
    /\ promise
    /\ msg # <<>>
    /\ Fault
    /\ msg' = <<>>
    /\ Callback("WRITE_ERROR")
    /\ UNCHANGED late

-----------------------------------------------------------------------------
(* The network and the replica.                                            *)

Stored(pkg) == [p \in Point |-> got[p] + (IF p \in pkg THEN 1 ELSE 0)]

(* on_insert on the replica; a server that is closing answers an error.    *)
ReplicaInserts ==
    /\ msg # <<>>
    /\ msg' = <<>>
    /\ \/ /\ got' = Stored(msg[1])
          /\ reply' = "ack"
          /\ UNCHANGED faults
       \/ /\ "refuse" \in Env
          /\ Fault
          /\ reply' = "error"
          /\ UNCHANGED got
    /\ UNCHANGED <<store, replica, repl, queue, isync, backup, view, promise,
                   late, finmsg, bsync, gaveUp, restarted, backups>>

ReplicaInsertsLate ==
    \E pkg \in late :
        /\ late' = late \ {pkg}
        /\ got' = Stored(pkg)
        /\ UNCHANGED <<store, replica, repl, queue, isync, backup, view,
                       promise, msg, reply, finmsg, bsync, hist>>

\* on_repl_finished on the replica, which then tells its flags.
on_repl_finished ==
    /\ finmsg
    /\ finmsg' = FALSE
    /\ bsync' = FALSE
    /\ UNCHANGED <<store, replica, repl, queue, isync, backup, view, promise,
                   msg, late, reply, got, hist>>

(* The connection breaks; what was on the way is lost.  A replica that     *)
(* restarts is synchronizing again.  Open promises wait for their timeout. *)
Disconnect ==
    /\ replica
    /\ Connected
    /\ Fault
    /\ view' = "gone"
    /\ msg' = <<>>
    /\ late' = {}
    /\ reply' = "none"
    /\ finmsg' = FALSE
    /\ bsync' \in {bsync, TRUE}
    /\ UNCHANGED <<store, replica, repl, queue, isync, backup, promise, got,
                   gaveUp, restarted, backups>>

-----------------------------------------------------------------------------
(* Backup mode.                                                            *)

\* siri_backup_enable and siridb_replicate_pause
siri_backup_enable ==
    /\ ~backup
    /\ backups < MaxBackups
    /\ init # <<>> => "init_backup" \in Env
    /\ backups' = backups + 1
    /\ backup' = TRUE
    /\ status' = IF ~replica THEN status
                 ELSE IF status = "IDLE" THEN "PAUSED" ELSE "STOPPING"
    /\ UNCHANGED <<store, replica, timer, queue, isync, net, peer, gaveUp,
                   restarted, faults>>

IsPaused == status = "PAUSED"

BACKUP_walk ==
    /\ backup
    /\ replica
    /\ IsPaused
    /\ isopen
    /\ isopen' = FALSE
    /\ UNCHANGED <<store, replica, repl, fifo, isync, backup, net, peer,
                   hist>>

OpenAgain == replica

\* siri_backup_disable and siridb_replicate_continue
siri_backup_disable ==
    /\ backup
    /\ backup' = FALSE
    /\ isopen' = OpenAgain
    /\ IF replica
         THEN /\ initfp' = (init # <<>>)
              /\ IF status = "STOPPING"
                   THEN status' = "RUNNING" /\ UNCHANGED timer
                   ELSE siridb_replicate_start(init, initpkg)
         ELSE UNCHANGED <<initfp, repl>>
    /\ UNCHANGED <<store, replica, fifo, init, initpkg, flagged, net, peer,
                   hist>>

-----------------------------------------------------------------------------
(* The end of a replica, and of this process.                              *)

\* siridb_initsync_open(siridb, 0): the series whose ids are in the file.
StillToSync == {s \in series : \E k \in DOMAIN init : init[k] = s}

(* The process starts again: POOLS_arrange finds the replica in the file   *)
(* of servers and siridb_initsync_open(siridb, 0) reads the ids that are   *)
(* left.                                                                   *)
StartAgain ==
    /\ restarted' = TRUE
    /\ tasks' = {}
    /\ flagged' = StillToSync
    /\ initpkg' = <<>>
    /\ initfp' = (init # <<>>)
    /\ isopen' = TRUE
    /\ status' = "IDLE"
    /\ timer' = "off"
    /\ backup' = FALSE
    /\ view' = "gone"
    /\ promise' = FALSE
    /\ msg' = <<>>
    /\ late' = late \cup {msg[k] : k \in DOMAIN msg}
    /\ reply' = "none"
    /\ finmsg' = FALSE
    /\ UNCHANGED <<data, series, dropped, n, replica, fifo, init, peer,
                   gaveUp, backups>>

Restart ==
    /\ "restart" \in Env
    /\ replica
    /\ Fault
    /\ StartAgain

\* siridb_replicate_close, siridb_replicate_free and siridb_fifo_free
FreeReplica ==
    /\ replica' = FALSE
    /\ status' = "IDLE"
    /\ timer' = "off"
    /\ fifo' = <<>>
    /\ isopen' = FALSE
    /\ init' = <<>>
    /\ initfp' = FALSE
    /\ initpkg' = <<>>
    /\ late' = {}
    /\ UNCHANGED <<store, flagged, backup, view, promise, msg, reply, finmsg,
                   peer, hist>>

(* siridb_server_drop, for a server that is not connected.  What it may    *)
(* still read from its socket concerns nobody any more.  A promise that is *)
(* still open is cancelled by siridb__server_free, and its callback finds  *)
(* siridb->replicate and siridb->fifo set to NULL: the process dies before *)
(* siridb_servers_save, and starts again with the replica it had.          *)
siridb_server_drop ==
    /\ "drop_server" \in Env
    /\ replica
    /\ ~Connected
    /\ \/ ~promise /\ FreeReplica
       \/ promise /\ StartAgain /\ UNCHANGED faults

-----------------------------------------------------------------------------

Init ==
    /\ data = {<<s, 1>> : s \in OldSeries}
    /\ tasks = {}
    /\ series = OldSeries
    /\ dropped = {}
    /\ n = 2
    /\ replica = FALSE
    /\ status = "IDLE"
    /\ timer = "off"
    /\ fifo = <<>>
    /\ isopen = FALSE
    /\ init = <<>>
    /\ initfp = FALSE
    /\ initpkg = <<>>
    /\ flagged = {}
    /\ backup = FALSE
    /\ view = "gone"
    /\ promise = FALSE
    /\ msg = <<>>
    /\ late = {}
    /\ reply = "none"
    /\ finmsg = FALSE
    /\ bsync = TRUE
    /\ got = [p \in Point |-> 0]
    /\ gaveUp = {}
    /\ restarted = FALSE
    /\ faults = 0
    /\ backups = 0

Task == REPLICATE_work \/ INITSYNC_work \/ INITSYNC_send

Promise ==
    PromiseAnswered \/ PromiseTimeout \/ PromiseTimeoutEarly \/ PromiseWriteError

Next ==
    \/ \E s \in Series : Insert(s)
    \/ INSERT_local_task
    \/ \E s \in Series : siridb_series_drop(s)
    \/ siridb_servers_register
    \/ BSERVER_flags_update
    \/ Task
    \/ Promise
    \/ ReplicaInserts
    \/ ReplicaInsertsLate
    \/ on_repl_finished
    \/ Disconnect
    \/ siri_backup_enable
    \/ BACKUP_walk
    \/ siri_backup_disable
    \/ siridb_server_drop
    \/ Restart

Spec == Init /\ [][Next]_vars

(* Timers fire, the event loop serves async handles and sockets, promises  *)
(* have timeouts, servers send heart-beats, and a backup ends.             *)
Fairness ==
    /\ WF_vars(INSERT_local_task)
    /\ WF_vars(Task)
    /\ WF_vars(PromiseAnswered)
    /\ WF_vars(PromiseTimeout)
    /\ WF_vars(ReplicaInserts)
    /\ WF_vars(on_repl_finished)
    /\ WF_vars(BSERVER_flags_update)
    /\ WF_vars(siri_backup_disable)

FairSpec == Spec /\ Fairness

-----------------------------------------------------------------------------
(* Properties.                                                             *)

(* The type of every variable.                                             *)
TypeOK ==
    /\ data \subseteq Point /\ tasks \subseteq Point
    /\ series \subseteq Series /\ dropped \subseteq Series
    /\ n \in 1 .. MaxPoints + 1
    /\ replica \in BOOLEAN
    /\ status \in Statuses /\ timer \in Timers
    /\ fifo \in Seq(SUBSET Point) /\ isopen \in BOOLEAN
    /\ init \in Seq(Series) /\ initfp \in BOOLEAN
    /\ initpkg \in Packages
    /\ flagged \subseteq Series
    /\ backup \in BOOLEAN
    /\ view \in {"gone", "sync", "online"}
    /\ promise \in BOOLEAN /\ msg \in Packages /\ late \subseteq SUBSET Point
    /\ reply \in {"none", "ack", "error"} /\ finmsg \in BOOLEAN
    /\ bsync \in BOOLEAN /\ got \in [Point -> Nat]
    /\ gaveUp \subseteq Point /\ restarted \in BOOLEAN
    /\ faults \in 0 .. MaxFaults /\ backups \in 0 .. MaxBackups

Queued == UNION {fifo[k] : k \in DOMAIN fifo}
InPkg == UNION {initpkg[k] : k \in DOMAIN initpkg}

(* No point is forgotten: once there is a replica, every stored point has  *)
(* reached it, or waits in the fifo, in the package of the series being    *)
(* synchronized or in a series that is still to be read, unless its        *)
(* package was committed with an error.                                    *)
Accounted ==
    replica => \A p \in data :
        \/ got[p] > 0
        \/ p \in gaveUp
        \/ p \in Queued \cup InPkg
        \/ p[1] \in flagged

(* The replica receives no point twice, as long as this server is not      *)
(* restarted: a point is never both in a package and in a series that is   *)
(* still to be read, and a package that timed out is not sent again.       *)
NoDuplicates ==
    ~restarted => \A p \in Point :
        /\ got[p] <= 1
        /\ p \in Queued => p \notin InPkg /\ p[1] \notin flagged
        /\ got[p] = 1 => p[1] \notin flagged

(* The replica leaves the synchronizing state, in which it refuses         *)
(* queries, only after the whole initial synchronization, when no series   *)
(* is left out of the packages any more.                                   *)
SyncedMeansComplete == ~bsync /\ replica => init = <<>> /\ flagged = {}

(* The replication task never dies and never forks: a running task waits   *)
(* for exactly one thing, its timer or the promise of the package it sent; *)
(* an idle or paused one waits for nothing.                                *)
OneContinuation ==
    IF status \in {"RUNNING", "STOPPING"}
      THEN (timer # "off") # promise
      ELSE timer = "off" /\ ~promise

(* siridb_fifo_close is called only when nothing is under way that will    *)
(* use the files: REPLICATE_work asserts that the fifo is open.            *)
ClosedIsQuiet ==
    replica /\ ~isopen => /\ timer = "off"
                          /\ ~promise
                          /\ status = "PAUSED"

(* Every stored point reaches the replica, or was given up, once the       *)
(* failures stop: the task is woken up whenever there is work.             *)
EventuallyReplicated ==
    replica ~> ~replica \/ \A p \in data : got[p] > 0 \/ p \in gaveUp

(* The replica gets out of the synchronizing state.                        *)
EventuallySynced == replica ~> ~replica \/ ~bsync

(* The replication task has one continuation as long as it works and none  *)
(* when it does not, and backup mode closes the fifo only in the latter    *)
(* case, whichever of inserts, flags, answers, time-outs, drops and        *)
(* restarts comes in between.                                              *)
TaskOK ==
    /\ TypeOK
    /\ OneContinuation
    /\ ClosedIsQuiet

(* Once the failures stop, the replica gets every point and leaves the     *)
(* synchronizing state.                                                    *)
EventuallyInSync ==
    /\ EventuallyReplicated
    /\ EventuallySynced

=============================================================================
