-------------------------- MODULE ReplicateProofs --------------------------
(***************************************************************************)
(* Proofs about the replication task: for any number of series, points,    *)
(* faults and backups no point is forgotten, none is sent twice, and the   *)
(* task neither forks nor dies.                                            *)
(***************************************************************************)
EXTENDS Replicate, FiniteSetTheorems, SequenceTheorems, TLAPS

-----------------------------------------------------------------------------
(* The inductive invariant of the task.                                    *)

(* A task pauses for backup mode only, and in backup mode it does not run  *)
(* by itself.  Backup mode waits for the initial synchronization.          *)
BackupStops ==
    /\ status \in {"PAUSED", "STOPPING"} => backup
    /\ backup /\ replica => status \in {"PAUSED", "STOPPING"}
    /\ backup => init = <<>>

(* Without a replica there is no task.                                     *)
NoReplica == ~replica => status = "IDLE" /\ init = <<>> /\ view = "gone"

(* The callback of the timer has what it works on.                         *)
TimerFits ==
    /\ timer = "REPLICATE_work" => init = <<>>
    /\ timer = "INITSYNC_work" => init # <<>> /\ initpkg = <<>>
    /\ timer = "INITSYNC_send" => init # <<>> /\ initpkg # <<>>
    /\ init = <<>> => initpkg = <<>>

(* So has the callback of the promise.                                     *)
PromiseFits == promise => (init = <<>> => fifo # <<>>) /\ (init # <<>> => initpkg # <<>>)

(* Nothing is on its way without a connection.                             *)
GoneIsSilent == view = "gone" => msg = <<>> /\ reply = "none" /\ ~finmsg

(* The replica is told that it is complete, or was told so, only when the  *)
(* initial synchronization is over.                                        *)
FinishedFits == replica /\ (finmsg \/ ~bsync) => init = <<>>

TaskInv ==
    /\ TypeOK /\ IsFiniteSet(tasks)
    /\ OneContinuation /\ ClosedIsQuiet
    /\ BackupStops /\ NoReplica /\ TimerFits /\ PromiseFits
    /\ GoneIsSilent /\ FinishedFits

-----------------------------------------------------------------------------
(* The inductive invariant of the initial synchronization.                 *)

(* A series that is left out of packages exists and is still in the file   *)
(* of the initial synchronization.                                         *)
FlaggedInFile ==
    /\ flagged \subseteq series
    /\ replica => \A s \in flagged : \E k \in DOMAIN init : init[k] = s

(* The package of the initial synchronization is of the last series of the *)
(* file, which is not left out any more.                                   *)
PkgIsLast ==
    initpkg # <<>> => /\ Last(init) \notin flagged
                      /\ \A p \in initpkg[1] : p[1] = Last(init)

FileInv == FlaggedInFile /\ PkgIsLast

-----------------------------------------------------------------------------
(* The inductive invariant of the points.                                  *)

(* The package that the open promise is about.                             *)
Sent == IF init = <<>> THEN fifo[1] ELSE initpkg[1]

(* What is on its way is what the promise is about, and its answer is.     *)
OnTheWay ==
    /\ msg # <<>> => promise /\ reply = "none" /\ msg[1] = Sent
    /\ reply # "none" => promise
    /\ reply = "ack" => \A p \in Sent : got[p] > 0

(* Where a point that is stored, or will be, has gone.                     *)
Known(p) == got[p] > 0 \/ p \in gaveUp \/ p \in Queued \cup InPkg \/ p[1] \in flagged

AccountInv ==
    /\ OnTheWay
    /\ \A p \in data : p[1] \in series
    /\ replica => \A p \in data \cup tasks : Known(p)

-----------------------------------------------------------------------------
(* The inductive invariant of the copies of a point.                       *)

InLate == UNION late

(* Numbers of points are not used yet from n on.                           *)
Fresh ==
    /\ \A p \in data \cup tasks \cup Queued \cup InPkg \cup InLate : p[2] < n
    /\ \A p \in Point : got[p] > 0 => p[2] < n

(* The packages have no point in common.                                   *)
Pairwise(f) == \A j, k \in DOMAIN f : j # k => f[j] \cap f[k] = {}

Disjoint ==
    /\ Pairwise(fifo)
    /\ \A a, b \in late : a # b => a \cap b = {}
    /\ Queued \cap InPkg = {}
    /\ (Queued \cup InPkg) \cap InLate = {}

(* A point that waits was not received, unless its answer got lost.        *)
NotYet ==
    /\ \A p \in InLate : got[p] = 0
    /\ \A p \in Queued \cup InPkg : got[p] = 0 \/ (promise /\ msg = <<>> /\ p \in Sent)
    /\ \A p \in Point : got[p] <= 1
    /\ \A p \in Point : p[1] \in flagged => got[p] = 0 /\ p \notin Queued \cup InPkg \cup InLate

(* A series in the file is left out of packages until its turn comes.      *)
FileIsFlagged ==
    /\ \A k \in DOMAIN init : init[k] \in series =>
            init[k] \in flagged \/ (k = Len(init) /\ initpkg # <<>>)
    /\ \A k \in DOMAIN init : init[k] \in series \cup dropped
    /\ \A p \in tasks : p[1] \notin dropped
    /\ \A j, k \in DOMAIN init : init[j] = init[k] => j = k

OnceInv ==
    ~restarted => /\ Fresh /\ Disjoint /\ NotYet /\ FileIsFlagged
                  /\ view = "gone" => late = {}

-----------------------------------------------------------------------------
(* Facts about the operators of Replicate.                                 *)

(* Points and packages.                                                    *)
LEMMA PackageFacts ==
  /\ <<>> \in Packages
  /\ \A P \in SUBSET Point : <<P>> \in Packages /\ <<P>> # <<>> /\ <<P>>[1] = P
  /\ \A m \in Packages : m # <<>> => /\ m[1] \in SUBSET Point
                                     /\ \E P \in SUBSET Point : m = <<P>>
  BY DEF Packages

LEMMA SeriesFinite == \A S \in SUBSET Series : Cardinality(S) \in Nat /\ IsFiniteSet(S)
  BY ReplicateAssumption, FS_Subset, FS_CardinalityType

(* The two outcomes of siridb_server_drop, of which the second is also     *)
(* that of a restart.                                                      *)
Dropped == replica /\ ~Connected /\ ~promise /\ FreeReplica
Again == replica /\ StartAgain /\ faults' \in 0 .. MaxFaults

LEMMA DropFacts ==
  ASSUME TypeOK, siridb_server_drop \/ Restart
  PROVE  Dropped \/ Again
<1>1. faults \in 0 .. MaxFaults
  BY DEF TypeOK
<1>2. CASE siridb_server_drop
  BY <1>1, <1>2 DEF siridb_server_drop, Dropped, Again
<1>3. CASE Restart
  <2>1. faults' \in 0 .. MaxFaults
    BY <1>1, <1>3, ReplicateAssumption DEF Restart, Fault
  <2> QED
    BY <1>3, <2>1 DEF Restart, Again
<1> QED
  BY <1>2, <1>3

(* The ids that siridb_servers_register writes.                            *)
LEMMA WalkType ==
  ASSUME NEW S \in SUBSET Series, NEW ids \in [1 .. Cardinality(S) -> S]
  PROVE  ids \in Seq(Series)
  BY SeriesFinite

(* A package that is appended or removed.                                  *)
LEMMA FifoFacts ==
  ASSUME NEW f \in Seq(SUBSET Point)
  PROVE  /\ \A P \in SUBSET Point : Append(f, P) \in Seq(SUBSET Point) /\ Append(f, P) # <<>>
         /\ f # <<>> => /\ Head(f) \in SUBSET Point /\ Head(f) = f[1]
                        /\ Tail(f) \in Seq(SUBSET Point)
  BY EmptySeq, AppendProperties, HeadTailProperties

(* The file of the initial synchronization without its last id.            *)
Cut(f) == SubSeq(f, 1, Len(f) - 1)

LEMMA IdsFacts ==
  ASSUME NEW f \in Seq(Series), f # <<>>
  PROVE  /\ Cut(f) \in Seq(Series) /\ Len(Cut(f)) = Len(f) - 1
         /\ \A k \in 1 .. Len(f) - 1 : Cut(f)[k] = f[k]
         /\ Len(f) \in Nat \ {0} /\ Last(f) \in Series /\ Last(f) = f[Len(f)]
         /\ Len(f) >= 2 <=> Cut(f) # <<>>
<1>1. Len(f) \in Nat \ {0} /\ DOMAIN f = 1 .. Len(f) /\ \A k \in 1 .. Len(f) : f[k] \in Series
  BY EmptySeq, LenProperties, ElementOfSeq
<1>2. \A k \in 1 .. Len(f) - 1 : f[k] \in Series
  BY <1>1
<1>3. /\ Cut(f) \in Seq(Series)
      /\ Len(Cut(f)) = Len(f) - 1
      /\ \A k \in 1 .. Len(f) - 1 : Cut(f)[k] = f[k]
  <2>1. Len(f) - 1 \in Int /\ 1 \in Int
    BY <1>1
  <2>2. /\ Cut(f) \in Seq(Series)
        /\ Len(Cut(f)) = IF 1 <= Len(f) - 1 THEN (Len(f) - 1) - 1 + 1 ELSE 0
        /\ \A k \in 1 .. (Len(f) - 1) - 1 + 1 : Cut(f)[k] = f[1 + k - 1]
    BY <1>2, <2>1, SubSeqProperties DEF Cut
  <2>3. \A m \in Nat \ {0} : (IF 1 <= m - 1 THEN (m - 1) - 1 + 1 ELSE 0) = m - 1
    OBVIOUS
  <2>5. Len(Cut(f)) = Len(f) - 1
    BY ONLY <1>1, <2>2, <2>3, Zenon
  <2>4. ASSUME NEW k \in 1 .. Len(f) - 1 PROVE Cut(f)[k] = f[k]
    <3>1. k \in 1 .. (Len(f) - 1) - 1 + 1 /\ 1 + k - 1 = k
      BY <1>1, <2>4
    <3> QED BY <2>2, <3>1
  <2> QED BY <2>2, <2>4, <2>5
<1>4. Len(f) >= 2 <=> Cut(f) # <<>>
  BY <1>1, <1>3, EmptySeq
<1> QED
  BY <1>1, <1>3, <1>4 DEF Last

-----------------------------------------------------------------------------
(* The task.                                                               *)

LEMMA TaskInit == Init => TaskInv
<1> SUFFICES ASSUME Init PROVE TaskInv
  OBVIOUS
<1>1. TypeOK
  <2>1. data \subseteq Point /\ series \subseteq Series
    BY ReplicateAssumption DEF Init, Point
  <2>2. n \in 1 .. MaxPoints + 1 /\ faults \in 0 .. MaxFaults /\ backups \in 0 .. MaxBackups
    BY ReplicateAssumption DEF Init
  <2>3. fifo \in Seq(SUBSET Point) /\ init \in Seq(Series) /\ initpkg \in Packages
        /\ msg \in Packages
    BY PackageFacts, EmptySeq DEF Init
  <2>4. got \in [Point -> Nat]
    BY DEF Init
  <2> QED
    BY <2>1, <2>2, <2>3, <2>4 DEF Init, TypeOK, Statuses, Timers
<1>2. IsFiniteSet(tasks)
  BY FS_EmptySet DEF Init
<1> QED
  BY <1>1, <1>2
  DEF Init, TaskInv, OneContinuation, ClosedIsQuiet, BackupStops, NoReplica, TimerFits,
      PromiseFits, GoneIsSilent, FinishedFits

(* A task that is started, if it was idle, has one continuation.           *)
LEMMA StartFacts ==
  ASSUME TaskInv, StartIfIdle
  PROVE  /\ status' \in Statuses /\ timer' \in Timers
         /\ IF status' \in {"RUNNING", "STOPPING"}
              THEN (timer' # "off") # promise
              ELSE timer' = "off" /\ ~promise
         /\ status = "IDLE" => status' = "RUNNING"
         /\ status # "IDLE" => status' = status /\ timer' = timer
         /\ timer' = "REPLICATE_work" => init = <<>>
         /\ timer' = "INITSYNC_work" => init # <<>> /\ initpkg = <<>>
         /\ timer' = "INITSYNC_send" => init # <<>> /\ initpkg # <<>>
  BY DEF StartIfIdle, siridb_replicate_start, RunTimer, repl, TaskInv, TypeOK, OneContinuation,
         TimerFits, Statuses, Timers

USE DEF store, repl, queue, isync, net, peer, hist

LEMMA TaskNext ==
  ASSUME "init_backup" \notin Env
  PROVE  TaskInv /\ [Next]_vars => TaskInv'
<1> SUFFICES ASSUME TaskInv, [Next]_vars PROVE TaskInv'
  OBVIOUS
<1> USE DEF TaskInv, TypeOK, OneContinuation, ClosedIsQuiet, BackupStops, NoReplica, TimerFits,
            PromiseFits, GoneIsSilent, FinishedFits
<1>1. ASSUME NEW s \in Series, Insert(s) PROVE TaskInv'
  <2>1. <<s, n>> \in Point /\ n' \in 1 .. MaxPoints + 1
    BY <1>1, ReplicateAssumption DEF Insert, Point
  <2>2. tasks' \subseteq Point /\ IsFiniteSet(tasks')
    BY <1>1, <2>1, FS_AddElement DEF Insert
  <2>3. Filtered({<<s, n>>}) \in SUBSET Point
    BY <2>1 DEF Filtered
  <2>4. CASE replica
    <3>1. StartIfIdle /\ fifo' \in Seq(SUBSET Point) /\ fifo' # <<>>
      BY <1>1, <2>3, <2>4, FifoFacts DEF Insert
    <3> QED
      BY <1>1, <2>1, <2>2, <2>4, <3>1, StartFacts DEF Insert
  <2>5. CASE ~replica
    BY <1>1, <2>1, <2>2, <2>5 DEF Insert
  <2> QED
    BY <2>4, <2>5
<1>2. CASE INSERT_local_task
  BY <1>2, FS_RemoveElement DEF INSERT_local_task, Point
<1>3. ASSUME NEW s \in Series, siridb_series_drop(s) PROVE TaskInv'
  BY <1>3 DEF siridb_series_drop
<1>4. CASE siridb_servers_register
  BY <1>4, WalkType, PackageFacts DEF siridb_servers_register, Statuses, Timers
<1>5. CASE BSERVER_flags_update
  BY <1>5, StartFacts DEF BSERVER_flags_update
<1>6. CASE REPLICATE_work
  BY <1>6, FifoFacts, PackageFacts, ZenonT(60) DEF REPLICATE_work, Send, IsFinished, Statuses, Timers,
     siridb_fifo_has_data, siridb_server_is_accessible, siridb_server_is_synchronizing
<1>7. CASE INITSYNC_work
  BY <1>7, IdsFacts, PackageFacts, ZenonT(60) DEF INITSYNC_work, INITSYNC_next_series_id, INITSYNC_pause,
     siridb_replicate_start, RunTimer, Cut, Statuses, Timers
<1>8. CASE INITSYNC_send
  BY <1>8, PackageFacts DEF INITSYNC_send, INITSYNC_pause, Send, Statuses, Timers,
     siridb_server_is_synchronizing
<1>9. ASSUME NEW r \in {"SUCCESS", "ERROR", "TIMEOUT", "WRITE_ERROR"}, promise, Callback(r),
             late' \in SUBSET SUBSET Point, faults' \in 0 .. MaxFaults,
             msg' \in Packages, view = "gone" => msg' = <<>>
      PROVE  TaskInv'
  <2>1. CASE init = <<>>
    <3>1. fifo # <<>>
      BY <1>9, <2>1
    <3>2. fifo' \in Seq(SUBSET Point) /\ gaveUp' \subseteq Point
      BY <1>9, <2>1, <3>1, FifoFacts DEF Callback, REPLICATE_on_repl_response
    <3> QED
      BY <1>9, <2>1, <3>2, ZenonT(60) DEF Callback, REPLICATE_on_repl_response, Statuses, Timers
  <2>2. CASE init # <<>> /\ r = "WRITE_ERROR"
    <3>1. /\ timer' = "INITSYNC_send" /\ promise' = FALSE /\ reply' = "none"
          /\ status' = status /\ init' = init /\ initfp' = initfp /\ initpkg' = initpkg
          /\ gaveUp' = gaveUp /\ fifo' = fifo /\ isopen' = isopen /\ flagged' = flagged
          /\ UNCHANGED <<store, replica, backup, view, finmsg, peer, restarted, backups>>
      BY <1>9, <2>2 DEF Callback, INITSYNC_on_insert_response
    <3>2. initpkg # <<>> /\ ~backup /\ status = "RUNNING" /\ timer = "off"
      BY <1>9, <2>2 DEF Statuses
    <3>3. TypeOK'
      BY <1>9, <3>1 DEF Timers
    <3> QED
      BY <1>9, <2>2, <3>1, <3>2, <3>3
  <2>3. CASE init # <<>> /\ r # "WRITE_ERROR"
    <3>1. initpkg # <<>> /\ ~backup /\ status = "RUNNING"
      BY <1>9, <2>3 DEF Statuses
    <3>2. gaveUp' \subseteq Point /\ INITSYNC_next_series_id
      BY <1>9, <2>3, <3>1, PackageFacts DEF Callback, INITSYNC_on_insert_response
    <3>3. init' = Cut(init) /\ initpkg' = <<>> /\ initpkg' \in Packages
      BY <3>2, PackageFacts DEF INITSYNC_next_series_id, Cut
    <3>4. init' \in Seq(Series) /\ (Len(init) >= 2 <=> init' # <<>>)
      BY <2>3, <3>3, IdsFacts
    <3> QED
      BY <1>9, <2>3, <3>1, <3>2, <3>3, <3>4
      DEF Callback, INITSYNC_on_insert_response, INITSYNC_next_series_id, INITSYNC_pause,
          siridb_replicate_start, RunTimer, Statuses, Timers
  <2> QED
    BY <2>1, <2>2, <2>3
<1>10. CASE PromiseAnswered
  BY <1>10, <1>9 DEF PromiseAnswered
<1>11. CASE PromiseTimeout
  BY <1>11, <1>9 DEF PromiseTimeout
<1>12. CASE PromiseTimeoutEarly
  <2>1. late' \in SUBSET SUBSET Point
    BY <1>12, PackageFacts DEF PromiseTimeoutEarly, Packages
  <2>2. promise /\ Callback("TIMEOUT") /\ msg' = <<>> /\ Fault
    BY <1>12 DEF PromiseTimeoutEarly
  <2>3. faults' \in 0 .. MaxFaults
    BY <2>2, ReplicateAssumption DEF Fault
  <2>4. msg' \in Packages
    BY <2>2, PackageFacts
  <2> QED
    BY <1>9, <2>1, <2>2, <2>3, <2>4
<1>13. CASE PromiseWriteError
  <2>1. promise /\ Callback("WRITE_ERROR") /\ late' = late /\ msg' = <<>> /\ Fault
    BY <1>13 DEF PromiseWriteError
  <2>2. faults' \in 0 .. MaxFaults
    BY <2>1, ReplicateAssumption DEF Fault
  <2>3. msg' \in Packages /\ late' \in SUBSET SUBSET Point
    BY <2>1, PackageFacts
  <2> QED
    BY <1>9, <2>1, <2>2, <2>3
<1>14. CASE ReplicaInserts
  <2>1. faults' \in 0 .. MaxFaults
    BY <1>14, ReplicateAssumption DEF ReplicaInserts, Fault
  <2>2. got' \in [Point -> Nat]
    BY <1>14 DEF ReplicaInserts, Stored
  <2>3. msg' = <<>> /\ msg' \in Packages
    BY <1>14, PackageFacts DEF ReplicaInserts
  <2> QED
    BY <1>14, <2>1, <2>2, <2>3 DEF ReplicaInserts
<1>15. CASE ReplicaInsertsLate
  BY <1>15 DEF ReplicaInsertsLate, Stored
<1>16. CASE on_repl_finished
  BY <1>16 DEF on_repl_finished
<1>17. CASE Disconnect
  <2>1. faults' \in 0 .. MaxFaults
    BY <1>17, ReplicateAssumption DEF Disconnect, Fault
  <2>2. bsync' \in BOOLEAN /\ (~bsync' => ~bsync)
    <3>1. bsync \in BOOLEAN /\ (bsync' = bsync \/ bsync' = TRUE)
      BY <1>17 DEF Disconnect
    <3>2. CASE bsync' = bsync
      BY <3>1, <3>2, Zenon
    <3>3. CASE bsync' = TRUE
      BY <3>3, Zenon
    <3> QED
      BY <3>1, <3>2, <3>3
  <2> QED
    BY <1>17, <2>1, <2>2, PackageFacts DEF Disconnect
<1>18. CASE siri_backup_enable
  BY <1>18, ReplicateAssumption DEF siri_backup_enable, Statuses
<1>19. CASE BACKUP_walk
  BY <1>19, ZenonT(60) DEF BACKUP_walk, IsPaused
<1>20. CASE siri_backup_disable
  BY <1>20, ZenonT(60) DEF siri_backup_disable, OpenAgain, siridb_replicate_start, RunTimer, Statuses, Timers
<1>21. CASE Dropped
  BY <1>21, PackageFacts, EmptySeq DEF Dropped, FreeReplica, Connected, Statuses, Timers
<1>22. CASE Again
  <2>1. late' \in SUBSET SUBSET Point /\ flagged' \subseteq Series
    BY <1>22, PackageFacts DEF Again, StartAgain, Packages, StillToSync
  <2>2. faults' \in 0 .. MaxFaults
    BY <1>22 DEF Again
  <2>3. initfp' \in BOOLEAN
    BY <1>22 DEF Again, StartAgain
  <2> QED
    BY <1>22, <2>1, <2>2, <2>3, PackageFacts, FS_EmptySet
    DEF Again, StartAgain, Statuses, Timers
<1>23. CASE UNCHANGED vars
  BY <1>23 DEF vars
<1> QED
  BY <1>1, <1>2, <1>3, <1>4, <1>5, <1>6, <1>7, <1>8, <1>10, <1>11, <1>12, <1>13, <1>14, <1>15,
     <1>16, <1>17, <1>18, <1>19, <1>20, <1>21, <1>22, <1>23, DropFacts DEF Next, Task, Promise

-----------------------------------------------------------------------------
(* The initial synchronization.                                            *)

(* Cutting the last id off the file loses no other id.                     *)
LEMMA CutKeeps ==
  ASSUME NEW f \in Seq(Series), f # <<>>,
         NEW s, s # Last(f), \E k \in DOMAIN f : f[k] = s
  PROVE  \E k \in DOMAIN Cut(f) : Cut(f)[k] = s
<1>1. PICK k \in DOMAIN f : f[k] = s
  OBVIOUS
<1>2. DOMAIN f = 1 .. Len(f) /\ Len(f) \in Nat \ {0} /\ Last(f) = f[Len(f)]
  BY IdsFacts, LenProperties
<1>3. k \in 1 .. Len(f) - 1
  BY <1>1, <1>2
<1>4. k \in DOMAIN Cut(f) /\ Cut(f)[k] = s
  BY <1>1, <1>3, IdsFacts, LenProperties
<1> QED
  BY <1>4

LEMMA FileNext ==
  ASSUME TaskInv, FileInv, [Next]_vars
  PROVE  FileInv'
<1> USE DEF FileInv, FlaggedInFile, PkgIsLast
<1>1. ASSUME NEW s \in Series, Insert(s) PROVE FileInv'
  BY <1>1 DEF Insert
<1>2. CASE INSERT_local_task
  BY <1>2 DEF INSERT_local_task
<1>3. ASSUME NEW s \in Series, siridb_series_drop(s) PROVE FileInv'
  BY <1>3 DEF siridb_series_drop
<1>4. CASE siridb_servers_register
  BY <1>4 DEF siridb_servers_register, IsWalk
<1>5. CASE BSERVER_flags_update
  BY <1>5 DEF BSERVER_flags_update
<1>6. CASE REPLICATE_work
  BY <1>6 DEF REPLICATE_work
<1>7. ASSUME replica, init # <<>>, Last(init) \notin flagged, initpkg' = <<>>, init' = Cut(init),
             UNCHANGED <<flagged, series>>
      PROVE  FileInv'
  <2>1. init \in Seq(Series)
    BY DEF TaskInv, TypeOK
  <2>2. \A s \in flagged' : \E k \in DOMAIN init' : init'[k] = s
    BY <1>7, <2>1, CutKeeps
  <2> QED
    BY <1>7, <2>2
<1>8. CASE INITSYNC_work
  <2>1. replica /\ init # <<>>
    BY <1>8 DEF TaskInv, INITSYNC_work, TimerFits, NoReplica, OneContinuation
  <2>2. CASE Last(init) \in series
    <3>1. /\ flagged' = flagged \ {Last(init)} /\ initpkg' = <<{p \in data : p[1] = Last(init)}>>
          /\ UNCHANGED <<init, series, replica>>
      BY <1>8, <2>2 DEF INITSYNC_work
    <3> QED
      BY <3>1
  <2>3. CASE Last(init) \notin series
    BY <1>7, <1>8, <2>1, <2>3 DEF INITSYNC_work, INITSYNC_next_series_id, Cut
  <2> QED
    BY <2>2, <2>3
<1>9. CASE INITSYNC_send
  BY <1>9 DEF INITSYNC_send
<1>10. ASSUME NEW r, promise, Callback(r) PROVE FileInv'
  <2>1. CASE init = <<>>
    BY <1>10, <2>1 DEF Callback, REPLICATE_on_repl_response
  <2>2. CASE init # <<>> /\ r = "WRITE_ERROR"
    BY <1>10, <2>2 DEF Callback, INITSYNC_on_insert_response
  <2>3. CASE init # <<>> /\ r # "WRITE_ERROR"
    <3>1. replica /\ initpkg # <<>>
      BY <1>10, <2>3 DEF TaskInv, NoReplica, PromiseFits
    <3> QED
      BY <1>7, <1>10, <2>3, <3>1 DEF Callback, INITSYNC_on_insert_response,
         INITSYNC_next_series_id, Cut
  <2> QED
    BY <2>1, <2>2, <2>3
<1>11. CASE Promise
  BY <1>10, <1>11 DEF Promise, PromiseAnswered, PromiseTimeout, PromiseTimeoutEarly,
     PromiseWriteError
<1>12. CASE ReplicaInserts
  BY <1>12 DEF ReplicaInserts
<1>13. CASE ReplicaInsertsLate
  BY <1>13 DEF ReplicaInsertsLate
<1>14. CASE on_repl_finished
  BY <1>14 DEF on_repl_finished
<1>15. CASE Disconnect
  BY <1>15 DEF Disconnect
<1>16. CASE siri_backup_enable \/ BACKUP_walk \/ siri_backup_disable
  BY <1>16 DEF siri_backup_enable, BACKUP_walk, siri_backup_disable
<1>17. CASE Dropped
  BY <1>17 DEF Dropped, FreeReplica
<1>18. CASE Again
  BY <1>18 DEF Again, StartAgain, StillToSync
<1>19. CASE UNCHANGED vars
  BY <1>19 DEF vars
<1> QED
  BY <1>1, <1>2, <1>3, <1>4, <1>5, <1>6, <1>8, <1>9, <1>11, <1>12, <1>13, <1>14, <1>15, <1>16,
     <1>17, <1>18, <1>19, DropFacts DEF Next, Task, TaskInv

-----------------------------------------------------------------------------
(* Theorems about the task and the initial synchronization.                *)

(* The task and file invariants hold unless backup mode comes during the   *)
(* initial synchronization.                                                *)
LEMMA TaskAndFile ==
  ASSUME "init_backup" \notin Env
  PROVE  Spec => [](TaskInv /\ FileInv)
<1>1. Init => TaskInv /\ FileInv
  BY TaskInit DEF Init, FileInv, FlaggedInFile, PkgIsLast
<1>2. TaskInv /\ FileInv /\ [Next]_vars => (TaskInv /\ FileInv)'
  BY TaskNext, FileNext
<1> QED
  BY <1>1, <1>2, PTL DEF Spec

(* siridb_replicate_start and its callers: for any number of series,       *)
(* points, faults and backups the task has one continuation as long as it  *)
(* works and none when it does not, and backup mode closes the fifo only   *)
(* then.                                                                   *)
THEOREM TaskOKHolds ==
  ASSUME "init_backup" \notin Env
  PROVE  Spec => []TaskOK
<1>1. TaskInv => TaskOK
  BY DEF TaskInv, TaskOK
<1>2. Spec => [](TaskInv /\ FileInv)
  BY TaskAndFile
<1> QED
  BY <1>1, <1>2, PTL

(* INITSYNC_next_series_id and REPLICATE_work: a replica that was told     *)
(* that it is complete has received every series that existed when it was  *)
(* registered, and no series is left out of its packages.                  *)
THEOREM SyncedMeansCompleteHolds ==
  ASSUME "init_backup" \notin Env
  PROVE  Spec => []SyncedMeansComplete
<1>1. TaskInv /\ FileInv => SyncedMeansComplete
  <2> SUFFICES ASSUME TaskInv, FileInv, ~bsync, replica PROVE init = <<>> /\ flagged = {}
    BY DEF SyncedMeansComplete
  <2>1. init = <<>>
    BY DEF TaskInv, FinishedFits
  <2>2. \A s \in flagged : FALSE
    BY <2>1 DEF FileInv, FlaggedInFile
  <2> QED
    BY <2>1, <2>2
<1>2. Spec => [](TaskInv /\ FileInv)
  BY TaskAndFile
<1> QED
  BY <1>1, <1>2, PTL

-----------------------------------------------------------------------------
(* The points.                                                             *)

(* The points in a sequence of packages.                                   *)
In(f) == UNION {f[k] : k \in DOMAIN f}

LEMMA QueuedIsIn ==
  /\ Queued = In(fifo) /\ InPkg = In(initpkg)
  /\ Queued' = In(fifo') /\ InPkg' = In(initpkg')
  BY DEF Queued, InPkg, In

LEMMA InFacts ==
  ASSUME NEW f \in Seq(SUBSET Point)
  PROVE  /\ \A P \in SUBSET Point : In(Append(f, P)) = In(f) \cup P
         /\ f # <<>> => In(f) = f[1] \cup In(Tail(f))
         /\ In(f) \in SUBSET Point
<1>1. ASSUME NEW P \in SUBSET Point PROVE In(Append(f, P)) = In(f) \cup P
  <2>1. /\ Len(f) \in Nat /\ DOMAIN f = 1 .. Len(f) /\ DOMAIN Append(f, P) = 1 .. Len(f) + 1
        /\ \A k \in 1 .. Len(f) : Append(f, P)[k] = f[k]
        /\ Append(f, P)[Len(f) + 1] = P
    BY LenProperties, AppendProperties
  <2>2. DOMAIN Append(f, P) = DOMAIN f \cup {Len(f) + 1}
    BY <2>1
  <2>3. \A k \in DOMAIN f : Append(f, P)[k] = f[k]
    BY <2>1
  <2> QED
    BY ONLY <2>1, <2>2, <2>3, ZenonT(60) DEF In
<1>2. ASSUME f # <<>> PROVE In(f) = f[1] \cup In(Tail(f))
  <2>1. /\ Len(f) \in Nat \ {0} /\ DOMAIN f = 1 .. Len(f) /\ DOMAIN Tail(f) = 1 .. Len(f) - 1
        /\ \A k \in 1 .. Len(f) - 1 : Tail(f)[k] = f[k + 1]
    BY <1>2, EmptySeq, LenProperties, HeadTailProperties
  <2>2. ASSUME NEW p, p \in In(f), p \notin f[1] PROVE p \in In(Tail(f))
    <3>1. PICK k \in DOMAIN f : p \in f[k]
      BY <2>2 DEF In
    <3>2. k - 1 \in DOMAIN Tail(f) /\ Tail(f)[k - 1] = f[k]
      <4>1. k # 1 /\ k \in 1 .. Len(f)
        BY <2>1, <2>2, <3>1
      <4>2. k - 1 \in 1 .. Len(f) - 1 /\ (k - 1) + 1 = k
        BY <2>1, <4>1
      <4> QED
        BY <2>1, <4>2
    <3> QED
      BY <3>1, <3>2 DEF In
  <2>3. ASSUME NEW p, p \in In(Tail(f)) PROVE p \in In(f)
    <3>1. PICK k \in DOMAIN Tail(f) : p \in Tail(f)[k]
      BY <2>3 DEF In
    <3>2. k + 1 \in DOMAIN f /\ Tail(f)[k] = f[k + 1]
      BY <2>1, <3>1
    <3> QED
      BY <3>1, <3>2 DEF In
  <2>4. f[1] \subseteq In(f)
    BY <2>1 DEF In
  <2> QED
    BY <2>2, <2>3, <2>4
<1>3. In(f) \in SUBSET Point
  BY LenProperties, ElementOfSeq DEF In
<1> QED
  BY <1>1, <1>2, <1>3

LEMMA InPackage ==
  /\ In(<<>>) = {}
  /\ \A m \in Packages : m # <<>> => In(m) = m[1]
<1>1. In(<<>>) = {}
  BY DEF In
<1>2. ASSUME NEW P \in SUBSET Point PROVE In(<<P>>) = P
  <2>1. DOMAIN <<P>> = {1} /\ <<P>>[1] = P
    OBVIOUS
  <2> QED
    BY <2>1, Zenon DEF In
<1> QED
  BY <1>1, <1>2, PackageFacts

(* What the open promise is about is a package.                            *)
LEMMA SentFacts ==
  ASSUME TaskInv, promise
  PROVE  /\ Sent \in SUBSET Point
         /\ init = <<>> => fifo # <<>> /\ Sent = Head(fifo) /\ Queued = Sent \cup In(Tail(fifo))
         /\ init # <<>> => initpkg # <<>> /\ Sent = initpkg[1] /\ InPkg = Sent
<1>1. CASE init = <<>>
  <2>1. fifo # <<>> /\ fifo \in Seq(SUBSET Point)
    BY <1>1 DEF TaskInv, PromiseFits, TypeOK
  <2> QED
    BY <1>1, <2>1, FifoFacts, InFacts, QueuedIsIn DEF Sent
<1>2. CASE init # <<>>
  <2>1. initpkg # <<>> /\ initpkg \in Packages
    BY <1>2 DEF TaskInv, PromiseFits, TypeOK
  <2> QED
    BY <1>2, <2>1, InPackage, PackageFacts, QueuedIsIn DEF Sent
<1> QED
  BY <1>1, <1>2

LEMMA AccountInit == Init => AccountInv
  BY DEF Init, AccountInv, OnTheWay

(* What keeps a point known.                                               *)
LEMMA KnownStays ==
  ASSUME NEW p \in Point, got \in [Point -> Nat], got' \in [Point -> Nat], Known(p),
         got'[p] >= got[p], gaveUp \subseteq gaveUp',
         p \in Queued \cup InPkg => p \in Queued' \cup InPkg' \/ got'[p] > 0 \/ p \in gaveUp',
         p[1] \in flagged => p[1] \in flagged' \/ p \in InPkg'
  PROVE  Known(p)'
<1>1. got[p] \in Nat /\ got'[p] \in Nat
  OBVIOUS
<1>2. got[p] > 0 => got'[p] > 0
  BY <1>1
<1> QED
  BY <1>2 DEF Known

LEMMA AccountNext ==
  ASSUME "early" \notin Env, TaskInv, TaskInv', FileInv, AccountInv, [Next]_vars
  PROVE  AccountInv'
<1>0. /\ TypeOK /\ TypeOK' /\ OnTheWay
      /\ \A p \in data : p[1] \in series
      /\ replica => \A p \in data \cup tasks : Known(p)
  BY DEF AccountInv, TaskInv
<1>k. /\ got \in [Point -> Nat] /\ got' \in [Point -> Nat] /\ fifo \in Seq(SUBSET Point)
      /\ data \cup tasks \subseteq Point /\ \A p \in Point : got[p] \in Nat /\ got'[p] \in Nat
  BY <1>0 DEF TypeOK
(* Steps that change neither what is on its way nor the packages.          *)
<1>u. ASSUME UNCHANGED <<data, tasks, series, replica, fifo, init, initpkg, flagged, promise,
                         msg, reply, got, gaveUp>>
      PROVE  AccountInv'
  BY <1>u DEF AccountInv, OnTheWay, Known, Sent, Queued, InPkg
<1>1. ASSUME NEW s \in Series, Insert(s) PROVE AccountInv'
  <2>1. CASE ~replica
    BY <1>1, <2>1, <1>0 DEF Insert, AccountInv, OnTheWay, Sent
  <2>2. CASE replica
    <3>1. /\ <<s, n>> \in Point /\ Filtered({<<s, n>>}) \in SUBSET Point
          /\ fifo' = Append(fifo, Filtered({<<s, n>>}))
      BY <1>1, <1>0, <2>2, ReplicateAssumption DEF Insert, Filtered, Point, TypeOK
    <3>2. Queued' = Queued \cup Filtered({<<s, n>>})
      BY <3>1, <1>k, InFacts, QueuedIsIn
    <3>3. UNCHANGED <<data, series, replica, flagged, init, initpkg, promise, msg, reply, got, gaveUp>>
          /\ tasks' = tasks \cup {<<s, n>>} /\ InPkg' = InPkg
      BY <1>1 DEF Insert, InPkg
    <3>4. promise => Sent' = Sent
      <4>1. promise /\ init = <<>> => fifo # <<>>
        BY DEF TaskInv, PromiseFits
      <4>2. fifo # <<>> => fifo'[1] = fifo[1]
        BY <1>k, <3>1, EmptySeq, LenProperties, AppendProperties
      <4> QED
        BY <3>3, <4>1, <4>2 DEF Sent
    <3>5. OnTheWay'
      BY <1>0, <3>3, <3>4 DEF OnTheWay
    <3>6. ASSUME NEW p \in data \cup tasks PROVE Known(p)'
      <4>1. Known(p) /\ p \in Point
        BY <1>0, <1>k, <2>2
      <4>2. got'[p] >= got[p] /\ (p \in Queued \cup InPkg => p \in Queued' \cup InPkg')
        BY <1>k, <3>2, <3>3, <4>1
      <4> QED
        BY <1>k, <3>3, <4>1, <4>2, KnownStays
    <3>7. PICK q \in Point : q = <<s, n>>
      BY <3>1
    <3>8. Known(q)'
      <4>1. q[1] \in flagged \/ q \in Filtered({<<s, n>>})
        BY <3>7 DEF Filtered
      <4> QED
        BY <3>2, <3>3, <4>1 DEF Known
    <3>9. tasks' = tasks \cup {q}
      BY <3>3, <3>7
    <3> QED
      BY <1>0, <3>3, <3>5, <3>6, <3>8, <3>9 DEF AccountInv
  <2> QED
    BY <2>1, <2>2
<1>2. CASE INSERT_local_task
  <2>1. PICK p \in tasks : tasks' = tasks \ {p} /\ data' = data \cup {p} /\ series' = series \cup {p[1]}
    BY <1>2 DEF INSERT_local_task
  <2>2. OnTheWay' /\ \A q : Known(q)' = Known(q)
    BY <1>0, <1>2 DEF INSERT_local_task, OnTheWay, Known, Sent, Queued, InPkg
  <2> QED
    BY <1>0, <1>2, <2>1, <2>2 DEF AccountInv, INSERT_local_task
<1>3. ASSUME NEW s \in Series, siridb_series_drop(s) PROVE AccountInv'
  <2>1. OnTheWay' /\ \A p : p[1] # s /\ Known(p) => Known(p)'
    BY <1>0, <1>3 DEF siridb_series_drop, OnTheWay, Known, Sent, Queued, InPkg
  <2> QED
    BY <1>0, <1>3, <2>1 DEF AccountInv, siridb_series_drop
<1>4. CASE siridb_servers_register
  <2>1. tasks' = {} /\ flagged' = series /\ UNCHANGED <<data, series, msg, reply>>
    BY <1>4 DEF siridb_servers_register
  <2>2. msg = <<>> /\ reply = "none"
    BY <1>4 DEF siridb_servers_register, TaskInv, NoReplica, GoneIsSilent
  <2> QED
    BY <1>0, <2>1, <2>2 DEF AccountInv, OnTheWay, Known
<1>5. CASE BSERVER_flags_update
  BY <1>5, <1>u DEF BSERVER_flags_update
(* A task whose timer is set has no promise.                               *)
<1>t. timer # "off" => ~promise /\ msg = <<>> /\ reply = "none"
  BY <1>0 DEF TaskInv, OneContinuation, OnTheWay, TypeOK
<1>6. CASE REPLICATE_work
  <2>1. /\ UNCHANGED <<data, tasks, series, replica, fifo, init, initpkg, flagged, reply, got, gaveUp>>
        /\ msg' = msg \/ (promise' /\ msg' = <<fifo[1]>>)
    BY <1>6, <1>k, FifoFacts DEF REPLICATE_work, Send, siridb_fifo_has_data
  <2>2. init = <<>> /\ reply = "none" /\ msg = <<>>
    BY <1>6, <1>t DEF REPLICATE_work, TaskInv, TimerFits
  <2>3. OnTheWay'
    BY <2>1, <2>2 DEF OnTheWay, Sent
  <2> QED
    BY <1>0, <2>1, <2>3 DEF AccountInv, Known, Queued, InPkg
<1>7. CASE INITSYNC_work
  <2>1. /\ UNCHANGED <<data, tasks, series, replica, fifo, promise, msg, reply, got, gaveUp>>
        /\ tasks = {} /\ initpkg = <<>> /\ timer # "off"
    BY <1>7, FS_EmptySet DEF INITSYNC_work, CanRead, insert_tasks, TaskInv, TimerFits
  <2>2. OnTheWay'
    BY <1>t, <2>1 DEF OnTheWay
  <2>3. Queued' = Queued /\ InPkg = {}
    BY <2>1, InPackage, QueuedIsIn DEF Queued
  <2>4. CASE Last(init) \in series
    <3>1. /\ flagged' = flagged \ {Last(init)}
          /\ initpkg' = <<{p \in data : p[1] = Last(init)}>>
      BY <1>7, <2>4 DEF INITSYNC_work
    <3>2. InPkg' = {p \in data : p[1] = Last(init)}
      <4>1. {p \in data : p[1] = Last(init)} \in SUBSET Point
        BY <1>k
      <4> QED
        BY <3>1, <4>1, InPackage, PackageFacts, QueuedIsIn
    <3> QED
      BY <1>0, <2>1, <2>2, <2>3, <3>1, <3>2 DEF AccountInv, Known
  <2>5. CASE Last(init) \notin series
    <3>1. flagged' = flagged
      BY <1>7, <2>5 DEF INITSYNC_work
    <3> QED
      BY <1>0, <2>1, <2>2, <2>3, <3>1 DEF AccountInv, Known
  <2> QED
    BY <2>4, <2>5
<1>8. CASE INITSYNC_send
  <2>1. /\ UNCHANGED <<data, tasks, series, replica, fifo, init, initpkg, flagged, reply, got, gaveUp>>
        /\ msg' = msg \/ (promise' /\ msg' = <<initpkg[1]>>)
    BY <1>8 DEF INITSYNC_send, Send
  <2>2. init # <<>> /\ reply = "none" /\ msg = <<>>
    BY <1>8, <1>t DEF INITSYNC_send, TaskInv, TimerFits
  <2>3. OnTheWay'
    BY <2>1, <2>2 DEF OnTheWay, Sent
  <2> QED
    BY <1>0, <2>1, <2>3 DEF AccountInv, Known, Queued, InPkg
<1>9. ASSUME NEW r, promise, Callback(r), msg' = <<>>, r = "SUCCESS" => \A p \in Sent : got[p] > 0
      PROVE  AccountInv'
  <2>1. OnTheWay' /\ UNCHANGED <<data, tasks, series, replica, got, flagged>>
    BY <1>9 DEF Callback, OnTheWay, REPLICATE_on_repl_response, INITSYNC_on_insert_response
  <2>2. /\ gaveUp \subseteq gaveUp'
        /\ \A p \in Queued \cup InPkg : p \in Queued' \cup InPkg' \/ got[p] > 0 \/ p \in gaveUp'
    <3>1. CASE r = "WRITE_ERROR"
      BY <1>9, <3>1 DEF Callback, REPLICATE_on_repl_response, INITSYNC_on_insert_response,
         Queued, InPkg
    <3>2. CASE r # "WRITE_ERROR" /\ init = <<>>
      <4>1. /\ fifo' = Tail(fifo) /\ initpkg' = initpkg /\ gaveUp \subseteq gaveUp'
            /\ r # "SUCCESS" => gaveUp' = gaveUp \cup Head(fifo)
        BY <1>9, <3>2 DEF Callback, REPLICATE_on_repl_response
      <4>2. Queued = Sent \cup Queued' /\ Sent = Head(fifo) /\ InPkg' = InPkg
        BY <1>9, <3>2, <4>1, SentFacts DEF Queued, In, InPkg
      <4> QED
        BY <1>9, <4>1, <4>2
    <3>3. CASE r # "WRITE_ERROR" /\ init # <<>>
      <4>1. /\ fifo' = fifo /\ gaveUp \subseteq gaveUp'
            /\ r # "SUCCESS" => gaveUp' = gaveUp \cup initpkg[1]
        BY <1>9, <3>3 DEF Callback, INITSYNC_on_insert_response
      <4>2. InPkg = Sent /\ Sent = initpkg[1] /\ Queued' = Queued
        BY <1>9, <3>3, <4>1, SentFacts DEF Queued
      <4> QED
        BY <1>9, <4>1, <4>2
    <3> QED
      BY <3>1, <3>2, <3>3
  <2> QED
    BY <1>0, <2>1, <2>2 DEF AccountInv, Known
<1>10. CASE Promise
  <2>1. CASE PromiseAnswered
    BY <1>0, <1>9, <2>1 DEF PromiseAnswered, OnTheWay
  <2>2. CASE PromiseTimeout
    BY <1>9, <2>2 DEF PromiseTimeout
  <2>3. CASE PromiseTimeoutEarly \/ PromiseWriteError
    BY <1>9, <2>3 DEF PromiseTimeoutEarly, PromiseWriteError
  <2> QED
    BY <1>10, <2>1, <2>2, <2>3 DEF Promise
<1>11. CASE ReplicaInserts
  <2>1. /\ UNCHANGED <<data, tasks, series, replica, fifo, init, initpkg, flagged, promise, gaveUp>>
        /\ msg # <<>> /\ msg' = <<>> /\ reply' # "none"
        /\ got' = got \/ got' = Stored(msg[1])
        /\ reply' = "ack" => got' = Stored(msg[1])
    BY <1>11 DEF ReplicaInserts
  <2>2. promise /\ msg[1] = Sent /\ Sent' = Sent
    BY <1>0, <2>1 DEF OnTheWay, Sent
  <2>3. Sent \in SUBSET Point
    BY <2>2, SentFacts
  <2>4. \A p \in Point : got'[p] >= got[p] /\ (got' = Stored(msg[1]) /\ p \in msg[1] => got'[p] > 0)
    BY <1>k, <2>1 DEF Stored
  <2>5. OnTheWay'
    BY <2>1, <2>2, <2>3, <2>4 DEF OnTheWay
  <2>6. Queued' = Queued /\ InPkg' = InPkg
    BY <2>1 DEF Queued, InPkg
  <2> QED
    BY <1>0, <1>k, <2>1, <2>4, <2>5, <2>6, KnownStays DEF AccountInv
<1>12. CASE ReplicaInsertsLate
  <2>1. /\ UNCHANGED <<data, tasks, series, replica, fifo, init, initpkg, flagged, promise, msg,
                       reply, gaveUp>>
        /\ \A p \in Point : got'[p] >= got[p]
    BY <1>12, <1>k DEF ReplicaInsertsLate, Stored
  <2>2. Queued' = Queued /\ InPkg' = InPkg /\ Sent' = Sent
    BY <2>1 DEF Queued, InPkg, Sent
  <2>3. promise => Sent \in SUBSET Point
    BY SentFacts
  <2>4. \A p \in Point : got[p] > 0 => got'[p] > 0
    BY <1>k, <2>1
  <2>5. OnTheWay'
    BY <1>0, <2>1, <2>2, <2>3, <2>4 DEF OnTheWay
  <2> QED
    BY <1>0, <1>k, <2>1, <2>2, <2>5, KnownStays DEF AccountInv
<1>13. CASE on_repl_finished
  BY <1>13, <1>u DEF on_repl_finished
<1>14. CASE Disconnect
  <2>1. OnTheWay'
    BY <1>14 DEF Disconnect, OnTheWay
  <2> QED
    BY <1>0, <1>14, <2>1 DEF AccountInv, Disconnect, Known, Queued, InPkg
<1>15. CASE siri_backup_enable \/ BACKUP_walk \/ siri_backup_disable
  BY <1>15, <1>u DEF siri_backup_enable, BACKUP_walk, siri_backup_disable
<1>16. CASE Dropped
  <2>1. msg' = <<>> /\ reply' = "none" /\ ~replica' /\ UNCHANGED <<data, series>>
    BY <1>16 DEF Dropped, FreeReplica, Connected, TaskInv, GoneIsSilent
  <2> QED
    BY <1>0, <2>1 DEF AccountInv, OnTheWay
<1>17. CASE Again
  <2>1. /\ UNCHANGED <<data, series, replica, fifo, init, got, gaveUp>>
        /\ tasks' = {} /\ msg' = <<>> /\ reply' = "none" /\ flagged' = StillToSync /\ replica
    BY <1>17 DEF Again, StartAgain
  <2>2. ASSUME NEW p \in data PROVE Known(p)'
    <3>1. Known(p) /\ p[1] \in series /\ Queued' = Queued
      BY <1>0, <2>1 DEF Queued
    <3>2. CASE p \in InPkg
      <4>1. initpkg # <<>> /\ initpkg \in Packages /\ init \in Seq(Series)
        BY <1>0, <3>2, InPackage, QueuedIsIn DEF TypeOK
      <4>2. init # <<>> /\ p[1] = Last(init)
        BY <3>2, <4>1, InPackage, QueuedIsIn DEF FileInv, PkgIsLast, TaskInv, TimerFits
      <4>3. Len(init) \in DOMAIN init /\ Last(init) = init[Len(init)]
        BY <4>1, <4>2, IdsFacts, LenProperties
      <4> QED
        BY <2>1, <3>1, <4>2, <4>3 DEF Known, StillToSync
    <3>3. CASE p[1] \in flagged
      BY <2>1, <3>1, <3>3 DEF FileInv, FlaggedInFile, Known, StillToSync
    <3> QED
      BY <2>1, <3>1, <3>2, <3>3 DEF Known
  <2> QED
    BY <1>0, <2>1, <2>2 DEF AccountInv, OnTheWay
<1>18. CASE UNCHANGED vars
  BY <1>18, <1>u DEF vars
<1> QED
  BY <1>1, <1>2, <1>3, <1>4, <1>5, <1>6, <1>7, <1>8, <1>10, <1>11, <1>12, <1>13, <1>14, <1>15,
     <1>16, <1>17, <1>18, DropFacts DEF Next, Task, TaskInv

(* siridb_insert and siridb_replicate_pkg_filter, INITSYNC_work, the       *)
(* promise callbacks and siridb_initsync_open: no stored point is          *)
(* forgotten, provided that a replica is registered while no insert is     *)
(* going on.                                                               *)
THEOREM AccountedHolds ==
  ASSUME "init_backup" \notin Env, "early" \notin Env
  PROVE  Spec => []Accounted
<1>1. Init => AccountInv
  BY AccountInit
<1>2. (TaskInv /\ FileInv) /\ (TaskInv /\ FileInv)' /\ AccountInv /\ [Next]_vars => AccountInv'
  BY AccountNext
<1>3. AccountInv => Accounted
  BY DEF AccountInv, Accounted, Known
<1>4. Spec => [](TaskInv /\ FileInv)
  BY TaskAndFile
<1> QED
  BY <1>1, <1>2, <1>3, <1>4, PTL DEF Spec

-----------------------------------------------------------------------------
(* The copies of a point.                                                  *)

LEMMA PairwiseFacts ==
  ASSUME NEW f \in Seq(SUBSET Point), Pairwise(f)
  PROVE  /\ \A P \in SUBSET Point : P \cap In(f) = {} => Pairwise(Append(f, P))
         /\ f # <<>> => Pairwise(Tail(f)) /\ f[1] \cap In(Tail(f)) = {}
<1>1. ASSUME NEW P \in SUBSET Point, P \cap In(f) = {} PROVE Pairwise(Append(f, P))
  <2>1. /\ Len(f) \in Nat /\ DOMAIN f = 1 .. Len(f) /\ DOMAIN Append(f, P) = 1 .. Len(f) + 1
        /\ \A k \in 1 .. Len(f) : Append(f, P)[k] = f[k]
        /\ Append(f, P)[Len(f) + 1] = P
    BY LenProperties, AppendProperties
  <2>2. DOMAIN Append(f, P) = DOMAIN f \cup {Len(f) + 1}
    BY <2>1
  <2>3. \A k \in DOMAIN f : Append(f, P)[k] = f[k] /\ f[k] \cap P = {}
    BY <1>1, <2>1 DEF In
  <2> QED
    BY <2>1, <2>2, <2>3, Zenon DEF Pairwise
<1>2. ASSUME f # <<>> PROVE Pairwise(Tail(f)) /\ f[1] \cap In(Tail(f)) = {}
  <2>1. /\ Len(f) \in Nat \ {0} /\ DOMAIN f = 1 .. Len(f) /\ DOMAIN Tail(f) = 1 .. Len(f) - 1
        /\ \A k \in 1 .. Len(f) - 1 : Tail(f)[k] = f[k + 1]
    BY <1>2, EmptySeq, LenProperties, HeadTailProperties
  <2>2. \A k \in DOMAIN Tail(f) : k + 1 \in DOMAIN f /\ k + 1 # 1 /\ Tail(f)[k] = f[k + 1]
    BY <2>1
  <2>3. \A j, k \in DOMAIN Tail(f) : j # k => j + 1 # k + 1
    BY <2>1
  <2>4. Pairwise(Tail(f))
    BY <2>2, <2>3 DEF Pairwise
  <2>5. \A k \in DOMAIN Tail(f) : f[1] \cap Tail(f)[k] = {}
    BY <2>1, <2>2 DEF Pairwise
  <2> QED
    BY <2>4, <2>5 DEF In
<1> QED
  BY <1>1, <1>2

LEMMA OnceInit == Init => OnceInv
<1> SUFFICES ASSUME Init PROVE OnceInv
  OBVIOUS
<1>1. Queued = {} /\ InPkg = {} /\ InLate = {}
  BY InPackage, QueuedIsIn DEF Init, InLate
<1>2. Fresh
  BY <1>1 DEF Init, Fresh
<1>3. Disjoint
  BY <1>1 DEF Init, Disjoint, Pairwise
<1>4. NotYet
  BY <1>1 DEF Init, NotYet
<1>5. FileIsFlagged
  BY DEF Init, FileIsFlagged
<1> QED
  BY <1>2, <1>3, <1>4, <1>5 DEF OnceInv, Init

(* What was restarted stays so.                                            *)
LEMMA RestartedStays ==
  ASSUME [Next]_vars, restarted
  PROVE  restarted'
<1>1. ASSUME NEW r, Callback(r) PROVE restarted'
  BY <1>1 DEF Callback
<1>2. CASE Promise
  BY <1>1, <1>2 DEF Promise, PromiseAnswered, PromiseTimeout, PromiseTimeoutEarly,
     PromiseWriteError
<1>3. CASE ~Promise
  BY <1>3 DEF Next, vars, Insert, INSERT_local_task, siridb_series_drop,
     siridb_servers_register, BSERVER_flags_update, Task, REPLICATE_work, INITSYNC_work,
     INITSYNC_send, ReplicaInserts, ReplicaInsertsLate, on_repl_finished, Disconnect,
     siri_backup_enable, BACKUP_walk, siri_backup_disable, siridb_server_drop, FreeReplica,
     Restart, StartAgain
<1> QED
  BY <1>2, <1>3

Once == /\ Fresh /\ Disjoint /\ NotYet /\ FileIsFlagged
        /\ view = "gone" => late = {}

LEMMA OnceStep ==
  ASSUME TaskInv, TaskInv', FileInv, AccountInv, Once, [Next]_vars, ~restarted'
  PROVE  Once'
<1>0. /\ got \in [Point -> Nat] /\ got' \in [Point -> Nat] /\ fifo \in Seq(SUBSET Point)
      /\ data \cup tasks \subseteq Point /\ initpkg \in Packages
      /\ init \in Seq(Series) /\ late \subseteq SUBSET Point
      /\ OnTheWay /\ promise \in BOOLEAN
  BY DEF AccountInv, TaskInv, TypeOK
<1>p. n \in Nat /\ \A p \in Point : got[p] \in Nat /\ got'[p] \in Nat /\ p[2] \in Nat
  BY <1>0, ReplicateAssumption DEF TaskInv, TypeOK, Point
<1>q. Queued \subseteq Point /\ InPkg \subseteq Point /\ InLate \subseteq Point
  BY <1>0, InFacts, InPackage, PackageFacts, QueuedIsIn, SMTT(60) DEF InLate
<1> USE DEF Once
(* Steps that change nothing of what the invariant is about.               *)
<1>u. ASSUME UNCHANGED <<data, tasks, series, dropped, n, fifo, init, initpkg, flagged, promise,
                         msg, late, got>>,
             view' = "gone" => late' = {}
      PROVE  Once'
  BY <1>u DEF Fresh, Disjoint, NotYet, FileIsFlagged, Queued, InPkg, InLate, Sent
(* A package is sent.                                                      *)
<1>s. ASSUME UNCHANGED <<data, tasks, series, dropped, n, fifo, init, initpkg, flagged, view,
                         late, got>>, ~promise
      PROVE  Once'
  <2>1. Queued' = Queued /\ InPkg' = InPkg /\ InLate' = InLate
    BY <1>s DEF Queued, InPkg, InLate
  <2>2. NotYet'
    BY <1>s, <2>1 DEF NotYet
  <2> QED
    BY <1>s, <2>1, <2>2 DEF Fresh, Disjoint, FileIsFlagged
(* The last id is cut off the file.                                        *)
<1>c. ASSUME init # <<>>, init' = Cut(init), UNCHANGED <<series, dropped, tasks, flagged>>
      PROVE  FileIsFlagged'
  <2>1. \A k \in DOMAIN init' : init'[k] = init[k] /\ k \in DOMAIN init /\ k # Len(init)
    <3>1. /\ Len(init) \in Nat \ {0} /\ DOMAIN init = 1 .. Len(init)
          /\ DOMAIN Cut(init) = 1 .. Len(init) - 1
          /\ \A k \in 1 .. Len(init) - 1 : Cut(init)[k] = init[k]
      BY <1>0, <1>c, IdsFacts, LenProperties
    <3> QED
      BY <1>c, <3>1
  <2> QED
    BY <1>c, <2>1 DEF FileIsFlagged
<1>1. ASSUME NEW s \in Series, Insert(s) PROVE Once'
  <2>1. PICK q \in Point : q = <<s, n>>
    BY <1>1, <1>p, ReplicateAssumption DEF Insert, Point, TaskInv, TypeOK
  <2>2. /\ UNCHANGED <<data, series, dropped, init, initpkg, flagged, promise, msg, late, got, view>>
        /\ n' = n + 1 /\ tasks' = tasks \cup {q} /\ s \notin dropped
    BY <1>1, <2>1 DEF Insert
  <2>3. PICK F \in SUBSET Point : /\ F \subseteq {q}
                                  /\ q \in F => q[1] \notin flagged
                                  /\ fifo' = fifo \/ fifo' = Append(fifo, F)
    <3>1. /\ Filtered({q}) \in SUBSET Point /\ Filtered({q}) \subseteq {q}
          /\ q \in Filtered({q}) => q[1] \notin flagged
      BY <2>1 DEF Filtered
    <3>2. fifo' = fifo \/ fifo' = Append(fifo, Filtered({q}))
      BY <1>1, <2>1 DEF Insert
    <3> QED
      BY <3>1, <3>2
  <2>4. q[2] = n /\ q[1] = s
    BY <2>1
  <2>5. q \notin data \cup tasks \cup Queued \cup InPkg \cup InLate /\ got[q] = 0
    <3>1. ~(q[2] < n) /\ got[q] \in Nat
      BY <1>p, <2>4
    <3> QED
      BY <3>1 DEF Fresh
  <2>6. Queued' \subseteq Queued \cup F /\ InPkg' = InPkg /\ InLate' = InLate
    <3>1. ASSUME fifo' = fifo PROVE Queued' \subseteq Queued \cup F
      BY <3>1 DEF Queued
    <3>2. ASSUME fifo' = Append(fifo, F) PROVE Queued' \subseteq Queued \cup F
      <4>1. In(Append(fifo, F)) = In(fifo) \cup F
        BY <1>0, InFacts
      <4> QED
        BY <3>2, <4>1, QueuedIsIn
    <3>3. Queued' \subseteq Queued \cup F
      BY <2>3, <3>1, <3>2
    <3> QED
      BY <2>2, <3>3 DEF InLate, InPkg
  <2>7. promise => Sent' = Sent
    <3>1. promise /\ init = <<>> => fifo # <<>>
      BY DEF TaskInv, PromiseFits
    <3>2. fifo # <<>> => Append(fifo, F)[1] = fifo[1]
      BY <1>0, EmptySeq, LenProperties, AppendProperties
    <3>3. promise /\ init = <<>> => fifo'[1] = fifo[1]
      BY <2>3, <3>1, <3>2
    <3> QED
      BY <2>2, <3>3 DEF Sent
  <2>8. Fresh'
    <3>1. \A p \in Point : p[2] < n => p[2] < n'
      BY <1>p, <2>2
    <3>2. q[2] < n'
      BY <1>p, <2>2, <2>4
    <3>3. \A p \in data' \cup tasks' \cup Queued' \cup InPkg' \cup InLate' :
            p = q \/ p \in data \cup tasks \cup Queued \cup InPkg \cup InLate
      BY <2>2, <2>3, <2>6
    <3>4. \A p \in data \cup tasks \cup Queued \cup InPkg \cup InLate : p \in Point /\ p[2] < n
      BY <1>0, <1>q DEF Fresh
    <3>5. \A p \in Point : got'[p] > 0 => p[2] < n'
      BY <2>2, <3>1 DEF Fresh
    <3> QED
      BY <3>1, <3>2, <3>3, <3>4, <3>5 DEF Fresh
  <2>9. Pairwise(fifo')
    <3>1. F \cap In(fifo) = {}
      BY <2>3, <2>5, QueuedIsIn
    <3>2. Pairwise(fifo) /\ Pairwise(Append(fifo, F))
      BY <1>0, <3>1, PairwiseFacts DEF Disjoint
    <3> QED
      BY <2>3, <3>2
  <2>10. Disjoint'
    <3>1. F \cap InPkg = {} /\ F \cap InLate = {} /\ late' = late
      BY <2>2, <2>3, <2>5
    <3> QED
      BY <2>2, <2>6, <2>9, <3>1 DEF Disjoint
  <2>11. NotYet'
    <3>1. \A p \in Queued' \cup InPkg' : p \in Queued \cup InPkg \/ (p = q /\ q \in F)
      BY <2>3, <2>6
    <3>2. \A p \in Queued' \cup InPkg' : got'[p] = 0 \/ (promise' /\ msg' = <<>> /\ p \in Sent')
      BY <2>2, <2>5, <2>7, <3>1 DEF NotYet
    <3>3. \A p \in Point : p[1] \in flagged' => got'[p] = 0 /\ p \notin Queued' \cup InPkg' \cup InLate'
      BY <2>2, <2>3, <2>6, <3>1 DEF NotYet
    <3> QED
      BY <2>2, <2>6, <3>2, <3>3 DEF NotYet
  <2>12. FileIsFlagged'
    BY <2>2, <2>4 DEF FileIsFlagged
  <2> QED
    BY <2>2, <2>8, <2>10, <2>11, <2>12
<1>2. CASE INSERT_local_task
  <2>1. PICK q \in tasks : tasks' = tasks \ {q} /\ data' = data \cup {q} /\ series' = series \cup {q[1]}
    BY <1>2 DEF INSERT_local_task
  <2>2. UNCHANGED <<dropped, n, fifo, init, initpkg, flagged, promise, msg, late, got, view>>
    BY <1>2 DEF INSERT_local_task
  <2>3. FileIsFlagged'
    <3>1. \A k \in DOMAIN init : init[k] # q[1] \/ init[k] \in series
      BY <2>1 DEF FileIsFlagged
    <3> QED
      BY <2>1, <2>2, <3>1 DEF FileIsFlagged
  <2> QED
    BY <2>1, <2>2, <2>3 DEF Fresh, Disjoint, NotYet, Queued, InPkg, InLate, Sent
<1>3. ASSUME NEW s \in Series, siridb_series_drop(s) PROVE Once'
  <2>1. /\ UNCHANGED <<tasks, n, fifo, init, initpkg, promise, msg, late, got, view>>
        /\ series' = series \ {s} /\ dropped' = dropped \cup {s} /\ data' \subseteq data
        /\ flagged' = flagged \ {s} /\ \A p \in tasks : p[1] # s
    BY <1>3 DEF siridb_series_drop
  <2>2. FileIsFlagged'
    BY <2>1 DEF FileIsFlagged
  <2> QED
    BY <2>1, <2>2 DEF Fresh, Disjoint, NotYet, Queued, InPkg, InLate, Sent
<1>4. CASE siridb_servers_register
  <2>1. /\ UNCHANGED <<data, tasks, series, dropped, n, late, view>>
        /\ fifo' = <<>> /\ initpkg' = <<>> /\ flagged' = series /\ got' = [p \in Point |-> 0]
    BY <1>4 DEF siridb_servers_register
  <2>2. InLate' = {} /\ Queued' = {} /\ InPkg' = {}
    BY <1>4, <2>1, InPackage, QueuedIsIn
    DEF siridb_servers_register, TaskInv, NoReplica, InLate
  <2>3. Fresh' /\ NotYet'
    BY <2>1, <2>2 DEF Fresh, NotYet
  <2>4. Disjoint'
    <3>1. late' = {} /\ DOMAIN fifo' = {}
      BY <1>4, <2>1 DEF siridb_servers_register, TaskInv, NoReplica
    <3> QED
      BY <2>2, <3>1 DEF Disjoint, Pairwise
  <2>5. FileIsFlagged'
    <3>1. PICK ids \in [1 .. Cardinality(series) -> series] : IsWalk(ids, series) /\ init' = ids
      BY <1>4 DEF siridb_servers_register
    <3> QED
      BY <2>1, <3>1 DEF FileIsFlagged, IsWalk
  <2> QED
    BY <2>1, <2>3, <2>4, <2>5
<1>5. CASE BSERVER_flags_update
  BY <1>5, <1>u DEF BSERVER_flags_update
(* A task whose timer is set has no promise.                               *)
<1>t. timer # "off" => ~promise /\ msg = <<>> /\ reply = "none"
  BY <1>0 DEF TaskInv, OneContinuation, OnTheWay, TypeOK
<1>6. CASE REPLICATE_work
  BY <1>6, <1>s, <1>t DEF REPLICATE_work, Send
<1>7. CASE INITSYNC_work
  <2>1. /\ UNCHANGED <<data, tasks, series, dropped, n, fifo, promise, msg, late, got, view>>
        /\ initpkg = <<>> /\ timer # "off" /\ init # <<>>
    BY <1>7 DEF INITSYNC_work, TaskInv, TimerFits
  <2>2. Queued' = Queued /\ InPkg = {} /\ InLate' = InLate /\ ~promise
    BY <1>t, <2>1, InPackage, QueuedIsIn DEF Queued, InLate
  <2>3. /\ DOMAIN init = 1 .. Len(init) /\ Len(init) \in Nat \ {0} /\ Last(init) = init[Len(init)]
        /\ Len(init) \in DOMAIN init
    BY <1>0, <2>1, IdsFacts, LenProperties
  <2>4. CASE Last(init) \in series
    <3>1. /\ flagged' = flagged \ {Last(init)} /\ init' = init
          /\ initpkg' = <<{p \in data : p[1] = Last(init)}>>
      BY <1>7, <2>4 DEF INITSYNC_work
    <3>2. InPkg' = {p \in data : p[1] = Last(init)} /\ initpkg' # <<>>
      <4>1. {p \in data : p[1] = Last(init)} \in SUBSET Point
        BY <1>0
      <4> QED
        BY <3>1, <4>1, InPackage, PackageFacts, QueuedIsIn
    <3>3. Last(init) \in flagged
      BY <2>1, <2>3, <2>4 DEF FileIsFlagged
    <3>4. \A p \in InPkg' : got[p] = 0 /\ p \notin Queued \cup InLate /\ p[2] < n /\ p[1] = Last(init)
      BY <1>0, <3>2, <3>3 DEF NotYet, Fresh
    <3>5. Fresh'
      BY <2>1, <2>2, <3>4 DEF Fresh
    <3>6. Disjoint'
      BY <2>1, <2>2, <3>4 DEF Disjoint
    <3>7. NotYet'
      BY <2>1, <2>2, <3>1, <3>4 DEF NotYet
    <3>8. FileIsFlagged'
      BY <2>1, <2>3, <3>1, <3>2 DEF FileIsFlagged
    <3> QED
      BY <2>1, <3>5, <3>6, <3>7, <3>8
  <2>5. CASE Last(init) \notin series
    <3>1. flagged' = flagged /\ init' = Cut(init) /\ initpkg' = <<>>
      BY <1>7, <2>5 DEF INITSYNC_work, INITSYNC_next_series_id, Cut
    <3>2. InPkg' = {}
      BY <3>1, InPackage, QueuedIsIn
    <3>3. FileIsFlagged'
      BY <1>c, <2>1, <3>1
    <3> QED
      BY <2>1, <2>2, <3>1, <3>2, <3>3 DEF Fresh, Disjoint, NotYet
  <2> QED
    BY <2>4, <2>5
<1>8. CASE INITSYNC_send
  BY <1>8, <1>s, <1>t DEF INITSYNC_send, Send
(* A promise ends, and what it was about is late or not.                   *)
<1>9. ASSUME NEW r, promise, Callback(r), msg' = <<>>,
             r = "WRITE_ERROR" => msg # <<>> /\ late' = late,
             late' = late \/ (msg # <<>> /\ late' = late \cup {Sent})
      PROVE  Once'
  <2>1. UNCHANGED <<data, tasks, series, dropped, n, flagged, got, view>> /\ ~promise'
    BY <1>9 DEF Callback, REPLICATE_on_repl_response, INITSYNC_on_insert_response
  <2>2. Sent \in SUBSET Point /\ Sent \subseteq Queued \cup InPkg
    BY <1>9, SentFacts
  <2>3. CASE r = "WRITE_ERROR"
    <3>1. UNCHANGED <<fifo, init, initpkg>>
      BY <1>9, <2>3 DEF Callback, REPLICATE_on_repl_response, INITSYNC_on_insert_response
    <3>2. Queued' = Queued /\ InPkg' = InPkg /\ InLate' = InLate
      BY <1>9, <2>3, <3>1 DEF Queued, InPkg, InLate
    <3> QED
      BY <1>9, <2>1, <2>3, <3>1, <3>2 DEF Fresh, Disjoint, NotYet, FileIsFlagged
  <2>4. CASE r # "WRITE_ERROR"
    <3>1. /\ Queued' \subseteq Queued /\ InPkg' \subseteq InPkg /\ (Queued' \cup InPkg') \cap Sent = {}
          /\ Pairwise(fifo') /\ FileIsFlagged'
      <4>1. CASE init = <<>>
        <5>1. fifo # <<>> /\ fifo' = Tail(fifo) /\ UNCHANGED <<init, initpkg>> /\ initpkg = <<>>
          BY <1>9, <2>4, <4>1, SentFacts DEF Callback, REPLICATE_on_repl_response, TaskInv, TimerFits
        <5>2. InPkg' = {} /\ Queued = Sent \cup Queued' /\ Sent = fifo[1]
          BY <1>0, <1>9, <4>1, <5>1, SentFacts, FifoFacts, QueuedIsIn, InPackage
        <5>3. Pairwise(fifo') /\ Sent \cap Queued' = {}
          BY <1>0, <5>1, <5>2, PairwiseFacts, QueuedIsIn DEF Disjoint
        <5>4. FileIsFlagged'
          BY <2>1, <5>1 DEF FileIsFlagged
        <5> QED
          BY <5>2, <5>3, <5>4
      <4>2. CASE init # <<>>
        <5>1. fifo' = fifo /\ init' = Cut(init) /\ initpkg' = <<>>
          BY <1>9, <2>4, <4>2
          DEF Callback, INITSYNC_on_insert_response, INITSYNC_next_series_id, Cut
        <5>2. InPkg' = {} /\ InPkg = Sent /\ Queued' = Queued
          BY <1>9, <4>2, <5>1, SentFacts, QueuedIsIn, InPackage
        <5>3. FileIsFlagged'
          BY <1>c, <2>1, <4>2, <5>1
        <5> QED
          BY <5>1, <5>2, <5>3 DEF Disjoint
      <4> QED
        BY <4>1, <4>2
    <3>2. /\ InLate' = InLate \/ (msg # <<>> /\ InLate' = InLate \cup Sent)
          /\ \A a \in late : a \cap Sent = {}
          /\ InLate \cap Sent = {}
      <4>1. InLate \cap Sent = {}
        BY <2>2 DEF Disjoint
      <4>2. \A a \in late : a \cap Sent = {}
        BY <4>1 DEF InLate
      <4>3. InLate' = InLate \/ (msg # <<>> /\ InLate' = InLate \cup Sent)
        BY <1>9, Zenon DEF InLate
      <4> QED
        BY <4>1, <4>2, <4>3
    <3>3. Fresh'
      BY <2>1, <2>2, <3>1, <3>2 DEF Fresh
    <3>4. Disjoint'
      <4>1. \A a, b \in late' : a # b => a \cap b = {}
        BY <1>9, <3>2 DEF Disjoint
      <4>2. Queued' \cap InPkg' = {} /\ (Queued' \cup InPkg') \cap InLate' = {}
        BY <3>1, <3>2 DEF Disjoint
      <4> QED
        BY <3>1, <4>1, <4>2 DEF Disjoint
    <3>5. NotYet'
      <4>1. \A p \in InLate' : got'[p] = 0
        BY <2>1, <2>2, <3>2 DEF NotYet
      <4>2. \A p \in Queued' \cup InPkg' : got'[p] = 0
        BY <2>1, <3>1 DEF NotYet
      <4>3. \A p \in Point : p[1] \in flagged' => got'[p] = 0 /\ p \notin Queued' \cup InPkg' \cup InLate'
        BY <2>1, <2>2, <3>1, <3>2 DEF NotYet
      <4> QED
        BY <2>1, <4>1, <4>2, <4>3 DEF NotYet
    <3>6. view' = "gone" => late' = {}
      BY <1>9, <2>1 DEF TaskInv, GoneIsSilent
    <3> QED
      BY <3>1, <3>3, <3>4, <3>5, <3>6
  <2> QED
    BY <2>3, <2>4
<1>10. CASE Promise
  <2>1. CASE PromiseAnswered
    BY <1>0, <1>9, <2>1 DEF PromiseAnswered, OnTheWay
  <2>2. CASE PromiseTimeout
    BY <1>9, <2>2 DEF PromiseTimeout
  <2>3. CASE PromiseTimeoutEarly
    <3>1. msg = <<>> \/ msg = <<Sent>>
      <4>1. msg \in Packages
        BY DEF TaskInv, TypeOK
      <4> QED
        BY <1>0, <4>1, PackageFacts DEF OnTheWay
    <3>2. late' = late \/ (msg # <<>> /\ late' = late \cup {Sent})
      <4>1. CASE msg = <<>>
        BY <2>3, <4>1 DEF PromiseTimeoutEarly
      <4>2. CASE msg = <<Sent>>
        <5>1. {msg[k] : k \in DOMAIN msg} = {Sent} /\ msg # <<>>
          BY <4>2
        <5> QED
          BY <2>3, <5>1 DEF PromiseTimeoutEarly
      <4> QED
        BY <3>1, <4>1, <4>2
    <3> QED
      BY <1>9, <2>3, <3>2 DEF PromiseTimeoutEarly
  <2>4. CASE PromiseWriteError
    BY <1>9, <2>4 DEF PromiseWriteError
  <2> QED
    BY <1>10, <2>1, <2>2, <2>3, <2>4 DEF Promise
<1>11. CASE ReplicaInserts
  <2>1. /\ UNCHANGED <<data, tasks, series, dropped, n, fifo, init, initpkg, flagged, promise, late, view>>
        /\ msg # <<>> /\ msg' = <<>>
        /\ got' = got \/ got' = Stored(msg[1])
    BY <1>11 DEF ReplicaInserts
  <2>2. promise /\ msg[1] = Sent /\ Sent' = Sent
    BY <1>0, <2>1 DEF OnTheWay, Sent
  <2>3. Sent \in SUBSET Point /\ Sent \subseteq Queued \cup InPkg
    BY <2>2, SentFacts
  <2>4. Queued' = Queued /\ InPkg' = InPkg /\ InLate' = InLate
    BY <2>1 DEF Queued, InPkg, InLate
  <2>5. \A p \in Queued \cup InPkg : got[p] = 0
    BY <2>1 DEF NotYet
  <2>6. \A p \in Point : /\ p \notin Sent => got'[p] = got[p]
                         /\ p \in Sent => got'[p] \in {0, 1}
    BY <1>p, <2>1, <2>2, <2>3, <2>5 DEF Stored
  <2>7. Fresh'
    BY <1>q, <2>1, <2>3, <2>4, <2>6 DEF Fresh
  <2>8. NotYet'
    <3>1. \A p \in InLate' : got'[p] = 0
      BY <1>q, <2>3, <2>4, <2>6 DEF NotYet, Disjoint
    <3>2. \A p \in Queued' \cup InPkg' : got'[p] = 0 \/ (promise' /\ msg' = <<>> /\ p \in Sent')
      BY <1>q, <2>1, <2>2, <2>4, <2>5, <2>6
    <3>3. \A p \in Point : got'[p] <= 1
      BY <2>6 DEF NotYet
    <3>4. \A p \in Point : p[1] \in flagged' => got'[p] = 0 /\ p \notin Queued' \cup InPkg' \cup InLate'
      BY <2>1, <2>3, <2>4, <2>6 DEF NotYet
    <3> QED
      BY <3>1, <3>2, <3>3, <3>4 DEF NotYet
  <2> QED
    BY <2>1, <2>4, <2>7, <2>8 DEF Disjoint, FileIsFlagged
<1>12. CASE ReplicaInsertsLate
  <2>1. PICK pkg \in late : late' = late \ {pkg} /\ got' = Stored(pkg)
    BY <1>12 DEF ReplicaInsertsLate
  <2>2. UNCHANGED <<data, tasks, series, dropped, n, fifo, init, initpkg, flagged, promise, msg, view>>
    BY <1>12 DEF ReplicaInsertsLate
  <2>3. pkg \in SUBSET Point /\ pkg \subseteq InLate /\ InLate' \subseteq InLate /\ pkg \cap InLate' = {}
    <3>1. \A a \in late' : a \in late /\ a \cap pkg = {}
      BY <2>1 DEF Disjoint
    <3>2. pkg \in SUBSET Point
      BY <1>0, <2>1
    <3> QED
      BY <2>1, <3>1, <3>2 DEF InLate
  <2>4. Queued' = Queued /\ InPkg' = InPkg /\ Sent' = Sent
    BY <2>2 DEF Queued, InPkg, Sent
  <2>5. \A p \in Point : /\ p \notin pkg => got'[p] = got[p]
                         /\ p \in pkg => got'[p] = 1
    BY <1>p, <2>1, <2>3 DEF Stored, NotYet
  <2>6. Fresh'
    BY <1>q, <2>2, <2>3, <2>4, <2>5 DEF Fresh
  <2>7. NotYet'
    <3>1. \A p \in InLate' : got'[p] = 0
      BY <1>q, <2>3, <2>5 DEF NotYet
    <3>2. \A p \in Queued' \cup InPkg' : got'[p] = 0 \/ (promise' /\ msg' = <<>> /\ p \in Sent')
      <4>1. \A p \in Queued \cup InPkg : p \notin pkg /\ p \in Point
        BY <1>q, <2>3 DEF Disjoint
      <4> QED
        BY <2>2, <2>4, <2>5, <4>1 DEF NotYet
    <3>3. \A p \in Point : got'[p] <= 1
      BY <2>5 DEF NotYet
    <3>4. \A p \in Point : p[1] \in flagged' => got'[p] = 0 /\ p \notin Queued' \cup InPkg' \cup InLate'
      BY <2>2, <2>3, <2>4, <2>5 DEF NotYet
    <3> QED
      BY <3>1, <3>2, <3>3, <3>4 DEF NotYet
  <2>8. Disjoint'
    BY <2>1, <2>2, <2>3, <2>4 DEF Disjoint
  <2> QED
    BY <2>1, <2>2, <2>6, <2>7, <2>8 DEF FileIsFlagged
<1>13. CASE on_repl_finished
  BY <1>13, <1>u DEF on_repl_finished
<1>14. CASE Disconnect
  <2>1. /\ UNCHANGED <<data, tasks, series, dropped, n, fifo, init, initpkg, flagged, promise, got>>
        /\ msg' = <<>> /\ late' = {}
    BY <1>14 DEF Disconnect
  <2>2. Queued' = Queued /\ InPkg' = InPkg /\ Sent' = Sent /\ InLate' = {}
    BY <2>1 DEF Queued, InPkg, Sent, InLate
  <2> QED
    BY <2>1, <2>2 DEF Fresh, Disjoint, NotYet, FileIsFlagged
<1>15. CASE siri_backup_enable \/ BACKUP_walk \/ siri_backup_disable
  BY <1>15, <1>u DEF siri_backup_enable, BACKUP_walk, siri_backup_disable
<1>16. CASE Dropped
  <2>1. /\ UNCHANGED <<data, tasks, series, dropped, n, flagged, got>>
        /\ fifo' = <<>> /\ init' = <<>> /\ initpkg' = <<>> /\ late' = {}
    BY <1>16 DEF Dropped, FreeReplica
  <2>2. Queued' = {} /\ InPkg' = {} /\ InLate' = {}
    BY <2>1, QueuedIsIn, InPackage DEF InLate
  <2>3. Disjoint'
    <3>1. DOMAIN fifo' = {}
      BY <2>1
    <3> QED
      BY <2>1, <2>2, <3>1 DEF Disjoint, Pairwise
  <2> QED
    BY <2>1, <2>2, <2>3 DEF Fresh, NotYet, FileIsFlagged
<1>17. CASE Again
  BY <1>17 DEF Again, StartAgain
<1>18. CASE UNCHANGED vars
  BY <1>18, <1>u DEF vars
<1> QED
  BY <1>1, <1>2, <1>3, <1>4, <1>5, <1>6, <1>7, <1>8, <1>10, <1>11, <1>12, <1>13, <1>14, <1>15,
     <1>16, <1>17, <1>18, DropFacts DEF Next, Task, TaskInv

LEMMA OnceNext ==
  ASSUME TaskInv, TaskInv', FileInv, AccountInv, OnceInv, [Next]_vars
  PROVE  OnceInv'
<1> SUFFICES ASSUME ~restarted' PROVE Once'
  BY DEF OnceInv, Once
<1>1. Once
  BY RestartedStays DEF OnceInv, Once
<1> QED
  BY <1>1, OnceStep

(* The package filter against the initial synchronization, time-outs and   *)
(* lost answers: the replica receives no point twice as long as this       *)
(* server is not restarted.                                                *)
THEOREM NoDuplicatesHolds ==
  ASSUME "init_backup" \notin Env, "early" \notin Env
  PROVE  Spec => []NoDuplicates
<1>1. Init => AccountInv /\ OnceInv
  BY AccountInit, OnceInit
<1>2. (TaskInv /\ FileInv) /\ (TaskInv /\ FileInv)' /\ (AccountInv /\ OnceInv) /\ [Next]_vars
      => (AccountInv /\ OnceInv)'
  BY AccountNext, OnceNext
<1>3. TaskInv /\ OnceInv => NoDuplicates
  <2> SUFFICES ASSUME TaskInv, OnceInv, ~restarted, NEW p \in Point
               PROVE  /\ got[p] <= 1
                      /\ p \in Queued => p \notin InPkg /\ p[1] \notin flagged
                      /\ got[p] = 1 => p[1] \notin flagged
    BY DEF NoDuplicates
  <2>1. Disjoint /\ NotYet
    BY DEF OnceInv
  <2> QED
    BY <2>1 DEF Disjoint, NotYet
<1>4. Spec => [](TaskInv /\ FileInv)
  BY TaskAndFile
<1> QED
  BY <1>1, <1>2, <1>3, <1>4, PTL DEF Spec

=============================================================================
