------------------------------- MODULE Storage -------------------------------
(***************************************************************************)
(* How the points of a server get to disk, and come back after a crash     *)
(* (db/series.c, db/buffer.c, db/shards.c, db/shard.c, optimize.c and the  *)
(* loading in db/db.c).                                                    *)
(*                                                                         *)
(* A point waits in the buffer of its series: in memory, and in the slot   *)
(* of the series in the buffer file.  A full buffer is written as a chunk  *)
(* to the file of each shard concerned, after which the slot is emptied.   *)
(* The optimize task rewrites a shard: it copies the chunks of one series  *)
(* after the other to a temporary file while inserts go to both files, and *)
(* then replaces the file.  The chunks of the copy have their headers in a *)
(* separate index file, as long as no insert came between.                 *)
(*                                                                         *)
(* A handler runs with the mutexes held and can only be interrupted by a   *)
(* crash of the process.  An action therefore computes, besides the new    *)
(* memory, the sequence `steps' of the states that the files go through;   *)
(* Write takes them one by one before any other action.  What the C        *)
(* library has not yet given to the system is lost in a crash: for the     *)
(* buffer file that is the last write (each write starts with a seek, and  *)
(* that writes what waits).                                                *)
(*                                                                         *)
(* Time stamps are abstracted to the shard they belong to, so the order of *)
(* points in a buffer or chunk means nothing.  Only numeric series.        *)
(***************************************************************************)
EXTENDS Integers, Sequences, FiniteSets, SequencesExt

CONSTANTS
    Names,          \* names of series
    MaxShard,       \* the shards are 1 .. MaxShard
    BufLen,         \* buffer->len
    BufCache,       \* SIRIDB_BUFFER_CACHE
    MaxBatch,       \* bound: points for one series in an insert
    MaxPoints,      \* bound: points inserted
    MaxSeries,      \* bound: series created
    MaxOptimize,    \* bound: shards optimized
    MaxDrops,       \* bound: series or shards dropped
    MaxRestarts,    \* bound: times that the process stops or crashes
    CrashIn         \* the handlers a crash may interrupt

Shards == 1..MaxShard

Handlers == {"insert", "drop_series", "drop_shard", "optimize", "finish",
             "load"}

ASSUME StorageAssumption ==
    /\ MaxShard \in Nat \ {0}
    /\ BufLen \in Nat /\ BufLen >= 2
    /\ BufCache \in Nat \ {0}
    /\ {MaxBatch, MaxPoints, MaxSeries, MaxOptimize, MaxDrops, MaxRestarts}
          \subseteq Nat
    /\ CrashIn \subseteq Handlers

VARIABLES
    mem,        \* the memory of the process
    fs,         \* the files
    steps,      \* what the files will be after each write still to be done
    handler,    \* the handler that does these writes
    inserted,   \* number of points inserted so far
    expired,    \* the shards past their expiration time
    acting,     \* the points that the handler adds, and deletes for good
    sure,       \* points acknowledged to a client and not deleted
    removed,    \* points deleted for good
    crashed,    \* was there a crash?
    optimizes, drops, restarts

vars == <<mem, fs, steps, handler, inserted, expired, acting, sure, removed,
          crashed, optimizes, drops, restarts>>

-----------------------------------------------------------------------------
(***************************************************************************)
(* The files.  A file of a shard, and its index, is named <<shard, copy>>; *)
(* the "tmp" copy has a file name that starts with "__".                   *)
(***************************************************************************)

NoFiles == [n \in {} |-> <<>>]

Without(f, n) == [x \in DOMAIN f \ {n} |-> f[x]]
With(f, n, v) == [x \in {n} \cup (DOMAIN f) |-> IF x = n THEN v ELSE f[x]]
Moved(f, from, to) == With(Without(f, from), to, f[from])

ZeroSlot == [id |-> 0, pts |-> <<>>]     \* what ftruncate adds

EmptyFS == [
    store   |-> {},         \* series.dat: ids and names
    max_id  |-> 0,          \* max_series_id.dat
    dropped |-> {},         \* dropped.dat: ids
    dropio  |-> {},         \* ... still in the C library
    buffer  |-> <<>>,       \* buffer.dat: the slots
    bufio   |-> <<>>,       \* ... and the write in the C library, if any
    temp    |-> FALSE,      \* is there a __buffer.dat?
    file    |-> NoFiles,    \* shard files: HAS_INDEX and the chunks
    idx     |-> NoFiles ]   \* index files: headers of chunks

(***************************************************************************)
(* fseeko, fflush and fclose write what the C library holds.               *)
(***************************************************************************)
BufferFlushed(f) ==
    IF f.bufio = <<>> THEN f
    ELSE LET b == f.bufio[1]
             size == IF b.slot > Len(f.buffer) THEN b.slot ELSE Len(f.buffer)
         IN  [f EXCEPT
                !.bufio = <<>>,
                !.buffer = [i \in 1..size |->
                              IF i = b.slot THEN b.cell
                              ELSE IF i <= Len(f.buffer) THEN f.buffer[i]
                              ELSE ZeroSlot]]

DroppedFlushed(f) ==
    [f EXCEPT !.dropped = @ \cup f.dropio, !.dropio = {}]

\* What a crash of the process leaves.
AfterCrash(f) == [f EXCEPT !.bufio = <<>>, !.dropio = {}]

(***************************************************************************)
(* siridb_buffer_fsync: fsync on the descriptor, which knows nothing of    *)
(* what the C library holds.                                               *)
(***************************************************************************)
siridb_buffer_fsync(f) == f

-----------------------------------------------------------------------------
(***************************************************************************)
(* Work in progress: the memory, and the states of the files so far.       *)
(***************************************************************************)

Now(w) == Last(w.fs)
Do(w, f) == [w EXCEPT !.fs = Append(@, f)]

NoOpt == [shard |-> 0, left |-> {}, removed |-> FALSE]

Down == [
    up     |-> FALSE,
    series |-> NoFiles,     \* siridb->series_map
    max_id |-> 0,           \* siridb->max_series_id
    empty  |-> <<>>,        \* buffer->empty
    shards |-> {},          \* siridb->shards
    new    |-> {},          \* ... with SIRIDB_SHARD_HAS_NEW_VALUES
    opt    |-> NoOpt ]      \* the optimize task

\* Is shard s being replaced?  Then its "tmp" copy is in siridb->shards.
Replacing(m, s) == m.opt.shard = s /\ ~m.opt.removed

Current(m, s) == IF Replacing(m, s) THEN "tmp" ELSE "main"

CellPut(cell, at, p) ==
    [cell EXCEPT !.pts = IF at <= Len(@) THEN [@ EXCEPT ![at] = p]
                         ELSE Append(@, p)]

BufferWrite(w, slot, cell) ==
    Do(w, [BufferFlushed(Now(w)) EXCEPT
             !.bufio = <<[slot |-> slot, cell |-> cell]>>])

siridb_buffer_write_empty(w, id) ==
    BufferWrite(w, w.m.series[id].slot, [id |-> id, pts |-> <<>>])

\* The last point of the buffer goes to its place in the slot.
siridb_buffer_write_point(w, id, p) ==
    LET s == w.m.series[id]
    IN  BufferWrite(w, s.slot,
            CellPut(BufferFlushed(Now(w)).buffer[s.slot], Len(s.buf), p))

(***************************************************************************)
(* siridb_buffer_new_series: an empty slot is used; without one the file   *)
(* grows by BufCache slots.                                                *)
(***************************************************************************)
siridb_buffer_new_series(w, id) ==
    IF w.m.empty # <<>>
    THEN siridb_buffer_write_empty(
            [w EXCEPT !.m.series[id].slot = Last(w.m.empty),
                      !.m.empty = Front(@)], id)
    ELSE LET slot == Len(BufferFlushed(Now(w)).buffer) + 1
             w1 == siridb_buffer_write_empty(
                      [w EXCEPT !.m.series[id].slot = slot], id)
         IN  Do([w1 EXCEPT !.m.empty = [i \in 1..(BufCache - 1) |->
                                           slot + BufCache - i]],
                [Now(w1) EXCEPT !.buffer = [i \in 1..(slot + BufCache - 1) |->
                      IF i <= Len(@) THEN @[i] ELSE ZeroSlot]])

siridb_series_new(w, name) ==
    LET id == w.m.max_id + 1
        w1 == [w EXCEPT !.m.max_id = id,
                        !.m.series = With(@, id, [name |-> name, slot |-> 0,
                            buf |-> <<>>, idx |-> <<>>, length |-> 0])]
        w2 == Do(w1, [Now(w1) EXCEPT !.store =
                         @ \cup {[id |-> id, name |-> name]}])
    IN  siridb_buffer_new_series(w2, id)

(***************************************************************************)
(* siridb_shard_write_points: header and data to the shard file, but a     *)
(* header goes to the index file when the optimize task writes (optimizing)*)
(* and the shard has no new values.                                        *)
(***************************************************************************)
HeaderInShard(m, s, optimizing) == ~optimizing \/ s \in m.new

siridb_shard_write_points(w, id, s, copy, pts, optimizing) ==
    LET f == Now(w)
        n == <<s, copy>>
        inline == HeaderInShard(w.m, s, optimizing)
        chunk == [id |-> id, pts |-> pts, inline |-> inline]
        header == [id |-> id, len |-> Len(pts)]
    IN  Do(w, [f EXCEPT
                 !.file = With(@, n, [f.file[n] EXCEPT
                                        !.data = Append(@, chunk)]),
                 !.idx = IF inline THEN @
                         ELSE With(@, n, Append(f.idx[n], header))])

\* Without an index (a new shard) or with one (the optimize task).
siridb_shard_create(w, s, copy) ==
    LET n == <<s, copy>>
        w1 == IF copy = "tmp"
              THEN Do(w, [Now(w) EXCEPT !.idx = With(@, n, <<>>)])
              ELSE w
    IN  Do([w1 EXCEPT !.m.shards = @ \cup {s}, !.m.new = @ \ {s}],
           [Now(w1) EXCEPT !.file =
               With(@, n, [index |-> copy = "tmp", data |-> <<>>])])

siridb_series_add_idx(w, id, s, pts) ==
    [w EXCEPT !.m.series[id].idx = Append(@,
                  [shard |-> s, copy |-> Current(w.m, s), pts |-> pts]),
              !.m.new = @ \cup {s}]

\* Mutant: the shard that is replaced gets no new points.
WriteReplaced_Not(w, id, s, pts) == w

\* While a shard is replaced, the old file gets the points as well.
WriteReplaced(w, id, s, pts) ==
    IF Replacing(w.m, s)
    THEN siridb_shard_write_points(w, id, s, "main", pts, FALSE)
    ELSE w

\* Points of an expired shard are not stored.
AddExpired(w, id, pts) == [w EXCEPT !.m.series[id].length = @ - Len(pts)]

AddToShard(w, id, s, pts) ==
    IF s \in expired
    THEN AddExpired(w, id, pts)
    ELSE LET w1 == IF s \in w.m.shards THEN w
                   ELSE siridb_shard_create(w, s, "main")
             w2 == siridb_shard_write_points(w1, id, s, Current(w1.m, s), pts,
                                             FALSE)
         IN  WriteReplaced(siridb_series_add_idx(w2, id, s, pts), id, s, pts)

siridb_shards_add_points(w, id, pts) ==
    FoldLeft(LAMBDA v, s :
                LET part == SelectSeq(pts, LAMBDA p : p.shard = s)
                IN  IF part = <<>> THEN v ELSE AddToShard(v, id, s, part),
             w, [s \in Shards |-> s])

\* Mutant: the slot is not emptied.
FlushBuffer_KeepsSlot(w, id, more) ==
    LET w1 == siridb_shards_add_points(w, id, more \o w.m.series[id].buf)
    IN  [w1 EXCEPT !.m.series[id].buf = <<>>]

\* The buffer, and perhaps more points, goes to the shards.
FlushBuffer(w, id, more) ==
    LET w1 == siridb_shards_add_points(w, id, more \o w.m.series[id].buf)
    IN  siridb_buffer_write_empty([w1 EXCEPT !.m.series[id].buf = <<>>], id)

siridb_series_add_point(w, id, p) ==
    LET w1 == [w EXCEPT !.m.series[id].length = @ + 1,
                        !.m.series[id].buf = Append(@, p)]
    IN  IF Len(w1.m.series[id].buf) = BufLen
        THEN FlushBuffer(w1, id, <<>>)
        ELSE siridb_buffer_write_point(w1, id, p)

siridb_series_add_pcache(w, id, pts) ==
    LET longer == [w EXCEPT !.m.series[id].length = @ + Len(pts)]
    IN  IF Len(pts) > BufLen
        THEN siridb_shards_add_points(longer, id, pts)
        ELSE IF Len(pts) + Len(w.m.series[id].buf) > BufLen
        THEN FlushBuffer(longer, id, pts)
        ELSE FoldLeft(LAMBDA v, p : siridb_series_add_point(v, id, p), w, pts)

\* The id waits in the C library until siridb_series_flush_dropped.
siridb_series_drop(w, id) ==
    Do([w EXCEPT !.m.series = Without(@, id),
                 !.m.empty = IF w.m.series[id].slot = 0 THEN @
                             ELSE Append(@, w.m.series[id].slot)],
       [Now(w) EXCEPT !.dropio = @ \cup {id}])

siridb_series_flush_dropped(w) == Do(w, DroppedFlushed(Now(w)))

INSERT_local_work(w, name, pts) ==
    LET known == {i \in DOMAIN w.m.series : w.m.series[i].name = name}
        w1 == IF known = {} THEN siridb_series_new(w, name) ELSE w
        id == CHOOSE i \in DOMAIN w1.m.series : w1.m.series[i].name = name
        w2 == IF Len(pts) = 1 THEN siridb_series_add_point(w1, id, pts[1])
              ELSE siridb_series_add_pcache(w1, id, pts)
        w3 == IF w2.m.series[id].length = 0 THEN siridb_series_drop(w2, id)
              ELSE w2
    IN  Do(w3, siridb_buffer_fsync(Now(w3)))

-----------------------------------------------------------------------------
(***************************************************************************)
(* siridb_shard_drop: SHARD_remove unlinks the files, the index first; the *)
(* series lose the chunks, and a series that has nothing left is dropped   *)
(* (without siridb_series_flush_dropped).                                  *)
(***************************************************************************)
UnlinkShard(w, s) ==
    LET w1 == IF Now(w).file[<<s, "main">>].index
              THEN Do(w, [Now(w) EXCEPT !.idx = Without(@, <<s, "main">>)])
              ELSE w
    IN  Do(w1, [Now(w1) EXCEPT !.file = Without(@, <<s, "main">>)])

SHARD_remove(w, s) ==
    LET w1 == UnlinkShard(w, s)
    IN  IF Replacing(w.m, s)
        THEN Do(w1, [Now(w1) EXCEPT !.file = Without(@, <<s, "tmp">>)])
        ELSE w1

InShard(series, s) == SelectSeq(series.idx, LAMBDA c : c.shard = s)

\* siridb_points_t of several chunks
AllPoints(chunks) == FlattenSeq([i \in DOMAIN chunks |-> chunks[i].pts])

siridb_series_remove_shard(w, id, s) ==
    LET lost == AllPoints(InShard(w.m.series[id], s))
        w1 == [w EXCEPT
                 !.m.series[id].idx = SelectSeq(@, LAMBDA c : c.shard # s),
                 !.m.series[id].length = @ - Len(lost)]
    IN  IF lost # <<>> /\ w1.m.series[id].length = 0
        THEN siridb_series_drop(w1, id) ELSE w1

Ids(m) == SetToSortSeq(DOMAIN m.series, <)

siridb_shard_drop(w, s) ==
    LET w1 == SHARD_remove(w, s)
        w2 == [w1 EXCEPT !.m.shards = @ \ {s}, !.m.new = @ \ {s},
                         !.m.opt.removed = @ \/ Replacing(w.m, s)]
    IN  FoldLeft(LAMBDA v, id : siridb_series_remove_shard(v, id, s),
                 w2, Ids(w.m))

\* Mutant: takes the chunks that came in meanwhile for copied ones.
siridb_series_optimize_shard_All(w, id, s) ==
    LET pts == AllPoints(SelectSeq(InShard(w.m.series[id], s),
                                   LAMBDA c : c.copy = "main"))
        w1 == siridb_shard_write_points(w, id, s, "tmp", pts, TRUE)
    IN  IF pts = <<>> THEN w
        ELSE [w1 EXCEPT !.m.series[id].idx = Append(
                 SelectSeq(@, LAMBDA c : c.shard # s),
                 [shard |-> s, copy |-> "tmp", pts |-> pts])]

(***************************************************************************)
(* siridb_series_optimize_shard: the chunks of one series in the old file  *)
(* become one chunk of the new file.                                       *)
(***************************************************************************)
siridb_series_optimize_shard(w, id, s) ==
    LET old(c) == c.shard = s /\ c.copy = "main"
        series == w.m.series[id]
        pts == AllPoints(SelectSeq(series.idx, old))
        w1 == siridb_shard_write_points(w, id, s, "tmp", pts, TRUE)
    IN  IF pts = <<>> THEN w
        ELSE [w1 EXCEPT !.m.series[id].idx = Append(
                 SelectSeq(@, LAMBDA c : ~old(c)),
                 [shard |-> s, copy |-> "tmp", pts |-> pts])]

(***************************************************************************)
(* The end of siridb_shard_optimize: the old file is unlinked, the new one *)
(* gets its name, and siri_optimize_finish_idx does the same for the index.*)
(***************************************************************************)
FinishIdx(w, s, remove_old) ==
    LET w1 == IF remove_old
              THEN Do(w, [Now(w) EXCEPT !.idx = Without(@, <<s, "main">>)])
              ELSE w
    IN  Do(w1, [Now(w1) EXCEPT !.idx = Moved(@, <<s, "tmp">>, <<s, "main">>)])

ReplaceShard(w, s) ==
    LET f == Now(w)
        w1 == Do(w, [f EXCEPT !.file = Without(@, <<s, "main">>)])
        w2 == Do(w1, [Now(w1) EXCEPT
                        !.file = Moved(@, <<s, "tmp">>, <<s, "main">>)])
        w3 == FinishIdx(w2, s, f.file[<<s, "main">>].index)
        renamed(c) == IF c.shard = s THEN [c EXCEPT !.copy = "main"] ELSE c
    IN  [w3 EXCEPT !.m.opt = NoOpt,
                   !.m.series = [id \in DOMAIN @ |->
                      [@[id] EXCEPT !.idx = [i \in DOMAIN @ |->
                                                renamed(@[i])]]]]

-----------------------------------------------------------------------------
(***************************************************************************)
(* Loading a database.                                                     *)
(***************************************************************************)

\* SERIES_load: of two series with the same name the one with the highest
\* id is kept.
KeptSeries(f) ==
    LET known == {e \in f.store : e.id \notin f.dropped}
    IN  {e \in known : \A o \in known : o.name = e.name => o.id <= e.id}

MaxOf(S) == IF S = {} THEN 0 ELSE CHOOSE x \in S : \A y \in S : y <= x

\* Mutant: the highest id is not saved.
SERIES_update_max_id_Not(f, max_id) == f

\* SERIES_save writes the kept series to the store, SERIES_update_max_id the
\* highest id ever given, SERIES_open_new_dropped_file an empty file.
SERIES_update_max_id(f, max_id) == [f EXCEPT !.max_id = max_id]

siridb_series_load(w) ==
    LET f == Now(w)
        kept == KeptSeries(f)
        max_id == MaxOf({e.id : e \in f.store} \cup {f.max_id})
        w1 == Do(w, [f EXCEPT !.store = {}])
        w2 == Do(w1, [Now(w1) EXCEPT !.store = kept])
        w3 == Do(w2, SERIES_update_max_id(Now(w2), max_id))
        w4 == Do(w3, [Now(w3) EXCEPT !.dropped = {}])
    IN  [w4 EXCEPT
           !.m.up = TRUE,
           !.m.max_id = max_id,
           !.m.series = [id \in {e.id : e \in kept} |->
               [name |-> (CHOOSE e \in kept : e.id = id).name,
                slot |-> 0, buf |-> <<>>, idx |-> <<>>, length |-> 0]]]

(***************************************************************************)
(* siridb_shards_load: temporary files are removed.  SHARD_get_idx reads   *)
(* the headers in the index file as if the data of these chunks starts the *)
(* shard file, SHARD_load_idx the headers between the data that follows.   *)
(***************************************************************************)
Readable(f, n) ==
    LET data == f.file[n].data
        heads == IF n \in DOMAIN f.idx THEN f.idx[n] ELSE <<>>
        k == IF f.file[n].index THEN Len(heads) ELSE 0
    IN  /\ f.file[n].index => n \in DOMAIN f.idx
        /\ k <= Len(data)
        /\ \A i \in 1..k : /\ ~data[i].inline
                           /\ heads[i].id = data[i].id
                           /\ heads[i].len = Len(data[i].pts)
        /\ \A i \in (k + 1)..Len(data) : data[i].inline

Loadable(f) ==
    /\ ~f.temp
    /\ \A n \in DOMAIN f.file : n[2] = "main" => Readable(f, n)

siridb_shard_load(w, s) ==
    LET data == Now(w).file[<<s, "main">>].data
        w1 == [w EXCEPT !.m.shards = @ \cup {s},
                        !.m.new = IF \E i \in DOMAIN data : data[i].inline
                                  THEN @ \cup {s} ELSE @]
        add(v, c) == IF c.id \notin DOMAIN v.m.series THEN v
                     ELSE [v EXCEPT
                             !.m.series[c.id].idx = Append(@, [shard |-> s,
                                  copy |-> "main", pts |-> c.pts]),
                             !.m.series[c.id].length = @ + Len(c.pts)]
    IN  FoldLeft(add, w1, data)

siridb_shards_load(w) ==
    LET f == Now(w)
        main == [n \in {x \in DOMAIN f.file : x[2] = "main"} |-> f.file[n]]
        w1 == Do(w, [f EXCEPT !.file = main,
                              !.idx = [n \in {x \in DOMAIN f.idx :
                                               x[2] = "main"} |-> f.idx[n]]])
    IN  FoldLeft(siridb_shard_load, w1,
                 SetToSortSeq({n[1] : n \in DOMAIN main}, <))

(***************************************************************************)
(* siridb_buffer_load copies the slots of known series to a temporary file *)
(* and renames that file.                                                  *)
(***************************************************************************)
siridb_buffer_load(w) ==
    LET f == Now(w)
        kept == SelectSeq(f.buffer, LAMBDA c : c.id \in DOMAIN w.m.series)
        w1 == Do(w, [f EXCEPT !.temp = TRUE])
        w2 == Do(w1, [f EXCEPT !.buffer = kept])
        add(v, i) == [v EXCEPT !.m.series[kept[i].id] =
                         [@ EXCEPT !.slot = i, !.buf = kept[i].pts,
                                   !.length = @ + Len(kept[i].pts)]]
    IN  FoldLeft(add, w2, [i \in DOMAIN kept |-> i])

\* A series without a slot, or without points, is dropped.
siridb_series_update_props(w, id) ==
    IF w.m.series[id].slot = 0 \/ w.m.series[id].length = 0
    THEN siridb_series_drop(w, id) ELSE w

LoadWork(f) ==
    LET w == siridb_buffer_load(siridb_shards_load(siridb_series_load(
                [m |-> Down, fs |-> <<f>>])))
    IN  FoldLeft(siridb_series_update_props, w, Ids(w.m))

-----------------------------------------------------------------------------
(***************************************************************************)
(* The specification.                                                      *)
(***************************************************************************)

Points(series) == ToSet(series.buf) \cup ToSet(AllPoints(series.idx))
Visible(m) == UNION {Points(m.series[id]) : id \in DOMAIN m.series}

Idle == mem.up /\ steps = <<>>

Here == [m |-> mem, fs |-> <<fs>>]

\* Handler h changes memory and files as in w; it adds points, deletes points
\* and those in `gone' will not come back once it is done.
Begin(h, w, add, del, gone) ==
    /\ mem' = w.m
    /\ steps' = Tail(w.fs)
    /\ handler' = IF Tail(w.fs) = <<>> THEN "idle" ELSE h
    /\ acting' = [add |-> add, gone |-> gone]
    /\ sure' = sure \ del
    /\ UNCHANGED <<fs, removed, crashed>>

Init ==
    /\ mem = [Down EXCEPT !.up = TRUE]
    /\ fs = EmptyFS
    /\ steps = <<>>
    /\ handler = "idle"
    /\ inserted = 0
    /\ expired = {}
    /\ acting = [add |-> {}, gone |-> {}]
    /\ sure = {} /\ removed = {}
    /\ crashed = FALSE
    /\ optimizes = 0 /\ drops = 0 /\ restarts = 0

\* The handler does its next write; after the last one it answers.
Write ==
    /\ steps # <<>>
    /\ fs' = Head(steps)
    /\ steps' = Tail(steps)
    /\ IF Len(steps) > 1
       THEN UNCHANGED <<handler, acting, sure, removed>>
       ELSE /\ handler' = "idle"
            /\ acting' = [add |-> {}, gone |-> {}]
            /\ sure' = sure \cup acting.add
            /\ removed' = removed \cup acting.gone
    /\ UNCHANGED <<mem, inserted, expired, crashed, optimizes, drops, restarts>>

\* Points for one series, some with time stamps in an expired shard.
INSERT_local_task(name, batch) ==
    LET pts == [i \in DOMAIN batch |-> [no |-> inserted + i, name |-> name,
                                        shard |-> batch[i]]]
    IN  /\ Idle
        /\ inserted + Len(batch) <= MaxPoints
        /\ \/ mem.max_id < MaxSeries
           \/ \E id \in DOMAIN mem.series : mem.series[id].name = name
        /\ inserted' = inserted + Len(batch)
        /\ Begin("insert", INSERT_local_work(Here, name, pts),
                 {p \in ToSet(pts) : p.shard \notin expired}, {}, {})
        /\ UNCHANGED <<expired, optimizes, drops, restarts>>

async_drop_series(id) ==
    /\ Idle
    /\ drops < MaxDrops
    /\ id \in DOMAIN mem.series
    /\ drops' = drops + 1
    /\ Begin("drop_series",
             siridb_series_flush_dropped(siridb_series_drop(Here, id)),
             {}, Points(mem.series[id]), Points(mem.series[id]))
    /\ UNCHANGED <<inserted, expired, optimizes, restarts>>

\* By a query, or by the optimize task when the shard is expired.  A point
\* that is also in a slot of the buffer file (the write that empties the slot
\* may be in the C library) can come back.
DropShard(s) ==
    /\ Idle
    /\ drops < MaxDrops
    /\ s \in mem.shards
    /\ drops' = drops + 1
    /\ LET del == UNION {ToSet(AllPoints(InShard(mem.series[id], s))) :
                            id \in DOMAIN mem.series}
           slots == UNION {ToSet(fs.buffer[i].pts) : i \in DOMAIN fs.buffer}
       IN  Begin("drop_shard", siridb_shard_drop(Here, s), {}, del,
                 del \ slots)
    /\ UNCHANGED <<inserted, expired, optimizes, restarts>>

\* Time passes.
Expire(s) ==
    /\ Idle
    /\ s \notin expired
    /\ expired' = expired \cup {s}
    /\ sure' = {p \in sure : p.shard # s}
    /\ UNCHANGED <<mem, fs, steps, handler, inserted, acting, removed, crashed,
                   optimizes, drops, restarts>>

\* siridb_shard_optimize, up to the list of all series.
OptimizeStart(s) ==
    /\ Idle
    /\ optimizes < MaxOptimize
    /\ mem.opt = NoOpt
    /\ s \in mem.shards \ expired
    /\ optimizes' = optimizes + 1
    /\ LET w == siridb_shard_create(Here, s, "tmp")
       IN  Begin("optimize",
                 [w EXCEPT !.m.opt = [shard |-> s, removed |-> FALSE,
                                      left |-> DOMAIN mem.series]],
                 {}, {}, {})
    /\ UNCHANGED <<inserted, expired, drops, restarts>>

OptimizeSeries ==
    /\ Idle
    /\ mem.opt.left # {}
    /\ LET id == CHOOSE i \in mem.opt.left :
                    \A j \in mem.opt.left : i <= j
           w == [Here EXCEPT !.m.opt.left = @ \ {id}]
       IN  Begin("optimize",
                 IF id \in DOMAIN mem.series /\ ~mem.opt.removed
                 THEN siridb_series_optimize_shard(w, id, mem.opt.shard)
                 ELSE w,
                 {}, {}, {})
    /\ UNCHANGED <<inserted, expired, optimizes, drops, restarts>>

\* The index of a shard that was dropped meanwhile is removed.
OptimizeFinish ==
    /\ Idle
    /\ mem.opt # NoOpt /\ mem.opt.left = {}
    /\ LET s == mem.opt.shard
       IN  IF mem.opt.removed
           THEN Begin("optimize",
                      Do([Here EXCEPT !.m.opt = NoOpt],
                         [fs EXCEPT !.idx = Without(@, <<s, "tmp">>)]),
                      {}, {}, {})
           ELSE Begin("finish", ReplaceShard(Here, s), {}, {}, {})
    /\ UNCHANGED <<inserted, expired, optimizes, drops, restarts>>

\* A server that stops closes its files.
siridb__free ==
    /\ Idle
    /\ restarts < MaxRestarts
    /\ restarts' = restarts + 1
    /\ mem' = Down
    /\ fs' = DroppedFlushed(BufferFlushed(fs))
    /\ UNCHANGED <<steps, handler, inserted, expired, acting, sure, removed,
                   crashed, optimizes, drops>>

\* What the next start will find.
Recovered(f) == LoadWork(AfterCrash(f)).m

\* The points that were still in the C library are lost; Recovers says which.
Crash ==
    /\ mem.up
    /\ restarts < MaxRestarts
    /\ steps # <<>> => handler \in CrashIn
    /\ restarts' = restarts + 1
    /\ crashed' = TRUE
    /\ mem' = Down
    /\ fs' = AfterCrash(fs)
    /\ steps' = <<>>
    /\ handler' = "idle"
    /\ acting' = [add |-> {}, gone |-> {}]
    /\ sure' = IF Loadable(fs) THEN sure \cap Visible(Recovered(fs)) ELSE sure
    /\ UNCHANGED <<inserted, expired, removed, optimizes, drops>>

siridb_load ==
    /\ ~mem.up
    /\ Loadable(fs)
    /\ Begin("load", LoadWork(fs), {}, {}, {})
    /\ UNCHANGED <<inserted, expired, optimizes, drops, restarts>>

Batches == UNION {[1..k -> Shards] : k \in 1..MaxBatch}

Next ==
    \/ Write
    \/ \E n \in Names, b \in Batches : INSERT_local_task(n, b)
    \/ \E id \in 1..MaxSeries : async_drop_series(id)
    \/ \E s \in Shards : DropShard(s) \/ Expire(s) \/ OptimizeStart(s)
    \/ OptimizeSeries
    \/ OptimizeFinish
    \/ siridb__free
    \/ Crash
    \/ siridb_load

Spec == Init /\ [][Next]_vars

-----------------------------------------------------------------------------
(***************************************************************************)
(* Properties.                                                             *)
(***************************************************************************)

PointType == [no : 1..MaxPoints, name : Names, shard : Shards]

(* Every variable has its type (the contents of the files by their parts). *)
TypeOK ==
    /\ mem.up \in BOOLEAN
    /\ DOMAIN mem.series \subseteq 1..mem.max_id
    /\ \A id \in DOMAIN mem.series :
          /\ mem.series[id].name \in Names
          /\ mem.series[id].length \in Nat
          /\ Points(mem.series[id]) \subseteq PointType
    /\ mem.shards \subseteq Shards /\ mem.new \subseteq mem.shards
    /\ mem.opt.shard \in Shards \cup {0}
    /\ DOMAIN fs.file \subseteq Shards \X {"main", "tmp"}
    /\ DOMAIN fs.idx \subseteq Shards \X {"main", "tmp"}
    /\ handler \in Handlers \cup {"idle"}
    /\ sure \subseteq PointType /\ removed \subseteq PointType
    /\ expired \subseteq Shards

(* No point that was acknowledged is missing: flushing a buffer, rewriting *)
(* a shard, dropping other series and restarting all leave it in its series. *)
SureIsVisible == Idle => sure \subseteq Visible(mem)

(* A series holds points that were inserted under its name, and nothing    *)
(* that was deleted: the id of a dropped series, whose chunks stay in the  *)
(* shard files, is not given to another one, not even after restarts.      *)
OwnPointsOnly ==
    Idle => \A id \in DOMAIN mem.series :
               \A p \in Points(mem.series[id]) :
                  p.name = mem.series[id].name /\ p \notin removed

(* series->length counts the points in the buffer and in the index.  A     *)
(* series whose length gets to zero is dropped, so it must be right after  *)
(* expired points, dropped shards, optimizing and loading.                 *)
LengthIsRight ==
    Idle => \A id \in DOMAIN mem.series :
               LET s == mem.series[id]
               IN  s.length = Len(s.buf) + Len(AllPoints(s.idx))

(* As long as there was no crash, a point is not found twice, although two *)
(* files hold it while a shard is optimized.                               *)
OnceEach ==
    Idle /\ ~crashed =>
        \A id \in DOMAIN mem.series :
           LET s == mem.series[id]
           IN  Cardinality(Points(s)) = Len(s.buf) + Len(AllPoints(s.idx))

(* The slot of a series in the buffer file (with what the C library holds) *)
(* has the id and the points of its buffer, which fit with an end mark;    *)
(* and slots are not shared.                                               *)
BufferMirrors ==
    Idle => \A id \in DOMAIN mem.series :
               LET s == mem.series[id]
               IN  /\ BufferFlushed(fs).buffer[s.slot] =
                         [id |-> id, pts |-> s.buf]
                   /\ Len(s.buf) < BufLen
                   /\ s.slot \notin ToSet(mem.empty)
                   /\ \A o \in DOMAIN mem.series \ {id} :
                         mem.series[o].slot # s.slot

(* An index entry of a series refers to a chunk that is in the file.       *)
IndexIsRight ==
    Idle => \A id \in DOMAIN mem.series :
               \A c \in ToSet(mem.series[id].idx) :
                  \E d \in ToSet(fs.file[<<c.shard, c.copy>>].data) :
                     d.id = id /\ d.pts = c.pts

CrashPoint == mem.up /\ (steps # <<>> => handler \in CrashIn)

(* Wherever a crash may happen, the server can load what is left: every    *)
(* index file fits its shard file.                                         *)
FilesReadable == CrashPoint => Loadable(fs)

(* Wherever a crash may happen, it costs nothing but the write that is in  *)
(* the C library: one point, or a series whose slot was not yet written.   *)
Recovers ==
    CrashPoint =>
        LET lost == sure \ Visible(Recovered(fs))
        IN  /\ fs.bufio = <<>> => lost = {}
            /\ lost # {} =>
                 LET b == fs.bufio[1]
                     named == {e \in fs.store : e.id = b.cell.id}
                 IN  /\ \A p \in lost : \E e \in named : p.name = e.name
                     /\ (/\ b.slot <= Len(fs.buffer)
                         /\ fs.buffer[b.slot].id = b.cell.id)
                           => Cardinality(lost) = 1

(* A series has its own points, each once, and its length counts them.     *)
PointsExact ==
    /\ OwnPointsOnly
    /\ LengthIsRight
    /\ OnceEach

(* What is in memory is what is in the files: the slots of the buffers and *)
(* the chunks of the index.                                                *)
MirrorsOK ==
    /\ TypeOK
    /\ BufferMirrors
    /\ IndexIsRight

(* A crash between any two writes leaves files that can be loaded and costs*)
(* at most the write that is in the C library.                             *)
CrashSafe ==
    /\ FilesReadable
    /\ Recovers

=============================================================================
