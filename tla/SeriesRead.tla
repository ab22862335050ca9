----------------------------- MODULE SeriesRead -----------------------------
(***************************************************************************)
(* What a query reads from one series (db/series.c, db/shards.c,           *)
(* db/shard.c).  The points of a series are in its buffer and in the       *)
(* chunks of its index, ordered by the time-stamp they start with.  Chunks *)
(* may overlap: a flag of the series and a flag of each shard say where    *)
(* points must be put in between instead of behind the others.             *)
(*                                                                         *)
(* The optimize task replaces the chunks of one shard by chunks of a new   *)
(* one.  Inserts in between go to the new shard, so the index has chunks   *)
(* of both.                                                                *)
(*                                                                         *)
(* Each action runs under the series mutex.  Files, crashes, expiration    *)
(* and dropping are in Storage.  A point has a value that follows from its *)
(* time-stamp, so points with the same time-stamp cannot be told apart.    *)
(***************************************************************************)
EXTENDS Points

CONSTANTS
    Kinds,          \* a type, are shards compressed, are times 32 bits wide
    MaxTs,          \* bound: time-stamps are 0 .. MaxTs
    Duration,       \* of a shard
    BufferLen,      \* buffer->len
    MaxChunk,       \* max_chunk_sz of a shard
    MaxBatch,       \* bound: points of one insert
    MaxInserts,     \* bound: points inserted
    MaxOptimize     \* bound: shards optimized

Times == 0..MaxTs
Types == {"int", "double", "string"}

ASSUME SeriesReadAssumption ==
    /\ Kinds \subseteq Types \X BOOLEAN \X BOOLEAN /\ Kinds # {}
    /\ MaxTs \in Nat /\ MaxTs < Base^(Width - 1)
    /\ {Duration, BufferLen, MaxChunk, MaxBatch} \subseteq Nat \ {0}
    /\ MaxInserts \in Nat /\ MaxOptimize \in Nat

VARIABLES
    kind,       \* type of the series, and how its points are stored
    buffer,     \* series->buffer, sorted points
    index,      \* series->idx, flags of the series and of its shards
    opt,        \* the shard that is optimized, or NULL
    written,    \* all points ever inserted, sorted
    optimizes,  \* shards optimized so far
    late        \* history: did points come late during an optimization?

vars == <<kind, buffer, index, opt, written, optimizes, late>>

tp == kind[1]
compressed == kind[2]
time_32bit == kind[3]       \* db->time precision is seconds

\* An integer may be negative, the bits of a double are not.
ValueAt(ts) ==
    LET v == (3 * ts * ts + ts) % 7 IN IF tp = "int" THEN v - 3 ELSE v

Empty == [idx |-> <<>>, overlap |-> FALSE, flagged |-> {}]

Init ==
    /\ kind \in Kinds
    /\ buffer = <<>> /\ index = Empty /\ opt = NULL
    /\ written = <<>> /\ optimizes = 0 /\ late = FALSE

-----------------------------------------------------------------------------
(* Writing.                                                                *)

siridb_points_zip(pts) ==
    CASE tp = "int"    -> siridb_points_zip_int(pts)
      [] tp = "double" -> siridb_points_zip_double(pts)
      [] tp = "string" -> siridb_points_zip_string(pts)

\* The bytes of a chunk.
siridb_shard_write_points(pts) ==
    IF compressed THEN siridb_points_zip(pts)
    ELSE IF tp = "string" THEN siridb_points_raw_string(pts)
    ELSE IF time_32bit THEN [i \in 1..Len(pts) |-> Point(pts[i].ts % Base^(Width - 1), pts[i].val)]
    ELSE pts

Chunk(shard, pts) ==
    [shard |-> shard, start |-> pts[1].ts, end |-> Last(pts).ts, len |-> Len(pts),
     data |-> siridb_shard_write_points(pts)]

\* Chunks of about the same size, none above MaxChunk.
Pieces(pts) ==
    LET size == Len(pts)
        num  == (size - 1) \div MaxChunk + 1
        sz   == size \div num + (IF size % num # 0 THEN 1 ELSE 0)
        n    == (size - 1) \div sz + 1
    IN  [k \in 1..n |-> SubSeq(pts, (k - 1) * sz + 1, IF k * sz < size THEN k * sz ELSE size)]

Overlaps(a, b) == a.end > b.start

\* Mutant: a chunk is put behind all others.
siridb_series_add_idx_Behind(ix, c) ==
    LET hit == ix.idx # <<>> /\ Overlaps(Last(ix.idx), c)
    IN  [idx     |-> Append(ix.idx, c),
         overlap |-> ix.overlap \/ hit,
         flagged |-> IF hit THEN ix.flagged \cup {c.shard} ELSE ix.flagged]

\* A chunk goes behind those that do not start later, and is compared with
\* the one before and the one behind it.
siridb_series_add_idx(ix, c) ==
    LET at  == Highest({i \in 1..Len(ix.idx) : ix.idx[i].start <= c.start}) + 1
        hit == \/ at > 1 /\ Overlaps(ix.idx[at - 1], c)
               \/ at <= Len(ix.idx) /\ Overlaps(c, ix.idx[at])
    IN  [idx     |-> InsertAt(ix.idx, at, c),
         overlap |-> ix.overlap \/ hit,
         flagged |-> IF hit THEN ix.flagged \cup {c.shard} ELSE ix.flagged]

\* A shard is its first time-stamp and "old"; while it is replaced, points go
\* to its "new" one.
Shard(ts) ==
    LET id == ts \div Duration IN <<id, IF opt = id THEN "new" ELSE "old">>

siridb_shards_add_points(ix, pts) ==
    LET ids == SetToSortSeq({p.ts \div Duration : p \in Range(pts)}, <)
        Part(id) == SelectSeq(pts, LAMBDA p : p.ts \div Duration = id)
        AddShard(i, id) ==
            FoldLeft(LAMBDA j, piece : siridb_series_add_idx(j, Chunk(Shard(piece[1].ts), piece)),
                     i, Pieces(Part(id)))
    IN  FoldLeft(AddShard, ix, ids)

siridb_series_add_point(st, p) ==
    LET buf == siridb_points_add_point(st.buf, p)
    IN  IF Len(buf) = BufferLen
        THEN [buf |-> <<>>, ix |-> siridb_shards_add_points(st.ix, buf)]
        ELSE [st EXCEPT !.buf = buf]

\* Strings have no buffer, and many points go past it.
siridb_series_add_pcache(st, pts) ==
    IF Len(pts) > BufferLen \/ tp = "string"
    THEN [st EXCEPT !.ix = siridb_shards_add_points(@, pts)]
    ELSE IF Len(pts) + Len(st.buf) > BufferLen
    THEN [buf |-> <<>>, ix |-> siridb_shards_add_points(st.ix, AddAll(pts, Reverse(st.buf)))]
    ELSE FoldLeft(siridb_series_add_point, st, pts)

\* Are the chunks written during an optimization behind those it replaces?
Appended(ix) ==
    \A c, d \in Range(ix.idx) :
        (c.shard = <<opt, "new">> /\ d.shard = <<opt, "old">>) => d.end <= c.start

Batches ==
    {LET times == SetToSortSeq(batch, <)
     IN  [i \in 1..Len(times) |-> Point(times[i], ValueAt(times[i]))] :
        batch \in {b \in SUBSET Times : Cardinality(b) \in 1..MaxBatch}}

\* An insert of points for this series.
Insert(pts) ==
    /\ Len(written) + Len(pts) <= MaxInserts
    /\ \E st \in {siridb_series_add_pcache([buf |-> buffer, ix |-> index], pts)} :
        /\ buffer' = st.buf /\ index' = st.ix
        /\ late' = (late \/ ~Appended(st.ix))
    /\ written' = AddAll(written, pts)
    /\ UNCHANGED <<kind, opt, optimizes>>

-----------------------------------------------------------------------------
(* Reading.                                                                *)

\* Points without compression: those out of range are cut off at both ends.
Cut(all, start, end) ==
    SelectSeq(all, LAMBDA p : ~Before(p.ts, start) /\ ~Behind(p.ts, end))

siridb_shard_get_points_num64(pts, c, start, end, overlap) ==
    Join(pts, Cut(c.data, start, end), overlap)

\* A time-stamp has half the size.
siridb_shard_get_points_num32(pts, c, start, end, overlap) ==
    LET all == [i \in 1..c.len |-> Point(c.data[i].ts % Base^(Width - 1), c.data[i].val)]
    IN  Join(pts, Cut(all, start, end), overlap)

\* All time-stamps come before the strings.
siridb_shard_get_points_log64(pts, c, start, end, overlap) ==
    LET all == [i \in 1..c.len |-> Point(c.data.times[i], c.data.strs[i])]
    IN  Join(pts, Cut(all, start, end), overlap)

siridb_shard_get_points_log32(pts, c, start, end, overlap) ==
    LET all == [i \in 1..c.len |-> Point(c.data.times[i] % Base^(Width - 1), c.data.strs[i])]
    IN  Join(pts, Cut(all, start, end), overlap)

siridb_shard_get_points_num_compressed(pts, c, start, end, overlap) ==
    IF tp = "int" THEN siridb_points_unzip_int(pts, c.data, c.len, start, end, overlap)
    ELSE siridb_points_unzip_double(pts, c.data, c.len, start, end, overlap)

siridb_shard_get_points_log_compressed(pts, c, start, end, overlap) ==
    IF c.len < ZipThreshold THEN siridb_shard_get_points_log64(pts, c, start, end, overlap)
    ELSE siridb_points_unzip_string(pts, c.data, c.len, start, end, overlap)

siridb_shard_get_points_callback(pts, c, start, end) ==
    LET overlap == index.overlap /\ c.shard \in index.flagged
        args(F(_, _, _, _, _)) == F(pts, c, start, end, overlap)
    IN  CASE tp = "string" /\ compressed  -> args(siridb_shard_get_points_log_compressed)
          [] tp # "string" /\ compressed  -> args(siridb_shard_get_points_num_compressed)
          [] tp = "string" /\ ~compressed ->
                IF time_32bit THEN args(siridb_shard_get_points_log32)
                ELSE args(siridb_shard_get_points_log64)
          [] tp # "string" /\ ~compressed ->
                IF time_32bit THEN args(siridb_shard_get_points_num32)
                ELSE args(siridb_shard_get_points_num64)

ReadChunks(chunks, start, end) ==
    FoldLeft(LAMBDA pts, c : siridb_shard_get_points_callback(pts, c, start, end), <<>>, chunks)

siridb_series_get_points(start, end) ==
    LET In(c) == ~Before(c.end, start) /\ ~Behind(c.start, end)
        found == ReadChunks(SelectSeq(index.idx, In), start, end)
    IN  AddAll(found, Cut(buffer, start, end))

\* How many chunks are read, from the front of the sequence idx, for n
\* points: of a shard with overlap all chunks.  Returns their number.
RECURSIVE ChunksFor(_, _, _, _)
ChunksFor(idx, n, k, whole) ==
    LET have == FoldLeft(LAMBDA a, c : a + c.len, 0, SubSeq(idx, 1, k))
        same == k > 0 /\ k < Len(idx) /\ idx[k].shard = idx[k + 1].shard
    IN  IF k = Len(idx) THEN k
        ELSE IF have < n \/ (same /\ whole /\ idx[k].shard \in index.flagged)
        THEN ChunksFor(idx, n, k + 1, whole)
        ELSE k

\* The chunk of the last shard that ends last.
series__last_idx ==
    LET n    == Len(index.idx)
        last == index.idx[n]
        In(i) == \A j \in i..n : index.idx[j].shard = last.shard
        ends == {index.idx[i].end : i \in {j \in 1..n : In(j)}}
    IN  index.idx[Highest({i \in 1..n : In(i) /\ index.idx[i].end = Max(ends)})]

siridb_series_get_points_tail(n) ==
    LET buf    == siridb_points_tail(buffer, n)
        last   == IF index.overlap THEN series__last_idx ELSE Last(index.idx)
        inline == buffer # <<>> /\ index.idx # <<>> /\ last.end <= buffer[1].ts
        want   == IF inline THEN n - Len(buf) ELSE n
        k      == ChunksFor(Reverse(index.idx), want, 0, index.overlap)
        chunks == SubSeq(index.idx, Len(index.idx) - k + 1, Len(index.idx))
    IN  siridb_points_tail(AddAll(ReadChunks(chunks, NULL, NULL), buf), n)

siridb_series_get_points_head(n) ==
    LET k      == ChunksFor(index.idx, n, 0, index.overlap)
        chunks == SubSeq(index.idx, 1, k)
        have   == FoldLeft(LAMBDA a, c : a + c.len, 0, chunks)
        behind == buffer # <<>> /\ k > 0 /\ index.idx[k].end <= buffer[1].ts
        buf    == IF ~behind THEN siridb_points_head(buffer, n)
                  ELSE IF have < n THEN siridb_points_head(buffer, n - have) ELSE <<>>
    IN  siridb_points_head(AddAll(ReadChunks(chunks, NULL, NULL), buf), n)

\* series->start and series->end are kept by the inserts.
SeriesStart == written[1].ts
SeriesEnd == Last(written).ts

siridb_series_get_first ==
    IF buffer # <<>> /\ buffer[1].ts = SeriesStart THEN buffer[1]
    ELSE siridb_shard_get_points_callback(<<>>, index.idx[1], NULL, SeriesStart + 1)[1]

\* Mutant: the last chunk is taken for the one that ends last.
siridb_series_get_last_LastIdx ==
    IF buffer # <<>> /\ Last(buffer).ts = SeriesEnd THEN Last(buffer)
    ELSE siridb_shard_get_points_callback(<<>>, Last(index.idx), Last(index.idx).end, NULL)[1]

siridb_series_get_last ==
    IF buffer # <<>> /\ Last(buffer).ts = SeriesEnd THEN Last(buffer)
    ELSE siridb_shard_get_points_callback(<<>>, series__last_idx, series__last_idx.end, NULL)[1]

-----------------------------------------------------------------------------
(* Optimizing.                                                             *)

OptimizeStart(s) ==
    /\ opt = NULL /\ optimizes < MaxOptimize
    /\ \E i \in 1..Len(index.idx) : index.idx[i].shard = <<s, "old">>
    /\ opt' = s /\ optimizes' = optimizes + 1
    /\ UNCHANGED <<kind, buffer, index, written, late>>

\* Entries of the new shard are put in order, those of the old one go to the
\* end.  The first entry stays.
SERIES_idx_sort(idx, new) ==
    <<idx[1]>> \o SortSeq(Tail(idx), LAMBDA a, b :
        a.shard = new /\ (b.shard # new \/ a.start < b.start))

SERIES_update_overlap(idx) == \E i \in 2..Len(idx) : Overlaps(idx[i - 1], idx[i])

PlacesOf(shard) == {i \in 1..Len(index.idx) : index.idx[i].shard = shard}

\* The chunks of the old shard are read and written in as many new ones as
\* needed, which take the places of old ones.  What is left of the old ones
\* is removed.
siridb_series_optimize_shard(old, new) ==
    \E places \in {PlacesOf(old)}, start \in {Min(PlacesOf(old))} :
    \E news \in {{i \in PlacesOf(new) : i > start}} :
    \E end \in {start + Cardinality(places) + Cardinality(news)} :    \* behind the last one
    \E part \in {SubSeq(index.idx, start, end - 1)} :
    \E pts \in {ReadChunks(SelectSeq(part, LAMBDA c : c.shard = old), NULL, NULL)} :
    \E chunks \in {[k \in 1..Len(Pieces(pts)) |-> Chunk(new, Pieces(pts)[k])]} :
    \E placed \in {[i \in 1..Len(part) |->
           LET k == Cardinality({p \in places : p < start + i})
           IN  IF start + i - 1 \in places /\ k <= Len(chunks) THEN chunks[k] ELSE part[i]]} :
    \E sorted \in {IF news # {} THEN SERIES_idx_sort(placed, new) ELSE placed} :
    \E idx \in {SubSeq(index.idx, 1, start - 1)
                 \o SubSeq(sorted, 1, Cardinality(news) + Len(chunks))
                 \o SubSeq(index.idx, end, Len(index.idx))} :
        index' = [index EXCEPT !.idx = idx, !.overlap = @ /\ SERIES_update_overlap(idx)]

OptimizeSeries ==
    /\ opt # NULL /\ PlacesOf(<<opt, "old">>) # {}
    /\ siridb_series_optimize_shard(<<opt, "old">>, <<opt, "new">>)
    /\ UNCHANGED <<kind, buffer, opt, written, optimizes, late>>

\* The new shard takes the name of the old one.
OptimizeFinish ==
    LET Rename(s) == IF s = <<opt, "new">> THEN <<opt, "old">> ELSE s
    IN  /\ opt # NULL /\ \A i \in 1..Len(index.idx) : index.idx[i].shard # <<opt, "old">>
        /\ index' = [index EXCEPT
              !.idx = [i \in 1..Len(@) |-> [@[i] EXCEPT !.shard = Rename(@)]],
              !.flagged = {Rename(s) : s \in @ \ {<<opt, "old">>}}]
        /\ opt' = NULL
        /\ UNCHANGED <<kind, buffer, written, optimizes, late>>

Next ==
    \/ \E pts \in Batches : Insert(pts)
    \/ \E s \in {t \div Duration : t \in Times} : OptimizeStart(s)
    \/ OptimizeSeries
    \/ OptimizeFinish

Spec == Init /\ [][Next]_vars

-----------------------------------------------------------------------------
(* Properties.                                                             *)

IsPoint(p) == p.ts \in Times /\ p.val = ValueAt(p.ts)

(***************************************************************************)
(* Every point is one that was inserted, the buffer is below its limit and *)
(* no chunk is empty or larger than a shard allows.                        *)
(***************************************************************************)
TypeOK ==
    /\ kind \in Kinds
    /\ \A i \in 1..Len(written) : IsPoint(written[i])
    /\ \A i \in 1..Len(buffer) : IsPoint(buffer[i])
    /\ Len(buffer) < BufferLen \/ buffer = <<>>
    /\ \A i \in 1..Len(index.idx) : index.idx[i].len \in 1..MaxChunk
    /\ opt \in {NULL} \cup Nat /\ optimizes \in 0..MaxOptimize /\ late \in BOOLEAN

Limits == Times \cup {NULL}

(***************************************************************************)
(* siridb_series_get_points answers exactly the points from the start up   *)
(* to but not including the end, each once and in order.                   *)
(***************************************************************************)
RangeIsExact ==
    \A start, end \in Limits :
        (start = NULL \/ end = NULL \/ start <= end) =>
            siridb_series_get_points(start, end) = Cut(written, start, end)

(***************************************************************************)
(* The flags tell of every chunk that starts before one in front of it has *)
(* ended, and the points inside a chunk are in order.                      *)
(***************************************************************************)
OverlapIsKnown ==
    LET idx == index.idx
    IN  \A j \in 1..Len(idx) :
            /\ \A i \in 1..j - 1 :
                 Overlaps(idx[i], idx[j]) => index.overlap /\ idx[j].shard \in index.flagged
            /\ LET pts == ReadChunks(<<idx[j]>>, NULL, NULL)
               IN  \A i \in 2..Len(pts) : pts[i - 1].ts <= pts[i].ts

(***************************************************************************)
(* A series that is read as a whole has each of its points as often as it  *)
(* was inserted, also when points came late during an optimization.        *)
(***************************************************************************)
PointsOnce ==
    LET all == siridb_series_get_points(NULL, NULL)
        Count(pts, p) == Cardinality({i \in 1..Len(pts) : pts[i] = p})
    IN  \A p \in Range(all) \cup Range(written) : Count(all, p) = Count(written, p)

(***************************************************************************)
(* siridb_series_get_points_tail reads as few chunks as it can, and still  *)
(* answers the last n points.                                              *)
(***************************************************************************)
TailIsLast ==
    \A n \in 1..MaxInserts :
        siridb_series_get_points_tail(n) = siridb_points_tail(written, n)

(***************************************************************************)
(* siridb_series_get_points_head answers the first n points.  With chunks  *)
(* that overlap and points in the buffer it may not: the last chunk that   *)
(* was read need not be the one that ends last.                            *)
(***************************************************************************)
HeadIsFirst ==
    (~index.overlap \/ buffer = <<>>) =>
        \A n \in 1..MaxInserts :
            siridb_series_get_points_head(n) = siridb_points_head(written, n)

(***************************************************************************)
(* first() and last() of a series without reading all of it are its first  *)
(* and its last point.                                                     *)
(***************************************************************************)
EndsAreRight ==
    written # <<>> =>
        /\ siridb_series_get_first = written[1]
        /\ siridb_series_get_last = Last(written)

(***************************************************************************)
(* The index stays in the order of the first time-stamps, also when the    *)
(* optimize task has put its chunks between those of inserts.              *)
(***************************************************************************)
IndexInOrder ==
    \A i \in 2..Len(index.idx) : index.idx[i - 1].start <= index.idx[i].start

(* The first and the last points of a series, which are read without       *)
(* loading all of it, are the right ones, unless points came late during   *)
(* an optimization.                                                        *)
EndsExact ==
    ~late => TailIsLast /\ HeadIsFirst /\ EndsAreRight

(* The index that all reads rely on is in order, with chunks of a proper   *)
(* size.                                                                   *)
IndexOK ==
    /\ TypeOK
    /\ IndexInOrder

(* Late points, overlap and the optimize task never lose or double a       *)
(* point, nor the order of the index; a range is exact whenever all        *)
(* overlap is known, and it is known at least until points come late for a *)
(* shard that is being optimized (siridb_series_add_idx marks the shard of *)
(* the new chunk only, and SERIES_update_overlap never sets the flag).     *)
ReadsExact ==
    /\ IndexOK /\ PointsOnce
    /\ OverlapIsKnown => RangeIsExact
    /\ ~late => OverlapIsKnown

=============================================================================
