------------------------------- MODULE Points -------------------------------
(***************************************************************************)
(* Points: how they are sorted, merged, compressed and read back           *)
(* (db/points.c), and how a chunk of them is read from a shard             *)
(* (db/shard.c).  All of it are operators on sequences of points.          *)
(*                                                                         *)
(* A word of 8 bytes of 8 bits is Width digits in base Base: what the      *)
(* compression does depends on which digits differ, not on their number.   *)
(***************************************************************************)
EXTENDS Integers, Sequences, FiniteSets, SequencesExt, FiniteSetsExt

CONSTANTS
    Base, Width,        \* digits of a word
    ZipThreshold,       \* POINTS_ZIP_THRESHOLD
    MaxQsort,           \* POINTS_MAX_QSORT
    NULL

ASSUME PointsAssumption ==
    /\ Base \in Nat \ {0, 1} /\ Width \in Nat \ {0, 1}
    /\ ZipThreshold \in Nat \ {0, 1} /\ MaxQsort \in Nat

Modulus == Base^Width
Digit(n, i) == (n \div Base^(i - 1)) % Base
Positions == 1..Width
Highest(P) == IF P = {} THEN 0 ELSE Max(P)

\* A signed word as it is stored, and back.
Unsigned(v) == v % Modulus
Signed(w) == IF 2 * w >= Modulus THEN w - Modulus ELSE w

\* The k lowest digits of n, the highest first, and the number they stand for.
Digits(n, k) == [i \in 1..k |-> Digit(n, k + 1 - i)]
Number(d) == FoldLeft(LAMBDA n, x : n * Base + x, 0, d)
Take(s, at, k) == SubSeq(s, at, at + k - 1)

Point(ts, val) == [ts |-> ts, val |-> val]
TimesOf(pts) == [i \in 1..Len(pts) |-> pts[i].ts]

-----------------------------------------------------------------------------
(* Sorted points.                                                          *)

\* A point goes behind the points with the same time-stamp.
siridb_points_add_point(pts, p) ==
    LET before == {i \in 1..Len(pts) : pts[i].ts <= p.ts}
    IN  InsertAt(pts, Highest(before) + 1, p)

AddAll(pts, new) == FoldLeft(siridb_points_add_point, pts, new)

siridb_points_head(pts, n) == IF n < Len(pts) THEN SubSeq(pts, 1, n) ELSE pts
siridb_points_tail(pts, n) == IF n < Len(pts) THEN SubSeq(pts, Len(pts) - n + 1, Len(pts)) ELSE pts

-----------------------------------------------------------------------------
(* Merging.  Each series is taken from its end.                            *)

LastOf(plist, i) == plist[i][Len(plist[i])].ts

\* Take the last point of series i.  A series that is empty is replaced by
\* the last one of the list.
TakeLast(plist, i) ==
    IF Len(plist[i]) > 1 THEN [plist EXCEPT ![i] = Front(@)]
    ELSE LET last == plist[Len(plist)]
         IN  Front([plist EXCEPT ![i] = last])

\* Mutant: the first series is not compared.
HighestSeries_SkipsFirst(plist) ==
    CHOOSE i \in (IF Len(plist) = 1 THEN {1} ELSE 2..Len(plist)) :
        \A j \in 2..Len(plist) : LastOf(plist, j) <= LastOf(plist, i)

\* The first series whose last point is the highest.
HighestSeries(plist) ==
    CHOOSE i \in 1..Len(plist) :
        /\ \A j \in 1..Len(plist) : LastOf(plist, j) <= LastOf(plist, i)
        /\ \A j \in 1..(i - 1) : LastOf(plist, j) < LastOf(plist, i)

RECURSIVE POINTS_sort_while_merge(_, _)
POINTS_sort_while_merge(plist, out) ==
    IF plist = <<>> THEN out
    ELSE LET m == HighestSeries(plist)
         IN  POINTS_sort_while_merge(TakeLast(plist, m), <<Last(plist[m])>> \o out)

\* One point of each series after the other, then sorted.
RECURSIVE Gather(_, _, _)
Gather(plist, i, out) ==
    IF plist = <<>> THEN out
    ELSE IF i > Len(plist) THEN Gather(plist, 1, out)
    ELSE Gather(TakeLast(plist, i), i + 1, <<Last(plist[i])>> \o out)

\* Insertion: each point moves in front of the later ones.
POINTS_simple_sort(pts) == FoldLeft(siridb_points_add_point, <<>>, pts)

POINTS_merge_and_sort(plist) ==
    LET all == Gather(plist, 1, <<>>)
    IN  IF Len(all) = Len(plist) THEN POINTS_simple_sort(all)
        ELSE SortSeq(all, LAMBDA a, b : a.ts < b.ts)

\* As POINTS_sort_while_merge, but as long as a next series (from m on) ends
\* with the same time-stamp no highest is looked for.  The time-stamp and the
\* counter l are only set when another than the first series is the highest.
RECURSIVE POINTS_highest_and_merge(_, _, _, _, _)
POINTS_highest_and_merge(plist, m, l, highest, out) ==
    IF plist = <<>> THEN out
    ELSE LET same  == {k \in 0..(Len(plist) - 1 - l) : m > 0 /\ LastOf(plist, m + k) = highest}
             found == m > 0 /\ same # {}
             h     == HighestSeries(plist)
             i     == IF found THEN m + Min(same) ELSE h
             l1    == IF found THEN l + Min(same) ELSE IF h > 1 THEN h - 1
                      ELSE IF m > 0 /\ l < Len(plist) THEN Len(plist) ELSE l
             hi    == IF ~found /\ h > 1 THEN LastOf(plist, h) ELSE highest
             more  == Len(plist[i]) > 1
         IN  POINTS_highest_and_merge(TakeLast(plist, i), IF more THEN i + 1 ELSE i,
                 IF more THEN l1 + 1 ELSE l1, hi, <<Last(plist[i])>> \o out)

\* From i on, an empty series is replaced by the last one of the list.
RECURSIVE LeaveOutEmpty(_, _)
LeaveOutEmpty(list, i) ==
    IF i > Len(list) THEN list
    ELSE IF list[i] # <<>> THEN LeaveOutEmpty(list, i + 1)
    ELSE LeaveOutEmpty(Front([list EXCEPT ![i] = Last(list)]), i)

siridb_points_merge(list) ==
    LET plist == LeaveOutEmpty(list, 1)
        n     == FoldLeft(LAMBDA k, pts : k + Len(pts), 0, plist)
    IN  IF Len(plist) = 0 THEN <<>>
        ELSE IF Len(plist) = 1 THEN plist[1]
        ELSE IF Len(plist) < 4 THEN POINTS_sort_while_merge(plist, <<>>)
        ELSE IF n = Len(plist) \/ n < MaxQsort THEN POINTS_merge_and_sort(plist)
        ELSE POINTS_highest_and_merge(plist, 0, 0, 0, <<>>)

-----------------------------------------------------------------------------
(* Compression.  The points of a chunk are the first time-stamp and value, *)
(* then for each point the digits in which the intervals differ, and the   *)
(* digits of the value.  Digits that all intervals share are stored once.  *)

Intervals(pts) == [i \in 1..(Len(pts) - 1) |-> pts[i + 1].ts - pts[i].ts]

\* tcount: intervals differ up to this digit; tshift: the highest digit used.
TimeInfo(pts) ==
    LET iv     == Intervals(pts)
        ts     == Last(iv)
        differ == {d \in Positions : \E i \in 1..Len(iv) : Digit(iv[i], d) # Digit(ts, d)}
        shared == {d \in Positions \ differ : Digit(ts, d) # 0}
    IN  [tcount |-> Highest(differ), tshift |-> Highest(differ \cup shared)]

\* The digits of an interval from a down to b + 1.
HighDigits(ts, a, b) == [i \in 1..(a - b) |-> Digit(ts, a + 1 - i)]

\* The bits: head, then one entry for each further point.
Packed(pts, info, Value(_)) ==
    Digits(pts[1].ts, Width) \o Digits(Unsigned(pts[1].val), Width)
      \o HighDigits(Last(Intervals(pts)), info.tshift, info.tcount)
      \o FlattenSeq([i \in 1..(Len(pts) - 1) |->
            Digits(Intervals(pts)[i], info.tcount) \o Value(i + 1)])

POINTS_zip_raw(pts) ==
    [info |-> [tcount |-> 0, tshift |-> 0, vcount |-> 0, vstore |-> {}],
     bits |-> FlattenSeq([i \in 1..Len(pts) |->
                  Digits(pts[i].ts, Width) \o Digits(Unsigned(pts[i].val), Width)])]

\* Integers: the differences, the sign in the lowest bit; values are stored
\* as they are if a difference needs all digits.
IntCount(pts) ==
    LET diffs == {LET a == pts[i - 1].val  b == pts[i].val
                  IN  Unsigned(IF a > b THEN a - b ELSE b - a) : i \in 2..Len(pts)}
        raw   == \E d \in diffs : 2 * d >= Modulus
    IN  Highest({p \in Positions : \E d \in diffs : Digit(IF raw THEN d ELSE 2 * d, p) # 0})

siridb_points_zip_int(pts) ==
    LET vcount == IntCount(pts)
        info   == TimeInfo(pts) @@ [vcount |-> vcount, vstore |-> {}]
        Value(i) ==
            LET a == pts[i - 1].val  b == pts[i].val
            IN  IF vcount = Width THEN Digits(Unsigned(b), Width)
                ELSE Digits(IF a > b THEN 2 * (a - b) + 1 ELSE 2 * (b - a), vcount)
    IN  IF Len(pts) < ZipThreshold THEN POINTS_zip_raw(pts)
        ELSE [info |-> info, bits |-> Packed(pts, info, Value)]

\* Doubles: the digits in which some value differs from the last one.  Their
\* shifts go to vshift, which is one entry too small if all digits differ;
\* values are then stored as they are.  What the write behind vshift does is
\* undefined: the result below is only right if it hits nothing in use.
RAW_VALUES_THRESHOLD == Width - 1
Overrun(info) == info.vcount > RAW_VALUES_THRESHOLD

siridb_points_zip_double(pts) ==
    LET vstore == {p \in Positions : \E i \in 1..Len(pts) :
                      Digit(pts[i].val, p) # Digit(Last(pts).val, p)}
        info   == TimeInfo(pts) @@ [vcount |-> Cardinality(vstore), vstore |-> vstore]
        Value(i) == IF info.vcount > RAW_VALUES_THRESHOLD THEN Digits(pts[i].val, Width)
                    ELSE LET order == SetToSortSeq(vstore, <)
                         IN  [k \in 1..info.vcount |-> Digit(pts[i].val, order[k])]
    IN  IF Len(pts) < ZipThreshold THEN POINTS_zip_raw(pts)
        ELSE [info |-> info, bits |-> Packed(pts, info, Value)]

siridb_points_get_size_zipped(info, len) ==
    IF len < ZipThreshold THEN len * 2 * Width
    ELSE 2 * Width + info.tshift - info.tcount + (info.tcount + info.vcount) * (len - 1)

\* Strings: time-stamps as above, the strings themselves one after the other
\* (their compression, POINTS_zip_str, is left out).
siridb_points_raw_string(pts) ==
    [times |-> TimesOf(pts), strs |-> [i \in 1..Len(pts) |-> pts[i].val]]

siridb_points_zip_string(pts) ==
    LET info == TimeInfo(pts)
    IN  IF Len(pts) < ZipThreshold THEN siridb_points_raw_string(pts)
        ELSE [info |-> info,
              bits |-> Digits(pts[1].ts, Width)
                        \o HighDigits(Last(Intervals(pts)), info.tshift, info.tcount)
                        \o FlattenSeq([i \in 1..(Len(pts) - 1) |->
                                Digits(Intervals(pts)[i], info.tcount)]),
              strs |-> [i \in 1..Len(pts) |-> pts[i].val]]

-----------------------------------------------------------------------------
(* Reading a chunk, only the points from start up to but not including end *)
(* (NULL: no limit).  The caller knows that the chunk has such points.     *)

Before(ts, limit) == limit # NULL /\ ts < limit
Behind(ts, limit) == limit # NULL /\ ts >= limit

\* The points are put behind or, if chunks may overlap, between the others.
Join(pts, new, overlap) ==
    IF overlap /\ pts # <<>> THEN AddAll(pts, new) ELSE pts \o new

POINTS_unzip_raw(pts, z, len, start, end, overlap) ==
    LET At(i) == Point(Number(Take(z.bits, 1 + 2 * Width * (i - 1), Width)),
                       Number(Take(z.bits, 1 + 2 * Width * (i - 1) + Width, Width)))
        all   == [i \in 1..len |-> At(i)]
        new   == SelectSeq(all, LAMBDA p : ~Before(p.ts, start) /\ ~Behind(p.ts, end))
    IN  IF overlap THEN AddAll(pts, new) ELSE pts \o new

\* Mutant: a point with the end time is included.
Stop_Late(ts, end) == end # NULL /\ ts > end

Stop(ts, end) == Behind(ts, end)

\* The digits that all intervals share.
Mask(z, at) ==
    Number(Take(z.bits, at, z.info.tshift - z.info.tcount)) * Base^(z.info.tcount)

\* Follow the intervals: the k-th entry has the digits of an interval and of
\* a value, which may depend on the value before it.
Follow(z, at, len, first, Value(_, _), vsize) ==
    LET t == z.info.tcount
        Next(out, k) ==
            LET pt == at + z.info.tshift - t + (k - 1) * (t + vsize)
            IN  Append(out, Point(Last(out).ts + Mask(z, at) + Number(Take(z.bits, pt, t)),
                                  Value(pt + t, Last(out).val)))
    IN  FoldLeft(Next, <<first>>, [k \in 1..(len - 1) |-> k])

\* The loop stops at the first point that is not before end, and counts the
\* points (the last one excepted) that are before start.
Crop(all, start, end) ==
    LET behind  == {i \in 1..Len(all) : Stop(all[i].ts, end)}
        stop    == IF behind = {} THEN Len(all) + 1 ELSE Min(behind)
        skipped == Cardinality({i \in 1..(Len(all) - 1) : i < stop /\ Before(all[i].ts, start)})
    IN  [pts |-> SubSeq(all, skipped + 1, stop - 1), left |-> Len(all) + 1 - stop]

Unzip(pts, z, len, start, end, overlap, Value(_, _), vsize) ==
    LET first == Point(Number(Take(z.bits, 1, Width)), Number(Take(z.bits, Width + 1, Width)))
        all   == Follow(z, 2 * Width + 1, len, first, Value, vsize)
    IN  Join(pts, Crop(all, start, end).pts, overlap)

SignedPoints(pts) == [i \in 1..Len(pts) |-> Point(pts[i].ts, Signed(pts[i].val))]

siridb_points_unzip_int(pts, z, len, start, end, overlap) ==
    LET v == z.info.vcount
        Value(pt, prev) ==
            LET tmp == Number(Take(z.bits, pt, v))
            IN  IF v = Width THEN tmp
                ELSE Unsigned(IF tmp % 2 = 1 THEN prev - tmp \div 2 ELSE prev + tmp \div 2)
        old == [i \in 1..Len(pts) |-> Point(pts[i].ts, Unsigned(pts[i].val))]
    IN  SignedPoints(IF len < ZipThreshold THEN POINTS_unzip_raw(old, z, len, start, end, overlap)
                     ELSE Unzip(old, z, len, start, end, overlap, Value, v))

\* The shifts go to a vshift of the same size.
siridb_points_unzip_double(pts, z, len, start, end, overlap) ==
    LET v     == z.info.vcount
        order == SetToSortSeq(z.info.vstore, <)
        Value(pt, prev) ==
            IF v > RAW_VALUES_THRESHOLD THEN Number(Take(z.bits, pt, v))
            ELSE Number([i \in 1..Width |->
                    LET p == Width + 1 - i
                    IN  IF p \in z.info.vstore
                        THEN z.bits[pt - 1 + (CHOOSE k \in 1..v : order[k] = p)]
                        ELSE Digit(prev, p)])
    IN  IF len < ZipThreshold THEN POINTS_unzip_raw(pts, z, len, start, end, overlap)
        ELSE Unzip(pts, z, len, start, end, overlap, Value, v)

\* The strings from offset on go with the points that were not skipped.
POINTS_unpack_string(times, strs, offset) ==
    [i \in 1..Len(times) |-> Point(times[i], strs[offset + i])]

\* The offset is what the loop counter has left, not the number of points
\* that were skipped.
siridb_points_unzip_string(pts, z, len, start, end, overlap) ==
    LET Value(pt, prev) == 0
        first == Point(Number(Take(z.bits, 1, Width)), 0)
        new   == Crop(Follow(z, Width + 1, len, first, Value, 0), start, end)
    IN  Join(pts, POINTS_unpack_string(TimesOf(new.pts), z.strs, new.left), overlap)

=============================================================================
