----------------------------- MODULE Aggregate -----------------------------
(***************************************************************************)
(* The aggregate functions of a select query (db/aggregate.c, db/median.c, *)
(* db/variance.c) and how a merge uses them (db/listener.c).               *)
(*                                                                         *)
(* The state is the input: a list of series with the points that were      *)
(* read, which grows one point at a time.  What the functions make of it   *)
(* is said by invariants.                                                  *)
(*                                                                         *)
(* Points are [tp, pts]; a real value is the fraction <<num, den>>.  An    *)
(* error is NULL.  Values of doubles are integers without a limit: NaN and *)
(* rounding are left out.                                                  *)
(***************************************************************************)
EXTENDS Points

CONSTANTS
    Profiles,       \* bounds of an input: series, points, times, values, type
    GroupBy,        \* time spans to group by
    Limits          \* numbers of points to limit to

ASSUME AggregateAssumption ==
    /\ \A p \in Profiles : p.series \in Nat \ {0} /\ p.points \in Nat /\ p.times \subseteq Nat
    /\ GroupBy \subseteq Nat \ {0} /\ Limits \subseteq Nat \ {0}

VARIABLES
    profile,        \* the bounds of this input
    list            \* the points of each series

vars == <<profile, list>>

MaxInt == Modulus \div 2 - 1
MinInt == -(Modulus \div 2)
Values(pts) == [i \in 1..Len(pts) |-> pts[i].val]
SumOf(s) == FoldLeft(LAMBDA a, b : a + b, 0, s)

-----------------------------------------------------------------------------
(* What a query may ask for.                                               *)

Real == {"mean", "median", "pvariance", "variance", "stddev", "derivative"}
Same == {"median_high", "max", "median_low", "min", "sum", "difference", "first", "last"}

AGGREGATE_new(gid) ==
    [gid |-> gid, group_by |-> 0, limit |-> 0, offset |-> 0, timespan |-> 1,
     opr |-> "==", filter_tp |-> "int", value |-> 0]

\* An operator that needs strings is refused for numbers.
AGGREGATE_init_filter(aggr, item) ==
    IF item.tp # "string" /\ item.opr \in {"~", "!~"} THEN NULL
    ELSE [aggr EXCEPT !.opr = item.opr, !.filter_tp = item.tp, !.value = item.value]

\* One function of the list, with an optional argument arg (NULL: none).
\* offset() changes the function before it.
AddItem(vec, item) ==
    LET new == AGGREGATE_new(item.gid)
        filter == AGGREGATE_init_filter(new, item)
    IN  CASE vec = NULL -> NULL
          [] item.gid = "all" -> vec
          [] item.gid = "offset" ->
                IF vec = <<>> \/ Last(vec).group_by = 0 THEN NULL
                ELSE [vec EXCEPT ![Len(vec)].offset = item.arg % Last(vec).group_by]
          [] item.gid = "limit" ->
                IF item.arg <= 0 THEN NULL
                ELSE Append(vec, [AGGREGATE_new(item.by) EXCEPT !.limit = item.arg])
          [] item.gid = "filter" -> IF filter = NULL THEN NULL ELSE Append(vec, filter)
          [] item.gid \in {"timeval", "interval"} -> Append(vec, new)
          [] item.gid = "derivative" ->
                IF item.timespan = 0 \/ item.arg = 0 THEN NULL
                ELSE Append(vec, [new EXCEPT !.timespan = item.timespan,
                                             !.group_by = IF item.arg = NULL THEN 0 ELSE item.arg])
          [] OTHER -> IF item.arg = 0 THEN NULL
                      ELSE Append(vec, [new EXCEPT !.group_by = IF item.arg = NULL THEN 0 ELSE item.arg])

siridb_aggregate_list(items) == FoldLeft(AddItem, <<>>, items)

\* Can the points be left unread, because the series knows the answer?
siridb_aggregate_can_skip(item) == item.gid \in {"count", "first", "last"} /\ item.arg = NULL

-----------------------------------------------------------------------------
(* The middle values: the pivot is the value in the middle of the array,   *)
(* values equal to it go to both sides in turn.                            *)

Split(seq) ==
    LET np == Len(seq) \div 2 + 1
        pivot == seq[np]
        Put(s, i) ==
            IF i = np THEN s
            ELSE IF seq[i] > pivot \/ (seq[i] = pivot /\ ~s.left)
                 THEN [s EXCEPT !.r = Append(@, seq[i]), !.left = @ \/ seq[i] = pivot]
                 ELSE [s EXCEPT !.l = Append(@, seq[i]), !.left = @ /\ seq[i] # pivot]
    IN  FoldLeft(Put, [l |-> <<>>, r |-> <<>>, left |-> TRUE, pivot |-> pivot],
                 [i \in 1..Len(seq) |-> i])

RECURSIVE find_n(_, _)
find_n(seq, n) ==
    LET s == Split(seq)
    IN  IF Len(s.l) = n THEN s.pivot
        ELSE IF Len(s.l) > n THEN find_n(s.l, n)
        ELSE find_n(s.r, n - Len(s.l) - 1)

siridb_median_find_n(pts, n) == find_n(Values(pts), n)

\* n - 1 of an unsigned 0 is larger than any size.
Minus1(n) == IF n = 0 THEN Modulus^2 ELSE n - 1

\* The values at n - 1 (a) and at n (b), NULL as long as they are not found.
GoesLeft(size, n, b) == (b = NULL /\ size > n) \/ size > Minus1(n)

RECURSIVE find_median_real(_, _, _, _)
find_median_real(seq, n, a, b) ==
    LET s    == Split(seq)
        size == Len(s.l)
        a1   == IF size = Minus1(n) THEN s.pivot ELSE a
        b1   == IF size # Minus1(n) /\ size = n THEN s.pivot ELSE b
    IN  IF a1 # NULL /\ b1 # NULL THEN <<a1 + b1, 2>>
        ELSE IF GoesLeft(size, n, b1) THEN find_median_real(s.l, n, a1, b1)
        ELSE find_median_real(s.r, n - size - 1, a1, b1)

siridb_median_real(pts) == find_median_real(Values(pts), Len(pts) \div 2, NULL, NULL)

\* The sum of the squared distances to the mean.
siridb_variance(pts) ==
    LET v == Values(pts)
        n == Len(v)
    IN  <<n * SumOf([i \in 1..n |-> v[i] * v[i]]) - SumOf(v) * SumOf(v), n>>

-----------------------------------------------------------------------------
(* One value for a group of points.                                        *)

Words(x) == x \in MinInt..MaxInt

\* Mutant: the sum is not checked for overflow.
aggr_sum_Unchecked(tp, pts) == SumOf(Values(pts))

\* An integer sum that leaves the range is an error.
aggr_sum(tp, pts) ==
    FoldLeft(LAMBDA s, p : IF s = NULL \/ (tp = "int" /\ ~Words(s + p.val)) THEN NULL ELSE s + p.val,
             0, pts)

\* last < MIN + first, or last > MAX + first.
Difference(tp, first, last) ==
    IF tp = "int" /\ \/ first > 0 /\ last < MinInt + first
                     \/ first < 0 /\ last > MaxInt + first
    THEN NULL ELSE last - first

aggr_difference(tp, pts) == IF Len(pts) = 1 THEN 0 ELSE Difference(tp, pts[1].val, Last(pts).val)
aggr_derivative(pts, aggr) == <<(Last(pts).val - pts[1].val) * aggr.timespan, aggr.group_by>>
aggr_max(pts) == Max(Range(Values(pts)))
aggr_min(pts) == Min(Range(Values(pts)))
aggr_mean(pts) == <<SumOf(Values(pts)), Len(pts)>>
aggr_median(pts) ==
    IF Len(pts) = 1 THEN <<pts[1].val, 1>>
    ELSE IF Len(pts) % 2 = 1 THEN <<siridb_median_find_n(pts, Len(pts) \div 2), 1>>
    ELSE siridb_median_real(pts)
aggr_median_high(pts) ==
    IF Len(pts) = 1 THEN pts[1].val ELSE siridb_median_find_n(pts, Len(pts) \div 2)
aggr_median_low(pts) ==
    IF Len(pts) = 1 THEN pts[1].val ELSE siridb_median_find_n(pts, (Len(pts) - 1) \div 2)
aggr_pvariance(pts) == LET v == siridb_variance(pts) IN <<v[1], v[2] * Len(pts)>>
aggr_variance(pts) ==
    LET v == siridb_variance(pts)
    IN  IF Len(pts) > 1 THEN <<v[1], v[2] * (Len(pts) - 1)>> ELSE <<0, 1>>
aggr_stddev(pts) == aggr_variance(pts)      \* the square of it

AGGREGATES(aggr, tp, pts) ==
    CASE aggr.gid = "count" -> Len(pts)
      [] aggr.gid = "first" -> pts[1].val
      [] aggr.gid = "last"  -> Last(pts).val
      [] tp = "string"      -> NULL
      [] aggr.gid = "sum"   -> aggr_sum(tp, pts)
      [] aggr.gid = "max"   -> aggr_max(pts)
      [] aggr.gid = "min"   -> aggr_min(pts)
      [] aggr.gid = "mean"  -> aggr_mean(pts)
      [] aggr.gid = "median"      -> aggr_median(pts)
      [] aggr.gid = "median_high" -> aggr_median_high(pts)
      [] aggr.gid = "median_low"  -> aggr_median_low(pts)
      [] aggr.gid = "pvariance"   -> aggr_pvariance(pts)
      [] aggr.gid = "variance"    -> aggr_variance(pts)
      [] aggr.gid = "stddev"      -> aggr_stddev(pts)
      [] aggr.gid = "difference"  -> aggr_difference(tp, pts)
      [] aggr.gid = "derivative"  -> aggr_derivative(pts, aggr)

ResultType(gid, tp) == IF gid \in Real THEN "real" ELSE IF gid \in Same THEN tp ELSE "int"

Result(tp, pts) == IF \E i \in 1..Len(pts) : pts[i].val = NULL THEN NULL
                   ELSE [tp |-> tp, pts |-> pts]

-----------------------------------------------------------------------------
(* Groups.  first() and last() of strings keep the time of their point.    *)

\* Mutant: the time of a group follows its first point.
GROUP_TS_Own(ts, aggr) == ts + aggr.group_by - 1 + aggr.offset

GROUP_TS(ts, aggr) ==
    ((ts + aggr.group_by - 1) \div aggr.group_by) * aggr.group_by + aggr.offset

\* Mutant: a point at the end of a group starts the next one.
Groups_Early(pts, aggr) ==
    LET Put(gs, p) ==
            IF gs = <<>> \/ p.ts >= Last(gs).ts
            THEN Append(gs, [ts |-> GROUP_TS(p.ts, aggr), pts |-> <<p>>])
            ELSE [gs EXCEPT ![Len(gs)].pts = Append(@, p)]
    IN  FoldLeft(Put, <<>>, pts)

Groups(pts, aggr) ==
    LET Put(gs, p) ==
            IF gs = <<>> \/ p.ts > Last(gs).ts
            THEN Append(gs, [ts |-> GROUP_TS(p.ts, aggr), pts |-> <<p>>])
            ELSE [gs EXCEPT ![Len(gs)].pts = Append(@, p)]
    IN  FoldLeft(Put, <<>>, pts)

\* The number of points that memory is allocated for.
max_sz(pts, aggr) ==
    LET n == (Last(pts).ts - pts[1].ts) \div aggr.group_by + 2
    IN  IF n > Len(pts) THEN Len(pts) ELSE n

GroupTime(aggr, tp, g) ==
    IF tp # "string" THEN g.ts
    ELSE IF aggr.gid = "first" THEN g.pts[1].ts
    ELSE IF aggr.gid = "last" THEN Last(g.pts).ts ELSE g.ts

AGGREGATE_group_by(src, aggr) ==
    LET gs == Groups(src.pts, aggr)
    IN  Result(ResultType(aggr.gid, src.tp),
               [i \in 1..Len(gs) |-> Point(GroupTime(aggr, src.tp, gs[i]),
                                           AGGREGATES(aggr, src.tp, gs[i].pts))])

LimitGroups(pts, aggr) ==
    LET g == (Last(pts).ts - pts[1].ts) \div aggr.limit + 1
    IN  [aggr EXCEPT !.group_by = g, !.offset = Unsigned(pts[1].ts - 1) % g]

AGGREGATE_limit(src, aggr) ==
    IF Len(src.pts) <= aggr.limit THEN src
    ELSE AGGREGATE_group_by(src, LimitGroups(src.pts, aggr))

AGGREGATE_to_one(src, aggr) ==
    LET ts == IF aggr.gid = "first" THEN src.pts[1].ts ELSE Last(src.pts).ts
    IN  Result(ResultType(aggr.gid, src.tp), <<Point(ts, AGGREGATES(aggr, src.tp, src.pts))>>)

\* For each point but the first, from the one before it.
Pairs(src, tp, F(_, _)) ==
    Result(tp, [i \in 1..(Len(src.pts) - 1) |-> Point(src.pts[i + 1].ts, F(src.pts[i], src.pts[i + 1]))])

AGGREGATE_difference(src) ==
    LET F(a, b) == Difference(src.tp, a.val, b.val)
    IN  IF src.tp = "string" THEN NULL ELSE Pairs(src, src.tp, F)

AGGREGATE_derivative(src, aggr) ==
    LET F(a, b) == <<(b.val - a.val) * aggr.timespan, b.ts - a.ts>>
    IN  IF src.tp = "string" THEN NULL ELSE Pairs(src, "real", F)

AGGREGATE_interval(src) ==
    LET F(a, b) == IF b.ts - a.ts > MaxInt THEN NULL ELSE b.ts - a.ts
    IN  Pairs(src, "int", F)

AGGREGATE_timeval(src) ==
    Result("int", [i \in 1..Len(src.pts) |->
        Point(src.pts[i].ts, IF src.pts[i].ts > MaxInt THEN NULL ELSE src.pts[i].ts)])

Compare(opr, a, b) ==
    CASE opr = "==" -> a = b [] opr = "!=" -> a # b [] opr = ">" -> a > b
      [] opr = "<" -> a < b [] opr = ">=" -> a >= b [] opr = "<=" -> a <= b

\* The value of a filter is given in halves: a fraction is cut off when it is
\* compared with integers.
AGGREGATE_filter(src, aggr) ==
    LET cut == IF aggr.value >= 0 THEN aggr.value \div 2 ELSE -((-aggr.value) \div 2)
        Keep(p) == IF src.tp = "int" THEN Compare(aggr.opr, p.val, cut)
                   ELSE Compare(aggr.opr, 2 * p.val, aggr.value)
    IN  IF src.tp # aggr.filter_tp /\ "string" \in {src.tp, aggr.filter_tp} THEN NULL
        ELSE [src EXCEPT !.pts = SelectSeq(@, Keep)]

siridb_aggregate_run(src, aggr) ==
    CASE aggr.limit > 0 -> AGGREGATE_limit(src, aggr)
      [] aggr.limit = 0 /\ aggr.group_by > 0 -> AGGREGATE_group_by(src, aggr)
      [] OTHER ->
            CASE aggr.gid = "difference" -> AGGREGATE_difference(src)
              [] aggr.gid = "derivative" -> AGGREGATE_derivative(src, aggr)
              [] aggr.gid = "filter"     -> AGGREGATE_filter(src, aggr)
              [] aggr.gid = "interval"   -> AGGREGATE_interval(src)
              [] aggr.gid = "timeval"    -> AGGREGATE_timeval(src)
              [] OTHER                   -> AGGREGATE_to_one(src, aggr)

\* The functions one after the other, as long as there are points.
RunAll(src, aggrs) ==
    FoldLeft(LAMBDA s, a : IF s = NULL \/ s.pts = <<>> THEN s ELSE siridb_aggregate_run(s, a),
             src, aggrs)

\* What the series itself answers when the points are left unread.
siridb_series_get_skipped(gid, src) ==
    CASE gid = "count" -> [tp |-> "int", pts |-> <<Point(Last(src.pts).ts, Len(src.pts))>>]
      [] gid = "first" -> [src EXCEPT !.pts = <<src.pts[1]>>]
      [] gid = "last"  -> [src EXCEPT !.pts = <<Last(src.pts)>>]

-----------------------------------------------------------------------------
(* Merging.                                                                *)

\* Integers become doubles when both are merged, strings only go together.
MergedType(plist) ==
    LET tps == {plist[i].tp : i \in {j \in 1..Len(plist) : plist[j].pts # <<>>}}
    IN  IF Cardinality(tps) = 1 THEN CHOOSE tp \in tps : TRUE
        ELSE IF tps = {} THEN "int"
        ELSE IF "string" \in tps THEN NULL ELSE "double"

MergePoints(plist) ==
    IF MergedType(plist) = NULL THEN NULL
    ELSE [tp |-> MergedType(plist),
          pts |-> siridb_points_merge([i \in 1..Len(plist) |-> plist[i].pts])]

items_select_master_merge(plist, mlist) ==
    LET merged == CASE Len(plist) = 0 -> [tp |-> "int", pts |-> <<>>]
                    [] Len(plist) = 1 -> plist[1]
                    [] OTHER -> MergePoints(plist)
    IN  IF merged = NULL THEN NULL ELSE RunAll(merged, mlist)

-----------------------------------------------------------------------------
(* The input.                                                              *)

Init ==
    /\ profile \in Profiles
    /\ list = [i \in 1..profile.series |-> <<>>]

\* The next point of a series; the points of a series are in order, and the
\* series are filled one after the other.
NextPoint ==
    \E i \in 1..profile.series, ts \in profile.times, v \in profile.values :
        /\ SumOf([k \in 1..Len(list) |-> Len(list[k])]) < profile.points
        /\ \A k \in (i + 1)..Len(list) : list[k] = <<>>
        /\ list[i] # <<>> => Last(list[i]).ts <= ts
        /\ profile.steady => ts = Len(list[i]) + 1
        /\ list' = [list EXCEPT ![i] = Append(@, Point(ts, v))]
        /\ UNCHANGED profile

Next == NextPoint

Spec == Init /\ [][Next]_vars

-----------------------------------------------------------------------------
(* Properties.                                                             *)

Src(i) == [tp |-> profile.tp, pts |-> list[i]]
Full == {i \in 1..Len(list) : list[i] # <<>>}
InOrder(pts) == \A i \in 2..Len(pts) : pts[i - 1].ts <= pts[i].ts
BagOf(pts) == [p \in Range(pts) |-> Cardinality({i \in 1..Len(pts) : pts[i] = p})]
Item(gid, arg) == [gid |-> gid, arg |-> arg, timespan |-> 1, by |-> "count"]
WithGroup(gid, g) == siridb_aggregate_list(<<Item(gid, IF g = 0 THEN NULL ELSE g)>>)[1]
WithOffset(g, o) == siridb_aggregate_list(<<Item("count", g), Item("offset", o)>>)[1]
WithFilter(opr, v) ==
    siridb_aggregate_list(<<[gid |-> "filter", opr |-> opr, tp |-> "double", value |-> v]>>)[1]

Functions1 == {"count", "first", "last", "interval", "timeval"} \cup Real \cup Same

\* The input, and what a function or filter answers.
Sources == {Src(i) : i \in Full}
Run(src, aggrs) == CHOOSE res \in {siridb_aggregate_run(src, a) : a \in aggrs} : TRUE
Answer(src, gid, g) == Run(src, {WithGroup(gid, g)})
Kept(src, opr, v) == Run(src, {WithFilter(opr, v)}).pts

(***************************************************************************)
(* What a function answers is in order, has no time-stamp before the first *)
(* of its input and has integers that fit in a word: an overflow is an     *)
(* error and never a wrong value, in one step or in groups.  A mean or     *)
(* median lies between the lowest and highest value, no variance is        *)
(* negative, and what a query answers without reading the points is what   *)
(* it would have answered with them.                                       *)
(***************************************************************************)
ResultOK ==
    \A src \in Sources, gid \in Functions1, g \in GroupBy \cup {0} :
        \A ans \in {Answer(src, gid, IF gid \in {"interval", "timeval"} THEN 0 ELSE g)} \ {NULL} :
            /\ InOrder(ans.pts)
            /\ \A p \in Range(ans.pts) :
                  /\ p.ts >= src.pts[1].ts
                  /\ ans.tp = "int" => Words(p.val)
                  /\ gid \in {"mean", "median"} =>
                        p.val[1] \in (p.val[2] * aggr_min(src.pts))..(p.val[2] * aggr_max(src.pts))
                  /\ gid \in {"variance", "pvariance", "stddev"} => p.val[1] >= 0
            /\ (g = 0 /\ siridb_aggregate_can_skip(Item(gid, NULL))) =>
                  ans = siridb_series_get_skipped(gid, src)

(***************************************************************************)
(* Two filters with opposite operators split a series, also where the      *)
(* value has a fraction that is cut off: each point is kept by exactly one.*)
(***************************************************************************)
FilterSplits ==
    \A src \in Sources, pair \in {<<"==", "!=">>, <<">", "<=">>, <<"<", ">=">>}, v \in {-3, 0, 1, 2, 5} :
        \A yes \in {Kept(src, pair[1], v)}, no \in {Kept(src, pair[2], v)} :
            /\ InOrder(yes) /\ InOrder(no)
            /\ Range(yes) \cap Range(no) = {}
            /\ Len(yes) + Len(no) = Len(src.pts)

(***************************************************************************)
(* A function over a time span puts every point in one group: the groups   *)
(* follow each other, a point is not later than the time of its group and  *)
(* later than that of the group before.  Without offset it is also less    *)
(* than one span away, so groups are the same for every series.            *)
(***************************************************************************)
GroupsPartition ==
    \A i \in Full, g \in GroupBy : \A o \in 0..(g - 1) :
        LET aggr == WithOffset(g, o)
            gs   == Groups(list[i], aggr)
        IN  /\ FlattenSeq([k \in 1..Len(gs) |-> gs[k].pts]) = list[i]
            /\ \A k \in 1..Len(gs) : \A p \in Range(gs[k].pts) :
                  /\ p.ts <= gs[k].ts
                  /\ k > 1 => p.ts > gs[k - 1].ts
                  /\ o = 0 => gs[k].ts - p.ts < g /\ gs[k].ts % g = 0

(***************************************************************************)
(* AGGREGATE_group_by never writes more points than it allocated, whatever *)
(* the offset.                                                             *)
(***************************************************************************)
GroupsFit ==
    \A i \in Full, g \in GroupBy : \A o \in 0..(g - 1) :
        LET aggr == WithOffset(g, o)
        IN  Len(Groups(list[i], aggr)) <= max_sz(list[i], aggr)

(***************************************************************************)
(* limit(n, f) answers at most n points, whatever time-stamps the series   *)
(* has (help/help_functions.md), unless it starts at time 0: the offset    *)
(* of AGGREGATE_limit then wraps around and there may be one point more.   *)
(***************************************************************************)
LimitHolds ==
    \A i \in {k \in Full : list[k][1].ts > 0}, n \in Limits :
        LET res == RunAll(Src(i), siridb_aggregate_list(<<Item("limit", n)>>))
        IN  Len(res.pts) <= n

(***************************************************************************)
(* The medians, found without sorting and with unsigned counters that wrap *)
(* around, are the values in the middle of the sorted values.              *)
(***************************************************************************)
MedianIsMiddle ==
    \A i \in Full :
        LET pts == list[i]
            s   == SortSeq(Values(pts), <)
            n   == Len(s)
            mid == aggr_median(pts)
        IN  profile.tp # "string" =>
              /\ aggr_median_high(pts) = s[n \div 2 + 1]
              /\ aggr_median_low(pts) = s[(n + 1) \div 2]
              /\ 2 * mid[1] = mid[2] * (s[n \div 2 + 1] + s[(n + 1) \div 2])

\* Does POINTS_highest_and_merge meet a time-stamp 0?
ZeroTooEarly ==
    /\ Cardinality(Full) >= 4 /\ Len(FlattenSeq(list)) >= MaxQsort
    /\ \E i \in Full : list[i][1].ts = 0

(***************************************************************************)
(* A merge has exactly the points of the merged series, with each of the   *)
(* methods that siridb_points_merge chooses from.  They are in order,      *)
(* except that POINTS_highest_and_merge takes a time-stamp 0 too early:    *)
(* <<5, 5>> and <<0>> can become 5, 0, 5.                                  *)
(***************************************************************************)
MergeIsSorted ==
    Len(list) >= 2 =>
        \A merged \in {siridb_points_merge(list)} :
            /\ BagOf(merged) = BagOf(FlattenSeq(list))
            /\ ~ZeroTooEarly => InOrder(merged)

(***************************************************************************)
(* Compressed points are read back as they were, and the size computed     *)
(* from the chunk information is the size that was written.  Nothing is    *)
(* said of doubles of which all bytes differ: the code then writes behind  *)
(* its array vshift.                                                       *)
(***************************************************************************)
RoundTrip ==
    \A i \in Full :
        LET pts == list[i]
            n   == Len(pts)
            raw == [k \in 1..n |-> Point(pts[k].ts, Unsigned(pts[k].val))]
            zi  == siridb_points_zip_int(pts)
            zd  == siridb_points_zip_double(raw)
        IN  /\ profile.tp = "int" => siridb_points_unzip_int(<<>>, zi, n, NULL, NULL, FALSE) = pts
            /\ siridb_points_get_size_zipped(zi.info, n) = Len(zi.bits)
            /\ ~Overrun(zd.info) =>
                  /\ siridb_points_unzip_double(<<>>, zd, n, NULL, NULL, FALSE) = raw
                  /\ siridb_points_get_size_zipped(zd.info, n) = Len(zd.bits)
            /\ n >= ZipThreshold =>
                  siridb_points_unzip_string(<<>>, siridb_points_zip_string(pts), n, NULL, NULL, FALSE) = pts

(***************************************************************************)
(* sum, min and max over a time span of each series and then of the merged *)
(* series is the same as of the merged series alone, which                 *)
(* help/help_select.md advises for its speed.  Only an overflow of part of *)
(* the sum, or a merge that is not in order, may make a difference.        *)
(***************************************************************************)
AggregateBeforeMerge ==
    \A gid \in {"sum", "min", "max"}, g \in GroupBy : \A aggr \in {WithGroup(gid, g)} :
        LET Merged(srcs) == items_select_master_merge(srcs, <<aggr>>)
        IN  \A first \in {[i \in 1..Len(list) |-> RunAll(Src(i), <<aggr>>)]} :
                (NULL \notin Range(first) /\ ~ZeroTooEarly) =>
                    \A both \in {Merged(first)} \ {NULL},
                       after \in {Merged([i \in 1..Len(list) |-> Src(i)])} \ {NULL} : both = after

(* The functions, filters and medians answer what their definitions say,   *)
(* within their number types.                                              *)
FunctionsOK ==
    /\ ResultOK
    /\ FilterSplits
    /\ MedianIsMiddle

(* Grouping by time loses no point, writes no point too many and respects  *)
(* the limit.                                                              *)
GroupsExact ==
    /\ GroupsPartition
    /\ GroupsFit
    /\ LimitHolds

(* No point is lost, changed or misplaced by a merge or by the compression.*)
PointsKept ==
    /\ MergeIsSorted
    /\ RoundTrip

=============================================================================
