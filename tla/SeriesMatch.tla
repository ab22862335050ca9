---------------------------- MODULE SeriesMatch ----------------------------
(***************************************************************************)
(* How a query finds its series and works on them: the series expression   *)
(* of a list, count, drop, select or alter series statement                *)
(* (enter_series_*, enter_group_tag_match and the async loops of           *)
(* db/listener.c), the maps with reference counts it is evaluated on       *)
(* (imap/imap.c) and the release of what a query holds (db/queries.c).     *)
(*                                                                         *)
(* All handlers run in the main thread.  A handler that ends with          *)
(* SIRIPARSER_ASYNC_NEXT_NODE or uv_async_send gives way to other queries  *)
(* and to inserts, so a handler is one action.  A series is known by its   *)
(* id; a name that lives in another pool has no series on this server.     *)
(***************************************************************************)
EXTENDS Integers, Sequences, FiniteSets, SequencesExt

CONSTANTS
    Series,         \* the series of this server
    Remote,         \* names of series in other pools, one pool for each name
    Matching,       \* the names that the regular expression matches
    Members,        \* the series in the group or tag of an expression
    Where,          \* the series for which the where expression holds
    Kinds,          \* the statements of the first query, see AllKinds
    Operators,      \* the set operators that are used, see AllOperators
    Middle,         \* BOOLEAN: may a parenthesis close before an operator?
    DropNames,      \* what the second query drops: the operands of it
    MaxInserts,     \* bound: inserts while the queries run
    ListLimit       \* the limit of list series

AllKinds == {"list", "count", "drop", "select", "skip", "tag", "untag"}
AllOperators == {"union", "intersection", "difference", "symmetric"}

ASSUME SeriesMatchAssumption ==
    /\ Series # {} /\ Series \cap Remote = {}
    /\ IsFiniteSet(Series) /\ IsFiniteSet(Remote)
    /\ Matching \subseteq Series \cup Remote
    /\ Members \subseteq Series /\ Where \subseteq Series
    /\ Kinds \subseteq AllKinds /\ Operators \subseteq AllOperators
    /\ Middle \in BOOLEAN
    /\ MaxInserts \in Nat /\ ListLimit \in Nat \ {0}

VARIABLES
    live,           \* siridb->series_map
    ref,            \* series->ref of each series
    tagged,         \* tag->series of the tag that tag and untag change
    ver,            \* how often points of the series were inserted
    qs              \* the queries

vars == <<live, ref, tagged, ver, qs>>

Queries == {1, 2}

-----------------------------------------------------------------------------
(* Series expressions: a sequence of operands, operators and parentheses.  *)

Name(x) == [t |-> "name", x |-> {x}]
All     == [t |-> "all", x |-> Series \cup Remote]
Regex   == [t |-> "re", x |-> Matching]
Group   == [t |-> "group", x |-> Members]
Opr(o)  == [t |-> "opr", x |-> o]
Open    == [t |-> "(", x |-> {}]
Close   == [t |-> ")", x |-> {}]
Operands == {Name(x) : x \in Series \cup Remote} \cup {All, Regex, Group}

ASSUME DropNamesAssumption == DropNames \subseteq Operands

Flat == {<<x>> : x \in Operands}
        \cup {<<x, Opr(o), y>> : x \in Operands, y \in Operands, o \in Operators}
\* Three operands with parentheses at the end or at the start.
Simple == {Name(x) : x \in Series} \cup {All}
Nested == UNION {
    {<<x, Opr(o), Open, y, Opr(p), z, Close>>,
     <<Open, x, Opr(o), y, Close, Opr(p), z>>} :
        x \in Simple, y \in Simple, z \in Simple,
        o \in Operators, p \in Operators}
\* A parenthesis that is followed by an operator after it was preceded by one.
Inside == {<<x, Opr(o), Open, y, Close, Opr(p), z>> :
    x \in Simple, y \in Simple, z \in Simple, o \in Operators, p \in Operators}

\* What one operator does to membership of one series.
Combine(o, d, m) ==
    CASE o = "union"        -> d \/ m
      [] o = "intersection" -> d /\ m
      [] o = "difference"   -> d /\ ~m
      [] o = "symmetric"    -> d # m

\* Reference: is s in the set that the expression denotes?  Operators are
\* taken from left to right, a parenthesised expression is one operand.
Denotes(e, s) ==
    LET In(k) == s \in e[k].x
    IN  IF Len(e) = 1 THEN In(1)
        ELSE IF Len(e) = 3 THEN Combine(e[2].x, In(1), In(3))
        ELSE IF e[1].t = "(" THEN Combine(e[6].x, Combine(e[3].x, In(2), In(4)), In(7))
        ELSE IF e[5].t = ")" THEN Combine(e[6].x, Combine(e[2].x, In(1), In(4)), In(7))
        ELSE Combine(e[2].x, In(1), Combine(e[5].x, In(4), In(6)))

\* The expression without its closing parenthesis, of which it has at most one.
ClosesAt(e) == {k \in 1..Len(e) : e[k].t = ")"}
EnterPart(e) ==
    IF ClosesAt(e) = {} THEN e ELSE RemoveAt(e, CHOOSE k \in ClosesAt(e) : TRUE)

Enters(e, kind) ==
    <<[t |-> "match", x |-> {}]>> \o EnterPart(e)
    \o (IF kind \in {"tag", "untag"} THEN <<[t |-> "tag", x |-> {}]>> ELSE <<>>)
Closes(e) == [k \in 1..Cardinality({i \in 1..Len(e) : e[i].t = "("}) |-> Close]
Matched == <<[t |-> "matched", x |-> {}]>>

\* The nodes in the order in which they run: siridb_walker_append puts the
\* enter functions in the order of the text, siridb_walker_insert puts each
\* exit function before the ones that are already there, after all enters.
QUERY_walk(e, kind) == Enters(e, kind) \o Closes(e) \o Matched

-----------------------------------------------------------------------------
(* Maps of series.  A map holds one reference to each of its series; the   *)
(* functions below return the new map and the references that are dropped. *)

One(S) == [s \in Series |-> IF s \in S THEN 1 ELSE 0]
Lost(S, T) == [s \in Series |-> One(S)[s] + One(T)[s]]

imap_union_ref(dest, imap) ==
    [map |-> dest \cup imap, lost |-> One(dest \cap imap)]

imap_intersection_ref(dest, imap) ==
    [map |-> dest \cap imap, lost |-> Lost(imap, dest \ imap)]

\* Mutant: only the reference of the second map is released.
imap_difference_ref_Once(dest, imap) ==
    [map |-> dest \ imap, lost |-> One(imap)]
imap_difference_ref(dest, imap) ==
    [map |-> dest \ imap, lost |-> Lost(dest \cap imap, imap)]

imap_symmetric_difference_ref(dest, imap) ==
    [map |-> (dest \ imap) \cup (imap \ dest),
     lost |-> Lost(dest \cap imap, dest \cap imap)]

\* (*q_wrapper->update_cb)(series_map, series_tmp, decref)
update_cb(cb, dest, imap) ==
    CASE cb = "none"         -> [map |-> imap, lost |-> One({})]
      [] cb = "union"        -> imap_union_ref(dest, imap)
      [] cb = "intersection" -> imap_intersection_ref(dest, imap)
      [] cb = "difference"   -> imap_difference_ref(dest, imap)
      [] cb = "symmetric"    -> imap_symmetric_difference_ref(dest, imap)

Add(r, S)   == [s \in Series |-> r[s] + One(S)[s]]
Drop(r, l)  == [s \in Series |-> r[s] - l[s]]

-----------------------------------------------------------------------------
(* The life of a query.                                                    *)

Idle == [st |-> "idle", kind |-> "none", expr |-> <<>>, nodes |-> <<>>,
         where |-> FALSE, filtered |-> FALSE, master |-> FALSE, cb |-> "none", map |-> {},
         stack |-> <<>>, pmap |-> Remote, vec |-> {}, tmp |-> {},
         n |-> {}, count |-> 0, nsel |-> 0, keep |-> FALSE, cache |-> {}, got |-> {}]

Set(i, q) == qs' = [qs EXCEPT ![i] = q]
NextNode(q) == [q EXCEPT !.nodes = Tail(@)]

\* The references that a query holds to a series.
Holds(q, s) ==
    (IF s \in q.map THEN 1 ELSE 0) + (IF s \in q.tmp THEN 1 ELSE 0)
    + (IF s \in q.vec THEN 1 ELSE 0)
    + Cardinality({k \in 1..Len(q.stack) : s \in q.stack[k].map})

\* QUERIES_FREE, and the answer is sent.
QUERIES_FREE(i, q) ==
    /\ ref' = [s \in Series |-> ref[s] - Holds(q, s)]
    /\ Set(i, [q EXCEPT !.st = "done", !.map = {}, !.tmp = {}, !.vec = {}, !.stack = <<>>])

\* The expressions of query i.
Expressions(i) ==
    IF i = 1 THEN (IF Middle THEN Inside ELSE Flat \cup Nested)
    ELSE {<<x>> : x \in DropNames}

\* enter_select_stmt makes a map of pools on the master; the others forward
\* to all pools or not at all.
New(kind, e, w, m) ==
    [Idle EXCEPT !.st = "walk", !.kind = kind, !.expr = e,
                 !.nodes = QUERY_walk(e, kind), !.where = w, !.master = m,
                 !.pmap = IF kind = "select" /\ m THEN {} ELSE @,
                 !.nsel = IF kind \in {"select", "skip"} THEN 2 ELSE 0]

Begin(i) ==
    /\ qs[i].st = "idle"
    /\ i > 1 => qs[i - 1].st # "idle" /\ Len(qs[i - 1].expr) <= 3
    /\ \E kind \in IF i = 1 THEN Kinds ELSE {"drop"}, e \in Expressions(i),
          w \in BOOLEAN, m \in BOOLEAN :
        /\ Len(e) > 1 => ~w /\ \/ kind = "list"
                               \/ kind = "select" /\ m /\ Len(e) = 3
        /\ kind # "select" => ~m
        /\ i > 1 => ~w
        /\ Set(i, New(kind, e, w, m))
    /\ UNCHANGED <<live, ref, tagged, ver>>

At(i, t) == qs[i].st = "walk" /\ qs[i].nodes # <<>> /\ Head(qs[i].nodes).t = t

enter_series_match(i) ==
    /\ At(i, "match")
    /\ Set(i, [NextNode(qs[i]) EXCEPT !.map = {}])
    /\ UNCHANGED <<live, ref, tagged, ver>>

enter_series_setopr(i) ==
    /\ At(i, "opr")
    /\ Set(i, [NextNode(qs[i]) EXCEPT !.cb = Head(qs[i].nodes).x])
    /\ UNCHANGED <<live, ref, tagged, ver>>

\* A name of another pool only adds that pool to the pools to ask.
NamePool(q) == Head(q.nodes).x \cap Remote

enter_series_name(i) ==
    /\ At(i, "name")
    /\ LET q     == qs[i]
           found == Head(q.nodes).x \cap live
           here  == q.map \cap found
           new   == CASE q.cb \in {"none", "union"} -> q.map \cup found
                      [] q.cb = "difference" -> q.map \ found
                      [] q.cb = "intersection" -> here
                      [] q.cb = "symmetric" -> (q.map \ found) \cup (found \ q.map)
       IN  /\ ref' = Drop(Add(ref, new \ q.map), One(q.map \ new))
           /\ Set(i, [NextNode(q) EXCEPT !.map = new,
                      !.pmap = @ \cup NamePool(q)])
    /\ UNCHANGED <<live, tagged, ver>>

\* The series to look at, each with a new reference: when series can only
\* disappear from the result the ones that are in it are enough.
Candidates(q) ==
    IF q.cb \in {"none", "union", "symmetric"} THEN live ELSE q.map

Update(i, q, imap, r) ==
    LET u == update_cb(q.cb, q.map, imap)
    IN  /\ ref' = Drop(r, u.lost)
        /\ Set(i, [NextNode(q) EXCEPT !.st = "walk", !.map = u.map, !.tmp = {},
                   !.vec = {}, !.pmap = Remote])

enter_series_all(i) ==
    /\ At(i, "all")
    /\ Update(i, qs[i], Candidates(qs[i]), Add(ref, Candidates(qs[i])))
    /\ UNCHANGED <<live, tagged, ver>>

\* A group or a tag; there may be none with this name.  A series that was
\* dropped is in it until the groups thread runs.
enter_group_tag_match(i) ==
    /\ At(i, "group")
    /\ \/ QUERIES_FREE(i, [qs[i] EXCEPT !.kind = "error"])
       \/ Update(i, qs[i], Members, Add(ref, Members))
    /\ UNCHANGED <<live, tagged, ver>>

\* The expression may fail to compile, which ends the query.
enter_series_re(i) ==
    /\ At(i, "re")
    /\ \/ QUERIES_FREE(i, [qs[i] EXCEPT !.kind = "error"])
       \/ /\ ref' = Add(ref, Candidates(qs[i]))
          /\ Set(i, [qs[i] EXCEPT !.st = "re", !.vec = Candidates(qs[i]), !.pmap = Remote])
    /\ UNCHANGED <<live, tagged, ver>>

\* One round of the loop, for one series (the code takes 1000 at a time).
async_series_re(i) ==
    /\ qs[i].st = "re"
    /\ LET q == qs[i] IN
       IF q.vec = {} THEN Update(i, q, q.tmp, ref)
       ELSE \E s \in q.vec :
            IF s \in Matching
            THEN /\ Set(i, [q EXCEPT !.vec = @ \ {s}, !.tmp = @ \cup {s}])
                 /\ UNCHANGED ref
            ELSE /\ Set(i, [q EXCEPT !.vec = @ \ {s}])
                 /\ ref' = Drop(ref, One({s}))
    /\ UNCHANGED <<live, tagged, ver>>

\* What was found so far waits until the parenthesis closes.
enter_series_parentheses(i) ==
    /\ At(i, "(")
    /\ LET q == qs[i]
       IN  Set(i, IF q.cb # "none"
                  THEN [NextNode(q) EXCEPT !.cb = "none", !.map = {},
                        !.stack = Append(@, [map |-> q.map, cb |-> q.cb])]
                  ELSE [NextNode(q) EXCEPT
                        !.stack = Append(@, [map |-> {}, cb |-> "none"])])
    /\ UNCHANGED <<live, ref, tagged, ver>>

exit_series_parentheses(i) ==
    /\ At(i, ")")
    /\ LET q    == NextNode([qs[i] EXCEPT !.stack = Front(@)])
           sset == Last(qs[i].stack)
           u    == update_cb(sset.cb, sset.map, q.map)
       IN  IF sset.cb # "none"
           THEN Set(i, [q EXCEPT !.map = u.map]) /\ ref' = Drop(ref, u.lost)
           ELSE Set(i, q) /\ UNCHANGED ref
    /\ UNCHANGED <<live, tagged, ver>>

-----------------------------------------------------------------------------
(* What the statements do with the series they found.                      *)

\* Points are kept for the next select function if there is one.
exit_series_match(i) ==
    /\ At(i, "matched")
    /\ Set(i, [NextNode(qs[i]) EXCEPT
               !.st = IF qs[i].kind \in {"tag", "untag"} THEN "end" ELSE "exit",
               !.keep = qs[i].kind = "select" /\ qs[i].nsel > 1])
    /\ UNCHANGED <<live, ref, tagged, ver>>

exit_list_series(i) ==
    /\ qs[i].st = "exit" /\ qs[i].kind = "list"
    /\ ref' = Add(ref, qs[i].map)
    /\ Set(i, [qs[i] EXCEPT !.st = "list", !.vec = qs[i].map])
    /\ UNCHANGED <<live, tagged, ver>>

\* The loop ends when the limit is reached; the rest of the list is released
\* with the query.
async_list_series(i) ==
    /\ qs[i].st = "list"
    /\ LET q == qs[i] IN
       IF q.vec = {} \/ Cardinality(q.n) = ListLimit THEN QUERIES_FREE(i, q)
       ELSE \E s \in q.vec :
            /\ ref' = Drop(ref, One({s}))
            /\ Set(i, [q EXCEPT !.vec = @ \ {s},
                       !.n = IF ~q.where \/ s \in Where THEN @ \cup {s} ELSE @])
    /\ UNCHANGED <<live, tagged, ver>>

exit_count_series(i) ==
    /\ qs[i].st = "exit" /\ qs[i].kind = "count"
    /\ LET q == qs[i] IN
       IF q.where
       THEN /\ ref' = Add(ref, q.map)
            /\ Set(i, [q EXCEPT !.st = "count", !.vec = q.map])
       ELSE QUERIES_FREE(i, [q EXCEPT !.count = Cardinality(q.map)])
    /\ UNCHANGED <<live, tagged, ver>>

async_count_series(i) ==
    /\ qs[i].st = "count"
    /\ LET q == qs[i] IN
       IF q.vec = {} THEN QUERIES_FREE(i, q)
       ELSE \E s \in q.vec :
            /\ ref' = Drop(ref, One({s}))
            /\ Set(i, [q EXCEPT !.vec = @ \ {s}, !.count = @ + One(Where)[s]])
    /\ UNCHANGED <<live, tagged, ver>>

\* The references of the map move to the list.  With a where expression the
\* list is filtered first and this function runs again.  The threshold of
\* all series of this pool is the default.
exit_drop_series(i, q0) ==
    LET q == [q0 EXCEPT !.vec = q0.map, !.map = {}] IN
    IF q.where /\ ~q.filtered THEN Set(i, [q EXCEPT !.st = "filter"]) /\ UNCHANGED ref
    ELSE \/ /\ q.vec # {} /\ Cardinality(q.vec) >= Cardinality(live)
            /\ QUERIES_FREE(i, [q EXCEPT !.kind = "error"])
         \/ Set(i, [q EXCEPT !.st = "drop"]) /\ UNCHANGED ref

\* Once for each select function, the last one of the text first.
exit_select_aggregate(i, q) ==
    IF q.where /\ ~q.filtered
    THEN /\ Set(i, [q EXCEPT !.st = "filter", !.vec = q.map, !.map = {}])
         /\ UNCHANGED ref
    ELSE IF q.nsel = 0 THEN QUERIES_FREE(i, q)
    ELSE /\ ref' = Add(ref, q.map)
         /\ Set(i, [q EXCEPT !.st = q.kind, !.nsel = @ - 1, !.vec = q.map])

Continue(i, q) ==
    IF q.kind = "drop" THEN exit_drop_series(i, q) ELSE exit_select_aggregate(i, q)

Exit(i) ==
    /\ qs[i].st = "exit" /\ qs[i].kind \in {"drop", "select", "skip"}
    /\ Continue(i, qs[i])
    /\ UNCHANGED <<live, tagged, ver>>

\* The where expression of a series; a loop that keeps a series moves its
\* reference to the map.
\* Mutant: the result of the expression is not looked at.
cexpr_run_Ignored(s) == TRUE
cexpr_run(s) == s \in Where

\* Mutant: the where expression is not removed when the loop is done.
Filtered_Again(q) == [q EXCEPT !.filtered = FALSE]
Filtered(q) == [q EXCEPT !.filtered = TRUE]

async_filter_series(i) ==
    /\ qs[i].st = "filter"
    /\ LET q == qs[i] IN
       IF q.vec = {} THEN Continue(i, Filtered(q))
       ELSE \E s \in q.vec :
            IF cexpr_run(s)
            THEN Set(i, [q EXCEPT !.vec = @ \ {s}, !.map = @ \cup {s}]) /\ UNCHANGED ref
            ELSE Set(i, [q EXCEPT !.vec = @ \ {s}]) /\ ref' = Drop(ref, One({s}))
    /\ UNCHANGED <<live, tagged, ver>>

\* siridb_series_drop leaves a series alone that another query dropped.
siridb_series_drop(s) ==
    /\ live' = live \ {s}
    /\ ref' = Drop(ref, Lost(live \cap {s}, {s}))

\* Drops the next series and releases its place in the list.
async_drop_series(i) ==
    /\ qs[i].st = "drop"
    /\ LET q == qs[i] IN
       IF q.vec = {} THEN QUERIES_FREE(i, q) /\ UNCHANGED live
       ELSE \E s \in q.vec :
            siridb_series_drop(s) /\ Set(i, [q EXCEPT !.vec = @ \ {s}])
    /\ UNCHANGED <<tagged, ver>>

\* The points of a series are read once and copied for the other functions.
\* Mutant: the copy is not kept.
Cached_Never(q, s) == {}
Cached(q, s) == {c \in q.cache : c[1] = s}

\* The list gives up its reference before the points are read.  The query
\* ends with an error when it has too many points or an aggregation fails.
async_select_aggregate(i) ==
    /\ qs[i].st = "select"
    /\ LET q == qs[i] IN
       IF q.vec = {} THEN Set(i, [q EXCEPT !.st = "exit"]) /\ UNCHANGED ref
       ELSE \/ QUERIES_FREE(i, [q EXCEPT !.kind = "error"])
            \/ \E s \in q.vec :
               LET c == Cached(q, s)
                   points == IF c # {} THEN {x[2] : x \in c}
                             ELSE IF s \in live THEN {ver[s]} ELSE {}
               IN  /\ ref' = Drop(ref, One({s}))
                   /\ Set(i, [q EXCEPT !.vec = @ \ {s},
                        !.got = @ \cup {<<q.nsel, s, v>> : v \in points},
                        !.cache = IF c # {} /\ q.nsel = 0 THEN @ \ c
                                  ELSE IF q.keep THEN @ \cup {<<s, v>> : v \in points}
                                  ELSE @])
    /\ UNCHANGED <<live, tagged, ver>>

\* count(), first() and last() need no list of points.
async_no_points_aggregate(i) ==
    /\ qs[i].st = "skip"
    /\ LET q == qs[i] IN
       IF q.vec = {} THEN Set(i, [q EXCEPT !.st = "exit"]) /\ UNCHANGED ref
       ELSE \E s \in q.vec :
            /\ ref' = Drop(ref, One({s}))
            /\ Set(i, [q EXCEPT !.vec = @ \ {s}, !.got = @ \cup {<<q.nsel, s, ver[s]>>}])
    /\ UNCHANGED <<live, tagged, ver>>

\* A name of a group, a wrong name or a tag that is not found is an error.
TagError(i) ==
    /\ At(i, "tag")
    /\ QUERIES_FREE(i, [qs[i] EXCEPT !.kind = "error"])
    /\ UNCHANGED <<live, tagged, ver>>

\* The references of the map move to the tag, or are released.
enter_tag_series(i) ==
    /\ At(i, "tag") /\ qs[i].kind = "tag"
    /\ LET q  == qs[i]
           in == IF q.where THEN q.map \cap Where ELSE q.map
           u  == imap_union_ref(tagged, in)
       IN  /\ tagged' = u.map
           /\ ref' = Drop(ref, Lost(tagged \cap in, q.map \ in))
           /\ Set(i, [NextNode(q) EXCEPT !.map = {}])
    /\ UNCHANGED <<live, ver>>

enter_untag_series(i) ==
    /\ At(i, "tag") /\ qs[i].kind = "untag"
    /\ LET q  == qs[i]
           in == IF q.where THEN q.map \cap Where ELSE q.map
           u  == imap_difference_ref(tagged, in)
       IN  /\ tagged' = u.map
           /\ ref' = Drop(Drop(ref, u.lost), One(q.map \ in))
           /\ Set(i, [NextNode(q) EXCEPT !.map = {}])
    /\ UNCHANGED <<live, ver>>

exit_tag_series(i) ==
    /\ qs[i].st = "end"
    /\ QUERIES_FREE(i, qs[i])
    /\ UNCHANGED <<live, tagged, ver>>

\* Points of a series are inserted while a query runs; it matters only while
\* the query reads points.
Insert(s) ==
    /\ s \in live
    /\ \E i \in Queries : qs[i].kind = "select" /\ qs[i].st \in {"select", "exit"}
    /\ ver[s] < MaxInserts
    /\ ver' = [ver EXCEPT ![s] = @ + 1]
    /\ UNCHANGED <<live, ref, tagged, qs>>

-----------------------------------------------------------------------------
Init ==
    /\ live = Series
    /\ tagged \in {{}, Members}
    /\ ref = [s \in Series |-> 1 + One(Members)[s] + One(tagged)[s]]
    /\ ver = [s \in Series |-> 0]
    /\ qs = [i \in Queries |-> Idle]

Step(i) ==
    \/ enter_series_match(i) \/ enter_series_setopr(i) \/ enter_series_name(i)
    \/ enter_series_all(i) \/ enter_group_tag_match(i)
    \/ enter_series_re(i) \/ async_series_re(i)
    \/ enter_series_parentheses(i) \/ exit_series_parentheses(i)
    \/ exit_series_match(i)
    \/ exit_list_series(i) \/ async_list_series(i)
    \/ exit_count_series(i) \/ async_count_series(i)
    \/ Exit(i) \/ async_drop_series(i) \/ async_filter_series(i)
    \/ async_select_aggregate(i)
    \/ async_no_points_aggregate(i)
    \/ enter_tag_series(i) \/ enter_untag_series(i) \/ TagError(i) \/ exit_tag_series(i)

Next == \/ \E i \in Queries : Begin(i) \/ Step(i)
        \/ \E s \in Series : Insert(s)

Spec == Init /\ [][Next]_vars /\ \A i \in Queries : WF_vars(Step(i))

-----------------------------------------------------------------------------
\* Types.
TypeOK ==
    /\ live \subseteq Series /\ tagged \subseteq Series
    /\ ref \in [Series -> Nat] /\ ver \in [Series -> 0..MaxInserts]
    /\ \A i \in Queries :
        /\ qs[i].map \subseteq Series /\ qs[i].vec \subseteq Series
        /\ qs[i].nsel \in 0..2
        /\ qs[i].st = "idle" <=> qs[i].kind = "none"

\* A series has as many references as there are maps and lists that hold it,
\* whatever the set operators, loops, limits and errors of the queries did:
\* it is never freed while it is in use and never kept when it is not.
RefsExact ==
    \A s \in Series :
        ref[s] = One(live)[s] + One(Members)[s] + One(tagged)[s]
                 + Holds(qs[1], s) + Holds(qs[2], s)

\* Once the enter functions and the parentheses have run the map holds the
\* series that the expression denotes (of those that are not dropped).
MatchIsExact ==
    \A i \in Queries : At(i, "matched") /\ qs[i].kind \notin {"tag", "untag"} =>
        \A s \in live : s \in qs[i].map <=> Denotes(qs[i].expr, s)

\* A select that does not go to all pools goes to every pool that has a
\* series of the expression.
PoolsAsked ==
    \A i \in Queries : qs[i].st = "done" /\ qs[i].kind = "select" /\ qs[i].master =>
        \A r \in Remote : Denotes(qs[i].expr, r) => r \in qs[i].pmap

\* list series shows no more than its limit and no series that is not asked
\* for (one that is dropped meanwhile may still show), and it leaves out a
\* series only because of the limit.
ListIsExact ==
    \A i \in Queries : qs[i].st = "done" /\ qs[i].kind = "list" =>
        LET asked(s) == Denotes(qs[i].expr, s) /\ (qs[i].where => s \in Where)
        IN  /\ \A s \in qs[i].n \cap live : asked(s)
            /\ Cardinality(qs[i].n) <= ListLimit
            /\ Cardinality(qs[i].n) < ListLimit =>
                   \A s \in live : asked(s) => s \in qs[i].n

\* A series is gone only if a drop statement denotes it and its where
\* expression holds: the list that is dropped was made and filtered in
\* earlier rounds of the loop.
OnlyAskedDropped ==
    \A s \in Series \ live : \E i \in Queries :
        /\ qs[i].kind = "drop" /\ Denotes(qs[i].expr, s)
        /\ qs[i].where => s \in Where

\* All select functions of a query see the same points of a series, also
\* when points are inserted or the series is dropped between them.
SameView ==
    \A i \in Queries : qs[i].kind = "select" =>
        \A a, b \in qs[i].got : a[2] = b[2] => a[3] = b[3]

\* Every query comes to an end.
QueriesEnd ==
    \A i \in Queries : qs[i].st = "walk" ~> qs[i].st = "done"

(* The reference counter of every series is exact in every state of the two*)
(* queries.                                                                *)
RefsOK ==
    /\ TypeOK
    /\ RefsExact

(* A query works on the series that its expression denotes: it matches,    *)
(* asks for, lists and drops these and no others.                          *)
AnswerIsExact ==
    /\ MatchIsExact
    /\ PoolsAsked
    /\ ListIsExact
    /\ OnlyAskedDropped

=============================================================================
