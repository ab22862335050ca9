------------------------------ MODULE Reindex ------------------------------
(***************************************************************************)
(* A new pool is added to a running database: every server registers the   *)
(* new server (servers.c), and then moves the series that now belong to    *)
(* the new pool (reindex.c) while inserts go on (insert.c, forward.c,      *)
(* clserver.c, bserver.c).  While a server is re-indexing nobody knows     *)
(* where a series is, so inserts are tested where they arrive and          *)
(* forwarded when the series has left.  In a pool with two servers both    *)
(* hold a series, and one of them, given by its name, moves it.            *)
(*                                                                         *)
(* A series is the slot of its name in the look-up table, a point is a     *)
(* series and a number.  An insert has one point: a package with several   *)
(* series is a list of inserts that do not depend on each other.           *)
(*                                                                         *)
(* Left out: restarts (the file of re-indexing is in PoolState), tags,     *)
(* backup mode, the optimize task (re-indexing starts when it is paused:   *)
(* Optimize and PoolState), errors of the connections between the servers  *)
(* of the old pools (Replicate and Connection).                            *)
(***************************************************************************)
EXTENDS Integers, Sequences, FiniteSets

CONSTANTS
    Servers,      \* the servers of the old pools
    New,          \* the server of the new pool
    PoolOf,       \* the pool of each server of Servers
    IdOf,         \* its id in that pool: server->id
    LOOKUP_SZ,    \* SIRIDB_LOOKUP_SZ
    Series,       \* slots of the look-up table that are in use
    SeriesId,     \* siridb_series_server_id_by_name of each series
    OldSeries,    \* which series may have points from the start: a set of sets
    MaxPoints,    \* bound: points inserted by clients
    MaxFaults,    \* bound: faults of the connections to the new server
    Env           \* "busy": inserts also while servers are being registered

Slots == 0 .. LOOKUP_SZ - 1

ASSUME ReindexAssumption ==
    /\ Servers # {} /\ IsFiniteSet(Servers)
    /\ New \notin Servers /\ {"fifo", "none"} \cap (Servers \cup {New}) = {}
    /\ PoolOf \in [Servers -> Nat]
    /\ IdOf \in [Servers -> {0, 1}]
    /\ \A x, y \in Servers : PoolOf[x] = PoolOf[y] /\ IdOf[x] = IdOf[y] => x = y
    /\ {PoolOf[x] : x \in Servers} = 0 .. Cardinality({PoolOf[x] : x \in Servers}) - 1
    /\ LOOKUP_SZ \in Nat \ {0}
    /\ Series \subseteq Slots
    /\ SeriesId \in [Series -> {0, 1}]
    /\ OldSeries \subseteq SUBSET Series
    /\ MaxPoints \in Nat
    /\ MaxFaults \in Nat

All == Servers \cup {New}
NumPools == Cardinality({PoolOf[x] : x \in Servers})   \* pools->len
Pool(x) == IF x = New THEN NumPools ELSE PoolOf[x]
Replicas(x) == {y \in All \ {x} : Pool(y) = Pool(x)}
Points == Series \X (0 .. MaxPoints)
PointsOf(s) == {p \in Points : p[1] = s}

(***************************************************************************)
(* siridb_lookup_new: the table for m pools is made of that for m - 1.  Of *)
(* the slots of pool k, counted from k on, each m-th goes to the new pool. *)
(***************************************************************************)
siridb_lookup_new[m \in 1 .. NumPools + 1] ==
    IF m = 1
    THEN [i \in Slots |-> 0]
    ELSE [i \in Slots |->
            LET prev == siridb_lookup_new[m - 1]
                counter == prev[i] + Cardinality({j \in 0 .. i : prev[j] = prev[i]})
            IN  IF counter % m = 0 THEN m - 1 ELSE prev[i]]

prev_lookup == siridb_lookup_new[NumPools]
new_lookup == siridb_lookup_new[NumPools + 1]

VARIABLES
    registered,   \* servers that have registered New
    started,      \* New runs
    reach,        \* servers for which New is accessible
    flag,         \* servers with SIRIDB_FLAG_REINDEXING
    busy,         \* servers with SERVER_FLAG_REINDEXING
    seen,         \* <<x, y>>: x, not done with re-indexing, was told that y is in busy
    todo,         \* the series in the re-index file of each server
    task,         \* its re-index task: phase, series and points on their way
    store,        \* how often each server has each point
    inserts,      \* inserts accepted and given to INSERT_points_to_pools
    locals,       \* insert tasks: INSERT_local_task
    forwards,     \* points given to siridb_forward_points_to_pools
    net,          \* packages on their way
    fifo,         \* the replication fifo of each server
    out,          \* servers whose first package of the fifo is at the replica
    data,         \* every point accepted
    gaveUp,       \* points that an error message was logged for
    faults        \* number of faults

vars == <<registered, started, reach, flag, busy, seen, todo, task, store, inserts,
          locals, forwards, net, fifo, out, data, gaveUp, faults>>

regVars == <<registered, started, todo, task, flag, busy>>
linkVars == <<reach, seen, faults>>
pointVars == <<store, inserts, locals, forwards, net, fifo, out, data, gaveUp>>

NoTask == [phase |-> "none", series |-> -1, pts |-> {}]

Flags == {"none", "TEST", "TESTED"}
Insert == [at : All, pt : Points, pool : 0 .. NumPools, fl : Flags]
Local == [at : All, pts : SUBSET Points, fl : Flags, from : All \cup {"fifo", "none"}]
Forward == [at : All, pts : SUBSET Points, pool : 0 .. NumPools]
Package == [from : All, to : All, pts : SUBSET Points, fl : Flags, kind : {"POOL", "SERVER"}]
FifoPackage == [tp : {"INSERT", "DROP_SERIES"}, series : Series, pts : SUBSET Points, fl : Flags]
Phases == {"none", "work", "send", "wait", "answered"}

TypeOK ==
    /\ registered \subseteq Servers
    /\ started \in BOOLEAN
    /\ reach \subseteq registered
    /\ flag \subseteq registered
    /\ busy \subseteq flag
    /\ seen \subseteq Servers \X Servers
    /\ todo \in [Servers -> SUBSET Series]
    /\ \A x \in Servers :
        /\ task[x].phase \in Phases
        /\ task[x].series \in Series \cup {-1}
        /\ task[x].pts \subseteq Points
    /\ \A x \in All : store[x] \in [Points -> Nat]
    /\ inserts \subseteq Insert
    /\ locals \subseteq Local
    /\ forwards \subseteq Forward
    /\ net \subseteq Package
    /\ fifo \in [Servers -> Seq(FifoPackage)]
    /\ out \subseteq Servers
    /\ data \subseteq Points
    /\ gaveUp \subseteq data
    /\ faults \in 0 .. MaxFaults

-----------------------------------------------------------------------------
(* What a server knows. *)

\* ct_get(siridb->series, name) != NULL
Has(x, s) == \E p \in PointsOf(s) : store[x][p] > 0

\* pools->lookup
lookup(x) == IF x \in registered \cup {New} THEN new_lookup ELSE prev_lookup

\* siridb_series_server_id(series) == siridb->server->id, or no replica
Responsible(x, s) == Replicas(x) = {} \/ SeriesId[s] = IdOf[x]

\* siridb_server_is_accessible of the record that x has of y
siridb_server_is_accessible(x, y) == y = New => x \in reach

siridb_pools_accessible(x) == x \in registered => siridb_server_is_accessible(x, New)

\* siridb_servers_available: exactly running, so not re-indexing
siridb_servers_available(x, told) == x \in reach /\ \A y \in Servers : <<x, y>> \notin told

\* Where an insert goes.
INSERT_get_pool(x, s) ==
    IF x \notin flag
    THEN lookup(x)[s]
    ELSE IF Has(x, s)
    THEN Pool(x)
    ELSE IF prev_lookup[s] # Pool(x) THEN prev_lookup[s] ELSE new_lookup[s]

\* INSERT_init_local and insert_init_backend_local
InitLocal(x, pts, fl, from) ==
    locals' = locals \cup {[at |-> x, pts |-> pts, fl |-> fl, from |-> from]}

\* siridb_replicate_pkg, in a pool with a replica
ReplicatePkg(x, pkg) ==
    fifo' = IF Replicas(x) = {} THEN fifo ELSE [fifo EXCEPT ![x] = Append(@, pkg)]

InsertPkg(s, pts, fl) == [tp |-> "INSERT", series |-> s, pts |-> pts, fl |-> fl]

\* siridb_pool_send_pkg: to one accessible server; without one the points are
\* given up and an error is logged.
PoolSend(x, pool, pts, fl) ==
    \/ \E y \in All :
        /\ Pool(y) = pool
        /\ siridb_server_is_accessible(x, y)
        /\ net' = net \cup {[from |-> x, to |-> y, pts |-> pts, fl |-> fl, kind |-> "POOL"]}
        /\ UNCHANGED gaveUp
    \/ /\ \A y \in All : Pool(y) = pool => ~siridb_server_is_accessible(x, y)
       /\ gaveUp' = gaveUp \cup pts
       /\ UNCHANGED net

SeriesOf(pts) == (CHOOSE p \in pts : TRUE)[1]
Added(x, pts) == [store EXCEPT ![x] = [p \in Points |-> IF p \in pts THEN @[p] + 1 ELSE @[p]]]
Dropped(x, s) == [store EXCEPT ![x] = [p \in Points |-> IF p[1] = s THEN 0 ELSE @[p]]]

-----------------------------------------------------------------------------
(* Inserts. *)

\* All servers have been connected to the new one.  What clients have inserted
\* before is in Init, unless it is still under way when servers register.
Settled == "busy" \in Env \/ reach = Servers \/ faults > 0

\* Mutant: no insert is marked to be tested.
on_insert_untested(x, s) ==
    /\ x = New => started
    /\ Settled
    /\ siridb_pools_accessible(x)
    /\ Cardinality({p \in data : p[2] > 0}) < MaxPoints
    /\ \E p \in {<<s, Cardinality({q \in data : q[2] > 0}) + 1>>} :
        /\ data' = data \cup {p}
        /\ inserts' = inserts \cup
            {[at |-> x, pt |-> p, pool |-> INSERT_get_pool(x, s), fl |-> "none"]}
    /\ UNCHANGED <<regVars, linkVars, store, locals, forwards, net, fifo, out, gaveUp>>

\* A client inserts a point (clserver.c).  The pool and the flag are chosen now.
on_insert(x, s) ==
    /\ x = New => started
    /\ Settled
    /\ siridb_pools_accessible(x)
    /\ Cardinality({p \in data : p[2] > 0}) < MaxPoints
    /\ \E p \in {<<s, Cardinality({q \in data : q[2] > 0}) + 1>>} :
        /\ data' = data \cup {p}
        /\ inserts' = inserts \cup
            {[at |-> x, pt |-> p, pool |-> INSERT_get_pool(x, s),
              fl |-> IF x \in flag THEN "TEST" ELSE "none"]}
    /\ UNCHANGED <<regVars, linkVars, store, locals, forwards, net, fifo, out, gaveUp>>

\* The points go to a local task and to the replica, or to an other pool.
INSERT_points_to_pools(e) ==
    /\ inserts' = inserts \ {e}
    /\ IF e.pool = Pool(e.at)
       THEN /\ InitLocal(e.at, {e.pt}, e.fl, "none")
            /\ ReplicatePkg(e.at, InsertPkg(e.pt[1], {e.pt}, e.fl))
            /\ UNCHANGED <<net, gaveUp>>
       ELSE /\ PoolSend(e.at, e.pool, {e.pt}, e.fl)
            /\ UNCHANGED <<locals, fifo>>
    /\ UNCHANGED <<regVars, linkVars, store, forwards, out, data>>

\* An insert from an other server (bserver.c).
BSERVER_on_insert(m) ==
    /\ net' = net \ {m}
    /\ InitLocal(m.to, m.pts, m.fl, IF m.kind = "SERVER" THEN m.from ELSE "none")
    /\ IF m.kind = "POOL"
       THEN ReplicatePkg(m.to, InsertPkg(SeriesOf(m.pts), m.pts, m.fl))
       ELSE UNCHANGED fifo
    /\ UNCHANGED <<regVars, linkVars, store, inserts, forwards, out, data, gaveUp>>

\* Is the task tested, or does it add its points without looking?
IsTested(t) == t.fl = "TEST" \/ (t.at \in flag /\ t.fl # "TESTED")

\* Points stay here: the series is here, or belongs here and is created.
INSERT_local_work_test(x, s) == Has(x, s) \/ lookup(x)[s] = Pool(x)

\* A local task runs, and answers who it works for.
INSERT_local_task(t) ==
    /\ locals' = locals \ {t}
    /\ \E s \in {SeriesOf(t.pts)} :
        \/ /\ IsTested(t) => INSERT_local_work_test(t.at, s)
           /\ store' = Added(t.at, t.pts)
           /\ UNCHANGED forwards
        \/ /\ IsTested(t) /\ ~INSERT_local_work_test(t.at, s)
           /\ Responsible(t.at, s)
           /\ forwards' = forwards \cup
                {[at |-> t.at, pts |-> t.pts, pool |-> lookup(t.at)[s]]}
           /\ UNCHANGED store
        \/ /\ IsTested(t) /\ ~INSERT_local_work_test(t.at, s)
           /\ ~Responsible(t.at, s)
           /\ UNCHANGED <<store, forwards>>
    /\ IF t.from = "fifo"
       THEN \E y \in Replicas(t.at) :
                fifo' = [fifo EXCEPT ![y] = Tail(@)] /\ out' = out \ {y}
       ELSE UNCHANGED <<fifo, out>>
    /\ task' = IF t.from \in Servers /\ task[t.from].phase = "wait"
                  /\ task[t.from].series = SeriesOf(t.pts)
               THEN [task EXCEPT ![t.from].phase = "answered"]
               ELSE task
    /\ UNCHANGED <<registered, started, todo, flag, busy, linkVars, inserts, net, data, gaveUp>>

siridb_forward_points_to_pools(f) ==
    /\ forwards' = forwards \ {f}
    /\ PoolSend(f.at, f.pool, f.pts, "TESTED")
    /\ UNCHANGED <<regVars, linkVars, store, inserts, locals, fifo, out, data>>

\* The first package of the fifo reaches the replica: an insert, or a series
\* to drop (on_drop_series).  It is committed when it is answered.
REPLICATE_work(x) ==
    /\ fifo[x] # <<>> /\ x \notin out
    /\ \E y \in Replicas(x) :
        \/ /\ Head(fifo[x]).tp = "INSERT"
           /\ InitLocal(y, Head(fifo[x]).pts, Head(fifo[x]).fl, "fifo")
           /\ out' = out \cup {x}
           /\ UNCHANGED <<store, fifo>>
        \/ /\ Head(fifo[x]).tp = "DROP_SERIES"
           /\ store' = Dropped(y, Head(fifo[x]).series)
           /\ fifo' = [fifo EXCEPT ![x] = Tail(@)]
           /\ UNCHANGED <<locals, out>>
    /\ UNCHANGED <<regVars, linkVars, inserts, forwards, net, data, gaveUp>>

-----------------------------------------------------------------------------
(* Registration. *)

Quiet == /\ inserts = {} /\ locals = {} /\ forwards = {} /\ net = {}
         /\ \A x \in Servers : fifo[x] = <<>>

\* siridb_servers_register: the pool is appended and the re-index file written
\* with every series (siridb_reindex_open); a file with series starts the task.
siridb_servers_register(x) ==
    /\ x \notin registered
    /\ "busy" \in Env \/ Quiet
    /\ registered' = registered \cup {x}
    /\ flag' = flag \cup {x}
    /\ todo' = [todo EXCEPT ![x] = {s \in Series : Has(x, s)}]
    /\ IF \E s \in Series : Has(x, s)
       THEN busy' = busy \cup {x} /\ task' = [task EXCEPT ![x].phase = "work"]
       ELSE UNCHANGED <<busy, task>>
    /\ UNCHANGED <<started, linkVars, pointVars>>

\* All servers have answered, so the new server is started.
StartNew ==
    /\ registered = Servers /\ ~started
    /\ started' = TRUE
    /\ UNCHANGED <<registered, todo, task, flag, busy, linkVars, pointVars>>

\* x is authenticated by the new server, which is running.
SERVER_on_auth_response(x) ==
    /\ started /\ x \notin reach
    /\ reach' = reach \cup {x}
    /\ UNCHANGED <<regVars, seen, faults, pointVars>>

\* The last of its own series is done, or flags arrive: when all others are
\* available, re-indexing has ended for x.
siridb_reindex_status_update(x, told) ==
    flag' = IF siridb_servers_available(x, told) THEN flag \ {x} ELSE flag

\* Mutant: flags of others are noted and nothing more.
BSERVER_flags_update_noted(x, y) ==
    /\ x # y
    /\ y = New => started
    /\ x \in flag \/ (x \notin registered /\ y \in busy)
    /\ seen' = IF y \in busy THEN seen \cup {<<x, y>>} ELSE seen \ {<<x, y>>}
    /\ UNCHANGED <<flag, registered, started, todo, task, busy, reach, faults, pointVars>>

\* The flags of y reach x; each heart-beat sends them.  (A server that
\* is done with re-indexing needs them no more.)
BSERVER_flags_update(x, y) ==
    /\ x # y
    /\ y = New => started
    /\ x \in flag \/ (x \notin registered /\ y \in busy)
    /\ seen' = IF y \in busy THEN seen \cup {<<x, y>>} ELSE seen \ {<<x, y>>}
    /\ IF x \in flag \ busy /\ y \notin busy
       THEN siridb_reindex_status_update(x, seen')
       ELSE UNCHANGED flag
    /\ UNCHANGED <<registered, started, todo, task, busy, reach, faults, pointVars>>

-----------------------------------------------------------------------------
(* The re-index task of a server. *)

\* Series s is done: the next one, or the end of the task.
REINDEX_next(x, s) ==
    /\ todo' = [todo EXCEPT ![x] = @ \ {s}]
    /\ IF todo[x] = {s}
       THEN /\ task' = [task EXCEPT ![x] = NoTask]
            /\ busy' = busy \ {x}
            /\ siridb_reindex_status_update(x, seen)
       ELSE /\ task' = [task EXCEPT ![x] = [NoTask EXCEPT !.phase = "work"]]
            /\ UNCHANGED <<busy, flag>>

\* The timer fires: a series that does not have to move, or is moved by the
\* replica, is skipped.  An other one leaves the store at once, with its points
\* (siridb_series_drop_prepare), and is packed.
REINDEX_work(x) ==
    /\ task[x].phase = "work"
    /\ \E s \in todo[x] :
        \/ /\ ~Has(x, s) \/ new_lookup[s] = Pool(x) \/ ~Responsible(x, s)
           /\ REINDEX_next(x, s)
           /\ UNCHANGED store
        \/ /\ Has(x, s) /\ new_lookup[s] # Pool(x) /\ Responsible(x, s)
           /\ task' = [task EXCEPT ![x] =
                [phase |-> "send", series |-> s, pts |-> {p \in PointsOf(s) : store[x][p] > 0}]]
           /\ store' = Dropped(x, s)
           /\ UNCHANGED <<todo, busy, flag>>
    /\ UNCHANGED <<registered, started, linkVars, inserts, locals, forwards, net, fifo, out,
                   data, gaveUp>>

\* The package is sent, and again and again until the new server is accessible.
REINDEX_send(x) ==
    /\ task[x].phase = "send"
    /\ siridb_server_is_accessible(x, New)
    /\ net' = net \cup
        {[from |-> x, to |-> New, pts |-> task[x].pts, fl |-> "TESTED", kind |-> "SERVER"]}
    /\ task' = [task EXCEPT ![x].phase = "wait"]
    /\ UNCHANGED <<registered, started, todo, flag, busy, linkVars, store, inserts, locals,
                   forwards, fifo, out, data, gaveUp>>

\* REINDEX_commit_series and then REINDEX_next: the replica has to drop the series.
REINDEX_commit_series(x) ==
    /\ ReplicatePkg(x, [tp |-> "DROP_SERIES", series |-> task[x].series, pts |-> {},
                        fl |-> "none"])
    /\ REINDEX_next(x, task[x].series)

\* REINDEX_on_insert_response of an answer, also one with an error.
ReindexAnswer(x) ==
    /\ task[x].phase = "answered"
    /\ REINDEX_commit_series(x)
    /\ UNCHANGED <<registered, started, linkVars, store, inserts, locals, forwards, net, out,
                   data, gaveUp>>

\* The package of x, or the task it gave rise to, may still be answered.
Outstanding(x) ==
    \/ \E m \in net : m.from = x /\ m.kind = "SERVER" /\ m.pts = task[x].pts
    \/ \E t \in locals : t.from = x /\ t.pts = task[x].pts

\* Mutant: a time-out is handled as a write error.
ReindexTimeout_resend(x) ==
    /\ task[x].phase = "wait"
    /\ Outstanding(x) => faults < MaxFaults
    /\ faults' = IF Outstanding(x) THEN faults + 1 ELSE faults
    /\ task' = [task EXCEPT ![x].phase = "send"]
    /\ UNCHANGED <<registered, started, todo, flag, busy, reach, seen, pointVars>>

\* PROMISE_TIMEOUT_ERROR: there was no answer, so the series is dropped.  The
\* package may still arrive: such an early time-out is a fault.
ReindexTimeout(x) ==
    /\ task[x].phase = "wait"
    /\ Outstanding(x) => faults < MaxFaults
    /\ faults' = IF Outstanding(x) THEN faults + 1 ELSE faults
    /\ REINDEX_commit_series(x)
    /\ UNCHANGED <<registered, started, reach, seen, store, inserts, locals, forwards, net, out,
                   data, gaveUp>>

\* PROMISE_WRITE_ERROR: the package was not sent and is sent again.
ReindexWriteError(x) ==
    /\ task[x].phase = "wait" /\ faults < MaxFaults
    /\ \E m \in net :
        m.from = x /\ m.kind = "SERVER" /\ m.pts = task[x].pts /\ net' = net \ {m}
    /\ faults' = faults + 1
    /\ task' = [task EXCEPT ![x].phase = "send"]
    /\ UNCHANGED <<registered, started, todo, flag, busy, reach, seen, store, inserts, locals,
                   forwards, fifo, out, data, gaveUp>>

\* The connection of x to the new server is lost with all packages and answers
\* it carries.  Their promises time out, which is an error for the client or in
\* the log.
LoseConnection(x) ==
    /\ x \in reach /\ faults < MaxFaults
    /\ faults' = faults + 1
    /\ reach' = reach \ {x}
    /\ \E lost \in {{m \in net : m.from = x /\ m.to = New}} :
        /\ net' = net \ lost
        /\ gaveUp' = gaveUp \cup UNION {m.pts : m \in lost}
    /\ task' = IF task[x].phase = "answered" THEN [task EXCEPT ![x].phase = "wait"] ELSE task
    /\ UNCHANGED <<registered, started, todo, flag, busy, seen, store, inserts, locals,
                   forwards, fifo, out, data>>

-----------------------------------------------------------------------------

\* Some of the series have points already.
Init ==
    /\ \E old \in OldSeries : data = {<<s, 0>> : s \in old}
    /\ store = [x \in All |-> [p \in Points |->
                    IF p \in data /\ prev_lookup[p[1]] = Pool(x) THEN 1 ELSE 0]]
    /\ registered = {} /\ started = FALSE /\ reach = {} /\ flag = {} /\ busy = {} /\ seen = {}
    /\ todo = [x \in Servers |-> {}]
    /\ task = [x \in Servers |-> NoTask]
    /\ inserts = {} /\ locals = {} /\ forwards = {} /\ net = {}
    /\ fifo = [x \in Servers |-> <<>>]
    /\ out = {} /\ gaveUp = {} /\ faults = 0

\* What the event loops, the timers and the network do by themselves.
Progress ==
    \/ \E e \in inserts : INSERT_points_to_pools(e)
    \/ \E m \in net : BSERVER_on_insert(m)
    \/ \E t \in locals : INSERT_local_task(t)
    \/ \E f \in forwards : siridb_forward_points_to_pools(f)
    \/ \E x \in Servers :
        \/ REPLICATE_work(x)
        \/ SERVER_on_auth_response(x)
        \/ \E y \in All : BSERVER_flags_update(x, y)
        \/ REINDEX_work(x)
        \/ REINDEX_send(x)
        \/ ReindexAnswer(x)
        \/ ~Outstanding(x) /\ ReindexTimeout(x)
    \/ StartNew

Next ==
    \/ Progress
    \/ \E x \in All, s \in Series : on_insert(x, s)
    \/ \E x \in Servers :
        \/ siridb_servers_register(x)
        \/ ReindexTimeout(x)
        \/ ReindexWriteError(x)
        \/ LoseConnection(x)

Spec == Init /\ [][Next]_vars

\* The servers do not all stop while one of them can go on, and a registration
\* that has begun is sent to all servers.  Inserts and faults are not fair.
Fairness ==
    WF_vars(Progress \/ \E x \in Servers : registered # {} /\ siridb_servers_register(x))

FairSpec == Spec /\ Fairness

-----------------------------------------------------------------------------
(* Properties. *)

\* How many carriers a point has: an insert, a package, a task, a forward, the
\* store.  In a pool with two servers only what the responsible one has, or will
\* get through the fifo of the other, counts.
Carriers(p) ==
    Cardinality({e \in inserts : e.pt = p})
    + Cardinality({m \in net : p \in m.pts})
    + Cardinality({t \in locals : p \in t.pts /\ Responsible(t.at, p[1])})
    + Cardinality({f \in forwards : p \in f.pts})
    + Cardinality({x \in Servers : task[x].phase = "send" /\ p \in task[x].pts})
    + Cardinality({c \in All \X {1, 2} : store[c[1]][p] >= c[2] /\ Responsible(c[1], p[1])})
    + Cardinality(UNION {{<<x, i>> : i \in {i \in DOMAIN fifo[x] :
                            p \in fifo[x][i].pts /\ ~(i = 1 /\ x \in out)}} :
                         x \in {x \in Servers : \E y \in Replicas(x) : Responsible(y, p[1])}})

\* However inserts, the moving of series, the replication and the flags of the
\* servers interleave, an accepted point is at each moment with exactly one
\* responsible carrier: re-indexing neither loses it nor makes two of it, unless a
\* connection failed and the error was logged.
Conserved == \A p \in data : Carriers(p) = IF p \in gaveUp THEN 0 ELSE 1

\* When the servers have moved their series and nothing is under way, each
\* point is on all servers of the pool that the look-up table names, once, and
\* nowhere else: no copy of a series is left behind in its old pool.
AllHome ==
    registered = Servers /\ busy = {} /\ Quiet =>
        \A p \in data \ gaveUp, x \in All :
            store[x][p] = IF Pool(x) = new_lookup[p[1]] THEN 1 ELSE 0

\* The look-up table for one pool more sends a series to the new pool or leaves it
\* where it is: INSERT_get_pool and the assertion in REINDEX_work, that a series
\* that moves was in its old pool, rely on it.
LookupMoves ==
    /\ \A i \in Slots : new_lookup[i] \in {prev_lookup[i], NumPools}
    /\ \A x \in Servers, s \in Series :
        task[x].phase = "send" /\ task[x].series = s => prev_lookup[s] = Pool(x)

\* Only a fault makes an accepted point be given up.
GivenUpByFault == faults = 0 => gaveUp = {}

\* No point is lost or doubled while series move (reindex.c, insert.c, forward.c).
PointsSafe == TypeOK /\ Conserved /\ GivenUpByFault

\* Every point ends where the look-up table says (lookup.c, reindex.c).
HomeIsRight == LookupMoves /\ AllHome

\* Adding a pool ends on every server, and all points arrive: no server waits for
\* ever for the flags of the others (siridb_reindex_status_update).
ReindexEnds == registered # {} ~> started /\ flag = {} /\ Quiet

=============================================================================
