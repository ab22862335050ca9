------------------------------- MODULE Query -------------------------------
(***************************************************************************)
(* How a query is run by all servers of a database: the handlers of        *)
(* db/listener.c that are run one after the other for the nodes of a       *)
(* query, the checks that only the master (the server of the client) makes *)
(* (macros of listener.c), forwarding (siridb_query_forward), the promises *)
(* (net/promises.c), the response call-backs and the replication of        *)
(* changes inside a pool.                                                  *)
(*                                                                         *)
(* A handler is described by a record, see Node: what it checks, changes,  *)
(* counts and how it goes on.  Handlers that end with SIRIPARSER_NEXT_NODE *)
(* run on in the same event, which cpu models; the others give way.  Each  *)
(* server has one main thread and knows the status of the others.          *)
(***************************************************************************)
EXTENDS Integers, Sequences, FiniteSets, FiniteSetsExt

CONSTANTS
    PoolSet,        \* the pools: a set of sets of servers, two at most in one
    Masters,        \* the server of each query
    Plans,          \* the statements that come together, see Statement
    MaxChanges,     \* bound: changes of the status of a server
    ListLimit,      \* the limit of list statements
    NoServer

Servers == UNION PoolSet
Queries == DOMAIN Masters
Pool(s) == CHOOSE p \in PoolSet : s \in p
Others(s) == Pool(s) \ {s}

ASSUME QueryAssumption ==
    /\ IsFiniteSet(PoolSet)
    /\ \A p \in PoolSet : IsFiniteSet(p) /\ Cardinality(p) \in 1..2
    /\ \A p, r \in PoolSet : p = r \/ p \cap r = {}
    /\ NoServer \notin Servers
    /\ \A q \in Queries : Masters[q] \in Servers
    /\ \A f \in Plans : DOMAIN f = Queries
    /\ MaxChanges \in Nat /\ ListLimit \in Nat \ {0}

VARIABLES
    obj,            \* the group, tag, user or setting a statement is about
    saved,          \* the same on disk
    up,             \* the status of each server
    fifo,           \* the queries that wait for the replica of a server
    cpu,            \* the query whose handlers run on in the main thread
    task,           \* a query on a server
    qry,            \* the query as the client sent it
    unsaved,        \* servers with a change that was not on disk when they went on
    changes         \* the number of changes of up

vars == <<obj, saved, unsaved, up, fifo, cpu, task, qry, changes>>

-----------------------------------------------------------------------------
(* Handlers.                                                               *)

Node == [
    acc   |-> FALSE,    \* SIRIPARSER_MASTER_CHECK_ACCESS
    chk   |-> {},       \* MASTER_CHECK_ACCESSIBLE, _ONLINE, _VERSION, _REINDEXING
    look  |-> "any",    \* what is looked up, an error if it is not so
    fail  |-> FALSE,    \* may the input or a file be in error?
    eff   |-> "none",   \* what becomes of the object
    save  |-> "none",   \* "must" be written to disk, "try" to, "late" by a thread
    count |-> "none",   \* what is counted or listed: this server, all, none
    go    |-> "next",   \* SIRIPARSER_NEXT_NODE, _ASYNC_NEXT_NODE, forward, ...
    fwd   |-> "none",   \* siridb_query_fwd_t
    cb    |-> "none"]   \* the call-back of the promises

Async   == [Node EXCEPT !.go = "async"]
Forward(fwd, cb) == [Node EXCEPT !.go = "forward", !.fwd = fwd, !.cb = cb]
Update  == Forward("update", "on_update_xxx_response")
Counted(fwd) == [Forward(fwd, "on_count_xxx_response") EXCEPT !.count = "self"]

\* Statements start with a check of the rights of the user, on the master.
\* Mutant: the rights are checked by nobody.
enter_drop_stmt_Unchecked == Node
enter_drop_stmt   == [Node EXCEPT !.acc = TRUE]
enter_alter_stmt  == [Node EXCEPT !.acc = TRUE]
enter_count_stmt  == [Node EXCEPT !.acc = TRUE]
enter_create_stmt == [Node EXCEPT !.acc = TRUE]
enter_list_stmt   == [Node EXCEPT !.acc = TRUE]
enter_select_stmt == [Async EXCEPT !.acc = TRUE, !.chk = {"accessible"}]
exit_show_stmt    == [Async EXCEPT !.acc = TRUE]

enter_alter_group  == [Node EXCEPT !.chk = {"accessible"}, !.look = "present"]
enter_alter_tag    == [Node EXCEPT !.chk = {"accessible"}, !.look = "present"]
enter_alter_user   == [Node EXCEPT !.chk = {"accessible"}, !.look = "present"]
enter_alter_series == [Node EXCEPT !.chk = {"accessible"}]
enter_alter_server == [Node EXCEPT !.fail = TRUE]
enter_alter_servers == Node
enter_create_user  == Node
enter_access_expr  == Node
\* The rights are changed before the rest of the statement is looked at.
enter_grant_user  == [Node EXCEPT !.acc = TRUE, !.chk = {"accessible"},
                                  !.look = "present", !.eff = "set"]
enter_revoke_user == [Node EXCEPT !.acc = TRUE, !.chk = {"accessible"},
                                  !.look = "present", !.eff = "set"]
enter_set_name       == [Node EXCEPT !.fail = TRUE, !.eff = "set"]
enter_set_password   == [Node EXCEPT !.fail = TRUE, !.eff = "set"]
enter_set_expression == [Async EXCEPT !.fail = TRUE, !.eff = "set"]
\* The password of a user that is not in the list of users yet.
NewPassword == [Node EXCEPT !.fail = TRUE]
enter_set_ignore_threshold == Node
enter_where_xxx   == [Async EXCEPT !.fail = TRUE]
enter_xxx_columns == Async
enter_limit_expr  == [Node EXCEPT !.fail = TRUE]
enter_merge_as    == [Async EXCEPT !.fail = TRUE]
enter_timeit_stmt == Node
enter_help        == Async
\* The series expression, module SeriesMatch.
enter_series_match == [Async EXCEPT !.fail = TRUE]

exit_after_expr   == Node
exit_before_expr  == Node
exit_between_expr == [Node EXCEPT !.fail = TRUE]
exit_head_expr    == [Node EXCEPT !.fail = TRUE]
exit_tail_expr    == [Node EXCEPT !.fail = TRUE]
exit_calc_stmt    == Async
exit_help_xxx     == [Async EXCEPT !.fail = TRUE]
exit_timeit_stmt  == Async
exit_tag_series   == Async
exit_untag_series == Async

exit_alter_group  == [Update EXCEPT !.save = "must"]
exit_alter_tag    == [Update EXCEPT !.save = "late"]
exit_alter_user   == [Update EXCEPT !.save = "must"]
exit_grant_user   == [Update EXCEPT !.save = "must"]
exit_revoke_user  == [Update EXCEPT !.save = "must"]
exit_create_group == [Update EXCEPT !.chk = {"accessible"}, !.look = "absent",
                                    !.fail = TRUE, !.eff = "create", !.save = "must"]
exit_create_user  == [Update EXCEPT !.chk = {"accessible"}, !.look = "absent",
                                    !.fail = TRUE, !.eff = "create", !.save = "must"]
exit_drop_group   == [Update EXCEPT !.chk = {"accessible"}, !.look = "present",
                                    !.eff = "drop", !.save = "try"]
exit_drop_tag     == [Update EXCEPT !.chk = {"accessible"}, !.look = "present",
                                    !.eff = "drop", !.save = "try"]
exit_drop_user    == [Update EXCEPT !.chk = {"accessible"}, !.look = "present",
                                    !.eff = "drop", !.save = "must"]
\* The server that is dropped must be offline and not alone in its pool; it
\* is removed from the list after the query is forwarded.
exit_drop_server  == [Forward("update_online", "on_update_xxx_response") EXCEPT
    !.chk = {"reindexing", "online"}, !.look = "replica_offline", !.eff = "set",
    !.save = "try"]

Setting == [Update EXCEPT !.chk = {"accessible"}, !.fail = TRUE, !.eff = "set",
                          !.save = "must"]
Versioned == [Setting EXCEPT !.chk = {"accessible", "version"}]
exit_set_drop_threshold      == Setting
exit_set_tee                 == Setting
exit_set_timezone            == [Setting EXCEPT !.save = "try"]
exit_set_expiration_xxx      == Versioned
exit_set_list_limit          == Versioned
exit_set_select_points_limit == Versioned

\* A setting of one server: this one, or another one that must answer.
exit_set_address     == [Async EXCEPT !.look = "offline", !.fail = TRUE]
exit_set_port        == [Async EXCEPT !.look = "offline", !.fail = TRUE]
exit_set_backup_mode == [Node EXCEPT !.fail = TRUE, !.go = "ack", !.cb = "on_ack_response"]
SetLogLevelServer    == [Node EXCEPT !.go = "ack", !.cb = "on_ack_response"]
exit_set_log_level   == [Forward("servers", "on_alter_xxx_response") EXCEPT !.count = "self"]

exit_count_pools(where) ==
    IF where THEN [Counted("pools") EXCEPT !.chk = {"accessible"}] ELSE Async
exit_count_series        == [Counted("pools") EXCEPT !.chk = {"online"}]
exit_count_series_length == [Counted("pools") EXCEPT !.chk = {"accessible"}]
\* All servers are known here unless a property must be asked for.
exit_count_servers(remote) ==
    IF remote THEN Counted("servers") ELSE [Async EXCEPT !.count = "all"]
exit_count_servers_received == Counted("servers")
exit_count_servers_selected == Counted("servers")
exit_count_shards           == Counted("servers")
exit_count_shards_size      == Counted("servers")
exit_count_users            == Async
exit_list_users             == Async
\* The number of series of a group or tag is asked from the other pools.
exit_count_groups(remote) ==
    IF remote THEN [Forward("groups", "on_groups_response") EXCEPT !.count = "self"]
    ELSE Node
exit_count_tags(remote) ==
    IF remote THEN [Forward("groups", "on_tags_response") EXCEPT !.count = "self"]
    ELSE Node
exit_list_groups(remote) == exit_count_groups(remote)
exit_list_tags(remote)   == exit_count_tags(remote)
finish_count_groups == Async
finish_count_tags   == Async
finish_list_groups  == Async
finish_list_tags    == Async

Listed(fwd) == [Forward(fwd, "on_list_xxx_response") EXCEPT !.count = "row"]
exit_list_pools   == Listed("pools")
exit_list_series  == Async
async_list_series == Listed("pools")
exit_list_servers(remote) ==
    IF remote THEN Listed("servers") ELSE [Async EXCEPT !.count = "rows"]
exit_list_shards  == Listed("servers")

exit_drop_series  == [Async EXCEPT !.chk = {"accessible"}, !.fail = TRUE]
async_drop_series == [Forward("update", "on_drop_series_response") EXCEPT
                        !.eff = "set", !.save = "try", !.count = "self"]
exit_drop_shards  == [Async EXCEPT !.chk = {"accessible"}, !.fail = TRUE]
async_drop_shards == [Forward("update", "on_drop_shards_response") EXCEPT
                        !.eff = "set", !.save = "try", !.count = "self"]
enter_tag_series  == [Forward("update", "on_tag_response") EXCEPT
                        !.chk = {"accessible", "version"}, !.fail = TRUE, !.eff = "set",
                        !.save = "late", !.count = "self"]
enter_untag_series == [Forward("update", "on_tag_response") EXCEPT
                        !.chk = {"accessible", "version"}, !.fail = TRUE, !.eff = "set",
                        !.save = "late", !.count = "self"]

async_select_aggregate == [Async EXCEPT !.fail = TRUE, !.count = "self"]
exit_select_stmt(some) ==
    Forward(IF some THEN "some_pools" ELSE "pools", "on_select_response")

-----------------------------------------------------------------------------
(* Statements: the enter handlers in the order of the text, then the exit  *)
(* handlers in reverse (QUERY_walk).  Handlers that a loop of async events *)
(* runs are nodes of their own.                                            *)

Statement == [
    alter_group    |-> <<enter_alter_stmt, enter_alter_group, enter_set_expression,
                         enter_set_name, exit_alter_group>>,
    alter_tag      |-> <<enter_alter_stmt, enter_alter_tag, enter_set_name, exit_alter_tag>>,
    alter_user     |-> <<enter_alter_stmt, enter_alter_user, enter_set_password,
                         exit_alter_user>>,
    set_address    |-> <<enter_alter_stmt, enter_alter_server, exit_set_address>>,
    set_port       |-> <<enter_alter_stmt, enter_alter_server, exit_set_port>>,
    backup_mode    |-> <<enter_alter_stmt, enter_alter_server, exit_set_backup_mode>>,
    log_level      |-> <<enter_alter_stmt, enter_alter_server, SetLogLevelServer>>,
    log_levels     |-> <<enter_alter_stmt, enter_alter_servers, enter_where_xxx,
                         exit_set_log_level>>,
    drop_threshold |-> <<enter_alter_stmt, exit_set_drop_threshold>>,
    tee            |-> <<enter_alter_stmt, exit_set_tee>>,
    timezone       |-> <<enter_alter_stmt, exit_set_timezone>>,
    expiration     |-> <<enter_alter_stmt, enter_set_ignore_threshold,
                         exit_set_expiration_xxx>>,
    list_limit     |-> <<enter_alter_stmt, exit_set_list_limit>>,
    points_limit   |-> <<enter_alter_stmt, exit_set_select_points_limit>>,
    tag_series     |-> <<enter_alter_stmt, enter_alter_series, enter_series_match,
                         enter_tag_series, exit_tag_series>>,
    untag_series   |-> <<enter_alter_stmt, enter_alter_series, enter_series_match,
                         enter_untag_series, exit_untag_series>>,
    count_pools    |-> <<enter_count_stmt, exit_count_pools(FALSE)>>,
    count_pools_where |-> <<enter_count_stmt, enter_where_xxx, exit_count_pools(TRUE)>>,
    count_series   |-> <<enter_count_stmt, enter_series_match, exit_count_series>>,
    count_length   |-> <<enter_count_stmt, exit_count_series_length>>,
    count_servers  |-> <<enter_count_stmt, exit_count_servers(FALSE)>>,
    count_servers_remote |-> <<enter_timeit_stmt, enter_count_stmt, enter_where_xxx,
                         exit_count_servers(TRUE), exit_timeit_stmt>>,
    count_received |-> <<enter_count_stmt, exit_count_servers_received>>,
    count_selected |-> <<enter_count_stmt, exit_count_servers_selected>>,
    count_shards   |-> <<enter_count_stmt, exit_count_shards>>,
    count_size     |-> <<enter_count_stmt, exit_count_shards_size>>,
    count_users    |-> <<enter_count_stmt, exit_count_users>>,
    count_groups   |-> <<enter_count_stmt, exit_count_groups(FALSE), finish_count_groups>>,
    count_groups_remote |-> <<enter_count_stmt, enter_where_xxx, exit_count_groups(TRUE),
                         finish_count_groups>>,
    count_tags_remote |-> <<enter_count_stmt, enter_where_xxx, exit_count_tags(TRUE),
                         finish_count_tags>>,
    list_groups    |-> <<enter_list_stmt, enter_limit_expr, exit_list_groups(FALSE),
                         finish_list_groups>>,
    list_tags_remote |-> <<enter_list_stmt, enter_xxx_columns, exit_list_tags(TRUE),
                         finish_list_tags>>,
    list_pools     |-> <<enter_list_stmt, exit_list_pools>>,
    list_series    |-> <<enter_list_stmt, enter_series_match, exit_list_series,
                         async_list_series>>,
    list_servers   |-> <<enter_list_stmt, exit_list_servers(FALSE)>>,
    list_servers_remote |-> <<enter_list_stmt, enter_xxx_columns, exit_list_servers(TRUE)>>,
    list_shards    |-> <<enter_list_stmt, exit_list_shards>>,
    list_users     |-> <<enter_list_stmt, exit_list_users>>,
    create_group   |-> <<enter_create_stmt, exit_create_group>>,
    create_user    |-> <<enter_create_stmt, enter_create_user, NewPassword,
                         exit_create_user>>,
    drop_group     |-> <<enter_drop_stmt, exit_drop_group>>,
    drop_tag       |-> <<enter_drop_stmt, exit_drop_tag>>,
    drop_user      |-> <<enter_drop_stmt, exit_drop_user>>,
    drop_server    |-> <<enter_drop_stmt, exit_drop_server>>,
    drop_series    |-> <<enter_drop_stmt, enter_series_match, exit_drop_series,
                         async_drop_series>>,
    drop_shards    |-> <<enter_drop_stmt, enter_where_xxx, exit_drop_shards,
                         async_drop_shards>>,
    grant          |-> <<enter_access_expr, enter_grant_user, enter_set_password,
                         exit_grant_user>>,
    revoke         |-> <<enter_access_expr, enter_revoke_user, exit_revoke_user>>,
    select         |-> <<enter_select_stmt, enter_series_match, enter_merge_as,
                         exit_between_expr, async_select_aggregate, exit_select_stmt(FALSE)>>,
    select_some    |-> <<enter_select_stmt, enter_series_match, exit_after_expr,
                         exit_before_expr, async_select_aggregate, exit_select_stmt(TRUE)>>,
    select_head    |-> <<enter_select_stmt, enter_series_match, exit_head_expr,
                         exit_tail_expr, async_select_aggregate, exit_select_stmt(FALSE)>>,
    show           |-> <<exit_show_stmt>>,
    help           |-> <<enter_help, exit_help_xxx>>,
    calc           |-> <<exit_calc_stmt>>]

ASSUME PlansAssumption ==
    \A f \in Plans, q \in Queries : f[q] \in (DOMAIN Statement) \cup {"none"}

-----------------------------------------------------------------------------
(* A query on a server.                                                    *)

Zero == [s \in Servers |-> 0]
NoTask == [st |-> "none", pc |-> 0, n |-> Zero, limit |-> ListLimit,
           prom |-> <<>>, nulls |-> 0, ref |-> 0, ans |-> <<>>, did |-> FALSE]

Nodes(q) == Statement[qry[q].name]
Limited(q) == \E k \in 1..Len(Nodes(q)) : Nodes(q)[k].count \in {"row", "rows"}
IsMaster(q, s) == Masters[q] = s
Online(s) == up[s] # "offline"
PoolsOnline == \A p \in PoolSet : \E s \in p : Online(s)
PoolsAccessible == \A p \in PoolSet : \E s \in p : up[s] = "accessible"

\* siridb_send_query_result and siridb_query_send_error: one answer, and the
\* reference of the handle itself is released.
Answer(t, a) == [t EXCEPT !.st = "done", !.ans = Append(@, a), !.ref = @ - 1]
siridb_send_query_result(t) == Answer(t, "ok")
siridb_query_send_error(t)  == Answer(t, "error")

\* siridb_nodes_next, and the answer after the last node.
NextNode(q, t) ==
    IF t.pc = Len(Nodes(q)) THEN siridb_send_query_result(t)
    ELSE [t EXCEPT !.st = "node", !.pc = @ + 1]

siridb_query_run(t) == [t EXCEPT !.st = "parse", !.ref = 1]

\* Set task[q][s], and the thread of s is free or not.
Become(q, s, t, stays) ==
    /\ task' = [task EXCEPT ![q][s] = t]
    /\ cpu' = [cpu EXCEPT ![s] = IF stays /\ t.st = "node" THEN q ELSE 0]

-----------------------------------------------------------------------------
(* The call-backs of the promises.                                         *)

Oks(t) == {x \in DOMAIN t.prom : t.prom[x] = "ok"}
Errors(t) == {x \in DOMAIN t.prom : t.prom[x] = "err"}
Open(t) == {x \in DOMAIN t.prom : t.prom[x] = "open"}
Total(n) == SumFunction(n)

\* What the answers of the servers in X add to the count.
Plus(q, t, X) ==
    [t EXCEPT !.n = [s \in Servers |->
        @[s] + SumFunctionOnSet([x \in X |-> task[q][x].n[s]], X)]]

\* The rows are taken until the limit is reached; those of other servers are
\* skipped (in any order).
PlusRows(q, t, X) ==
    LET rows == {s \in Servers : Plus(q, t, X).n[s] > t.n[s]}
    IN  {[t EXCEPT !.n = [s \in Servers |-> IF s \in R THEN @[s] + 1 ELSE @[s]],
                   !.limit = @ - Cardinality(R)] :
            R \in {R \in SUBSET rows : Cardinality(R) =
                        IF Cardinality(rows) < t.limit THEN Cardinality(rows)
                        ELSE t.limit}}

\* ON_PROMISES: the handle was bound to the promises.
\* Mutant: the reference is not released.
OnPromises_Leak(t) == t
OnPromises(t) == [t EXCEPT !.ref = @ - 1]

on_update_xxx_response(q, t) ==
    IF t.nulls > 0 \/ Oks(t) # DOMAIN t.prom
    THEN siridb_query_send_error(OnPromises(t))
    ELSE NextNode(q, OnPromises(t))

\* A server that does not answer is not counted.
on_count_xxx_response(q, t) ==
    IF Errors(t) # {} THEN siridb_query_send_error(OnPromises(t))
    ELSE NextNode(q, Plus(q, OnPromises(t), Oks(t)))

on_list_xxx_response(q, t) ==
    IF Errors(t) # {} THEN {siridb_query_send_error(OnPromises(t))}
    ELSE {NextNode(q, u) : u \in PlusRows(q, OnPromises(t), Oks(t))}

\* These never end in an error; the number tells how much was changed.
on_drop_series_response(q, t) == NextNode(q, Plus(q, OnPromises(t), Oks(t)))
on_drop_shards_response(q, t) == NextNode(q, Plus(q, OnPromises(t), Oks(t)))
on_tag_response(q, t)         == NextNode(q, Plus(q, OnPromises(t), Oks(t)))
on_alter_xxx_response(q, t)   == NextNode(q, Plus(q, OnPromises(t), Oks(t)))
on_groups_response(q, t)      == NextNode(q, Plus(q, OnPromises(t), Oks(t)))
on_tags_response(q, t)        == NextNode(q, Plus(q, OnPromises(t), Oks(t)))

\* The points are merged in a thread.  The work holds a reference.
Work(t) == [t EXCEPT !.st = "work", !.ref = @ + 1]
\* Mutant: a server that fails is left out of the result.
on_select_response_Partial(q, t) == Work(Plus(q, OnPromises(t), Oks(t)))
on_select_response(q, t) ==
    IF t.nulls > 0 \/ Oks(t) # DOMAIN t.prom
    THEN siridb_query_send_error(OnPromises(t))
    ELSE Work(Plus(q, OnPromises(t), Oks(t)))

on_ack_response(q, t) ==
    IF Oks(t) # DOMAIN t.prom THEN siridb_query_send_error(OnPromises(t))
    ELSE NextNode(q, OnPromises(t))

Callback(q, t) ==
    LET cb == Nodes(q)[t.pc].cb
    IN  CASE cb = "on_update_xxx_response"  -> {on_update_xxx_response(q, t)}
          [] cb = "on_count_xxx_response"   -> {on_count_xxx_response(q, t)}
          [] cb = "on_list_xxx_response"    -> on_list_xxx_response(q, t)
          [] cb = "on_select_response"      -> {on_select_response(q, t)}
          [] cb = "on_drop_series_response" -> {on_drop_series_response(q, t)}
          [] cb = "on_drop_shards_response" -> {on_drop_shards_response(q, t)}
          [] cb = "on_tag_response"         -> {on_tag_response(q, t)}
          [] cb = "on_alter_xxx_response"   -> {on_alter_xxx_response(q, t)}
          [] cb = "on_groups_response"      -> {on_groups_response(q, t)}
          [] cb = "on_tags_response"        -> {on_tags_response(q, t)}
          [] cb = "on_ack_response"         -> {on_ack_response(q, t)}

\* finish_count_groups and its likes run in the event of the call-back.
StaysAfter(q, t) == Nodes(q)[t.pc].cb \in {"on_groups_response", "on_tags_response"}

\* SIRINET_PROMISES_CHECK: all promises are there, or the query waits.
\* Mutant: only an answer runs the call-back.
SIRINET_PROMISES_CHECK_OnAnswer(q, t) ==
    IF Open(t) = {} /\ DOMAIN t.prom # {} THEN Callback(q, t)
    ELSE {[t EXCEPT !.st = "wait"]}
SIRINET_PROMISES_CHECK(q, t) ==
    IF Open(t) = {} THEN Callback(q, t) ELSE {[t EXCEPT !.st = "wait"]}

-----------------------------------------------------------------------------
(* Forwarding.                                                             *)

\* siridb_pool_send_pkg: one server of the pool that is accessible (online).
Candidates(p, only_online) ==
    LET ready == {s \in p : IF only_online THEN Online(s) ELSE up[s] = "accessible"}
    IN  IF ready = {} THEN {NoServer} ELSE ready

Sent(t, X, nulls) ==
    [t EXCEPT !.prom = [x \in X |-> "open"], !.nulls = nulls, !.ref = @ + 1]

siridb_servers_send_pkg(s, t) ==
    {Sent(t, {x \in Servers \ {s} : Online(x)}, Cardinality({x \in Servers \ {s} : ~Online(x)}))}

siridb_pools_send_pkg(s, t, pools, only_online) ==
    {Sent(t, {f[p] : p \in pools} \ {NoServer}, Cardinality({p \in pools : f[p] = NoServer})) :
        f \in {f \in [pools -> Servers \cup {NoServer}] :
                 \A p \in pools : f[p] \in Candidates(p, only_online)}}

\* The ways in which the query goes out.  A set: the choice of the servers,
\* and of the pools that have one of the series.
siridb_query_forward(q, s, t) ==
    LET fwd    == Nodes(q)[t.pc].fwd
        others == {p \in PoolSet : s \notin p}
    IN  CASE fwd = "servers" -> siridb_servers_send_pkg(s, t)
          [] fwd = "some_pools" ->
                UNION {siridb_pools_send_pkg(s, t, P, FALSE) : P \in SUBSET others}
          [] OTHER -> siridb_pools_send_pkg(s, t, others, fwd = "update_online")

\* A change is first given to the replica of this server.
\* Mutant: the replica is forgotten.
Replicated_Never(q, s, node) == fifo
Replicated(q, s, node) ==
    IF node.fwd \in {"update", "update_online"} /\ Others(s) # {}
    THEN [fifo EXCEPT ![s] = Append(@, q)] ELSE fifo

-----------------------------------------------------------------------------
(* Actions.                                                                *)

\* on_query of net/clserver.c.
ClientQuery(q) ==
    /\ qry[q].name = "none"
    /\ cpu[Masters[q]] = 0 /\ Online(Masters[q])
    /\ \E name \in {qry[q].plan} \ {"none"}, denied \in BOOLEAN, x \in Servers :
        /\ denied => x = Masters[q]
        /\ name \notin {"set_address", "set_port", "backup_mode", "log_level", "drop_server"}
              => x = Masters[q]
        /\ qry' = [qry EXCEPT ![q] = [@ EXCEPT !.name = name, !.denied = denied, !.target = x]]
    /\ task' = [task EXCEPT ![q][Masters[q]] = siridb_query_run(@)]
    /\ UNCHANGED <<obj, saved, unsaved, up, fifo, cpu, changes>>

\* The master may find an error in the text of the query.
QUERY_parse(q, s) ==
    /\ task[q][s].st = "parse" /\ cpu[s] = 0
    /\ \/ Become(q, s, [task[q][s] EXCEPT !.st = "node", !.pc = 1], FALSE)
       \/ IsMaster(q, s) /\ Become(q, s, siridb_query_send_error(task[q][s]), FALSE)
    /\ UNCHANGED <<obj, saved, unsaved, up, fifo, qry, changes>>

\* A handler before it changes anything: does it send an error?  The master
\* checks the rights of the user and the status of the servers.
Refused(q, s, node) ==
    \/ IsMaster(q, s) /\ node.acc /\ qry[q].denied
    \/ IsMaster(q, s) /\ "accessible" \in node.chk
          /\ (up[s] # "accessible" \/ ~PoolsAccessible)
    \/ IsMaster(q, s) /\ "online" \in node.chk /\ ~PoolsOnline
    \/ node.look = "present" /\ obj[s] = "absent"
    \/ node.look = "absent" /\ obj[s] # "absent"
    \/ LET x == qry[q].target
       IN  \/ node.look \in {"offline", "replica_offline"} /\ (x = s \/ Online(x))
           \/ node.look = "replica_offline" /\ Others(x) = {}
           \/ node.go = "ack" /\ x # s /\ ~Online(x)
MayFail(q, s, node) ==
    \/ node.fail
    \/ IsMaster(q, s) /\ node.chk \cap {"version", "reindexing"} # {}

NodeFails(q, s) ==
    LET t == task[q][s]  node == Nodes(q)[t.pc] IN
    /\ t.st = "node" /\ cpu[s] \in {0, q}
    /\ Refused(q, s, node) \/ MayFail(q, s, node)
    /\ Become(q, s, siridb_query_send_error(t), FALSE)
    /\ UNCHANGED <<obj, saved, unsaved, up, fifo, qry, changes>>

Effect(eff, old) ==
    CASE eff = "none" -> old [] eff = "create" -> "old" [] eff = "drop" -> "absent"
      [] eff = "set" -> "new"

Doing(t, node) == [t EXCEPT !.did = @ \/ node.eff # "none"]

\* Is the change on disk when the handler goes on?  Some errors are only
\* logged, and tags are saved by the thread of db/groups.c.
Written(node) ==
    CASE node.save = "must" -> {TRUE} [] node.save = "try" -> BOOLEAN [] OTHER -> {FALSE}

\* The change is made in memory and cannot be written: the query ends with an
\* error and the change stays.
SaveFails(q, s) ==
    LET t == task[q][s]  node == Nodes(q)[t.pc] IN
    /\ t.st = "node" /\ cpu[s] \in {0, q}
    /\ ~Refused(q, s, node) /\ node.save = "must"
    /\ obj' = [obj EXCEPT ![s] = Effect(node.eff, @)]
    /\ Become(q, s, siridb_query_send_error(Doing(t, node)), FALSE)
    /\ UNCHANGED <<saved, unsaved, up, fifo, qry, changes>>

Count(q, s, t, node) ==
    CASE node.count = "self" -> [t EXCEPT !.n[s] = @ + 1]
      [] node.count = "row"  -> IF t.limit > 0 THEN [t EXCEPT !.n[s] = @ + 1, !.limit = @ - 1]
                                ELSE t
      [] node.count = "all"  -> [t EXCEPT !.n = [x \in Servers |-> 1]]
      [] node.count = "none" -> t

\* The servers of which the master lists the properties it knows.
CountRows(q, t, node) ==
    IF node.count # "rows" THEN {t}
    ELSE {[t EXCEPT !.n = [x \in Servers |-> IF x \in R THEN 1 ELSE 0],
                    !.limit = @ - Cardinality(R)] :
            R \in {R \in SUBSET Servers : Cardinality(R) =
                     IF Cardinality(Servers) < t.limit THEN Cardinality(Servers) ELSE t.limit}}

\* The handler of the next node.  Only the master forwards; a list that has
\* reached its limit is not forwarded.
RunNode(q, s) ==
    LET node == Nodes(q)[task[q][s].pc]
        t0   == Doing(task[q][s], node)
    IN
    /\ task[q][s].st = "node" /\ cpu[s] \in {0, q}
    /\ ~Refused(q, s, node)
    /\ obj' = [obj EXCEPT ![s] = Effect(node.eff, @)]
    /\ \E ok \in Written(node) :
        /\ saved' = IF ok THEN [saved EXCEPT ![s] = obj'[s]] ELSE saved
        /\ unsaved' = IF ok \/ node.save = "none" THEN unsaved ELSE unsaved \cup {s}
    /\ \E t \in IF node.count = "rows" THEN CountRows(q, t0, node) ELSE {Count(q, s, t0, node)} :
       IF IsMaster(q, s) /\ node.go = "forward" /\ (node.count = "row" => t.limit > 0)
       THEN \E sent \in siridb_query_forward(q, s, t) :
            \E u \in SIRINET_PROMISES_CHECK(q, sent) :
                /\ Become(q, s, u, StaysAfter(q, t))
                /\ fifo' = Replicated(q, s, node)
       ELSE IF node.go = "ack" /\ qry[q].target # s
       THEN /\ Become(q, s, [Sent(t, {qry[q].target}, 0) EXCEPT !.st = "wait"], FALSE)
            /\ UNCHANGED fifo
       ELSE /\ Become(q, s, NextNode(q, t), node.go = "next")
            /\ UNCHANGED fifo
    /\ UNCHANGED <<up, qry, changes>>

\* The package arrives at a server that the master chose.  A change is first
\* given to the replica of this server (on_query of net/bserver.c); the
\* numbers of groups and tags and the settings of one server are answered
\* at once.  One that arrives after the promise has timed out is like one that
\* arrived before and whose handlers begin later.
Waiting(q, x) ==
    LET t == task[q][Masters[q]]
    IN  x \in DOMAIN t.prom /\ task[q][x].st = "none"

Receive(q, x) ==
    LET node == Nodes(q)[task[q][Masters[q]].pc] IN
    /\ qry[q].name # "none" /\ Waiting(q, x) /\ task[q][Masters[q]].st = "wait"
    /\ Online(x) /\ cpu[x] = 0
    /\ IF node.fwd = "groups" \/ node.go = "ack"
       THEN \E a \in {"ok", "error"} :
            Become(q, x, [NoTask EXCEPT !.st = "done", !.ans = <<a>>,
                          !.n[x] = IF node.fwd = "groups" THEN 1 ELSE 0], FALSE)
       ELSE Become(q, x, siridb_query_run(NoTask), FALSE)
    /\ fifo' = Replicated(q, x, node)
    /\ UNCHANGED <<obj, saved, unsaved, up, qry, changes>>

\* sirinet_promises_on_response: the answer of a server arrives, or the
\* promise ends by a time-out or a lost connection (the query may still run).
OnResponse(q, x) ==
    LET m == Masters[q]  t == task[q][m] IN
    /\ t.st = "wait" /\ x \in Open(t) /\ cpu[m] = 0
    /\ \E a \in {"fail"} \cup
               (IF task[q][x].st # "done" THEN {}
                ELSE IF task[q][x].ans[1] = "ok" THEN {"ok"} ELSE {"err"}) :
       \E u \in SIRINET_PROMISES_CHECK(q, [t EXCEPT !.prom[x] = a]) :
          Become(q, m, u, StaysAfter(q, t))
    /\ UNCHANGED <<obj, saved, unsaved, up, fifo, qry, changes>>

\* master_select_work and master_select_work_finish.
WorkDone(q) ==
    LET m == Masters[q]  t == task[q][m] IN
    /\ t.st = "work" /\ cpu[m] = 0
    /\ \E u \in {NextNode(q, t), siridb_query_send_error(t)} :
        Become(q, m, [u EXCEPT !.ref = @ - 1], FALSE)
    /\ UNCHANGED <<obj, saved, unsaved, up, fifo, qry, changes>>

\* The first query in the queue runs on the replica, module Replicate.
Replicate(s) ==
    /\ fifo[s] # <<>>
    /\ \E r \in Others(s) :
        LET q == Head(fifo[s]) IN
        /\ Online(r) /\ cpu[r] = 0
        /\ task[q][r].st = "none"
        /\ Become(q, r, siridb_query_run(NoTask), FALSE)
    /\ fifo' = [fifo EXCEPT ![s] = Tail(@)]
    /\ UNCHANGED <<obj, saved, unsaved, up, qry, changes>>

\* The thread of db/groups.c saves the tags that changed.
SaveTags(s) ==
    /\ Online(s) /\ obj[s] # saved[s]
    /\ \E q \in Queries : task[q][s].did
          /\ \E k \in 1..Len(Nodes(q)) : Nodes(q)[k].save = "late"
    /\ saved' = [saved EXCEPT ![s] = obj[s]]
    /\ unsaved' = unsaved \ {s}
    /\ UNCHANGED <<obj, up, fifo, cpu, task, qry, changes>>

\* External: a server becomes busy (synchronizing), stops or comes back.  A
\* server that stops loses its queries and what is not on disk.
Change(s) ==
    /\ changes < MaxChanges
    /\ \E u \in {"accessible", "online", "offline"} \ {up[s]} :
        /\ up' = [up EXCEPT ![s] = u]
        /\ u = "offline" => \A q \in Queries : ~IsMaster(q, s)
        /\ IF u = "offline"
           THEN /\ task' = [q \in Queries |-> [task[q] EXCEPT ![s] =
                      IF @.st \in {"none", "done"} THEN @ ELSE [@ EXCEPT !.st = "lost"]]]
                /\ cpu' = [cpu EXCEPT ![s] = 0]
                /\ obj' = [obj EXCEPT ![s] = saved[s]]
           ELSE UNCHANGED <<task, cpu, obj>>
    /\ changes' = changes + 1
    /\ UNCHANGED <<saved, unsaved, fifo, qry>>

Init ==
    /\ \E o \in {"absent", "old"} : obj = [s \in Servers |-> o] /\ saved = obj
    /\ up = [s \in Servers |-> "accessible"]
    /\ fifo = [s \in Servers |-> <<>>]
    /\ cpu = [s \in Servers |-> 0]
    /\ task = [q \in Queries |-> [s \in Servers |-> NoTask]]
    /\ \E f \in Plans : qry = [q \in Queries |->
           [plan |-> f[q], name |-> "none", denied |-> FALSE, target |-> NoServer]]
    /\ changes = 0 /\ unsaved = {}

Step(q, s) ==
    QUERY_parse(q, s) \/ NodeFails(q, s) \/ SaveFails(q, s) \/ RunNode(q, s)
Progress(q) == (\E s \in Servers : Step(q, s) \/ OnResponse(q, s)) \/ WorkDone(q)

Next ==
    \/ \E q \in Queries : ClientQuery(q) \/ Progress(q)
    \/ \E q \in Queries, x \in Servers : Receive(q, x)
    \/ \E s \in Servers : Replicate(s) \/ SaveTags(s) \/ Change(s)

Spec == Init /\ [][Next]_vars /\ \A q \in Queries : WF_vars(Progress(q))

-----------------------------------------------------------------------------
\* Types.
TypeOK ==
    /\ obj \in [Servers -> {"absent", "old", "new"}]
    /\ cpu \in [Servers -> {0} \cup Queries]
    /\ \A q \in Queries, s \in Servers :
        LET t == task[q][s] IN
        /\ t.st \in {"none", "parse", "node", "wait", "work", "done", "lost"}
        /\ t.ref \in 0..2
        /\ t.st = "node" => t.pc \in 1..Len(Nodes(q))

Answered(q) == task[q][Masters[q]].st = "done"
Success(q)  == Answered(q) /\ task[q][Masters[q]].ans = <<"ok">>
LastNode(q) == Nodes(q)[task[q][Masters[q]].pc]
AllAnswered(q) ==
    LET t == task[q][Masters[q]] IN t.nulls = 0 /\ Oks(t) = DOMAIN t.prom

\* A query is answered once, and its handle is referenced by the query until
\* then and by the promises or the work that wait for it: it is never freed
\* while a call-back can still come and always freed in the end.
AnsweredOnce ==
    \A q \in Queries, s \in Servers :
        LET t == task[q][s] IN
        /\ Len(t.ans) <= 1 /\ (t.ans # <<>> <=> t.st = "done")
        /\ t.st # "lost" => t.ref = (CASE t.st \in {"none", "done"} -> 0
                                      [] t.st \in {"wait", "work"} -> 2
                                      [] OTHER -> 1)

IsUpdate(q) == \E k \in 1..Len(Nodes(q)) : Nodes(q)[k].cb = "on_update_xxx_response"

\* When a change of a group, tag, user, server or setting is answered with
\* success, a server of every pool made the change, and every other server
\* has got the query or will get it from the fifo of its pool.
UpdateIsEverywhere ==
    \A q \in Queries : Success(q) /\ IsUpdate(q) =>
        /\ \A p \in PoolSet : \E s \in p : task[q][s].did
        /\ \A s \in Servers :
            \/ task[q][s].st # "none"
            \/ \E r \in Others(s) : \E i \in 1..Len(fifo[r]) : fifo[r][i] = q

\* When all queries ended with success on all servers that were asked (series
\* are also dropped or tagged if some pool does not), nothing waits for a
\* replica and all changes got to disk (one that could not be written, or a
\* tag that waits for db/groups.c, is gone when the server stops), all servers
\* have the same groups, tags, users and settings.
Converged ==
    (/\ \A s \in Servers : fifo[s] = <<>>
     /\ \A q \in Queries, s \in Servers :
            task[q][s].st = "none" \/ task[q][s].ans = <<"ok">>
     /\ \A q \in Queries : AllAnswered(q)
     /\ unsaved = {})
    => \A s, x \in Servers : obj[s] = obj[x]

\* No answer has the part of a server twice, and the limit never wraps.
CountedOnce ==
    \A q \in Queries, s \in Servers :
        task[q][s].n \in [Servers -> 0..1] /\ task[q][s].limit \in 0..ListLimit

\* A count that all servers answered is neither too low nor too high: one
\* server of each pool is counted, or each server, and once.
CountIsExact ==
    \A q \in Queries : Success(q) /\ AllAnswered(q) =>
        LET n == task[q][Masters[q]].n  names == {qry[q].name} IN
        /\ names \subseteq {"count_pools_where", "count_series", "count_length"} =>
               \A p \in PoolSet : MapThenSumSet(LAMBDA s : n[s], p) = 1
        /\ names \subseteq {"count_servers", "count_servers_remote", "count_shards",
                            "count_size", "count_received", "count_selected", "log_levels"} =>
               \A s \in Servers : n[s] = 1

\* A list is no longer than its limit, and if it is shorter then nothing that
\* was answered is left out.
ListIsExact ==
    \A q \in Queries : Success(q) /\ Limited(q) =>
        LET n == task[q][Masters[q]].n IN
        /\ Total(n) <= ListLimit
        /\ Total(n) < ListLimit /\ AllAnswered(q) =>
               \A p \in PoolSet : \E s \in p : n[s] = 1

\* A select that succeeds has the points of every pool that was asked.
SelectIsComplete ==
    \A q \in Queries : Success(q) /\ qry[q].name \in {"select", "select_head"} =>
        \A p \in PoolSet : \E s \in p : task[q][Masters[q]].n[s] = 1

\* A user without the right to do so changes nothing on any server, although
\* only the master looks at the rights.
DeniedIsHarmless ==
    \A q \in Queries : qry[q].denied =>
        \A s \in Servers : ~task[q][s].did /\ (s # Masters[q] => task[q][s].st = "none")

\* Every query is answered, whatever the other servers do.
QueriesAnswered ==
    \A q \in Queries : qry[q].name # "none" ~> Answered(q)

(* A query handle lives exactly until its one answer, whichever callback or*)
(* error comes last.                                                       *)
HandleOK ==
    /\ TypeOK
    /\ AnsweredOnce

(* A change that was answered with success is or will be on every server,  *)
(* and in the end all servers agree.                                       *)
ChangesHold ==
    /\ UpdateIsEverywhere
    /\ Converged

(* The answer to a count, list or select has the part of every pool or     *)
(* server once.                                                            *)
AnswersComplete ==
    /\ CountedOnce
    /\ CountIsExact
    /\ ListIsExact
    /\ SelectIsComplete

=============================================================================
