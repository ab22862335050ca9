----------------------------- MODULE Connection -----------------------------
(***************************************************************************)
(* The connection between two servers (db/server.c, heartbeat.c,           *)
(* net/stream.c, net/bserver.c, omap/omap.c).  Each server has a record of *)
(* the other one, with its own stream to it, on which it sends packages    *)
(* and gets the answers, and a map of promises from package id to          *)
(* callback.  What the other server sends comes in on the stream of that   *)
(* server, the back-end stream.                                            *)
(*                                                                         *)
(* Packages are authentication requests, flags and others (data).  The     *)
(* flags of a server itself are here only "running": the others are in     *)
(* module PoolState.  A callback runs to its end before the next one       *)
(* starts, as in the event loop.                                           *)
(***************************************************************************)
EXTENDS Integers, Sequences, FiniteSets, FiniteSetsExt, SequencesExt

CONSTANTS
    A, B,           \* the two servers
    Resolves,       \* servers that know the other one by a name
    PidMod,         \* package ids are 0 .. PidMod - 1 (2^16 in the code)
    QueueSize,      \* SIRIDB_SERVER_PROMISES_QUEUE_SIZE
    MaxOpen,        \* bound: promises of flags, and of data, that are open at the same time
    MaxFaults,      \* bound: connections lost or refused, early time-outs, restarts
    NULL

Side == {A, B}
Other(x) == IF x = A THEN B ELSE A

ASSUME ConnectionAssumption ==
    /\ A # B /\ Resolves \subseteq Side
    /\ PidMod \in Nat \ {0} /\ QueueSize \in Nat \ {0}
    /\ MaxOpen \in Nat /\ MaxFaults \in Nat

VARIABLES
    node,       \* for each server, what it knows of the other one
    faults      \* faults so far

vars == <<node, faults>>

(***************************************************************************)
(* node[x].stream is server->client.  Packages wait to be written to the   *)
(* socket; out has those that are written and that the other one did not   *)
(* read yet, in the answers that this one did not read yet.  age is the    *)
(* number of ids that were tried since.  A promise has the references it   *)
(* has in the code, and the number of times its callback was called.       *)
(***************************************************************************)
Flags == {"running", "authenticated", "full", "unavailable"}
States == {"resolving", "connecting", "open", "closing"}
Kinds == {"auth", "flags", "data"}
Pids == 0..(PidMod - 1)
Msg == [pid : Pids, kind : Kinds, age : Nat, stale : BOOLEAN, ok : BOOLEAN]
Promise == [pid : Pids, kind : Kinds, open : BOOLEAN, ref : 1..2, calls : Nat]
Stream == [state : States, ref : Int, broken : BOOLEAN,
           wait : Seq(Msg), out : Seq(Msg), in : SUBSET Msg]

ASSUME NullAssumption == NULL \notin Stream

siridb_server_new ==
    [flags |-> {}, pid |-> 0, listed |-> TRUE, ref |-> 1, stream |-> NULL,
     backend |-> FALSE, resolvers |-> 0, promises |-> {}]

NewStream(state) ==
    [state |-> state, ref |-> 1, broken |-> FALSE, wait |-> <<>>, out |-> <<>>, in |-> {}]

Init == node = [x \in Side |-> siridb_server_new] /\ faults = 0

siridb_server_is_online(n) == {"running", "authenticated"} \subseteq n.flags /\ "full" \notin n.flags
siridb_server_is_accessible(n) == n.flags = {"running", "authenticated"}

Open(n) == {p \in n.promises : p.open}
OpenOf(n, kind) == Cardinality({p \in Open(n) : p.kind = kind})

-----------------------------------------------------------------------------
(* Packages and promises.                                                  *)

SERVER_upd_flag_queue_full(n) ==
    [n EXCEPT !.flags = IF Cardinality(Open(n)) >= QueueSize THEN @ \cup {"full"} ELSE @ \ {"full"}]

\* The first id from server->pid on that is not in use, counted from 1.
\* Mutant: the id that was tried first is kept for the next package.
Tried_Kept(n) == 0

Free(n) == {k \in 1..PidMod : \A p \in Open(n) : p.pid # (n.pid + k - 1) % PidMod}
Tried(n) == Min(Free(n))

Aged(m, k) == [m EXCEPT !.age = @ + k]
AllAged(q, k) == [i \in 1..Len(q) |-> Aged(q[i], k)]

\* Stream s after the write of m, which took k ids.
Queued(s, m, k) ==
    [s EXCEPT !.wait = Append(AllAged(@, k), m), !.out = AllAged(@, k), !.in = {Aged(q, k) : q \in @}]

\* One reference for the callback and one for the write.
sirinet_promise_t(pid, kind) == [pid |-> pid, kind |-> kind, open |-> TRUE, ref |-> 2, calls |-> 0]

NextPid(n, k) == (n.pid + k) % PidMod

siridb_server_send_pkg(n, kind) ==
    LET pid == (n.pid + Min(Free(n)) - 1) % PidMod
        k   == Tried(n)
        m   == [pid |-> pid, kind |-> kind, age |-> 0, stale |-> FALSE, ok |-> TRUE]
        add == [n EXCEPT !.pid = NextPid(n, k), !.promises = @ \cup {sirinet_promise_t(pid, kind)}]
        \* a write to a stream that is closing fails without a callback
        wr  == IF n.stream.state = "closing" THEN add
               ELSE [add EXCEPT !.stream = Queued(n.stream, m, k)]
    IN  SERVER_upd_flag_queue_full(wr)

\* There is an id, and no write of a promise that ended still waits with it.
\* External: nothing is on its way for as long as it takes to use all ids.
CanSend(n) ==
    /\ Free(n) # {}
    /\ \A p \in n.promises : ~p.open => p.pid # (n.pid + Min(Free(n)) - 1) % PidMod
    /\ \A m \in Range(n.stream.out) \cup n.stream.in : m.age + Min(Free(n)) < PidMod

\* uv_close is called when the last reference is gone: nothing of the stream
\* is read any more, and only the writes that wait get their callback.
sirinet_stream_decref(n) ==
    IF n.stream.ref # 1 THEN [n EXCEPT !.stream.ref = @ - 1]
    ELSE [n EXCEPT !.stream.ref = 0, !.stream.state = "closing", !.stream.in = {},
                   !.stream.out = <<>>]

SERVER_on_auth_response(n, ok) ==
    IF ok THEN [n EXCEPT !.flags = @ \cup {"authenticated"}]
    ELSE IF n.stream # NULL THEN sirinet_stream_decref(n) ELSE n

\* Both servers are in the same pool.
SERVER_on_flags_update_response(n, ok) ==
    IF ~ok /\ n.stream # NULL THEN [n EXCEPT !.flags = @ \cup {"unavailable"}] ELSE n

Callback(n, kind, ok) ==
    CASE kind = "auth"  -> SERVER_on_auth_response(n, ok)
      [] kind = "flags" -> SERVER_on_flags_update_response(n, ok)
      [] kind = "data"  -> n

\* Is the write of promise p still waiting?
Waiting(n, p) ==
    /\ n.stream # NULL
    /\ \E m \in Range(n.stream.wait) : m.pid = p.pid /\ m.stale = ~p.open

\* The packages of a promise that ended.
Marked(m, p) == IF m.pid = p.pid THEN [m EXCEPT !.stale = TRUE] ELSE m
AllMarked(q, p) == [i \in 1..Len(q) |-> Marked(q[i], p)]
Orphaned(s, p) ==
    [s EXCEPT !.wait = AllMarked(@, p), !.out = AllMarked(@, p), !.in = {Marked(m, p) : m \in @}]

\* The promise leaves the map, and the callback gives up its reference.  (A
\* promise that nothing leads to any more is left out.)
Settle(n, p, ok) ==
    LET new  == [p EXCEPT !.open = FALSE, !.calls = @ + 1, !.ref = @ - 1]
        rest == (n.promises \ {p}) \cup (IF Waiting(n, p) /\ new.ref > 0 THEN {new} ELSE {})
        off  == IF n.stream = NULL THEN [n EXCEPT !.promises = rest]
                ELSE [n EXCEPT !.promises = rest,
                               !.stream = Orphaned(@, p)]
    IN  Callback(SERVER_upd_flag_queue_full(off), p.kind, ok)

\* The write gives up its reference.
Written(n, p) ==
    [n EXCEPT !.promises = (@ \ {p}) \cup (IF p.ref > 1 THEN {[p EXCEPT !.ref = @ - 1]} ELSE {})]

PromiseOf(n, m) == CHOOSE p \in n.promises : p.pid = m.pid /\ p.open = ~m.stale

\* A reference to the record is given up.  With the last one all promises
\* are cancelled; there is no stream any more.
siridb_server_decref(n) ==
    IF n.ref = 1 THEN [n EXCEPT !.ref = 0, !.promises = {}, !.flags = {}] ELSE [n EXCEPT !.ref = @ - 1]

-----------------------------------------------------------------------------
(* Connecting.                                                             *)

\* Mutant: the stream has no reference to the record.
siridb_server_connect_NoRef(x, n) ==
    [n EXCEPT
       !.stream = NewStream(IF x \in Resolves THEN "resolving" ELSE "connecting"),
       !.resolvers = IF x \in Resolves THEN @ + 1 ELSE @]

siridb_server_connect(x, n) ==
    [n EXCEPT
       !.stream = NewStream(IF x \in Resolves THEN "resolving" ELSE "connecting"),
       !.ref = @ + 1,
       !.resolvers = IF x \in Resolves THEN @ + 1 ELSE @]

\* The back-end stream ends and gives up the record.
Gone(n) == IF n.backend THEN siridb_server_decref([n EXCEPT !.backend = FALSE]) ELSE n

Becomes(x, n) == node' = [node EXCEPT ![x] = n]
NoFault == UNCHANGED faults
Fault == faults < MaxFaults /\ faults' = faults + 1

\* The process of x ends: it comes back without a connection, and the other
\* one will read that its own is lost.
Restarted(x) ==
    LET y == Other(x)
        n == IF node[y].stream = NULL THEN node[y] ELSE [node[y] EXCEPT !.stream.broken = TRUE]
    IN  [node EXCEPT ![x] = [siridb_server_new EXCEPT !.listed = node[x].listed,
                                                     !.ref = IF node[x].listed THEN 1 ELSE 0],
                     ![y] = Gone(n)]

\* Mutant: flags are sent only after an answer was late.
HEARTBEAT_cb_Late(x) ==
    LET n == node[x]
    IN  /\ n.listed
        /\ \/ n.stream = NULL /\ Becomes(x, siridb_server_connect(x, n))
           \/ n.stream # NULL /\ "unavailable" \notin n.flags /\ UNCHANGED node
           \/ /\ n.stream # NULL /\ "unavailable" \in n.flags /\ siridb_server_is_online(n) /\ CanSend(n)
              /\ OpenOf(n, "flags") < MaxOpen
              /\ Becomes(x, siridb_server_send_pkg(n, "flags"))
        /\ NoFault

HEARTBEAT_cb(x) ==
    LET n == node[x]
    IN  /\ n.listed
        /\ \/ n.stream = NULL /\ Becomes(x, siridb_server_connect(x, n))
           \/ n.stream # NULL /\ ~siridb_server_is_online(n) /\ UNCHANGED node
           \/ /\ n.stream # NULL /\ siridb_server_is_online(n) /\ CanSend(n)
              /\ OpenOf(n, "flags") < MaxOpen
              /\ Becomes(x, siridb_server_send_pkg(n, "flags"))
        /\ NoFault

\* The name is resolved.  The stream may have been closed in the meantime:
\* without one the process ends.
SERVER_on_resolved(x) ==
    LET n == [node[x] EXCEPT !.resolvers = @ - 1]
    IN  /\ node[x].resolvers > 0
        /\ \/ n.stream = NULL /\ node' = Restarted(x) /\ NoFault
           \/ /\ n.stream # NULL
              /\ \/ NoFault /\ Becomes(x, [n EXCEPT !.stream.state = IF @ = "resolving" THEN "connecting" ELSE @])
                 \/ Fault /\ Becomes(x, sirinet_stream_decref(n))

SERVER_on_connect(x) ==
    LET n == node[x]
    IN  /\ n.stream # NULL /\ n.stream.state = "connecting"
        /\ \/ /\ CanSend(n) /\ NoFault
              /\ Becomes(x, siridb_server_send_pkg([n EXCEPT !.stream.state = "open"], "auth"))
           \/ Fault /\ Becomes(x, sirinet_stream_decref(n))

-----------------------------------------------------------------------------
(* The other callbacks.                                                    *)

\* A package is sent to the other server (siridb_pools_send_pkg and others).
SendData(x) ==
    /\ node[x].stream # NULL /\ siridb_server_is_accessible(node[x]) /\ CanSend(node[x])
    /\ OpenOf(node[x], "data") < MaxOpen
    /\ Becomes(x, siridb_server_send_pkg(node[x], "data")) /\ NoFault

\* The next package is written to the socket.
Sent(s) == [s EXCEPT !.wait = Tail(@), !.out = Append(@, Head(s.wait))]

SERVER_write_cb(x) ==
    LET n == node[x]
    IN  /\ n.stream # NULL /\ n.stream.state = "open" /\ n.stream.wait # <<>>
        /\ Becomes(x, Written([n EXCEPT !.stream = Sent(@)], PromiseOf(n, Head(n.stream.wait))))
        /\ NoFault

\* The socket is closed: writes that wait fail and their promises end (the
\* flags that the callbacks set are cleared at once, and a decref of the
\* closed stream changes nothing).  A promise that is not in the map any
\* more stays allocated, with nothing that leads to it.
SERVER_write_cb_error(n) ==
    [n EXCEPT !.promises = {p \in @ : ~Waiting(n, p)}]

sirinet__stream_free(x) ==
    /\ node[x].stream # NULL /\ node[x].stream.state = "closing"
    /\ node' = [node EXCEPT
          ![x] = siridb_server_decref([SERVER_write_cb_error(@) EXCEPT !.stream = NULL, !.flags = {}]),
          ![Other(x)] = Gone(@)]
    /\ NoFault

\* Is an answer to the promise on its way?  An authentication request that
\* was sent on an earlier connection closes this one when its time is over:
\* is the answer to the request of this one on its way?
Early(n, p) ==
    /\ n.stream # NULL /\ n.stream.state = "open" /\ ~n.stream.broken
    /\ \E m \in Range(n.stream.wait) \cup Range(n.stream.out) \cup n.stream.in :
          ~m.stale /\ (m.pid = p.pid \/ (m.kind = "auth" /\ p.kind = "auth"))

\* A time-out that is faster than an answer counts as a fault.
SERVER_timeout_pkg(x, p) ==
    /\ Becomes(x, Settle(node[x], p, FALSE))
    /\ IF Early(node[x], p) THEN Fault ELSE NoFault

\* An answer arrives.
SERVER_on_data(x) ==
    LET n == node[x]
    IN  /\ n.stream # NULL /\ n.stream.state = "open"
        /\ \E m \in n.stream.in :
              LET got   == [n EXCEPT !.stream.in = @ \ {m}]
                  found == {p \in Open(n) : p.pid = m.pid}
              IN  Becomes(x, IF found = {} THEN got
                             ELSE Settle(got, CHOOSE p \in found : TRUE, m.ok))
        /\ NoFault

\* The end of the stream is read.
sirinet_stream_on_eof(x) ==
    LET n == node[x]
    IN  /\ n.stream # NULL /\ n.stream.state = "open" /\ n.stream.broken
        /\ Becomes(x, sirinet_stream_decref(n)) /\ NoFault

-----------------------------------------------------------------------------
(* The other server reads a package of x on its back-end stream.           *)

siridb_server_update_flags(n) == [n EXCEPT !.flags = {"running"} \cup (@ \cap {"authenticated", "full"})]

BSERVER_flags_update(y, n) ==
    LET m == siridb_server_update_flags(n)
    IN  IF m.stream = NULL THEN siridb_server_connect(y, m) ELSE m

\* The server is looked up in the list.
siridb_auth_server_request(n) ==
    IF n.listed THEN [n EXCEPT !.backend = TRUE, !.ref = @ + 1] ELSE n

\* The next package is read, and answered.
Answered(s, ok) == [s EXCEPT !.out = Tail(@), !.in = @ \cup {[Head(s.out) EXCEPT !.ok = ok]}]

Receive(x) ==
    LET n == node[x]
        y == Other(x)
        m == Head(n.stream.out)
        Answer(ok) == [n EXCEPT !.stream = Answered(@, ok)]
    IN  /\ n.stream # NULL /\ n.stream.state = "open" /\ ~n.stream.broken
        /\ n.stream.out # <<>>
        /\ CASE m.kind = "auth" /\ node[y].listed ->
                  node' = [node EXCEPT ![x] = Answer(TRUE),
                              ![y] = BSERVER_flags_update(y, siridb_auth_server_request(@))]
             [] m.kind = "auth" /\ ~node[y].listed -> node' = [node EXCEPT ![x] = Answer(FALSE)]
             [] m.kind = "flags" /\ node[y].backend ->
                  node' = [node EXCEPT ![x] = Answer(TRUE), ![y] = BSERVER_flags_update(y, @)]
             [] OTHER -> node' = [node EXCEPT ![x] = Answer(TRUE)]
        /\ NoFault

-----------------------------------------------------------------------------
(* Faults, and dropping a server.                                          *)

\* The connection that x made is lost; the other one notices at once.
Lost(x) ==
    LET y == Other(x)
    IN  /\ node[x].stream # NULL /\ node[x].stream.state = "open" /\ ~node[x].stream.broken
        /\ node' = [node EXCEPT
              ![x].stream.broken = TRUE,
              ![y] = Gone(@)]
        /\ Fault

Restart(x) == node' = Restarted(x) /\ Fault

\* Only without a stream to it.
siridb_server_drop(x) ==
    /\ node[x].listed /\ node[x].stream = NULL
    /\ Becomes(x, siridb_server_decref([node[x] EXCEPT !.listed = FALSE])) /\ Fault

TimeOut(x) == \E p \in Open(node[x]) : SERVER_timeout_pkg(x, p)
StreamEvent(x) ==
    SERVER_on_resolved(x) \/ SERVER_on_connect(x) \/ sirinet__stream_free(x) \/ sirinet_stream_on_eof(x)

Next ==
    \/ \E x \in Side :
          \/ HEARTBEAT_cb(x) \/ StreamEvent(x) \/ SERVER_write_cb(x) \/ SERVER_on_data(x)
          \/ TimeOut(x) \/ Receive(x) \/ Lost(x) \/ Restart(x)
    \/ SendData(A) \/ siridb_server_drop(A)

(***************************************************************************)
(* The event loop calls the callbacks that are due, sockets deliver, and   *)
(* timers end.  The heartbeat repeats for ever and is not always at a      *)
(* moment when the queue is full.                                          *)
(***************************************************************************)
Fairness ==
    \A x \in Side :
        /\ SF_vars(HEARTBEAT_cb(x)) /\ WF_vars(StreamEvent(x)) /\ WF_vars(TimeOut(x))
        /\ WF_vars(SERVER_write_cb(x)) /\ WF_vars(SERVER_on_data(x)) /\ WF_vars(Receive(x))

Spec == Init /\ [][Next]_vars /\ Fairness

-----------------------------------------------------------------------------
(* Properties.                                                             *)

(***************************************************************************)
(* Flags, ids and the states of streams are what they can be, and a        *)
(* promise has at most the references of its map entry and its write.      *)
(***************************************************************************)
TypeOK ==
    /\ faults \in 0..MaxFaults
    /\ \A x \in Side :
          /\ node[x].flags \subseteq Flags /\ node[x].pid \in Pids
          /\ node[x].listed \in BOOLEAN /\ node[x].backend \in BOOLEAN
          /\ node[x].stream # NULL => node[x].stream \in Stream
          /\ node[x].promises \subseteq Promise

(***************************************************************************)
(* The callback of a promise is called once: by the answer, the time-out,  *)
(* the failed write or the end of the server, never by two of them.        *)
(***************************************************************************)
CalledOnce ==
    \A x \in Side : \A p \in node[x].promises : p.calls = IF p.open THEN 0 ELSE 1

(***************************************************************************)
(* A write that ends finds its promise, also when an answer or a time-out  *)
(* came first: the promise is not freed before.                            *)
(***************************************************************************)
WriteHasPromise ==
    \A x \in Side : node[x].stream # NULL =>
        \A m \in Range(node[x].stream.wait) :
            \E p \in node[x].promises : p.pid = m.pid /\ p.open = ~m.stale

(***************************************************************************)
(* An answer that comes after the time-out is not taken for the answer to  *)
(* another package, as long as it is less than all ids late.               *)
(***************************************************************************)
AnswerMatches ==
    \A x \in Side : node[x].stream # NULL =>
        \A m \in Range(node[x].stream.out) \cup node[x].stream.in :
            m.stale => \A p \in Open(node[x]) : p.pid # m.pid

(***************************************************************************)
(* The queue-full flag of a server that packages can be sent to follows    *)
(* the number of open promises, also those of an earlier connection.       *)
(***************************************************************************)
FullIsRight ==
    \A x \in Side : "authenticated" \in node[x].flags =>
        ("full" \in node[x].flags <=> Cardinality(Open(node[x])) >= QueueSize)

(* A promise gets the answer to its own package or an error, once, and     *)
(* never too late for the memory it uses; the queue-full flag counts the   *)
(* ones that are open.                                                     *)
PromisesExact == TypeOK /\ CalledOnce /\ WriteHasPromise /\ AnswerMatches /\ FullIsRight

(***************************************************************************)
(* The record of a server lives as long as the list, the stream to it or   *)
(* the stream from it needs it, and no longer.                             *)
(***************************************************************************)
RefsExact ==
    \A x \in Side :
        LET n == node[x]
            One(b) == IF b THEN 1 ELSE 0
        IN  n.ref = One(n.listed) + One(n.stream # NULL) + One(n.backend)

(***************************************************************************)
(* Every promise ends: its id is again and again not in use.               *)
(***************************************************************************)
PromisesEnd ==
    \A x \in Side, pid \in 0..(PidMod - 1) : []<>(\A p \in Open(node[x]) : p.pid # pid)

(***************************************************************************)
(* Two servers that lost each other, in whatever order they notice, are    *)
(* online again for each other, unless one is dropped by the other.        *)
(***************************************************************************)
EventuallyOnline ==
    \A x \in Side : []<>(siridb_server_is_online(node[x]) \/ ~node[A].listed)

(***************************************************************************)
(* Whatever fault happens, promises are answered or given up by time-outs  *)
(* and heart-beats bring the servers together again.                       *)
(***************************************************************************)
Recovery == PromisesEnd /\ EventuallyOnline

=============================================================================
