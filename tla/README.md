# A TLA+ verification project for SiriDB Server

SiriDB is a clustered time series database written in C on top of libuv. This
directory holds TLA+ models of its core, TLC configurations that check them on
small instances, and TLAPS proofs. Every definition is translated from the
source; `PROJECT.json` maps each one to the lines it models.

## The system

A database is divided in **pools**; every series lives in one pool, chosen by a
hash of its name. A pool has one or two **servers**; the two servers of a pool
are replicas of each other. A server is one process: a libuv main thread that
runs every timer and network callback, plus worker threads (the optimize task,
the groups task).

| Component | State | Operations | Hard behaviour |
|---|---|---|---|
| replication fifo (`fifo.c`, `ffile.c`) | numbered files written backwards, the list of files, open handles | append, pop, commit, load, close, open | crash inside an operation, file change between pop and commit, disk errors |
| replication task (`replicate.c`, `initsync.c`) | status, one timer, initial-synchronization file, flags on series | start, pause, continue, work, answer callbacks | answers that are lost, late or refused; started from four places |
| connections, promises (`server.c`, `stream.c`, `heartbeat.c`) | record of each server with flags, references, its stream, open promises by pid | connect, resolve, authenticate, send, answer, timeout, write error, drop | late answers, pid reuse, queue full, a connection lost and made again while callbacks of the old one are open |
| backup mode (`backup.c`) | list of databases in backup mode | enable, disable, walk | has to wait for two other tasks to be quiet |
| flags (`server.h`, `bserver.c`, `pools.c`) | RUNNING, SYNCHRONIZING, RE-INDEXING, BACKUP MODE of each server, as known by each other server | flags update, replication finished | flags known late; several reasons share one pause counter |
| optimize task (`optimize.c`) | status, pause counter, worker thread | pause, continue, stop, wait, work | two threads without a lock |
| re-indexing (`reindex.c`) | file with series ids, task | start, next, status update | restart in the middle; all servers wait for all |
| inserts (`insert.c`) | local insert tasks, promises per pool | assign to pools, local task, forward | concurrent registration of servers |
| series, buffer, shards (`series.c`, `buffer.c`, `shard.c`) | points in memory, buffer file, shard files with index | add point, flush, load, optimize, drop | crash between files; replaced shard |
| registration, service (`servers.c`, `service/`) | server list in memory and on disk | new pool, new replica, drop server | one server of several fails |
| queries (`listener.c`, `query.c`, `promises.c`) | query tree, promises of all pools | select, count, list, create, alter, drop, grant | partial answers; every server runs the query again; changes that some servers miss |
| series expressions (`listener.c`, `imap.c`, `queries.c`) | maps of series with reference counts | match, set operators, where, loops | each handler gives way to other queries and inserts |
| points, aggregation (`points.c`, `aggregate.c`, `median.c`, `variance.c`) | sorted points | merge, compress, read a range, group, filter, limit | numeric edges; overlapping chunks |
| groups, tags, users | sets of series, saved to file | match, drop, save | a thread beside the main thread |

Interactions. An insert is stored by a local task *and* appended to the fifo; the
replication task sends the fifo to the other server of the pool and commits a
package when it is answered. Flags travel with every heart-beat and are tested
for equality (`siridb_server_is_synchronizing` is "exactly running, authenticated
and synchronizing"). Backup mode asks the replication task and the optimize task
to pause and polls until both are. The optimize pause counter is shared by
synchronization, initial synchronization, backup mode and re-indexing.

What makes each part correct, and the hazards behind it (`PROJECT.json` lists them
with their lines):

- fifo: packages leave in the order they came, each until it is acknowledged, and
  no crash or disk error takes more than the package it hits;
- replication: no stored point is forgotten or sent twice, the task neither
  forks nor sleeps for ever, and a replica is declared complete only when it is;
- connections, promises: each promise ends once, by its answer, its timeout, a write
  error or a cancel, and servers find each other again after any fault;
- backup mode: files are closed only when nobody uses them, and everything
  continues afterwards;
- flags: every pause is returned once, and every server gets out of
  synchronizing and re-indexing;
- optimize task: one at a time, quiet while paused, and it ends when nobody holds a pause
  or the server stops;
- re-indexing: goes on until no series is left, over restarts;
- series, buffer, shards: memory and files agree, an acknowledged point survives, and
  no series gets points of another;
- points, aggregation: a range has every point in it once and in order, and a function
  returns what its definition says;
- queries: each is answered once, its answer counts each pool or server once, and a
  change that is answered with success reaches every server;
- series expressions: the result is that of the expression, and each reference is
  returned;
- inserts, registration: all servers concerned take the request, or the client is
  told that one did not;
- groups, tags, users: the saved file and the memory agree.

## Modules

| Module | Models | Kind |
|---|---|---|
| `ReplQueue` | what the replication fifo promises: a crash-safe first-in first-out queue | abstract specification |
| `Fifo` | `fifo.c`, `ffile.c`: files filled backwards, list of files, handles | implements `ReplQueue` (property `IsQueue`) |
| `FifoProofs` | theorems about `Fifo`, the refinement included | TLAPS |
| `Replicate` | `replicate.c`, `initsync.c`, the replication side of `insert.c`, `backup.c`, `server.c`, `servers.c` and `bserver.c` | one server and its replica; the fifo is the queue of `ReplQueue` |
| `ReplicateProofs` | theorems about `Replicate` | TLAPS |
| `PoolState` | the flags of both servers of a pool and everything that depends on them | two servers, fifo and re-index file reduced to "has data" |
| `PoolStateProofs` | theorems about `PoolState` | TLAPS |
| `Optimize` | `optimize.c`: main thread and worker thread | every unlocked access is a step |
| `OptimizeProofs` | theorems about `Optimize` | TLAPS |
| `Reindex` | `reindex.c`, `lookup.c`, `forward.c`, the pools part of `insert.c`, the registration in `servers.c` | the servers of all pools and a new one |
| `ReindexProofs` | theorems about `Reindex` | TLAPS |
| `Storage` | `series.c`, `buffer.c`, `shards.c`, `shard.c`, the loading in `db.c` | memory and files of one server |
| `Connection` | `server.c`, `heartbeat.c`, `stream.c`, the connection part of `bserver.c`, `auth.c` | two servers and both streams between them |
| `ConnectionProofs` | theorems about `Connection` | TLAPS |
| `Query` | the statements of `listener.c`, `query.c`, `promises.c` | every server runs the nodes of a query; a statement is a list of nodes |
| `QueryProofs` | theorems about `Query` | TLAPS |
| `SeriesMatch` | series expressions and the loops over series in `listener.c`, `imap.c`, `queries.c` | two queries and inserts in one server |
| `SeriesMatchProofs` | theorems about `SeriesMatch` | TLAPS |
| `Points` | `points.c`, the reading of chunks of `shard.c` | operators, no state |
| `SeriesRead` | index, overlap and reads of `series.c`, `shards.c`, `shard.c`, the optimize of one shard | one series, over `Points` |
| `Aggregate` | `aggregate.c`, `median.c`, `variance.c`, the merge of `listener.c` | operators over `Points`; the state is the input |
| `MC*` | TLC instances of these, with their `.cfg` files | |

A definition named `X_Y` in a component module, marked "Mutant", is `X` with a
plausible mistake. It is not part of the specification: replacing `X` by it must
make TLC report the property it is listed for in `PROJECT.json`.

How they fit together. `Replicate` uses the queue that `Fifo` implements, and the
answers and time-outs that `Connection` gives. `PoolState` and `Query` use the flags
that `Connection` carries. `Storage` is about which points are in which file after a
crash and forgets their order; `SeriesRead` is about their order and overlap and
forgets files. `Query` is about which servers run a statement and
`SeriesMatch` about what one server does with its series in it.
Several properties that `PROJECT.json` lists are conjunctions of named parts (for
example `FilesOK` of `TypeOK`, `GuardWord`, `HandlesOK` and `ListOK`); each part has its
own comment in the module.

### Fifo and ReplQueue

A file is a record with its length, the lowest offset in use and its entries;
`siridb_ffile_append` writes below, `siridb_ffile_pop` looks at the last word and
`siridb_ffile_pop_commit` truncates. Sizes are counted in bytes because the end
of a file, the size word and the zero word that stops the chain are where
mistakes would be. `CrashInAppend` stops the process between the two writes of a
package, `CrashInCommit` between the truncation and the removal of a file;
`siridb_fifo_new` reads whatever is left. `ReplQueue` only knows the numbers of the
packages that wait; the refinement mapping reads them off the files *on disk*, so
that `IsQueue` says that a crash changes nothing.

### Replicate

One action per callback of the main thread (they are not interrupted) plus the
insert task, the network and the replica. `timer` names the callback the only timer
is set for, so that a second continuation would be seen (`OneContinuation`).
`Accounted` says where each stored point is: at the replica, in the fifo, on its
way, in a series that the initial synchronization has still to read, or given
up with a refusal. `Env` selects which of several surroundings happen. When a replica is
dropped while a promise is open the code frees the task and the fifo and then runs the
callback of the promise, which uses both: in the model the process dies and starts again.

### PoolState

`flags[s]` are the flags of server `s`, `view[s]` those it last heard from the
other, which are compared for equality as in `server.h`. `PauseIsHeld` relates
the pause counter, 16 bits wide as in the code, to the reasons there are for it.

### Optimize

`pc` walks the worker through `siri_optimize_wait`; a callback of the main thread
is one step. `pause` is the 16-bit counter of the code and `held` the pauses that were
taken and not yet given back. `siri_optimize_stop` sets the counter to zero whatever is
held, and `siri_optimize_continue` has no guard (its assertion is not part of a
release build), so the counter may wrap around.

### Reindex

Every server registers the new server, starts it and moves the series that the new table
of pools gives to the new pool, while clients insert at any server. `siridb_lookup_new` is
the table as the code computes it. An insert goes through the steps of the code, each an
action: the pool is chosen (`on_insert`), the points are given to a local task or sent
(`INSERT_points_to_pools`), the task tests where the series is now
(`INSERT_local_task`) and may forward (`siridb_forward_points_to_pools`). `store` counts how often a
server has a point, so that a point moved twice is seen. `PointsSafe` says that no point is
lost or doubled, `HomeIsRight` that in the end each series is in the pool of the new table
only. The two servers of a pool exchange inserts and the order to drop a series
through their fifos.

### Storage

Memory is `mem`, the files are `fs`. A handler runs with `shards_mutex` and
`series_mutex` held, so no other handler can see its middle, but a crash can.
Therefore an action computes the new memory and the list `steps` of states the
files go through, and `Write` takes them one by one. `bufio` and `dropio` are what
the C library has not yet given to the system: a crash of the process loses it.
`Recovered(fs)` is the memory after the next start, and `Recovers` says that
everything acknowledged is in it, except what waits in the C library.
`CrashIn` names the handlers a crash may interrupt. A chunk is written to a shard
in one step (`fflush` follows each).

### Connection

`node[x]` is the record that server `x` has of the other one: flags, reference
count, the stream to it, whether the other's stream to this server is there, and
its promises. A promise that was removed from the map stays in the set as long as a
write or a timer of it is open, with its references and the number of times that its
callback ran, so that "called once" and "freed when the last one lets go" can be
said (`PromisesExact`, `RefsExact`). `HEARTBEAT_cb` connects, resolves or sends
flags, as in the code; `StreamEvent` is everything libuv reports of a connection.
`siridb_server_drop` removes the server while all of this may be open.

A package of a stream waits for its write (`wait`), is written and not read yet (`out`), or
has an answer that is not read yet (`in`); `age` is the number of ids that were used since it
was sent. `CanSend` has two conditions the code does not test: no write of a promise that ended
still waits with the id, and no answer is as late as it takes to use all ids. They are what the
16 bits of an id (65,536 packages within the time-out of one) stand for.

### Query

`Statement` gives, for each statement of the grammar that does more than
show local values, its list of handlers (`Node`): which test it makes (rights, all
servers or pools accessible, reindexing), what it changes, what it adds to the
answer, and how it goes on: next node in the same event (`cpu`), next node later,
forward, or answer. Every server runs the same list; `Masters` says where the client
is. `fifo` holds the statements that a server has to give to its replica. `up` is the
status of a server and changes at any time, also between the test of a
handler and the sending of its packages. `obj` is the object in memory and `saved` the one on
disk. A handler must save its change or ends in an error after it has changed the memory
(`SaveFails`), only logs a failure, or leaves it to the groups thread (`SaveTags`: tags);
`unsaved` remembers the servers that went on with a change that is not on disk. A package that
arrives after the master gave up is not an action of its own: it does what one does that came
in time and is run late (dropping the test of `Receive` gives the same states). The dropped
server's own fifo and its place in its pool are kept, as pools are constant here.

### SeriesMatch

An expression is a sequence of operands, operators and parentheses; the query
walks over it as the parser calls the enter and exit functions, with the map of
series, the temporary map and the update function of the code. Maps hold
references; `RefsOK` compares `ref` with the maps, groups, tags and slices that hold
the series. `AnswerIsExact` compares the result with the set the expression denotes.
`Members` stands for the series of a group as well as for those of a tag that no statement
changes meanwhile: the two branches of `enter_group_tag_match` do the same with them.
An insert into a series that exists is modelled, not one that makes a new series.

### Points and SeriesRead

A word of 8 bytes is three digits in base 4; compression is modelled on digits, since
it only depends on which ones differ. `SeriesRead` inserts points in any order, sends
full buffers to chunks and lets the optimize task replace the chunks of a
shard with inserts in between. `written` is every point inserted, and the properties
compare every read with it: `PointsOnce` for a read of all, `RangeIsExact` for each start and
end, `EndsExact` for head, tail, first and last. `late` remembers that points came before
the end of the index while a shard was optimized. Overlap may then go unnoticed
(`OverlapIsKnown`), and only `PointsOnce` and the order of the index still hold. The array
`vshift`, in which the compression of doubles notes the bytes that differ, is one entry too
small for all of them: `Overrun` tells when, and nothing is claimed of what is then read back.

### Aggregate

The input grows a point at a time, so that TLC visits each input once; the
properties compare each function with a definition that does not share its
algorithm (median by counting, groups by the time-stamps they cover, merge by bags).
`AggregateBeforeMerge` says that sum, min and max of each series before the merge, and
then of the merged series, give the same as after the merge alone.

## Runs

| Run | Bounds | States | Shows |
|---|---|---|---|
| `fifo` | files of 40 bytes, packages of 8 and 20, 4 packages, 4 changes of file, 1 disk error, torn words 1, 4, 50 | 177,772 | two packages of 8 fit in a file and not two of 20, so that files roll over; a torn word may point inside, at the end of, or outside the file |
| `optimize` | 2 shards, 2 pauses | 683 | safety, and that pauses take effect and tasks end, also when pauses are given back after the stop |
| `optimize_paused` | the same | | **violation**, see below |
| `replicate` | 2 series, 2 points, 2 faults, 1 backup; restart, refusal, dropped replica and series | 366,675 | a point for each of: before the replica, during the initial synchronization or after it; everything arrives |
| `pool_state` | 2 stops, 1 backup, 1 new pool, 2 inserts | 65,431 | each server restarts once or one of them twice, with every other event in between |
| `reindex` | a pool of two servers, a pool of one and the new pool; 3 series, one that leaves each old pool and one that stays; 1 insert, 1 fault | 323,880 | every moment at which an insert meets a series that is about to move, is on its way or has moved, and one lost or late package |
| `storage` | 2 names, 2 series, 1 shard, buffers of 2 points, 4 points in inserts of up to 3, 2 optimizes, 1 drop, 3 stops or crashes | 2,158,924 | inserts of 1, of a full buffer and of more than a buffer; a second optimize meets an index file; three starts are needed to give out an id twice |
| `connection` | 3 pids, a queue of 2, 1 open promise of each kind, 1 fault | 125,912 | pids wrap around while old ones are open, the queue gets full with three kinds of promises, and any one fault at any moment is survived |
| `series_match` | 2 local series, 1 in another pool, all statements and operators, 1 insert, a second query that drops series | 578,397 | every expression of two operands, or three with parentheses at the start or the end, with a drop at any moment |
| `query` | a pool of one and a pool of two servers, 1 change of status; every statement alone, and a create or drop of a user that meets a drop in the other pool | 299,881 | one server of each pool, and a replica; the server that is missing may be any of them at any time, and any save may fail or come late |
| `series_read` | time-stamps 0 to 4 in shards of 3, buffers of 2, 5 points, 2 optimizes, six kinds of series | 175,656 | points in any order over two shards; overlap inside a shard and with the new one; late points during an optimize |
| `aggregate` | seven kinds of inputs: up to 6 points in a series, or 7 in four | 24,489 | the lowest and highest integer, times with gaps, more points than the threshold of the compression, and more than `POINTS_MAX_QSORT` in the merge |

`storage` uses that names are interchangeable (they are only compared). It was also
checked, outside the list of runs, with two shards and three points (2 million
states) and with three series (2.9 million states), `replicate` with three points (4
million states, without liveness) and `reindex` with one series and two inserts (4.4
million states). The deadlock check is off where
the system may stop: `optimize` after a cancel, and the others once the bounds are
used up or all queries are answered.

### Fairness

Weak fairness, and only of what the event loop, the scheduler or a timer
does by itself: timers fire, libuv serves sockets and async handles, the worker
thread is scheduled, every promise has a timeout, heart-beats repeat, handlers of a
query run on. Strong fairness is used once, for `HEARTBEAT_cb` in `Connection`: it sends
flags only if the queue is not full at that moment, and a timer that repeats for ever
does not always meet a full queue. Two assumptions are about the operator: a backup ends and a
stopped server is started. Losses, crashes, refusals and inserts are never fair, but
bounded. In `Connection` a time-out that comes before an answer that is already under
way counts as a fault: if that could happen each time, an old authentication request
could close each new connection for ever (see below). `Reindex` asks only that the system
as a whole does not stop (`Progress`: what the event loops do by themselves), and that a
registration that has begun reaches all servers.

### Disagreements with the code's own words

`optimize_paused` (`optimize.c:142`) states what `reindex.c:486` asserts and
`backup.c:206` relies on: between the worker's last look at `pause` and its write of
RUNNING a new pause finds the task "paused", and then it runs on.

The passing runs leave out some cases that the models contain, by a constant. The
constants that show them:

- `Fifo`, `PkgSizes = {12, 36}`, no errors (`NothingStranded`): after a restart an empty file
  of the default size can be in front of a file with a large package; the fifo then
  says that it is empty, against the comment at `fifo.h:26`. A package of a client has at
  most 40 MB (`MAX_ALLOWED_PKG_SIZE` in `stream.c`) and a file 100 MB, so only a package made
  from an HTTP body, which has no limit, is large enough. The theorems about the fifo have
  the opposite as their hypothesis (`PkgsFit`).
- `Replicate`, `OldSeries = {}`, `Env = {"early"}` (`Accounted`): a replica registered while the
  first insert of a series is in progress does not get its points (`servers.c:246`).
- `Replicate`, `"init_backup"`: `initsync.c:318-321` starts the replication task although
  backup mode paused it. `"backend"`: other pools may insert into a closed fifo
  (`bserver.c:583`).
- `PoolState`, `Env = {"drop_sync", "sync_backup"}` (`PauseIsHeld`): the pause counter is
  returned too often, or not at all (`server.c:906`, `backup.c:75`).
- `PoolState`, `Env = {"reindex_stop"}` (`ReindexIsDone`): `ftello` of a file just opened is 0, so
  re-indexing is not resumed after a restart (`reindex.c:126`). `"reindex_backup"`: backup
  mode while re-indexing (`listener.c:4211`).
- `Storage`, `CrashIn` with `"finish"`: the old shard is unlinked before the new one is
  renamed (`shard.c:1539`), and the index after that. A crash loses the shard
  (`Recovers`) or leaves it with the wrong index (`FilesReadable`). `"drop_shard"`:
  `SHARD_remove` unlinks the index first. `"load"`: `SERIES_save` truncates `series.dat`
  before writing it, and a `__buffer.dat` that is left behind stops the next start.
- `SeriesRead`, `Kinds` with a compressed string (`RangeIsExact`): `points.c:1275` passes the
  loop counter as the offset of the first string, which is right only if nothing is
  cropped in front.
- `Reindex`, `Env = {"busy"}` (`PointsSafe`): an insert that is under way while the servers
  register the new pool, or that comes before a server is connected to it, is
  forwarded to a server that is not there; the points are dropped with a line in the log
  and the client is told of success (`forward.c:128`, against the comment at `forward.c:93`).
- `SeriesMatch`, `Middle = TRUE` (`AnswerIsExact`): exit functions run after all enter
  functions, so a parenthesis closes late: `a - (b) | c` is read as `a - (b | c)`.

Seen while modelling; the properties allow for these:

- `Storage`: `fsync` of the buffer runs without `fflush` (`buffer.h:51`), so the last write is
  not on disk although `siridb.conf:57` says so; the points of a dropped shard can come
  back, when the write that emptied their slot was still in the C library; a series
  whose slot was not written is dropped at the next start even if shards hold its points.
- `Connection`: the time-out of an authentication request of an old connection closes
  the new one (`server.c:1274`); a promise whose write fails after its time-out is not
  freed, and a write to a closing stream never calls back; a stream can be released
  twice, which the comment near `stream.c:147` excludes; a name that is resolved after the
  client is gone meets a null pointer (modelled as a restart); the queue can hold more
  than its size, against the comment at `server.c:200`, since authentication and flags
  do not look at the flag; a dropped server is connected to again when its flags come in
  (`BSERVER_flags_update`).
- `Query`: dropping series and shards, and tagging, answer success though a pool failed;
  tags, also renamed ones, are saved later, by the groups thread (`listener.c:2043`,
  `groups.c:453`), so a stop brings the old ones back; a change that could not be written
  stays in memory, with an error (`listener.c:2730`) or only a line in the log
  (`groups.c:324`, `listener.c:4923`), and is gone after a restart. `ChangesHold` therefore
  compares servers only if none went on with a change that is not on disk. A grant, a revoke or a
  new name changes memory before a later node can fail; two masters that change the same
  setting can leave servers with different values; counts leave out servers that
  do not answer.
- `SeriesRead`: late points during an optimization can
  leave overlap that no flag tells of, so a range comes back unsorted or incomplete
  (`SERIES_update_overlap`, `series.c:1522`, only clears the flag; `series.c:463-471` marks
  only the shard of the new chunk); head looks only at the last chunk it loaded
  (`series.c:865`).
- `Points`: `POINTS_highest_and_merge` takes points with time-stamp 0 too early, so that a
  series that ends with 5, 5 and one that has 0 can come out as 5, 0, 5 (`ZeroTooEarly`), and
  aggregation of the merged points then differs too; `vshift` has
  7 entries and gets 8 when all bytes of the doubles of a chunk differ (`points.c:814` written at
  `:830`, `:997` at `:1016`).
- `Aggregate`: `limit` can answer one point more than its limit if the first
  time-stamp is 0 (`aggregate.c:690`; `help_functions.md` says "at most"); a group with an
  offset has the time-stamp of the end of its window; a filter with a fraction on an
  integer series is cut off to an integer (`aggregate.c:950`).
- `siridb_server_drop` (`server.c:890-904`) frees the replication task and the fifo of a disconnected
  replica while a promise may be open, and then runs its callback, against the comment
  at `replicate.c:88` and the assertion at `:312`.
- `initsync.c:302` sends to a replica that may have disconnected.
- `optimize.c:112` asserts RUNNING, which `siri_optimize_stop` may have changed (the
  model is of a release build).
- `siri_optimize_stop` sets the pause counter to zero (`optimize.c:65`). A holder that still gives
  back its pause while the server is closing (`bserver.c:479`, the tasks of re-indexing and
  initial synchronization) wraps it to 65,535, and a worker that sleeps in
  `siri_optimize_wait` then never wakes up. `TaskEnds` promises an end only without
  that (`GivenBackLate`), and that the task can hang nowhere else.
- `Reindex`: a time-out of a package that did arrive drops the series as if it had been
  answered, and one of a package that was lost drops it too, with a line in the log;
  `insert.c:1160` does not count a pool that could not be sent to as a failure; a series that
  its mover does not have yet when the pool is registered stays on the other server.
- `clserver.c:706-719` answers an error and goes on to register the server (not modelled).

## Proofs

Each theorem holds for every value of the constants that the named assumption of the module
allows; the bounds of the runs (points, faults, files, packages, backups) are arbitrary
numbers in them. Where the models contain a case in which a property fails (see above), the
theorem says which one it leaves out as a hypothesis on `Env`, and the passing run leaves
out the same one. The inductive invariants were checked by TLC before they were proved.

`FifoProofs` (hypothesis `PkgsFit`: a package fits in a new file): `FilesOKHolds`,
`NothingStrandedHolds` and `IsQueueHolds`, the refinement of `ReplQueue`. The invariant `FifoInv`
has three layers.
- On disk, whether the process runs or not (`DiskInv`): the packages of a file lie one below
  the other without a gap, the oldest on top (`Tiled`), and a file with a higher number has
  newer packages. This is what makes a crash harmless, and it does not mention memory.
- In memory (`ListInv`, `SizesInv`, `InInv`, `HandlesOK`): the list is the directory in order,
  `next_size` is the size of the package on top, and `free_space` is where the packages
  of `in` begin. A file that waits behind `out` has a next size; a file of garbage may wait
  there, a file that looks empty may not, and this is where `PkgsFit` is needed:
  when `in` rolls over it holds a package, or it would have had room.
- The package that was popped is still on top of `out` (`PoppedInv`), also when packages
  were appended and files were changed after the pop.

The lemmas about `Written`, `Truncated` and `Torn` say what one write does to `Tiled`, those about
the list what `siridb_fifo_new`, a new file and a removed one do to it, and `Pending` changes by
one package or not at all (`PendingSame`, `PendingAdd`, `PendingCut`). `FifoStep` then takes the
actions one at a time: an append is `Enqueue`, a crash in it `Enqueue` or `Refuse`, a pop
`Fetch`, a commit or a crash after its truncation `Acknowledge`, a stop `Forget`, a disk
error `Lose`, and a load, the removal of a file of garbage and backup mode are stutters.

`ReplicateProofs`: `TaskOKHolds` and `SyncedMeansCompleteHolds` (without `"init_backup"`),
`AccountedHolds` and `NoDuplicatesHolds` (also without `"early"`). That nothing is appended to
the fifo in backup mode is no property: with `"backend"` or `"init_backup"` it happens. There are four invariants, each on top of the one before.
`TaskInv` ties the status, the timer and the promise of the task to backup mode, the view of
the replica and what is in the fifo; `OneContinuation` alone is lost by an answer that comes
when backup mode has stopped the task. `FileInv` says that a series which is left out of
packages is still in the file of the initial synchronization and that the package under way
is that of its last series. `AccountInv` adds that what is on its way to the replica is
still in the fifo or the package, which is why a lost message loses no point.
`OnceInv` has the other half: what is in the fifo, in the package and late is disjoint.

`PoolStateProofs`: `TypeCorrect`, `PausesExact` (property `PausesOK`; without `"sync_backup"` and
`"drop_sync"`) and `ReindexIsDoneHolds` (without `"reindex_stop"`). The pause counter is exact
because no server is in backup mode and synchronizing at the same time (`NotBoth`) and a
re-indexing task that exists shows itself in the flags (`TaskHasFlag`).

`OptimizeProofs`, for any number of shards and any bound on pauses below 65,536: `OneTaskHolds`,
`PausedMeansWaitingHolds`, `SwitchAssertionHolds`, `IdxUsableHolds`, `MainPauseIsHeldHolds` and, of
the five together, `TaskSafeHolds`. All follow from one inductive invariant,
`IInv`. The counter is the number of pauses held as long as the server is not stopped
(`CounterIsHeld`). `OneTask` alone is not inductive: `OPTIMIZE_work_finish` sets PENDING, which
is right only if the thread is idle exactly when no task is started
(`ThreadIsTask`). `PausedMeansWaiting` and `SwitchAssertion` need to know who wrote
the status while the worker sleeps (`PausedByWorker`, `SleepStatus`), and
`IdxUsable` that a closed index is opened again before the worker works
(`ClosedIdx`). `NextIInv` takes the actions one at a time.

`QueryProofs`, for any pools, any queries under way at the same time and any number of changes of
the status of servers: `HandleOKHolds` and `DeniedIsHarmlessHolds`. Their proof has two parts.
`StatementsOK` goes through all statements once: each has handlers that `RunNode` knows, one
that asks other servers has a call-back, and up to the first one that checks the rights
of the user all are harmless (`Guarded`); a handler without its check, or a statement in
another order, breaks this lemma. The invariant `QueryInv` then needs no statement by
name. `TasksInv` ties the references of the handle and the answers to the state of the query, and says
that a query that waits has a call-back; `AnsweredOnce` alone does not know that, and
a call-back that does not exist could do anything. `DeniedInv` says that the master of a
denied query is still before its first check; it needs that nobody has heard of a query
before its client sends it (`FreshInv`) and that a denied query is in no queue, or the replica
would run it without a look at the rights.

In the same module, for any finite number of pools of one or two servers:
`UpdateIsEverywhereHolds` (a change that is answered with success was made in every pool and every
server has it or will get it from a queue; no hypothesis) and `ChangesHoldHolds`.
- `StatementKinds` goes through all statements: each is a change (its last handler, and
  no other, saves and forwards: `ChangeStmt`), tags series, or has no effect.
- `EverywhereInv` follows a change. A server that did it is past its last handler (`Passed`); the
  master has asked a server of every pool, and a promise that says success belongs to a server that
  answered so (`Promised`); a server that has given the change to its replica has it in its
  queue, or the replica knows it (`Given`); a query in a queue is known to the server of the
  queue (`KnownInv`). `UpdateIsEverywhere` alone speaks of answered queries only and says
  nothing about how the answer comes about. The proof needs that a pool has at most two
  servers: the queue of a server is read by one replica.
- `ValuesInv` follows the object: a server that did a change has the value of its effect in memory,
  and `DiskInv` that it has it on disk too unless it is in `unsaved`. `ChangesHoldHolds` has the
  hypothesis `NoTagging` (tagging of series is a count as well as a change, and answers
  success whatever the other pools do) and the hypothesis `SameEffect`: the changes that come
  together in one plan have the same effect on the object. Without it the statement is not
  true for all plans: a create, a drop and an alter of one object that meet in different orders
  on two servers need not leave the same object. A pair of different changes that does
  converge (create and drop) is checked by the run on `MCQuery`.

Also in that module, without a hypothesis: `AnswersCompleteHolds`, the answer to a count, list or
select has the part of every pool or server, once.
- `CountKinds` goes through all statements once more. A statement counts nothing
  (`PlainStmt`), counts without asking anybody (`LocalStmt`), or has one handler that counts
  and one that asks the other servers and whose call-back adds their parts (`AskStmt`).
- `CountInv` follows the numbers of an `AskStmt`. A server has counted itself once and nobody
  else, from its counting handler on (`Own`). The master has asked one server of each other pool, or each other
  server, and a promise with success belongs to a server that answered so (`Reached`). After the
  call-back the servers in the answer are the master and those that answered, or the list has its limit
  (`Complete`). `AnswersComplete` speaks of answered queries only; the
  parts that the master adds are numbers of other servers that have answered but
  whose answer it has not seen yet.
- The counts are added with folds of the library over sets of servers. `SumOnSet` shows that such a sum of zeros and
  ones is the number of ones: of the subsets with another sum one would be smallest
  (`Smallest`, from the order of the numbers), and taking one element away contradicts that.

`ConnectionProofs`, for any number of package ids, any size of the queue of promises and any
number of faults: `RefsExactHolds` and `PromisesExactHolds`, both from `ConnInv`. Of the record of one
server the invariant says that an id belongs to one promise (`PidsUnique`), that every write that
waits has its promise with the reference of the write (`WaitOK`), and that the next id is the id of
a package plus its age (`Fits`). The last one is the argument about late answers: the
lemmas about ids show that after `k` more ids a package is `k` older (`FitsAged`), and that a new
package cannot get the id of one that is younger than all ids (`FitsOther`). Of both records
together it says that a server has a back-end stream only when no request for authentication is
on its way to it any more (`Quiet`), which needs that this request is the first package of a stream
(`AuthFirst`); without it `siridb_auth_server_request` could take the reference of the back-end
stream twice. There is one lemma for each operator on a record (`SendOK`, `SettleOK`,
`WrittenOK`, `FreeOK`, ...) and one for each action.

`SeriesMatchProofs`, for any series, groups, regular expressions, operators, limits and number of inserts:
`RefsOKHolds` and `SameViewHolds`, and `AnswerIsExactHolds` under the hypothesis `~Middle` (with
parentheses that close before an operator it is false, see above). All follow from `Inv` (`InvHolds`).
- The nodes of a walk are fixed when the query begins. `WalkParts` and one lemma for each form of
  expression say which node runs when `k` of them are left (`WalkOf`), so the map, the
  operator and the stack of a query are a function of that number (`AtNode`). The walk closes
  every parenthesis at its end; `Walked` is the set it computes with any placement of
  parentheses, and `WalkedIs` shows that it is the one that is meant when `~Middle`. The proof
  therefore also says what the code does with the expressions it reads wrongly.
- Other queries drop series meanwhile, so a map is what it should be only on the series
  that are still there (`MapIs`), and an operand need not be complete: for an intersection
  or a difference the code goes through the series of the map only. `Enough` says
  what is needed of an operand, and `UpdatedOn` that the result is then right.
- The loops: a regular expression has matched and still has to look at, together,
  all that it needs (`ReInv`); a list has found what it has passed (`ListInv`); what a
  drop is about to drop was asked for (`DropInv`), which `DroppedInv` remembers when
  the series is gone; a function of a select that will read a series again finds the points of the first
  one in the cache (`SelectInv`).
- References: `StepOK` reduces a step of one query to the change of what it holds; each
  operator of `imap.c` gives up what was in both maps and is not in the result (`UpdateIs`).
  The counter alone is not inductive: that a stack has at most one map, and that the list
  of a loop and the map share no series, comes from the walk.

`ReindexProofs`, for any pools of one or two servers numbered from 0, any size of the look-up table, any series,
points and faults: `PointsSafeHolds` and `HomeIsRightHolds`, both under the hypothesis
`"busy" \notin Env` (with `"busy"` they are false, see above). Both follow from `ReInv` (`ReInvHolds`).
- The look-up table is a recursive function of the number of pools. Its least argument that would
  break a statement breaks it at its predecessor too (`Smallest`), so `TablesExist` and
  `LookupRange` hold for all numbers of pools, and `LookupParts` says how the table for one more pool
  differs: a slot keeps its pool or gets the new one.
- The servers: a server has at most one replica (`OneReplica`), and in the old pool of a series one
  server is responsible for moving it (`SomeResponsible`).
- `FlowInv` says of everything that travels what was chosen when the insert arrived: the old
  or the new pool, and that a series that moves is tested in its old pool. Without it a
  choice that is stale when the points are added could be any.
- `TaskInv`: what has to leave a server is in its file, and the series that the task
  moves is no longer in the store. `StoreInv`: the copy at the replica is left only
  while the responsible server still has the series, moves it, or has the order to drop it in its fifo.
- `StartInv` and `CalmInv`: nothing is under way before all servers have registered the new one and are
  connected to it. This is what `"busy"` breaks. `DataInv`: the number of a new point is fresh.
- `CarryInv` is the claim itself in inductive form. There are seven kinds of carriers of a point (an
  insert that waits, a package, a local task, a forward, the task that moves the
  series, a store, a fifo). Seen from each server of the old pool that must get
  it, an accepted point has exactly one carrier, and one that is not accepted or was given up and logged has none. A step
  moves the point from one carrier to another (`MovesOne`) or gives it up (`LosesOne`).
  `PointsSafe` alone counts places and cannot tell which of them a step is about to empty.
`CarriersAre` and `Arrived` then derive the two properties.

Only model-checked:
- all liveness properties (`QueriesEnd`, `Recovery`, `ReindexEnds` and the others), outside the
  reach of the prover;
- `ReadsExact`, `EndsExact` and the invariants of `Aggregate`: `Points`, `SeriesRead` and `Aggregate` use
  RECURSIVE operators on sequences, for which the prover has no rule;
- the invariants of `Storage`: a file is a sequence of writes and what a restart reads is a fold over
  it. A statement about it for every sequence needs induction over that sequence; the argument by a
  least number that serves for the look-up table was not carried over to it;
- `ChangesHold` for different changes that meet (see above).

## Not modelled

The agreement on a new server beyond "each server registers it", the groups thread beyond the saving of
tags, the users file, the service protocol, HTTP API, the byte format of packages, containers
other than the integer map. Left out because they have no state of
their own: grammar (generated), help texts, logging, configuration.

In `Reindex`: restarts (the file of re-indexing is in `PoolState`), tags, a package with several
series (it is a list of inserts that do not depend on each other). In `Storage`: string series, resizing of the buffer, power loss (what the system holds in
its own cache counts as written), chunks torn by a crash. In `SeriesRead`: expiration, and
values of points (they follow from the time-stamp). In `Aggregate`: NaN, infinity and rounding of
doubles, regular expressions on strings. In `Query`: what a handler reads of its
objects, except what a property compares; more than one object of a kind. In `Connection`: a
change of address, more than two servers. In `Replicate` and `PoolState`: more than one
pool. Everywhere: errors of memory allocation. `PROJECT.json` lists every part with its
status.

## Plan

1. More theorems, each from an inductive invariant that TLC has checked first: `MirrorsOK`
   of `Storage`.
2. `Register` (`servers.c`, `clserver.c`, `service/`): agreement on the list of servers when
   one of them fails.
3. `Groups` (the thread beside the main thread), `Users` (the file); framing of packages.
