--------------------------- MODULE ReindexProofs ---------------------------
(***************************************************************************)
(* Proofs about a new pool in a running database, for any number of pools  *)
(* of one or two servers, any size of the look-up table, any series,       *)
(* points and faults of the connections to the new server.                 *)
(*                                                                         *)
(* The first part is about the look-up table, the second about the servers *)
(* and their pools.  The third part is an inductive invariant: what may be *)
(* where, and that every accepted point is in one place.                   *)
(***************************************************************************)
EXTENDS Reindex, FiniteSetTheorems, SequenceTheorems, WellFoundedInduction, TLAPS

-----------------------------------------------------------------------------
(* The look-up table.                                                      *)

(* A set of numbers has a smallest one: the induction over the tables.     *)
LEMMA Smallest ==
    ASSUME NEW S \in SUBSET Nat, S # {}
    PROVE  \E n \in S : \A m \in S : n <= m
<1> DEFINE R == OpToRel(<, Nat)
<1>1. IsWellFoundedOn(R, Nat)
  BY NatLessThanWellFounded
<1>2. \A x, y \in Nat : <<y, x>> \in R <=> y < x
  BY DEF OpToRel
<1> HIDE DEF R
<1>3. PICK n \in S : \A m \in S : ~ (<<m, n>> \in R)
  BY <1>1, WFMin
<1>4. ASSUME NEW m \in S PROVE n <= m
  <2>1. m \in Nat /\ n \in Nat /\ ~ (<<m, n>> \in R)
    BY <1>3
  <2>2. ~ (m < n)
    BY <1>2, <2>1
  <2> QED BY <2>1, <2>2
<1> QED BY <1>4

(* The table for one pool, and the one for m pools made of that before.    *)
First == [i \in Slots |-> 0]
Larger(prev, m) ==
    [i \in Slots |->
        LET counter == prev[i] + Cardinality({j \in 0 .. i : prev[j] = prev[i]})
        IN  IF counter % m = 0 THEN m - 1 ELSE prev[i]]

Tables(g, n) == g = [m \in 1 .. n |-> IF m = 1 THEN First ELSE Larger(g[m - 1], m)]

(* There are such tables for any number of pools.                          *)
LEMMA TablesExist == \A n \in Nat : \E g : Tables(g, n)
<1> DEFINE Bad == {n \in Nat : ~ \E g : Tables(g, n)}
<1> SUFFICES ASSUME Bad # {} PROVE FALSE
  OBVIOUS
<1>1. PICK n \in Bad : \A m \in Bad : n <= m
  BY Smallest
<1>2. n # 0
  <2>1. Tables([m \in 1 .. 0 |-> First], 0)
    BY DEF Tables
  <2> QED BY <1>1, <2>1
<1>3. n - 1 \in Nat /\ n - 1 \notin Bad
  BY <1>1, <1>2
<1>4. PICK g : Tables(g, n - 1)
  BY <1>3
<1> DEFINE h == [m \in 1 .. n |->
                    IF m = n THEN IF n = 1 THEN First ELSE Larger(g[n - 1], n) ELSE g[m]]
<1>5. \A m \in 1 .. n - 1 : g[m] = IF m = 1 THEN First ELSE Larger(g[m - 1], m)
  BY <1>4 DEF Tables
<1>6. \A m \in 1 .. n : h[m] = IF m = 1 THEN First ELSE Larger(h[m - 1], m)
  <2> SUFFICES ASSUME NEW m \in 1 .. n
               PROVE  h[m] = IF m = 1 THEN First ELSE Larger(h[m - 1], m)
    OBVIOUS
  <2>1. n \in Nat
    BY <1>1
  <2>2. m # 1 => m - 1 \in 1 .. n /\ m - 1 # n /\ h[m - 1] = g[m - 1]
    BY <2>1
  <2>3. CASE m = n
    BY <2>2, <2>3
  <2>4. CASE m # n
    <3>1. m \in 1 .. n - 1 /\ h[m] = g[m]
      BY <2>1, <2>4
    <3> QED BY <1>5, <2>2, <3>1
  <2> QED BY <2>3, <2>4
<1>7. Tables(h, n)
  BY <1>6 DEF Tables
<1> QED BY <1>1, <1>7

(* The number of pools.                                                    *)
LEMMA PoolNumber == NumPools \in Nat \ {0} /\ \A x \in Servers : PoolOf[x] \in 0 .. NumPools - 1
<1> DEFINE P == {PoolOf[x] : x \in Servers}
<1>1. PoolOf \in Surjection(Servers, P)
  BY ReindexAssumption DEF Surjection
<1>2. IsFiniteSet(P)
  BY <1>1, ReindexAssumption, FS_Surjection
<1>3. P = 0 .. NumPools - 1 /\ P # {}
  BY ReindexAssumption DEF NumPools
<1>4. NumPools \in Nat
  BY <1>2, FS_CardinalityType DEF NumPools
<1> HIDE DEF P
<1>5. NumPools # 0
  <2> SUFFICES ASSUME NumPools = 0 PROVE FALSE
    OBVIOUS
  <2>1. 0 .. NumPools - 1 = {}
    OBVIOUS
  <2> QED BY <1>3, <2>1
<1>6. \A x \in Servers : PoolOf[x] \in P
  BY DEF P
<1> QED BY <1>3, <1>4, <1>5, <1>6

(* siridb_lookup_new is what its recursion says.                           *)
LEMMA LookupIs ==
    /\ siridb_lookup_new[1] = First
    /\ \A m \in 2 .. NumPools + 1 : siridb_lookup_new[m] = Larger(siridb_lookup_new[m - 1], m)
<1>1. NumPools + 1 \in Nat
  BY PoolNumber
<1>2. PICK g : Tables(g, NumPools + 1)
  BY <1>1, TablesExist
<1>3. siridb_lookup_new = CHOOSE f : Tables(f, NumPools + 1)
  BY DEF siridb_lookup_new, Tables, First, Larger
<1>4. Tables(siridb_lookup_new, NumPools + 1)
  BY <1>2, <1>3
<1> QED BY <1>1, <1>4, PoolNumber DEF Tables

(* Each table has the pools there are, and the slots it does not give to   *)
(* the new pool stay.                                                      *)
LEMMA LookupRange ==
    \A m \in 1 .. NumPools + 1 : siridb_lookup_new[m] \in [Slots -> 0 .. m - 1]
<1> DEFINE Bad == {m \in 1 .. NumPools + 1 : siridb_lookup_new[m] \notin [Slots -> 0 .. m - 1]}
<1> SUFFICES ASSUME Bad # {} PROVE FALSE
  OBVIOUS
<1>1. NumPools \in Nat \ {0}
  BY PoolNumber
<1>2. Bad \subseteq Nat
  BY <1>1
<1>3. PICK m \in Bad : \A k \in Bad : m <= k
  BY <1>2, Smallest
<1>4. m # 1
  BY LookupIs, <1>3 DEF First
<1>5. m \in 2 .. NumPools + 1 /\ m - 1 \in 1 .. NumPools + 1
  BY <1>1, <1>3, <1>4
<1>6. m - 1 \notin Bad
  BY <1>2, <1>3
<1> DEFINE prev == siridb_lookup_new[m - 1]
<1>7. prev \in [Slots -> 0 .. m - 2]
  BY <1>5, <1>6
<1>8. siridb_lookup_new[m] = Larger(prev, m)
  BY <1>5, LookupIs
<1> HIDE DEF prev
<1>9. Larger(prev, m) \in [Slots -> 0 .. m - 1]
  BY <1>5, <1>7 DEF Larger
<1> QED BY <1>3, <1>8, <1>9

(* A slot of the larger table is as before or goes to the new pool.        *)
LEMMA LookupParts ==
    ASSUME NEW i \in Slots
    PROVE  /\ prev_lookup[i] \in 0 .. NumPools - 1
           /\ new_lookup[i] \in {prev_lookup[i], NumPools}
<1>1. NumPools \in Nat \ {0}
  BY PoolNumber
<1>2. prev_lookup \in [Slots -> 0 .. NumPools - 1]
  BY <1>1, LookupRange DEF prev_lookup
<1>3. new_lookup = Larger(prev_lookup, NumPools + 1)
  BY <1>1, LookupIs DEF new_lookup, prev_lookup
<1>4. new_lookup[i] \in {prev_lookup[i], NumPools}
  BY <1>1, <1>3 DEF Larger
<1> QED BY <1>2, <1>4

-----------------------------------------------------------------------------
(* The servers and their pools.                                            *)

Moves(s) == new_lookup[s] # prev_lookup[s]
Old(x, s) == Pool(x) = prev_lookup[s]
Places(s) == {prev_lookup[s], new_lookup[s]}

(* A series has an old pool and moves to the new one or stays.             *)
LEMMA SeriesPools ==
    ASSUME NEW s \in Series
    PROVE  /\ prev_lookup[s] \in 0 .. NumPools - 1
           /\ Moves(s) => new_lookup[s] = NumPools
           /\ prev_lookup[s] # NumPools
           /\ new_lookup[s] \in 0 .. NumPools
  BY ReindexAssumption, LookupParts, PoolNumber DEF Moves

(* The new server is alone in the new pool.                                *)
LEMMA NewPool ==
    /\ Pool(New) = NumPools /\ Replicas(New) = {}
    /\ \A x \in Servers : Pool(x) = PoolOf[x] /\ Pool(x) \in 0 .. NumPools - 1 /\ Pool(x) # NumPools
    /\ \A x \in All : Pool(x) \in 0 .. NumPools
<1>1. \A x \in Servers : x # New /\ Pool(x) = PoolOf[x]
  BY ReindexAssumption DEF Pool
<1>2. \A x \in Servers : PoolOf[x] \in 0 .. NumPools - 1 /\ PoolOf[x] # NumPools
  BY PoolNumber
<1>3. Pool(New) = NumPools
  BY DEF Pool
<1>4. Replicas(New) = {}
  BY <1>1, <1>2, <1>3 DEF Replicas, All
<1> QED BY <1>1, <1>2, <1>3, <1>4, PoolNumber DEF All

(* A server has at most one replica, and that one has it.                  *)
LEMMA OneReplica ==
    ASSUME NEW x \in All, NEW y \in Replicas(x)
    PROVE  /\ x \in Servers /\ y \in Servers /\ y # x /\ Pool(y) = Pool(x)
           /\ Replicas(x) = {y} /\ Replicas(y) = {x}
           /\ \A s \in Series : Responsible(y, s) <=> ~Responsible(x, s)
<1>1. y \in All /\ y # x /\ Pool(y) = Pool(x)
  BY DEF Replicas
<1>2. x \in Servers /\ y \in Servers
  BY <1>1, NewPool DEF All
<1>3. PoolOf[x] = PoolOf[y] /\ IdOf[x] # IdOf[y] /\ IdOf[x] \in {0, 1} /\ IdOf[y] \in {0, 1}
  BY <1>1, <1>2, NewPool, ReindexAssumption
<1>4. ASSUME NEW z \in All, Pool(z) = Pool(x) PROVE z = x \/ z = y
  <2>1. z \in Servers
    BY <1>2, <1>4, NewPool DEF All
  <2>2. PoolOf[z] = PoolOf[x] /\ IdOf[z] \in {0, 1}
    BY <1>2, <1>4, <2>1, NewPool, ReindexAssumption
  <2> QED BY <1>2, <1>3, <2>1, <2>2, ReindexAssumption
<1>5. Replicas(x) = {y} /\ Replicas(y) = {x}
  BY <1>1, <1>4 DEF Replicas
<1>6. \A s \in Series : SeriesId[s] \in {0, 1}
  BY ReindexAssumption
<1>7. \A s \in Series : Responsible(y, s) <=> ~Responsible(x, s)
  BY <1>3, <1>5, <1>6 DEF Responsible
<1> QED BY <1>1, <1>2, <1>5, <1>7

(* One server of each old pool is responsible for a series.                *)
LEMMA SomeResponsible ==
    ASSUME NEW s \in Series
    PROVE  \E x \in Servers : Old(x, s) /\ Responsible(x, s)
<1>1. PICK x \in Servers : PoolOf[x] = prev_lookup[s]
  <2>1. {PoolOf[x] : x \in Servers} = 0 .. NumPools - 1
    BY ReindexAssumption DEF NumPools
  <2> QED BY <2>1, SeriesPools
<1>2. Old(x, s)
  BY <1>1, NewPool DEF Old
<1>3. CASE Replicas(x) = {}
  BY <1>2, <1>3 DEF Responsible
<1>4. CASE Replicas(x) # {}
  <2>1. PICK y \in Replicas(x) : TRUE
    BY <1>4
  <2>2. /\ y \in Servers /\ Pool(y) = Pool(x)
        /\ Responsible(y, s) <=> ~Responsible(x, s)
    BY <2>1, OneReplica DEF All
  <2> QED BY <1>2, <2>2 DEF Old
<1> QED BY <1>3, <1>4

(* Two servers of the same pool are the same or replicas of each other.    *)
LEMMA SamePool ==
    ASSUME NEW x \in All, NEW y \in All, Pool(x) = Pool(y)
    PROVE  x = y \/ (y \in Replicas(x) /\ x \in Replicas(y))
  BY DEF Replicas

-----------------------------------------------------------------------------
(* The invariant.                                                          *)

Pieces == [phase : Phases, series : Series \cup {-1}, pts : SUBSET Points]

ShapeInv ==
    /\ TypeOK
    /\ store \in [All -> [Points -> Nat]]
    /\ task \in [Servers -> Pieces]

(* Points that travel together are of one series and were accepted.        *)
PtsOK(pts, s, d) == pts # {} /\ pts \subseteq PointsOf(s) /\ pts \subseteq d

(* What was chosen when an insert arrived: the old or the new pool of the  *)
(* series; a series that moves is tested in its old pool.                  *)
InsertOK(e) ==
    /\ e.pt \in data
    /\ e.pool \in Places(e.pt[1])
    /\ Moves(e.pt[1]) /\ e.pool = prev_lookup[e.pt[1]] => e.fl = "TEST"

ArrivesOK(y, pts, fl, d) ==
    \E s \in Series :
        /\ PtsOK(pts, s, d)
        /\ Pool(y) \in Places(s)
        /\ Moves(s) /\ Old(y, s) => fl = "TEST"

NetOK(m) ==
    /\ ArrivesOK(m.to, m.pts, m.fl, data)
    /\ m.kind = "SERVER" => m.to = New

LocalOK(t) ==
    /\ ArrivesOK(t.at, t.pts, t.fl, data)
    /\ t.from \in All => t.at = New
    /\ t.from = "fifo" => \E y \in Replicas(t.at) : y \in out

(* Only points of a series that moves are forwarded, to the new pool.      *)
ForwardOK(f) ==
    /\ f.at \in Servers /\ f.pool = NumPools
    /\ \E s \in Series : PtsOK(f.pts, s, data) /\ Moves(s)

(* The responsible server orders its replica to drop a series that moves.  *)
DropPkg(x, pkg) ==
    /\ pkg.tp = "DROP_SERIES" /\ pkg.pts = {}
    /\ Moves(pkg.series) /\ Responsible(x, pkg.series)
FifoOK(x, pkg, d) ==
    /\ Replicas(x) # {}
    /\ Old(x, pkg.series)
    /\ \/ /\ pkg.tp = "INSERT" /\ PtsOK(pkg.pts, pkg.series, d)
          /\ Moves(pkg.series) => pkg.fl = "TEST"
       \/ DropPkg(x, pkg)

OneFromFifo == \A t, u \in locals : t.from = "fifo" /\ u.from = "fifo" /\ t.at = u.at => t = u
QueuesOK(f, d) == \A x \in Servers : \A i \in 1 .. Len(f[x]) : FifoOK(x, f[x][i], d)
OutOK(f, o) == \A x \in o : f[x] # <<>> /\ f[x][1].tp = "INSERT"

FlowInv ==
    /\ \A e \in inserts : InsertOK(e)
    /\ \A m \in net : NetOK(m)
    /\ \A t \in locals : LocalOK(t)
    /\ OneFromFifo
    /\ \A f \in forwards : ForwardOK(f)
    /\ QueuesOK(fifo, data)
    /\ OutOK(fifo, out)

(* A task moves a series that it is responsible for and that is no longer  *)
(* in its store.                                                           *)
Moving(x) ==
    /\ task[x].phase \in {"send", "wait", "answered"}
    /\ task[x].series \in todo[x] /\ PtsOK(task[x].pts, task[x].series, data)
    /\ Moves(task[x].series) /\ Old(x, task[x].series) /\ Responsible(x, task[x].series)
    /\ ~Has(x, task[x].series)
    /\ task[x].phase # "send" => registered = Servers
Working == [NoTask EXCEPT !.phase = "work"]

(* What has to leave is in the file, and a server with a file has a task.  *)
TaskOK(x) ==
    /\ task[x] = NoTask \/ task[x] = Working \/ Moving(x)
    /\ task[x].phase = "none" <=> x \notin busy
    /\ x \in busy <=> todo[x] # {}
    /\ \A s \in Series :
        x \in registered /\ Has(x, s) /\ Moves(s) /\ Responsible(x, s) => s \in todo[x]

TaskInv == \A x \in Servers : TaskOK(x)

(* A series that moves is left with the replica only as long as the        *)
(* responsible server has it, moves it, or orders to drop it.              *)
DropQueued(x, s) ==
    \E i \in 1 .. Len(fifo[x]) : fifo[x][i].tp = "DROP_SERIES" /\ fifo[x][i].series = s
LeftOK(y, s) ==
    Moves(s) /\ Has(y, s) =>
        \A x \in Replicas(y) : Responsible(x, s) =>
            Has(x, s) \/ task[x].series = s \/ DropQueued(x, s)
StoredOK(x, p) == store[x][p] > 0 => p \in data /\ Pool(x) \in Places(p[1])

StoreInv ==
    /\ \A x \in All, p \in Points : StoredOK(x, p)
    /\ \A y \in Servers, s \in Series : LeftOK(y, s)

(* Before all servers have registered, and before all are connected to the *)
(* new server, no insert is under way.                                     *)
StartInv == started \/ reach # {} \/ faults > 0 \/ ~Quiet => registered = Servers
Calm ==
    /\ inserts = {} /\ forwards = {}
    /\ \A t \in locals : t.at = New
    /\ \A m \in net : m.to = New
    /\ \A x \in Servers : \A i \in 1 .. Len(fifo[x]) : fifo[x][i].tp # "INSERT"
CalmInv == faults = 0 => gaveUp = {} /\ (reach # Servers => Calm)

Numbered == {q \in data : q[2] > 0}
DataInv == IsFiniteSet(Numbered) /\ \A p \in data : p[2] <= Cardinality(Numbered)

(* Where a point is, seen from a server x of its old pool: what its        *)
(* replica has does not count.                                             *)
Tags == {"insert", "net", "local", "forward", "task", "store", "fifo"}
InInserts(p) == {e \in inserts : e.pt = p}
InNet(p) == {m \in net : p \in m.pts}
InLocals(p, x) == {t \in locals : p \in t.pts /\ t.at \in {x, New}}
InForwards(p) == {f \in forwards : p \in f.pts}
InTasks(p) == {y \in Servers : task[y].phase = "send" /\ p \in task[y].pts}
InStores(p, x) == {c \in {x, New} \X {1, 2} : store[c[1]][p] >= c[2]}
InFifos(p, x) ==
    {c \in Replicas(x) \X Nat :
        /\ c[2] \in 1 .. Len(fifo[c[1]])
        /\ p \in fifo[c[1]][c[2]].pts /\ ~(c[2] = 1 /\ c[1] \in out)}

Where(p, x) ==
    [k \in Tags |->
        CASE k = "insert" -> InInserts(p)
          [] k = "net" -> InNet(p)
          [] k = "local" -> InLocals(p, x)
          [] k = "forward" -> InForwards(p)
          [] k = "task" -> InTasks(p)
          [] k = "store" -> InStores(p, x)
          [] k = "fifo" -> InFifos(p, x)]

Single(A) == \E a : A = {a}
One(w) == \E k \in Tags : Single(w[k]) /\ \A j \in Tags \ {k} : w[j] = {}
None(w) == \A k \in Tags : w[k] = {}

(* The servers of the old pool that must get every point of a series: all  *)
(* of them when it stays, the responsible one when it moves.               *)
Views(s) == {x \in Servers : Old(x, s) /\ (Moves(s) => Responsible(x, s))}

CarryInv ==
    \A p \in Points : \A x \in Views(p[1]) :
        /\ p \in data \ gaveUp => One(Where(p, x))
        /\ p \notin data \ gaveUp => None(Where(p, x))

ReInv ==
    ShapeInv /\ FlowInv /\ TaskInv /\ StoreInv /\ StartInv /\ CalmInv /\ DataInv /\ CarryInv

(* What Where consists of.                                                 *)
LEMMA WhereIs ==
    ASSUME NEW p, NEW x
    PROVE  LET w == Where(p, x)
           IN  /\ w["insert"] = InInserts(p) /\ w["net"] = InNet(p)
               /\ w["local"] = InLocals(p, x) /\ w["forward"] = InForwards(p)
               /\ w["task"] = InTasks(p) /\ w["store"] = InStores(p, x)
               /\ w["fifo"] = InFifos(p, x)
  BY DEF Where, Tags

(* The same in the next state.                                             *)
LEMMA WhereIsNext ==
    ASSUME NEW p, NEW x
    PROVE  LET w == Where(p, x)'
           IN  /\ w["insert"] = InInserts(p)' /\ w["net"] = InNet(p)'
               /\ w["local"] = InLocals(p, x)' /\ w["forward"] = InForwards(p)'
               /\ w["task"] = InTasks(p)' /\ w["store"] = InStores(p, x)'
               /\ w["fifo"] = InFifos(p, x)'
  BY DEF Where, Tags

(* No carrier is added.                                                    *)
Same(A, B) == (A = {} => B = {}) /\ (Single(A) => Single(B))

(* Nothing goes from one kind of carrier to another.                       *)
LEMMA StaysOne ==
    ASSUME NEW w, NEW v, \A k \in Tags : Same(w[k], v[k])
    PROVE  (One(w) => One(v)) /\ (None(w) => None(v))
  BY DEF Same, One, None

(* A carrier of kind j becomes one of kind k.                              *)
LEMMA MovesOne ==
    ASSUME NEW w, NEW v, NEW j \in Tags, NEW k \in Tags, j # k, One(w), NEW a \in w[j],
           v[j] = w[j] \ {a}, w[k] = {} => Single(v[k]),
           \A i \in Tags \ {j, k} : w[i] = {} => v[i] = {}
    PROVE  One(v)
<1>1. PICK l \in Tags : Single(w[l]) /\ \A i \in Tags \ {l} : w[i] = {}
  BY DEF One
<1>2. l = j
  BY <1>1
<1>3. w[j] = {a} /\ v[j] = {}
  BY <1>1, <1>2 DEF Single
<1>4. w[k] = {} /\ \A i \in Tags \ {j, k} : v[i] = {}
  BY <1>1, <1>2
<1> QED BY <1>3, <1>4 DEF One

(* A carrier of kind j is given up.                                        *)
LEMMA LosesOne ==
    ASSUME NEW w, NEW v, NEW j \in Tags, One(w), NEW a \in w[j], a \notin v[j],
           v[j] \subseteq w[j],
           \A i \in Tags \ {j} : w[i] = {} => v[i] = {}
    PROVE  None(v)
<1>1. PICK l \in Tags : Single(w[l]) /\ \A i \in Tags \ {l} : w[i] = {}
  BY DEF One
<1>2. l = j
  BY <1>1
<1>3. v[j] = {}
  BY <1>1, <1>2 DEF Single
<1> QED BY <1>1, <1>2, <1>3 DEF None

(* A point and its series.                                                 *)
LEMMA PointIs ==
    ASSUME NEW p \in Points
    PROVE  p[1] \in Series /\ p[2] \in 0 .. MaxPoints /\ p \in PointsOf(p[1])
  BY DEF Points, PointsOf

(* The copies in the store of x and of the new server.                     *)
Copies(n, x) == {c \in {x} \X {1, 2} : n >= c[2]}
(* As many as the store has, up to two.                                    *)
LEMMA CopiesAre ==
    ASSUME NEW n \in Nat, NEW x
    PROVE  /\ n = 0 => Copies(n, x) = {}
           /\ n = 1 => Copies(n, x) = {<<x, 1>>}
           /\ n > 0 => <<x, 1>> \in Copies(n, x)
           /\ n > 1 => <<x, 2>> \in Copies(n, x)
<1>1. \A c \in {x} \X {1, 2} : c = <<x, 1>> \/ c = <<x, 2>>
  OBVIOUS
<1>2. <<x, 1>> \in {x} \X {1, 2} /\ <<x, 2>> \in {x} \X {1, 2}
  OBVIOUS
<1>3. <<x, 1>>[2] = 1 /\ <<x, 2>>[2] = 2
  OBVIOUS
<1> QED BY <1>1, <1>2, <1>3 DEF Copies

(* They are counted up to two.                                             *)
LEMMA StoresIs ==
    ASSUME NEW p, NEW x
    PROVE  InStores(p, x) = Copies(store[x][p], x) \cup Copies(store[New][p], New)
<1>1. \A c \in {x} \X {1, 2} : c[1] = x
  OBVIOUS
<1>2. \A c \in {New} \X {1, 2} : c[1] = New
  OBVIOUS
<1>3. {x, New} \X {1, 2} = ({x} \X {1, 2}) \cup ({New} \X {1, 2})
  OBVIOUS
<1> QED BY <1>1, <1>2, <1>3 DEF InStores, Copies

-----------------------------------------------------------------------------
(* The beginning.                                                          *)

(* At first the servers of a pool have the points of its series.           *)
LEMMA InitStore ==
    ASSUME Init
    PROVE  /\ store \in [All -> [Points -> Nat]]
           /\ \A x \in All, p \in Points :
                store[x][p] = IF p \in data /\ prev_lookup[p[1]] = Pool(x) THEN 1 ELSE 0
           /\ data \subseteq Points /\ \A p \in data : p[2] = 0
<1>1. PICK old \in OldSeries : data = {<<s, 0>> : s \in old}
  BY DEF Init
<1>2. old \subseteq Series /\ 0 \in 0 .. MaxPoints
  BY ReindexAssumption
<1>3. data \subseteq Points /\ \A p \in data : p[2] = 0
  BY <1>1, <1>2 DEF Points
<1>4. store = [x \in All |-> [p \in Points |->
                    IF p \in data /\ prev_lookup[p[1]] = Pool(x) THEN 1 ELSE 0]]
  BY DEF Init
<1> QED BY <1>3, <1>4

(* At first everything has its type.                                       *)
LEMMA InitShape == Init => ShapeInv
<1> SUFFICES ASSUME Init PROVE ShapeInv
  OBVIOUS
<1>1. /\ registered = {} /\ started = FALSE /\ reach = {} /\ flag = {} /\ busy = {} /\ seen = {}
      /\ todo = [x \in Servers |-> {}]
      /\ inserts = {} /\ locals = {} /\ forwards = {} /\ net = {}
      /\ fifo = [x \in Servers |-> <<>>] /\ out = {} /\ gaveUp = {} /\ faults = 0
  BY DEF Init
<1>2. task = [x \in Servers |-> NoTask]
  BY DEF Init
<1>3. NoTask \in Pieces
  BY DEF NoTask, Pieces, Phases
<1>4. task \in [Servers -> Pieces]
  BY <1>2, <1>3
<1>5. \A x \in Servers :
        /\ task[x].phase \in Phases
        /\ task[x].series \in Series \cup {-1}
        /\ task[x].pts \subseteq Points
  BY <1>4 DEF Pieces
<1>6. \A x \in All : store[x] \in [Points -> Nat]
  BY InitStore
<1>7. 0 \in 0 .. MaxFaults
  BY ReindexAssumption
<1>8. fifo \in [Servers -> Seq(FifoPackage)]
  BY <1>1
<1> QED BY <1>1, <1>4, <1>5, <1>6, <1>7, <1>8, InitStore DEF ShapeInv, TypeOK

(* At first each point is in the stores of its pool.                       *)
LEMMA InitCarry == Init => CarryInv
<1> SUFFICES ASSUME Init, NEW p \in Points, NEW x \in Views(p[1])
             PROVE  /\ p \in data \ gaveUp => One(Where(p, x))
                    /\ p \notin data \ gaveUp => None(Where(p, x))
  BY DEF CarryInv
<1> DEFINE w == Where(p, x)
<1>1. x \in Servers /\ Pool(x) = prev_lookup[p[1]] /\ x # New /\ Pool(New) # prev_lookup[p[1]]
  BY NewPool, PointIs, SeriesPools, ReindexAssumption DEF Views, Old
<1>2. /\ w["insert"] = {} /\ w["net"] = {} /\ w["local"] = {} /\ w["forward"] = {}
  BY WhereIs DEF Init, InInserts, InNet, InLocals, InForwards
<1>3. w["task"] = {}
  <2>1. \A y \in Servers : task[y].phase = "none"
    BY DEF Init, NoTask
  <2> QED BY <2>1, WhereIs DEF InTasks
<1>4. w["fifo"] = {}
  <2>1. \A y \in Replicas(x) : y \in Servers /\ fifo[y] = <<>>
    BY <1>1, OneReplica DEF All, Init
  <2>2. \A y \in Replicas(x) : 1 .. Len(fifo[y]) = {}
    BY <2>1
  <2> QED BY <2>2, WhereIs DEF InFifos
<1>5. x \in All /\ New \in All
  BY <1>1 DEF All
<1>6. store[New][p] = 0 /\ store[x][p] = IF p \in data THEN 1 ELSE 0
  BY <1>1, <1>5, InitStore
<1>7. w["store"] = IF p \in data THEN {<<x, 1>>} ELSE {}
  <2>1. w["store"] = Copies(store[x][p], x) \cup Copies(store[New][p], New)
    BY WhereIs, StoresIs
  <2>2. Copies(0, New) = {} /\ Copies(0, x) = {} /\ Copies(1, x) = {<<x, 1>>}
    BY CopiesAre
  <2>3. Copies(store[x][p], x) = IF p \in data THEN {<<x, 1>>} ELSE {}
    BY <1>6, <2>2
  <2> QED BY <1>6, <2>1, <2>2, <2>3
<1>8. gaveUp = {}
  BY DEF Init
<1> HIDE DEF w
<1>9. \A k \in Tags : k # "store" => w[k] = {}
  BY <1>2, <1>3, <1>4 DEF Tags
<1>10. CASE p \in data
  <2>1. Single(w["store"])
    BY <1>7, <1>10 DEF Single
  <2>2. One(w)
    BY <1>9, <2>1 DEF One, Tags
  <2> QED BY <1>8, <1>10, <2>2 DEF w
<1>11. CASE p \notin data
  BY <1>7, <1>8, <1>9, <1>11 DEF None, w
<1> QED BY <1>10, <1>11

(* All parts hold at first.                                                *)
LEMMA InitReInv == Init => ReInv
<1> SUFFICES ASSUME Init PROVE ReInv
  OBVIOUS
<1>1. ShapeInv /\ CarryInv
  BY InitShape, InitCarry
<1>2. /\ registered = {} /\ started = FALSE /\ reach = {} /\ busy = {}
      /\ todo = [x \in Servers |-> {}]
      /\ inserts = {} /\ locals = {} /\ forwards = {} /\ net = {}
      /\ fifo = [x \in Servers |-> <<>>] /\ out = {} /\ gaveUp = {} /\ faults = 0
      /\ task = [x \in Servers |-> NoTask]
  BY DEF Init
<1>3. \A x \in Servers : Len(fifo[x]) = 0 /\ 1 .. Len(fifo[x]) = {}
  BY <1>2
<1>4. FlowInv
  BY <1>2, <1>3 DEF FlowInv, OneFromFifo, QueuesOK, OutOK
<1>5. TaskInv
  BY <1>2 DEF TaskInv, TaskOK, NoTask
<1>6. StoreInv
  <2>1. \A x \in All, p \in Points : StoredOK(x, p)
    BY InitStore DEF StoredOK, Places
  <2>2. ASSUME NEW y \in Servers, NEW s \in Series PROVE LeftOK(y, s)
    <3> SUFFICES ASSUME Has(y, s), NEW x \in Replicas(y) PROVE Has(x, s)
      BY DEF LeftOK
    <3>1. y \in All /\ x \in All /\ Pool(x) = Pool(y)
      BY OneReplica DEF All
    <3>2. PICK p \in PointsOf(s) : store[y][p] > 0
      BY DEF Has
    <3>3. p \in Points
      BY DEF PointsOf
    <3>4. store[x][p] > 0
      BY <3>1, <3>2, <3>3, InitStore
    <3> QED BY <3>2, <3>4 DEF Has
  <2> QED BY <2>1, <2>2 DEF StoreInv
<1>7. StartInv /\ CalmInv
  BY <1>2, <1>3 DEF StartInv, CalmInv, Quiet, Calm
<1>8. DataInv
  <2>1. Numbered = {}
    BY InitStore DEF Numbered
  <2>2. IsFiniteSet({}) /\ Cardinality({}) = 0
    BY FS_EmptySet
  <2> QED BY <2>1, <2>2, InitStore DEF DataInv
<1> QED BY <1>1, <1>4, <1>5, <1>6, <1>7, <1>8 DEF ReInv

-----------------------------------------------------------------------------
(* What the steps leave alone.                                             *)

Carried(p, x) ==
    /\ p \in data \ gaveUp => One(Where(p, x))
    /\ p \notin data \ gaveUp => None(Where(p, x))

(* A set that does not change.                                             *)
LEMMA SameSelf == \A A : Same(A, A)
  BY DEF Same

(* A point that a step does not touch.                                     *)
LEMMA CarriedKept ==
    ASSUME CarryInv, NEW p \in Points, NEW x \in Views(p[1]),
           Same(InInserts(p), InInserts(p)'), Same(InNet(p), InNet(p)'),
           Same(InLocals(p, x), InLocals(p, x)'), Same(InForwards(p), InForwards(p)'),
           Same(InTasks(p), InTasks(p)'), Same(InStores(p, x), InStores(p, x)'),
           Same(InFifos(p, x), InFifos(p, x)'),
           p \in data' \ gaveUp' <=> p \in data \ gaveUp
    PROVE  Carried(p, x)'
<1> DEFINE w == Where(p, x)
           v == Where(p, x)'
<1>1. \A k \in Tags : Same(w[k], v[k])
  BY WhereIs, WhereIsNext DEF Tags
<1>2. (p \in data \ gaveUp => One(w)) /\ (p \notin data \ gaveUp => None(w))
  BY DEF CarryInv
<1>3. (p \in data \ gaveUp => One(v)) /\ (p \notin data \ gaveUp => None(v))
  <2> HIDE DEF w, v
  <2> QED BY <1>1, <1>2, StaysOne
<1> QED BY <1>3 DEF Carried

(* The invariant about the places of points, point by point.               *)
LEMMA CarryIs == CarryInv' <=> \A p \in Points : \A x \in Views(p[1]) : Carried(p, x)'
  BY DEF CarryInv, Carried

(* Steps that touch no point.                                              *)
LEMMA PointsKept ==
    ASSUME ReInv, UNCHANGED pointVars
    PROVE  /\ FlowInv' /\ DataInv' /\ (Quiet' <=> Quiet) /\ (Calm' <=> Calm)
           /\ \A x \in All, s \in Series : Has(x, s)' <=> Has(x, s)
           /\ \A x \in All, p \in Points : StoredOK(x, p)'
           /\ \A x \in All, s \in Series : DropQueued(x, s)' <=> DropQueued(x, s)
           /\ gaveUp' = gaveUp
<1>1. /\ store' = store /\ inserts' = inserts /\ locals' = locals /\ forwards' = forwards
      /\ net' = net /\ fifo' = fifo /\ out' = out /\ data' = data /\ gaveUp' = gaveUp
  BY DEF pointVars
<1>2. FlowInv'
  BY <1>1 DEF ReInv, FlowInv, InsertOK, NetOK, LocalOK, ForwardOK, OneFromFifo
<1>3. DataInv'
  BY <1>1 DEF ReInv, DataInv, Numbered
<1>4. \A x \in All, p \in Points : StoredOK(x, p)'
  BY <1>1 DEF ReInv, StoreInv, StoredOK
<1> QED BY <1>1, <1>2, <1>3, <1>4 DEF Quiet, Calm, Has, DropQueued

(* No point moves when the tasks that send keep what they send.            *)
LEMMA CarryKept ==
    ASSUME ReInv, UNCHANGED pointVars, \A y \in Servers :
             /\ task'[y].phase = "send" <=> task[y].phase = "send"
             /\ task[y].phase = "send" => task'[y].pts = task[y].pts
    PROVE  CarryInv'
<1> SUFFICES ASSUME NEW p \in Points, NEW x \in Views(p[1]) PROVE Carried(p, x)'
  BY CarryIs
<1>1. /\ InInserts(p)' = InInserts(p) /\ InNet(p)' = InNet(p)
      /\ InLocals(p, x)' = InLocals(p, x) /\ InForwards(p)' = InForwards(p)
      /\ InStores(p, x)' = InStores(p, x) /\ InFifos(p, x)' = InFifos(p, x)
      /\ data' = data /\ gaveUp' = gaveUp
  BY DEF pointVars, InInserts, InNet, InLocals, InForwards, InStores, InFifos
<1>2. InTasks(p)' = InTasks(p)
  BY DEF InTasks
<1> QED BY <1>1, <1>2, CarriedKept, SameSelf DEF ReInv

-----------------------------------------------------------------------------
(* Registration, connections and flags.                                    *)

(* A server registers the new one: before that it has no task, and no      *)
(* point is under way.                                                     *)
LEMMA RegisterKeeps ==
    ASSUME ReInv, NEW x \in Servers, siridb_servers_register(x)
    PROVE  ReInv'
<1>1. /\ x \notin registered /\ registered' = registered \cup {x} /\ flag' = flag \cup {x}
      /\ todo' = [todo EXCEPT ![x] = {s \in Series : Has(x, s)}]
      /\ started' = started /\ reach' = reach /\ seen' = seen /\ faults' = faults
      /\ UNCHANGED pointVars
  BY DEF siridb_servers_register, linkVars
<1>2. \/ /\ \E s \in Series : Has(x, s)
         /\ busy' = busy \cup {x} /\ task' = [task EXCEPT ![x].phase = "work"]
      \/ /\ ~ \E s \in Series : Has(x, s)
         /\ busy' = busy /\ task' = task
  BY DEF siridb_servers_register
<1>3. x \notin busy /\ task[x] = NoTask /\ todo[x] = {}
  <2>1. x \notin busy
    BY <1>1 DEF ReInv, ShapeInv, TypeOK
  <2>2. TaskOK(x)
    BY DEF ReInv, TaskInv
  <2> QED BY <2>1, <2>2 DEF TaskOK, Working, NoTask, Moving
<1>4. task' \in [Servers -> Pieces]
  BY <1>2 DEF ReInv, ShapeInv, Pieces, Phases
<1>5. /\ task'[x] = IF \E s \in Series : Has(x, s) THEN Working ELSE NoTask
      /\ \A y \in Servers : y # x => task'[y] = task[y]
  BY <1>2, <1>3 DEF ReInv, ShapeInv, Working, NoTask
<1>6. /\ todo' \in [Servers -> SUBSET Series] /\ todo'[x] = {s \in Series : Has(x, s)}
      /\ \A y \in Servers : y # x => todo'[y] = todo[y]
  BY <1>1 DEF ReInv, ShapeInv, TypeOK
<1>7. ShapeInv'
  <2>1. \A y \in Servers :
            /\ task'[y].phase \in Phases
            /\ task'[y].series \in Series \cup {-1}
            /\ task'[y].pts \subseteq Points
    BY <1>4 DEF Pieces
  <2>2. /\ registered' \subseteq Servers /\ flag' \subseteq registered' /\ busy' \subseteq flag'
        /\ reach' \subseteq registered'
    BY <1>1, <1>2 DEF ReInv, ShapeInv, TypeOK
  <2> QED BY <1>1, <1>4, <1>6, <2>1, <2>2 DEF ReInv, ShapeInv, TypeOK, pointVars
<1>8. /\ FlowInv' /\ DataInv' /\ (Quiet' <=> Quiet) /\ (Calm' <=> Calm) /\ gaveUp' = gaveUp
      /\ \A y \in All, s \in Series : Has(y, s)' <=> Has(y, s)
      /\ \A y \in All, s \in Series : DropQueued(y, s)' <=> DropQueued(y, s)
      /\ \A y \in All, p \in Points : StoredOK(y, p)'
  BY <1>1, PointsKept
<1>9. registered # Servers
  BY <1>1
<1>10. TaskInv'
  <2> SUFFICES ASSUME NEW y \in Servers PROVE TaskOK(y)'
    BY DEF TaskInv
  <2>1. y \in All
    BY DEF All
  <2>2. CASE y = x
    <3>1. CASE \E s \in Series : Has(x, s)
      <4>1. task'[x] = Working /\ x \in busy' /\ todo'[x] # {}
        BY <1>2, <1>5, <1>6, <3>1
      <4> QED BY <1>6, <1>8, <2>1, <2>2, <4>1 DEF TaskOK, Working, NoTask
    <3>2. CASE ~ \E s \in Series : Has(x, s)
      <4>1. task'[x] = NoTask /\ x \notin busy' /\ todo'[x] = {}
        BY <1>2, <1>3, <1>5, <1>6, <3>2
      <4> QED BY <1>6, <1>8, <2>1, <2>2, <3>2, <4>1 DEF TaskOK, Working, NoTask
    <3> QED BY <3>1, <3>2
  <2>3. CASE y # x
    <3>1. TaskOK(y)
      BY DEF ReInv, TaskInv
    <3>2. task'[y] = task[y] /\ todo'[y] = todo[y] /\ (y \in busy' <=> y \in busy)
          /\ (y \in registered' <=> y \in registered) /\ data' = data
      BY <1>1, <1>2, <1>5, <1>6, <2>3 DEF pointVars
    <3>3. Moving(y) => Moving(y)'
      <4> SUFFICES ASSUME Moving(y) PROVE Moving(y)'
        OBVIOUS
      <4>1. task[y].phase = "send" /\ task[y].series \in Series
        BY <1>9 DEF Moving, ReInv, ShapeInv, TypeOK
      <4> QED BY <1>8, <2>1, <3>2, <4>1 DEF Moving
    <3> QED BY <1>8, <2>1, <3>1, <3>2, <3>3 DEF TaskOK
  <2> QED BY <2>2, <2>3
<1>11. StoreInv'
  <2>1. \A y \in Servers : task'[y].series = task[y].series
    BY <1>3, <1>5 DEF Working, NoTask
  <2>2. ASSUME NEW y \in Servers, NEW s \in Series PROVE LeftOK(y, s)'
    <3>1. LeftOK(y, s)
      BY DEF ReInv, StoreInv
    <3>2. y \in All /\ \A z \in Replicas(y) : z \in Servers /\ z \in All
      BY OneReplica DEF All
    <3> QED BY <1>8, <2>1, <3>1, <3>2 DEF LeftOK
  <2> QED BY <1>8, <2>2 DEF StoreInv
<1>12. StartInv'
  BY <1>1, <1>8, <1>9 DEF ReInv, StartInv
<1>13. CalmInv'
  BY <1>1, <1>8 DEF ReInv, CalmInv
<1>14. CarryInv'
  BY <1>1, <1>3, <1>5, CarryKept DEF Working, NoTask
<1> QED BY <1>7, <1>8, <1>10, <1>11, <1>12, <1>13, <1>14 DEF ReInv

(* Steps that touch neither points nor tasks.                              *)
LEMMA RestKept ==
    ASSUME ReInv, UNCHANGED pointVars, registered' = registered, todo' = todo, task' = task,
           busy' = busy
    PROVE  FlowInv' /\ DataInv' /\ TaskInv' /\ StoreInv' /\ CarryInv'
<1>1. /\ FlowInv' /\ DataInv'
      /\ \A y \in All, s \in Series : Has(y, s)' <=> Has(y, s)
      /\ \A y \in All, s \in Series : DropQueued(y, s)' <=> DropQueued(y, s)
      /\ \A y \in All, p \in Points : StoredOK(y, p)'
  BY PointsKept
<1>2. ASSUME NEW y \in Servers PROVE TaskOK(y)'
  <2>1. TaskOK(y) /\ y \in All /\ data' = data
    BY DEF ReInv, TaskInv, All, pointVars
  <2>2. Moving(y) => Moving(y)'
    <3> SUFFICES ASSUME Moving(y) PROVE Moving(y)'
      OBVIOUS
    <3>1. task[y].series \in Series
      BY DEF Moving, ReInv, ShapeInv, TypeOK
    <3> QED BY <1>1, <2>1, <3>1 DEF Moving
  <2> QED BY <1>1, <2>1, <2>2 DEF TaskOK
<1>3. ASSUME NEW y \in Servers, NEW s \in Series PROVE LeftOK(y, s)'
  <2>1. LeftOK(y, s)
    BY DEF ReInv, StoreInv
  <2>2. y \in All /\ \A z \in Replicas(y) : z \in Servers /\ z \in All
    BY OneReplica DEF All
  <2> QED BY <1>1, <2>1, <2>2 DEF LeftOK
<1>4. CarryInv'
  BY CarryKept
<1> QED BY <1>1, <1>2, <1>3, <1>4 DEF TaskInv, StoreInv

(* The new server is started.                                              *)
LEMMA StartNewKeeps ==
    ASSUME ReInv, StartNew
    PROVE  ReInv'
<1>1. /\ registered = Servers /\ started' = TRUE /\ registered' = registered
      /\ todo' = todo /\ task' = task /\ flag' = flag /\ busy' = busy
      /\ reach' = reach /\ seen' = seen /\ faults' = faults /\ UNCHANGED pointVars
  BY DEF StartNew, linkVars
<1>2. FlowInv' /\ DataInv' /\ TaskInv' /\ StoreInv' /\ CarryInv'
  BY <1>1, RestKept
<1>3. ShapeInv'
  BY <1>1 DEF ReInv, ShapeInv, TypeOK, pointVars
<1>4. StartInv' /\ CalmInv'
  BY <1>1, PointsKept DEF ReInv, StartInv, CalmInv
<1> QED BY <1>2, <1>3, <1>4 DEF ReInv

(* A server is connected to the new server, which runs only when all have  *)
(* registered.                                                             *)
LEMMA AuthKeeps ==
    ASSUME ReInv, NEW x \in Servers, SERVER_on_auth_response(x)
    PROVE  ReInv'
<1>1. /\ started /\ reach' = reach \cup {x} /\ registered' = registered /\ started' = started
      /\ todo' = todo /\ task' = task /\ flag' = flag /\ busy' = busy
      /\ seen' = seen /\ faults' = faults /\ UNCHANGED pointVars
  BY DEF SERVER_on_auth_response, regVars
<1>2. FlowInv' /\ DataInv' /\ TaskInv' /\ StoreInv' /\ CarryInv'
  BY <1>1, RestKept
<1>3. registered = Servers /\ reach \subseteq Servers
  BY <1>1 DEF ReInv, StartInv, ShapeInv, TypeOK
<1>4. ShapeInv'
  BY <1>1, <1>3 DEF ReInv, ShapeInv, TypeOK, pointVars
<1>5. (Quiet' <=> Quiet) /\ (Calm' <=> Calm) /\ gaveUp' = gaveUp
  BY <1>1, PointsKept
<1>6. StartInv' /\ CalmInv'
  BY <1>1, <1>3, <1>5 DEF ReInv, StartInv, CalmInv
<1> QED BY <1>2, <1>4, <1>6 DEF ReInv

(* The flags of an other server arrive.                                    *)
LEMMA FlagsKeeps ==
    ASSUME ReInv, NEW x \in Servers, NEW y \in All, BSERVER_flags_update(x, y)
    PROVE  ReInv'
<1>1. /\ registered' = registered /\ started' = started
      /\ todo' = todo /\ task' = task /\ busy' = busy
      /\ reach' = reach /\ faults' = faults /\ UNCHANGED pointVars
      /\ seen' = IF y \in busy THEN seen \cup {<<x, y>>} ELSE seen \ {<<x, y>>}
  BY DEF BSERVER_flags_update
<1>2. flag' = flag \/ (x \notin busy /\ flag' = flag \ {x})
  BY DEF BSERVER_flags_update, siridb_reindex_status_update
<1>3. FlowInv' /\ DataInv' /\ TaskInv' /\ StoreInv' /\ CarryInv'
  BY <1>1, RestKept
<1>4. busy \subseteq Servers /\ seen' \subseteq Servers \X Servers
  BY <1>1 DEF ReInv, ShapeInv, TypeOK
<1>5. ShapeInv'
  BY <1>1, <1>2, <1>4 DEF ReInv, ShapeInv, TypeOK, pointVars
<1>6. (Quiet' <=> Quiet) /\ (Calm' <=> Calm) /\ gaveUp' = gaveUp
  BY <1>1, PointsKept
<1>7. StartInv' /\ CalmInv'
  BY <1>1, <1>6 DEF ReInv, StartInv, CalmInv
<1> QED BY <1>3, <1>5, <1>7 DEF ReInv

-----------------------------------------------------------------------------
(* Points on their way.                                                    *)

(* A step that leaves stores and tasks alone.                              *)
LEMMA TasksKept ==
    ASSUME ReInv, UNCHANGED <<store, task, todo, busy, registered>>, data \subseteq data'
    PROVE  TaskInv'
<1> SUFFICES ASSUME NEW y \in Servers PROVE TaskOK(y)'
  BY DEF TaskInv
<1>1. TaskOK(y)
  BY DEF ReInv, TaskInv
<1>2. \A s : Has(y, s)' <=> Has(y, s)
  BY DEF Has
<1>3. Moving(y) => Moving(y)'
  BY <1>2 DEF Moving, PtsOK
<1> QED BY <1>1, <1>2, <1>3 DEF TaskOK

(* The same for what is stored, when no order to drop a series is taken    *)
(* away.                                                                   *)
LEMMA StoreKept ==
    ASSUME ReInv, UNCHANGED <<store, task>>, data \subseteq data',
           \A x \in Servers, s \in Series : DropQueued(x, s) => DropQueued(x, s)'
    PROVE  StoreInv'
<1>1. \A x \in All, p \in Points : StoredOK(x, p)'
  BY DEF ReInv, StoreInv, StoredOK
<1>2. ASSUME NEW y \in Servers, NEW s \in Series PROVE LeftOK(y, s)'
  <2>1. LeftOK(y, s)
    BY DEF ReInv, StoreInv
  <2>2. \A z \in Replicas(y) : z \in Servers
    BY OneReplica DEF All
  <2>3. \A z : Has(z, s)' <=> Has(z, s)
    BY DEF Has
  <2> QED BY <2>1, <2>2, <2>3 DEF LeftOK
<1> QED BY <1>1, <1>2 DEF StoreInv

(* What arrives at a server that a series is or will be on: seen from a    *)
(* server x of the old pool, it arrives there, at its replica or at the    *)
(* new server.                                                             *)
LEMMA ViewCases ==
    ASSUME NEW s \in Series, NEW x \in Views(s), NEW y \in All, Pool(y) \in Places(s)
    PROVE  /\ x \in Servers /\ x \in All /\ x # New /\ x \notin Replicas(x)
           /\ \/ y = x
              \/ y = New /\ Moves(s)
              \/ y \in Replicas(x) /\ x \in Replicas(y) /\ y # x /\ y # New
<1>1. x \in Servers /\ x \in All /\ x # New /\ Pool(x) = prev_lookup[s] /\ x \notin Replicas(x)
  BY ReindexAssumption DEF Views, Old, All, Replicas
<1>2. CASE Pool(y) = Pool(x)
  <2>1. y # New
    BY <1>1, <1>2, NewPool
  <2> QED BY <1>1, <1>2, <2>1, SamePool
<1>3. CASE Pool(y) # Pool(x)
  <2>1. Pool(y) = new_lookup[s] /\ Moves(s)
    BY <1>1, <1>3 DEF Places, Moves
  <2>2. Pool(y) = NumPools
    BY <2>1, SeriesPools
  <2>3. y = New
    BY <2>2, NewPool DEF All
  <2> QED BY <1>1, <2>1, <2>3
<1> QED BY <1>2, <1>3

(* siridb_replicate_pkg.                                                   *)
LEMMA Appended ==
    ASSUME ShapeInv, NEW x \in All, NEW pkg \in FifoPackage, ReplicatePkg(x, pkg)
    PROVE  /\ fifo' \in [Servers -> Seq(FifoPackage)]
           /\ Replicas(x) = {} => fifo' = fifo
           /\ Replicas(x) # {} =>
                /\ x \in Servers /\ Len(fifo[x]) \in Nat /\ Len(fifo'[x]) = Len(fifo[x]) + 1
                /\ fifo'[x][Len(fifo[x]) + 1] = pkg
                /\ \A i \in 1 .. Len(fifo[x]) : fifo'[x][i] = fifo[x][i]
           /\ \A y \in Servers : y # x => fifo'[y] = fifo[y]
<1>1. fifo \in [Servers -> Seq(FifoPackage)]
  BY DEF ShapeInv, TypeOK
<1>2. CASE Replicas(x) = {}
  BY <1>1, <1>2 DEF ReplicatePkg
<1>3. CASE Replicas(x) # {}
  <2>1. x \in Servers
    BY <1>3, NewPool DEF All
  <2>2. fifo' = [fifo EXCEPT ![x] = Append(@, pkg)]
    BY <1>3 DEF ReplicatePkg
  <2>3. fifo[x] \in Seq(FifoPackage)
    BY <1>1, <2>1
  <2>4. fifo'[x] = Append(fifo[x], pkg) /\ \A y \in Servers : y # x => fifo'[y] = fifo[y]
    BY <1>1, <2>1, <2>2
  <2>5. Append(fifo[x], pkg) \in Seq(FifoPackage)
    BY <2>3
  <2>6. fifo' \in [Servers -> Seq(FifoPackage)]
    BY <1>1, <2>2, <2>5
  <2>7. /\ Len(fifo[x]) \in Nat /\ Len(fifo'[x]) = Len(fifo[x]) + 1
        /\ fifo'[x][Len(fifo[x]) + 1] = pkg
        /\ \A i \in 1 .. Len(fifo[x]) : fifo'[x][i] = fifo[x][i]
    BY <2>3, <2>4
  <2> QED BY <1>3, <2>1, <2>4, <2>6, <2>7
<1> QED BY <1>2, <1>3

(* The queues are in order after it, when the package is.                  *)
LEMMA AppendQueues ==
    ASSUME ShapeInv, FlowInv, NEW x \in All, NEW pkg \in FifoPackage, ReplicatePkg(x, pkg),
           data \subseteq data', Replicas(x) # {} => FifoOK(x, pkg, data')
    PROVE  /\ QueuesOK(fifo', data') /\ OutOK(fifo', out)
           /\ \A y \in Servers, s \in Series : DropQueued(y, s) => DropQueued(y, s)'
           /\ Replicas(x) # {} /\ pkg.tp = "DROP_SERIES" => DropQueued(x, pkg.series)'
<1>1. /\ fifo' \in [Servers -> Seq(FifoPackage)]
      /\ Replicas(x) = {} => fifo' = fifo
      /\ Replicas(x) # {} =>
           /\ x \in Servers /\ Len(fifo[x]) \in Nat /\ Len(fifo'[x]) = Len(fifo[x]) + 1
           /\ fifo'[x][Len(fifo[x]) + 1] = pkg
           /\ \A i \in 1 .. Len(fifo[x]) : fifo'[x][i] = fifo[x][i]
      /\ \A y \in Servers : y # x => fifo'[y] = fifo[y]
  BY Appended
<1>2. \A y \in Servers : fifo[y] \in Seq(FifoPackage) /\ Len(fifo[y]) \in Nat
  BY DEF ShapeInv, TypeOK
<1>3. \A y, q : FifoOK(y, q, data) => FifoOK(y, q, data')
  BY DEF FifoOK, PtsOK
<1>4. ASSUME NEW y \in Servers
      PROVE  /\ \A i \in 1 .. Len(fifo[y]) : i \in 1 .. Len(fifo'[y]) /\ fifo'[y][i] = fifo[y][i]
             /\ \A i \in 1 .. Len(fifo'[y]) : FifoOK(y, fifo'[y][i], data')
  <2>0. \A i \in 1 .. Len(fifo[y]) : FifoOK(y, fifo[y][i], data')
    BY <1>3 DEF FlowInv, QueuesOK
  <2>1. CASE fifo'[y] = fifo[y]
    BY <2>0, <2>1
  <2>2. CASE fifo'[y] # fifo[y]
    <3>1. y = x /\ Replicas(x) # {}
      BY <1>1, <2>2
    <3>2. \A i \in 1 .. Len(fifo[y]) : i \in 1 .. Len(fifo'[y]) /\ fifo'[y][i] = fifo[y][i]
      BY <1>1, <1>2, <3>1
    <3>3. \A i \in 1 .. Len(fifo'[y]) : i \in 1 .. Len(fifo[y]) \/ i = Len(fifo[x]) + 1
      BY <1>1, <1>2, <3>1
    <3> QED BY <1>1, <2>0, <3>1, <3>2, <3>3
  <2> QED BY <2>1, <2>2
<1>5. QueuesOK(fifo', data')
  BY <1>4 DEF QueuesOK
<1>6. ASSUME NEW y \in out PROVE fifo'[y] # <<>> /\ fifo'[y][1].tp = "INSERT"
  <2>1. y \in Servers /\ fifo[y] # <<>> /\ fifo[y][1].tp = "INSERT"
    BY DEF ShapeInv, TypeOK, FlowInv, OutOK
  <2>2. 1 \in 1 .. Len(fifo[y])
    BY <1>2, <2>1
  <2>3. 1 \in 1 .. Len(fifo'[y]) /\ fifo'[y][1] = fifo[y][1]
    BY <1>4, <2>1, <2>2
  <2> QED BY <2>1, <2>3
<1>7. \A y \in Servers, s \in Series : DropQueued(y, s) => DropQueued(y, s)'
  BY <1>4 DEF DropQueued
<1>8. Replicas(x) # {} /\ pkg.tp = "DROP_SERIES" => DropQueued(x, pkg.series)'
  <2> SUFFICES ASSUME Replicas(x) # {}, pkg.tp = "DROP_SERIES" PROVE DropQueued(x, pkg.series)'
    OBVIOUS
  <2>1. Len(fifo[x]) + 1 \in 1 .. Len(fifo'[x])
    BY <1>1
  <2> QED BY <1>1, <2>1 DEF DropQueued
<1> QED BY <1>5, <1>6, <1>7, <1>8 DEF OutOK

(* The points in the queues after it: those that the replica will get.     *)
LEMMA AppendFifos ==
    ASSUME ShapeInv, FlowInv, NEW x \in All, NEW pkg \in FifoPackage, ReplicatePkg(x, pkg),
           out' = out, NEW p, NEW y \in Servers
    PROVE  /\ p \notin pkg.pts \/ x \notin Replicas(y) => InFifos(p, y)' = InFifos(p, y)
           /\ p \in pkg.pts /\ x \in Replicas(y) =>
                InFifos(p, y)' = InFifos(p, y) \cup {<<x, Len(fifo[x]) + 1>>}
<1>1. /\ Replicas(x) = {} => fifo' = fifo
      /\ Replicas(x) # {} =>
           /\ x \in Servers /\ Len(fifo[x]) \in Nat /\ Len(fifo'[x]) = Len(fifo[x]) + 1
           /\ fifo'[x][Len(fifo[x]) + 1] = pkg
           /\ \A i \in 1 .. Len(fifo[x]) : fifo'[x][i] = fifo[x][i]
      /\ \A z \in Servers : z # x => fifo'[z] = fifo[z]
  BY Appended
<1>2. \A z \in Servers : fifo[z] \in Seq(FifoPackage) /\ Len(fifo[z]) \in Nat
  BY DEF ShapeInv, TypeOK
<1>3. y \in All
  BY DEF All
<1> DEFINE In(z, i) == i \in 1 .. Len(fifo[z]) /\ p \in fifo[z][i].pts /\ ~(i = 1 /\ z \in out)
           In2(z, i) == i \in 1 .. Len(fifo'[z]) /\ p \in fifo'[z][i].pts /\ ~(i = 1 /\ z \in out)
<1>4. /\ InFifos(p, y) = {c \in Replicas(y) \X Nat : In(c[1], c[2])}
      /\ InFifos(p, y)' = {c \in Replicas(y) \X Nat : In2(c[1], c[2])}
  BY DEF InFifos
<1>5. \A z \in Servers : z # x => \A i : In2(z, i) <=> In(z, i)
  BY <1>1
<1>6. CASE x \notin Replicas(y)
  <2>1. \A z \in Replicas(y) : z \in Servers /\ z # x
    BY <1>3, <1>6, OneReplica
  <2>2. \A c \in Replicas(y) \X Nat : In2(c[1], c[2]) <=> In(c[1], c[2])
    BY <1>5, <2>1
  <2> QED BY <1>4, <1>6, <2>2
<1>7. CASE x \in Replicas(y)
  <2>1. Replicas(y) = {x} /\ Replicas(x) # {} /\ x \in Servers
    BY <1>3, <1>7, OneReplica
  <2> DEFINE n == Len(fifo[x]) + 1
  <2>2. n \in Nat /\ n - 1 \in Nat /\ Len(fifo[x]) = n - 1 /\ Len(fifo'[x]) = n
    BY <1>1, <2>1
  <2>3. \A i \in Nat : i # n => (In2(x, i) <=> In(x, i))
    BY <1>1, <2>1, <2>2
  <2>4. ~(n = 1 /\ x \in out)
    BY <1>2, <2>1, <2>2 DEF FlowInv, OutOK
  <2>5. In2(x, n) <=> p \in pkg.pts
    BY <1>1, <2>1, <2>2, <2>4
  <2>6. ~In(x, n)
    BY <2>2
  <2> HIDE DEF n, In, In2
  <2>7. \A c \in Replicas(y) \X Nat : c = <<x, c[2]>> /\ c[1] = x /\ c[2] \in Nat
    BY <2>1
  <2>8. <<x, n>> \in Replicas(y) \X Nat
    BY <2>1, <2>2
  <2>9. CASE p \notin pkg.pts
    <3>1. \A c \in Replicas(y) \X Nat : In2(c[1], c[2]) <=> In(c[1], c[2])
      BY <2>3, <2>5, <2>6, <2>7, <2>9
    <3> QED BY <1>4, <2>9, <3>1
  <2>10. CASE p \in pkg.pts
    <3>1. \A c \in Replicas(y) \X Nat : In2(c[1], c[2]) <=> In(c[1], c[2]) \/ c = <<x, n>>
      BY <2>3, <2>5, <2>6, <2>7, <2>10
    <3>2. InFifos(p, y)' = InFifos(p, y) \cup {<<x, n>>}
      BY <1>4, <2>8, <3>1
    <3> QED BY <1>7, <2>10, <3>2 DEF n
  <2> QED BY <2>9, <2>10
<1> QED BY <1>6, <1>7

(* A point that was nowhere is accepted.                                   *)
LEMMA AppearsOne ==
    ASSUME NEW w, NEW v, NEW j \in Tags, None(w), Single(v[j]),
           \A i \in Tags \ {j} : v[i] = w[i]
    PROVE  One(v)
  BY DEF None, One

(* A point is accepted: its number is new, and INSERT_get_pool names the   *)
(* old or the new pool of its series.                                      *)
LEMMA OnInsertKeeps ==
    ASSUME ReInv, "busy" \notin Env, NEW x \in All, NEW s \in Series, on_insert(x, s)
    PROVE  ReInv'
<1> DEFINE N == Cardinality(Numbered)
           p == <<s, N + 1>>
           e == [at |-> x, pt |-> p, pool |-> INSERT_get_pool(x, s),
                 fl |-> IF x \in flag THEN "TEST" ELSE "none"]
<1>1. /\ N < MaxPoints /\ data' = data \cup {p} /\ inserts' = inserts \cup {e}
  BY DEF on_insert, Numbered
<1>2. /\ registered' = registered /\ started' = started /\ todo' = todo /\ task' = task
      /\ flag' = flag /\ busy' = busy /\ reach' = reach /\ seen' = seen /\ faults' = faults
      /\ store' = store /\ locals' = locals /\ forwards' = forwards /\ net' = net
      /\ fifo' = fifo /\ out' = out /\ gaveUp' = gaveUp
  BY DEF on_insert, regVars, linkVars
<1>3. registered = Servers /\ (faults > 0 \/ reach = Servers)
  BY ReindexAssumption DEF on_insert, Settled, ReInv, StartInv
<1>4. N \in Nat
  BY FS_CardinalityType DEF ReInv, DataInv
<1>5. p \in Points /\ p \in PointsOf(s) /\ p[1] = s /\ p[2] = N + 1 /\ p[2] > 0
  BY <1>1, <1>4, ReindexAssumption DEF Points, PointsOf
<1>6. p \notin data
  <2>1. p \in data => p[2] <= N
    BY DEF ReInv, DataInv
  <2> QED BY <1>4, <1>5, <2>1
<1>7. /\ INSERT_get_pool(x, s) \in Places(s)
      /\ Moves(s) /\ INSERT_get_pool(x, s) = prev_lookup[s] => x \in flag
  <2>1. CASE x \notin flag
    <3>1. INSERT_get_pool(x, s) = new_lookup[s]
      BY <1>3, <2>1 DEF INSERT_get_pool, lookup, All
    <3> QED BY <3>1 DEF Places, Moves
  <2>2. CASE x \in flag
    <3>1. Has(x, s) => Pool(x) \in Places(s)
      <4> SUFFICES ASSUME Has(x, s) PROVE Pool(x) \in Places(s)
        OBVIOUS
      <4>1. PICK q \in PointsOf(s) : store[x][q] > 0
        BY DEF Has
      <4>2. q \in Points /\ q[1] = s
        BY DEF PointsOf
      <4> QED BY <4>1, <4>2 DEF ReInv, StoreInv, StoredOK
    <3> QED BY <2>2, <3>1 DEF INSERT_get_pool, Places
  <2> QED BY <2>1, <2>2
<1>8. INSERT_get_pool(x, s) \in 0 .. NumPools
  BY <1>7, SeriesPools, PoolNumber DEF Places
<1>9. e \in Insert
  BY <1>5, <1>8 DEF Insert, Flags
<1> HIDE DEF p, e
<1>10. PICK new \in Insert : new = e
  BY <1>9
<1>11. new.pt = p /\ inserts' = inserts \cup {new}
  BY <1>1, <1>10 DEF e
<1>12. InsertOK(new)'
  <2>1. new.pool \in Places(s) /\ (Moves(s) /\ new.pool = prev_lookup[s] => new.fl = "TEST")
    BY <1>7, <1>10 DEF e
  <2> QED BY <1>1, <1>5, <1>11, <2>1 DEF InsertOK
<1>13. ShapeInv'
  BY <1>1, <1>2, <1>5, <1>11 DEF ReInv, ShapeInv, TypeOK
<1>14. data \subseteq data'
  BY <1>1
<1>15. FlowInv'
  <2>1. \A i \in inserts' : InsertOK(i)'
    BY <1>14, <1>11, <1>12 DEF ReInv, FlowInv, InsertOK
  <2>2. \A y, pts, fl : ArrivesOK(y, pts, fl, data) => ArrivesOK(y, pts, fl, data')
    BY <1>14 DEF ArrivesOK, PtsOK
  <2>3. (\A m \in net' : NetOK(m)') /\ (\A t \in locals' : LocalOK(t)')
    BY <1>2, <2>2 DEF ReInv, FlowInv, NetOK, LocalOK
  <2>4. \A f \in forwards' : ForwardOK(f)'
    BY <1>2, <1>14 DEF ReInv, FlowInv, ForwardOK, PtsOK
  <2>5. QueuesOK(fifo, data')
    BY <1>14 DEF ReInv, FlowInv, QueuesOK, FifoOK, PtsOK
  <2> QED BY <1>2, <2>1, <2>3, <2>4, <2>5 DEF ReInv, FlowInv, OneFromFifo
<1>16. TaskInv' /\ StoreInv'
  BY <1>2, <1>14, TasksKept, StoreKept DEF DropQueued
<1>17. StartInv' /\ CalmInv'
  <2>1. faults \in Nat
    BY DEF ReInv, ShapeInv, TypeOK
  <2> QED BY <1>2, <1>3, <2>1 DEF ReInv, StartInv, CalmInv
<1>18. DataInv'
  <2>1. Numbered' = Numbered \cup {p} /\ p \notin Numbered
    BY <1>1, <1>5, <1>6 DEF Numbered
  <2>2. IsFiniteSet(Numbered)
    BY DEF ReInv, DataInv
  <2>3. IsFiniteSet(Numbered \cup {p}) /\ Cardinality(Numbered \cup {p}) = N + 1
    BY <2>1, <2>2, FS_AddElement
  <2>4. \A q \in data : q[2] <= N /\ q[2] \in Int
    <3>1. \A q \in data : q \in Points
      BY DEF ReInv, ShapeInv, TypeOK
    <3> QED BY <3>1, PointIs DEF ReInv, DataInv
  <2>5. \A q \in data' : q[2] <= N + 1
    BY <1>1, <1>4, <1>5, <2>4
  <2> QED BY <2>1, <2>3, <2>5 DEF DataInv
<1>19. CarryInv'
  <2> SUFFICES ASSUME NEW q \in Points, NEW y \in Views(q[1]) PROVE Carried(q, y)'
    BY CarryIs
  <2>1. /\ InNet(q)' = InNet(q) /\ InLocals(q, y)' = InLocals(q, y)
        /\ InForwards(q)' = InForwards(q) /\ InTasks(q)' = InTasks(q)
        /\ InStores(q, y)' = InStores(q, y) /\ InFifos(q, y)' = InFifos(q, y)
    BY <1>2 DEF InNet, InLocals, InForwards, InTasks, InStores, InFifos
  <2>2. InInserts(q)' = IF q = p THEN InInserts(q) \cup {new} ELSE InInserts(q)
    BY <1>11 DEF InInserts
  <2>3. CASE q # p
    <3>1. q \in data' \ gaveUp' <=> q \in data \ gaveUp
      BY <1>1, <1>2, <2>3
    <3> QED BY <2>1, <2>2, <2>3, <3>1, CarriedKept, SameSelf DEF ReInv
  <2>4. CASE q = p
    <3> DEFINE w == Where(q, y)
               v == Where(q, y)'
    <3>1. None(w)
      BY <1>6, <2>4 DEF ReInv, CarryInv
    <3>2. InInserts(q) = {}
      BY <3>1, WhereIs DEF None, Tags
    <3>3. Single(v["insert"])
      BY <2>2, <2>4, <3>2, WhereIsNext DEF Single
    <3>4. \A i \in Tags \ {"insert"} : v[i] = w[i]
      BY <2>1, WhereIs, WhereIsNext DEF Tags
    <3>5. "insert" \in Tags
      BY DEF Tags
    <3> HIDE DEF w, v
    <3>6. One(v)
      BY <3>1, <3>3, <3>4, <3>5, AppearsOne
    <3>7. p \in data' /\ p \notin gaveUp'
      BY <1>1, <1>2, <1>6 DEF ReInv, ShapeInv, TypeOK
    <3> QED BY <2>4, <3>6, <3>7 DEF Carried, v
  <2> QED BY <2>3, <2>4
<1> QED BY <1>13, <1>15, <1>16, <1>17, <1>18, <1>19 DEF ReInv

(* SeriesOf finds the series of points that travel together.               *)
LEMMA SeriesOfIs ==
    ASSUME NEW s \in Series, NEW d, NEW pts, PtsOK(pts, s, d)
    PROVE  /\ SeriesOf(pts) = s /\ pts \subseteq Points
           /\ \A p \in pts : p \in Points /\ p[1] = s /\ p \in d
<1>1. \A p \in pts : p \in Points /\ p[1] = s /\ p \in d
  BY DEF PtsOK, PointsOf
<1>2. (CHOOSE p \in pts : TRUE) \in pts
  BY DEF PtsOK
<1> QED BY <1>1, <1>2 DEF SeriesOf

(* A server with a replica is in an old pool.                              *)
LEMMA PairIsOld ==
    ASSUME NEW s \in Series, NEW y \in Servers, Pool(y) \in Places(s)
    PROVE  Old(y, s)
  BY NewPool, SeriesPools DEF Places, Old, Moves

(* A point that is on its way was not given up.                            *)
LEMMA OnItsWay ==
    ASSUME ReInv, NEW p \in Points, NEW x \in Views(p[1]), NEW j \in Tags,
           Where(p, x)[j] # {}
    PROVE  One(Where(p, x)) /\ p \in data \ gaveUp
  BY DEF ReInv, CarryInv, None

(* INSERT_init_local and siridb_replicate_pkg: what a, an insert or a      *)
(* package, brings to a server is in a local task and in the fifo.         *)
LEMMA ArriveKeeps ==
    ASSUME ReInv, NEW l \in Local, ArrivesOK(l.at, l.pts, l.fl, data),
           l.from # "fifo", l.from \in All => l.at = New,
           locals' = locals \cup {l},
           ReplicatePkg(l.at, InsertPkg(SeriesOf(l.pts), l.pts, l.fl)), NEW a,
           \/ a \in inserts /\ inserts' = inserts \ {a} /\ net' = net /\ l.pts = {a.pt}
           \/ /\ a \in net /\ net' = net \ {a} /\ inserts' = inserts
              /\ l.pts = a.pts /\ l.at = a.to,
           UNCHANGED <<regVars, linkVars, store, forwards, out, data, gaveUp>>
    PROVE  ReInv'
<1>1. /\ registered' = registered /\ started' = started /\ todo' = todo /\ task' = task
      /\ flag' = flag /\ busy' = busy /\ reach' = reach /\ seen' = seen /\ faults' = faults
      /\ store' = store /\ forwards' = forwards /\ out' = out /\ data' = data
      /\ gaveUp' = gaveUp
  BY DEF regVars, linkVars
<1>2. l.at \in All /\ l.fl \in Flags /\ l.pts \subseteq Points
  BY DEF Local
<1>3. PICK s \in Series : /\ PtsOK(l.pts, s, data) /\ Pool(l.at) \in Places(s)
                          /\ Moves(s) /\ Old(l.at, s) => l.fl = "TEST"
  BY DEF ArrivesOK
<1> DEFINE pkg == InsertPkg(s, l.pts, l.fl)
<1>4. ReplicatePkg(l.at, pkg)
  BY <1>3, SeriesOfIs
<1>5. /\ pkg \in FifoPackage /\ pkg.tp = "INSERT" /\ pkg.series = s /\ pkg.pts = l.pts
      /\ pkg.fl = l.fl
  BY <1>2 DEF InsertPkg, FifoPackage
<1>6. Replicas(l.at) # {} => FifoOK(l.at, pkg, data)
  <2> SUFFICES ASSUME Replicas(l.at) # {} PROVE FifoOK(l.at, pkg, data)
    OBVIOUS
  <2>1. l.at \in Servers
    BY <1>2, NewPool DEF All
  <2>2. Old(l.at, s)
    BY <1>3, <2>1, PairIsOld
  <2> QED BY <1>3, <1>5, <2>2 DEF FifoOK
<1> HIDE DEF pkg
<1>7. ShapeInv /\ FlowInv
  BY DEF ReInv
<1>8. /\ QueuesOK(fifo', data') /\ OutOK(fifo', out)
      /\ \A y \in Servers, r \in Series : DropQueued(y, r) => DropQueued(y, r)'
  BY <1>1, <1>2, <1>4, <1>5, <1>6, <1>7, AppendQueues
<1>9. fifo' \in [Servers -> Seq(FifoPackage)]
  BY <1>2, <1>4, <1>5, <1>7, Appended
<1>10. ShapeInv'
  BY <1>1, <1>9 DEF ReInv, ShapeInv, TypeOK
<1>11. FlowInv'
  <2>1. LocalOK(l)'
    BY <1>1 DEF LocalOK
  <2>2. \A t \in locals : LocalOK(t)'
    BY <1>1 DEF ReInv, FlowInv, LocalOK
  <2>3. (\A i \in inserts' : InsertOK(i)') /\ (\A m \in net' : NetOK(m)')
    BY <1>1 DEF ReInv, FlowInv, InsertOK, NetOK
  <2>4. \A f \in forwards' : ForwardOK(f)'
    BY <1>1 DEF ReInv, FlowInv, ForwardOK
  <2>5. OneFromFifo'
    BY DEF ReInv, FlowInv, OneFromFifo
  <2> QED BY <1>1, <1>8, <2>1, <2>2, <2>3, <2>4, <2>5 DEF FlowInv
<1>12. TaskInv' /\ StoreInv'
  BY <1>1, <1>8, TasksKept, StoreKept
<1>13. StartInv'
  <2>1. registered = Servers
    BY DEF ReInv, StartInv, Quiet
  <2> QED BY <1>1, <2>1 DEF StartInv
<1>14. CalmInv'
  <2> SUFFICES ASSUME faults = 0, reach # Servers PROVE Calm'
    BY <1>1 DEF ReInv, CalmInv
  <2>1. Calm
    BY DEF ReInv, CalmInv
  <2>2. l.at = New /\ inserts' = {} /\ \A m \in net' : m.to = New
    BY <2>1 DEF Calm
  <2>3. fifo' = fifo
    BY <1>4, <2>2, NewPool DEF ReplicatePkg
  <2> QED BY <1>1, <2>1, <2>2, <2>3 DEF Calm
<1>15. DataInv'
  BY <1>1 DEF ReInv, DataInv, Numbered
<1>16. CarryInv'
  <2> SUFFICES ASSUME NEW p \in Points, NEW y \in Views(p[1]) PROVE Carried(p, y)'
    BY CarryIs
  <2>1. y \in Servers
    BY DEF Views
  <2>2. /\ InForwards(p)' = InForwards(p) /\ InTasks(p)' = InTasks(p)
        /\ InStores(p, y)' = InStores(p, y)
    BY <1>1 DEF InForwards, InTasks, InStores
  <2>3. InLocals(p, y)' = IF p \in l.pts /\ l.at \in {y, New}
                          THEN InLocals(p, y) \cup {l} ELSE InLocals(p, y)
    BY DEF InLocals
  <2>4. /\ p \notin l.pts \/ l.at \notin Replicas(y) => InFifos(p, y)' = InFifos(p, y)
        /\ p \in l.pts /\ l.at \in Replicas(y) =>
             InFifos(p, y)' = InFifos(p, y) \cup {<<l.at, Len(fifo[l.at]) + 1>>}
    BY <1>1, <1>2, <1>4, <1>5, <1>7, <2>1, AppendFifos
  <2>5. CASE p \notin l.pts
    <3>1. InInserts(p)' = InInserts(p) /\ InNet(p)' = InNet(p)
      BY <2>5 DEF InInserts, InNet
    <3>2. InLocals(p, y)' = InLocals(p, y) /\ InFifos(p, y)' = InFifos(p, y)
      BY <2>3, <2>4, <2>5
    <3> QED BY <1>1, <2>2, <3>1, <3>2, CarriedKept, SameSelf DEF ReInv
  <2>6. CASE p \in l.pts
    <3> DEFINE w == Where(p, y)
               v == Where(p, y)'
    <3>1. PICK j \in {"insert", "net"} :
            /\ a \in w[j] /\ v[j] = w[j] \ {a}
            /\ \A i \in {"insert", "net"} \ {j} : v[i] = w[i]
      <4>1. CASE a \in inserts /\ inserts' = inserts \ {a} /\ net' = net /\ l.pts = {a.pt}
        <5>1. a \in InInserts(p) /\ InInserts(p)' = InInserts(p) \ {a} /\ InNet(p)' = InNet(p)
          BY <2>6, <4>1 DEF InInserts, InNet
        <5> QED BY <5>1, WhereIs, WhereIsNext
      <4>2. CASE a \in net /\ net' = net \ {a} /\ inserts' = inserts /\ l.pts = a.pts
        <5>1. a \in InNet(p) /\ InNet(p)' = InNet(p) \ {a} /\ InInserts(p)' = InInserts(p)
          BY <2>6, <4>2 DEF InInserts, InNet
        <5> QED BY <5>1, WhereIs, WhereIsNext
      <4> QED BY <4>1, <4>2
    <3>2. j \in Tags /\ "local" \in Tags /\ "fifo" \in Tags /\ j # "local" /\ j # "fifo"
      BY DEF Tags
    <3>3. w[j] # {}
      BY <3>1
    <3>4. One(w) /\ p \in data \ gaveUp
      BY <3>2, <3>3, OnItsWay
    <3>5. p[1] = s
      BY <1>3, <2>6, SeriesOfIs
    <3>6. \/ l.at \in {y, New} /\ l.at \notin Replicas(y)
          \/ l.at \in Replicas(y) /\ l.at \notin {y, New}
      <4>1. New \notin Replicas(y)
        BY <2>1, OneReplica, ReindexAssumption DEF All
      <4>2. y \in Views(s)
        BY <3>5
      <4>3. /\ y # New /\ y \notin Replicas(y)
            /\ l.at = y \/ l.at = New \/ (l.at \in Replicas(y) /\ l.at # y /\ l.at # New)
        BY <1>2, <1>3, <4>2, ViewCases
      <4> QED BY <4>1, <4>3
    <3>7. PICK k \in {"local", "fifo"} :
            /\ w[k] = {} => Single(v[k])
            /\ \A i \in {"local", "fifo"} \ {k} : v[i] = w[i]
      <4>1. CASE l.at \in {y, New} /\ l.at \notin Replicas(y)
        <5>1. InLocals(p, y)' = InLocals(p, y) \cup {l} /\ InFifos(p, y)' = InFifos(p, y)
          BY <2>3, <2>4, <2>6, <4>1
        <5>2. v["fifo"] = w["fifo"] /\ v["local"] = w["local"] \cup {l}
          BY <5>1, WhereIs, WhereIsNext
        <5>3. w["local"] = {} => Single(v["local"])
          BY <5>2 DEF Single
        <5> QED BY <5>2, <5>3
      <4>2. CASE l.at \in Replicas(y) /\ l.at \notin {y, New}
        <5>1. /\ InLocals(p, y)' = InLocals(p, y)
              /\ InFifos(p, y)' = InFifos(p, y) \cup {<<l.at, Len(fifo[l.at]) + 1>>}
          BY <2>3, <2>4, <2>6, <4>2
        <5>2. v["local"] = w["local"] /\ v["fifo"] = w["fifo"] \cup {<<l.at, Len(fifo[l.at]) + 1>>}
          BY <5>1, WhereIs, WhereIsNext
        <5>3. w["fifo"] = {} => Single(v["fifo"])
          BY <5>2 DEF Single
        <5> QED BY <5>2, <5>3
      <4> QED BY <3>6, <4>1, <4>2
    <3>8. \A i \in {"forward", "task", "store"} : v[i] = w[i]
      BY <2>2, WhereIs, WhereIsNext
    <3>9. \A i \in Tags \ {j, k} : v[i] = w[i]
      BY <3>1, <3>7, <3>8 DEF Tags
    <3> HIDE DEF w, v
    <3>10. k \in Tags /\ j # k
      BY <3>2, <3>7
    <3>11. One(v)
      BY <3>1, <3>2, <3>4, <3>7, <3>9, <3>10, MovesOne
    <3> QED BY <1>1, <3>4, <3>11 DEF Carried, v
  <2> QED BY <2>5, <2>6
<1> QED BY <1>10, <1>11, <1>12, <1>13, <1>14, <1>15, <1>16 DEF ReInv

(* siridb_pool_send_pkg: the points of a, an insert or a forward, are in a *)
(* package or, after a fault, given up.                                    *)
LEMMA SendKeeps ==
    ASSUME ReInv, NEW x \in All, NEW s \in Series, NEW pool \in Places(s), NEW pts,
           NEW fl \in Flags, PtsOK(pts, s, data), x = New => pool # NumPools,
           Moves(s) /\ pool = prev_lookup[s] => fl = "TEST",
           PoolSend(x, pool, pts, fl), NEW a,
           \/ a \in inserts /\ inserts' = inserts \ {a} /\ forwards' = forwards /\ pts = {a.pt}
           \/ a \in forwards /\ forwards' = forwards \ {a} /\ inserts' = inserts /\ pts = a.pts,
           UNCHANGED <<regVars, linkVars, store, locals, fifo, out, data>>
    PROVE  ReInv'
<1>1. /\ registered' = registered /\ started' = started /\ todo' = todo /\ task' = task
      /\ flag' = flag /\ busy' = busy /\ reach' = reach /\ seen' = seen /\ faults' = faults
      /\ store' = store /\ locals' = locals /\ fifo' = fifo /\ out' = out /\ data' = data
  BY DEF regVars, linkVars
<1>2. pts \subseteq Points /\ pts \subseteq data /\ \A p \in pts : p[1] = s
  BY SeriesOfIs
<1>3. \/ \E m \in Package : /\ net' = net \cup {m} /\ gaveUp' = gaveUp /\ NetOK(m) /\ m.pts = pts
      \/ /\ net' = net /\ gaveUp' = gaveUp \cup pts /\ faults # 0
  <2>1. CASE \E y \in All :
                /\ Pool(y) = pool
                /\ net' = net \cup {[from |-> x, to |-> y, pts |-> pts, fl |-> fl,
                                     kind |-> "POOL"]}
                /\ gaveUp' = gaveUp
    <3>1. PICK y \in All :
                /\ Pool(y) = pool
                /\ net' = net \cup {[from |-> x, to |-> y, pts |-> pts, fl |-> fl,
                                     kind |-> "POOL"]}
                /\ gaveUp' = gaveUp
      BY <2>1
    <3> DEFINE m == [from |-> x, to |-> y, pts |-> pts, fl |-> fl, kind |-> "POOL"]
    <3>2. m \in Package
      BY <1>2 DEF Package
    <3>3. ArrivesOK(y, pts, fl, data)
      BY <3>1 DEF ArrivesOK, Old
    <3>4. NetOK(m)
      BY <3>3 DEF NetOK
    <3>5. m.pts = pts
      OBVIOUS
    <3> HIDE DEF m
    <3> QED BY <3>1, <3>2, <3>4, <3>5 DEF m
  <2>2. CASE /\ \A y \in All : Pool(y) = pool => ~siridb_server_is_accessible(x, y)
             /\ gaveUp' = gaveUp \cup pts /\ net' = net
    <3>1. pool # prev_lookup[s]
      <4>1. PICK y \in Servers : Old(y, s)
        BY SomeResponsible
      <4>2. y \in All /\ y # New
        BY ReindexAssumption DEF All
      <4> QED BY <2>2, <4>1, <4>2 DEF Old, siridb_server_is_accessible
    <3>2. pool = NumPools
      BY <3>1, SeriesPools DEF Places, Moves
    <3>3. x \in Servers /\ x \notin reach
      <4>1. New \in All /\ Pool(New) = pool
        BY <3>2, NewPool DEF All
      <4> QED BY <2>2, <3>2, <4>1 DEF siridb_server_is_accessible, All
    <3>4. faults # 0
      BY <3>3 DEF ReInv, CalmInv, Calm
    <3> QED BY <2>2, <3>4
  <2> QED BY <2>1, <2>2 DEF PoolSend
<1>4. net' \subseteq Package /\ gaveUp' \subseteq data'
  BY <1>1, <1>2, <1>3 DEF ReInv, ShapeInv, TypeOK
<1>5. ShapeInv'
  BY <1>1, <1>4 DEF ReInv, ShapeInv, TypeOK
<1>6. FlowInv'
  <2>1. \A m \in net' : NetOK(m)
    BY <1>3 DEF ReInv, FlowInv
  <2>2. \A m \in net' : NetOK(m)'
    BY <1>1, <2>1 DEF NetOK
  <2>3. (\A i \in inserts' : InsertOK(i)') /\ \A t \in locals' : LocalOK(t)'
    BY <1>1 DEF ReInv, FlowInv, InsertOK, LocalOK
  <2>4. \A f \in forwards' : ForwardOK(f)'
    BY <1>1 DEF ReInv, FlowInv, ForwardOK
  <2> QED BY <1>1, <2>2, <2>3, <2>4 DEF ReInv, FlowInv, OneFromFifo
<1>7. TaskInv' /\ StoreInv'
  BY <1>1, TasksKept, StoreKept DEF DropQueued
<1>8. StartInv'
  <2>1. registered = Servers
    BY DEF ReInv, StartInv, Quiet
  <2> QED BY <1>1, <2>1 DEF StartInv
<1>9. CalmInv'
  <2>1. CASE faults # 0
    BY <1>1, <2>1 DEF CalmInv
  <2>2. CASE faults = 0
    <3>1. gaveUp' = gaveUp
      BY <1>3, <2>2
    <3>2. reach = Servers
      BY <2>2 DEF ReInv, CalmInv, Calm
    <3> QED BY <1>1, <2>2, <3>1, <3>2 DEF ReInv, CalmInv
  <2> QED BY <2>1, <2>2
<1>10. DataInv'
  BY <1>1 DEF ReInv, DataInv, Numbered
<1>11. CarryInv'
  <2> SUFFICES ASSUME NEW p \in Points, NEW y \in Views(p[1]) PROVE Carried(p, y)'
    BY CarryIs
  <2>1. /\ InLocals(p, y)' = InLocals(p, y) /\ InTasks(p)' = InTasks(p)
        /\ InStores(p, y)' = InStores(p, y) /\ InFifos(p, y)' = InFifos(p, y)
    BY <1>1 DEF InLocals, InTasks, InStores, InFifos
  <2>2. CASE p \notin pts
    <3>1. InInserts(p)' = InInserts(p) /\ InForwards(p)' = InForwards(p)
      BY <2>2 DEF InInserts, InForwards
    <3>2. InNet(p)' = InNet(p) /\ (p \in gaveUp' <=> p \in gaveUp)
      BY <1>3, <2>2 DEF InNet
    <3> QED BY <1>1, <2>1, <3>1, <3>2, CarriedKept, SameSelf DEF ReInv
  <2>3. CASE p \in pts
    <3> DEFINE w == Where(p, y)
               v == Where(p, y)'
    <3>1. PICK j \in {"insert", "forward"} :
            /\ a \in w[j] /\ v[j] = w[j] \ {a}
            /\ \A i \in {"insert", "forward"} \ {j} : v[i] = w[i]
      <4>1. CASE a \in inserts /\ inserts' = inserts \ {a} /\ forwards' = forwards /\ pts = {a.pt}
        <5>1. /\ a \in InInserts(p) /\ InInserts(p)' = InInserts(p) \ {a}
              /\ InForwards(p)' = InForwards(p)
          BY <2>3, <4>1 DEF InInserts, InForwards
        <5> QED BY <5>1, WhereIs, WhereIsNext
      <4>2. CASE a \in forwards /\ forwards' = forwards \ {a} /\ inserts' = inserts /\ pts = a.pts
        <5>1. /\ a \in InForwards(p) /\ InForwards(p)' = InForwards(p) \ {a}
              /\ InInserts(p)' = InInserts(p)
          BY <2>3, <4>2 DEF InInserts, InForwards
        <5> QED BY <5>1, WhereIs, WhereIsNext
      <4> QED BY <4>1, <4>2
    <3>2. j \in Tags /\ "net" \in Tags /\ j # "net" /\ w[j] # {}
      BY <3>1 DEF Tags
    <3>3. One(w) /\ p \in data \ gaveUp
      BY <3>2, OnItsWay
    <3>4. \A i \in {"local", "task", "store", "fifo"} : v[i] = w[i]
      BY <2>1, WhereIs, WhereIsNext
    <3>5. \A i \in Tags \ {j, "net"} : v[i] = w[i]
      BY <3>1, <3>4 DEF Tags
    <3>6. CASE \E m \in Package : net' = net \cup {m} /\ gaveUp' = gaveUp /\ m.pts = pts
      <4>1. PICK m \in Package : net' = net \cup {m} /\ gaveUp' = gaveUp /\ m.pts = pts
        BY <3>6
      <4>2. InNet(p)' = InNet(p) \cup {m}
        BY <2>3, <4>1 DEF InNet
      <4>3. v["net"] = w["net"] \cup {m}
        BY <4>2, WhereIs, WhereIsNext
      <4>4. w["net"] = {} => Single(v["net"])
        BY <4>3 DEF Single
      <4> HIDE DEF w, v
      <4>5. One(v)
        BY <3>1, <3>2, <3>3, <3>5, <4>4, MovesOne
      <4> QED BY <1>1, <3>3, <4>1, <4>5 DEF Carried, v
    <3>7. CASE net' = net /\ gaveUp' = gaveUp \cup pts
      <4>1. InNet(p)' = InNet(p)
        BY <3>7 DEF InNet
      <4>2. v["net"] = w["net"]
        BY <4>1, WhereIs, WhereIsNext
      <4> HIDE DEF w, v
      <4>3. \A i \in Tags \ {j} : v[i] = w[i]
        BY <3>5, <4>2
      <4>4. a \notin v[j] /\ v[j] \subseteq w[j]
        BY <3>1
      <4>5. None(v)
        BY <3>1, <3>2, <3>3, <4>3, <4>4, LosesOne
      <4> QED BY <2>3, <3>7, <4>5 DEF Carried, v
    <3> QED BY <1>3, <3>6, <3>7
  <2> QED BY <2>2, <2>3
<1> QED BY <1>5, <1>6, <1>7, <1>8, <1>9, <1>10, <1>11 DEF ReInv

(* An accepted insert goes to its pool.                                    *)
LEMMA PointsToPoolsKeeps ==
    ASSUME ReInv, NEW e \in inserts, INSERT_points_to_pools(e)
    PROVE  ReInv'
<1>1. /\ e \in Insert /\ InsertOK(e)
  BY DEF ReInv, ShapeInv, TypeOK, FlowInv
<1>2. e.at \in All /\ e.pt \in Points /\ e.fl \in Flags
  BY <1>1 DEF Insert
<1> DEFINE s == e.pt[1]
           pts == {e.pt}
<1>3. s \in Series /\ PtsOK(pts, s, data)
  BY <1>1, <1>2, PointIs DEF InsertOK, PtsOK
<1>4. /\ inserts' = inserts \ {e}
      /\ UNCHANGED <<regVars, linkVars, store, forwards, out, data>>
  BY DEF INSERT_points_to_pools
<1>5. CASE e.pool = Pool(e.at)
  <2> DEFINE l == [at |-> e.at, pts |-> pts, fl |-> e.fl, from |-> "none"]
  <2>1. /\ locals' = locals \cup {l} /\ net' = net /\ gaveUp' = gaveUp
        /\ ReplicatePkg(e.at, InsertPkg(s, pts, e.fl))
    BY <1>5 DEF INSERT_points_to_pools, InitLocal
  <2>2. SeriesOf(pts) = s
    BY <1>3, SeriesOfIs
  <2>3. l \in Local
    BY <1>2 DEF Local
  <2>4. ArrivesOK(e.at, pts, e.fl, data)
    BY <1>1, <1>3, <1>5 DEF ArrivesOK, InsertOK, Old
  <2>5. l.at = e.at /\ l.pts = pts /\ l.fl = e.fl /\ l.from = "none" /\ l.pts = {e.pt}
    OBVIOUS
  <2>6. "none" \notin All /\ "none" # "fifo"
    BY ReindexAssumption DEF All
  <2> HIDE DEF l, pts, s
  <2> QED BY <1>4, <2>1, <2>2, <2>3, <2>4, <2>5, <2>6, ArriveKeeps
<1>6. CASE e.pool # Pool(e.at)
  <2>1. PoolSend(e.at, e.pool, pts, e.fl) /\ locals' = locals /\ fifo' = fifo
    BY <1>6 DEF INSERT_points_to_pools
  <2>2. /\ e.pool \in Places(s) /\ (Moves(s) /\ e.pool = prev_lookup[s] => e.fl = "TEST")
        /\ e.at = New => e.pool # NumPools
    BY <1>1, <1>6, NewPool DEF InsertOK
  <2>3. pts = {e.pt} /\ forwards' = forwards
    BY <1>4
  <2> HIDE DEF pts, s
  <2> QED BY <1>2, <1>3, <1>4, <2>1, <2>2, <2>3, SendKeeps
<1> QED BY <1>5, <1>6

(* A package arrives.                                                      *)
LEMMA BserverKeeps ==
    ASSUME ReInv, NEW m \in net, BSERVER_on_insert(m)
    PROVE  ReInv'
<1>1. m \in Package /\ NetOK(m)
  BY DEF ReInv, ShapeInv, TypeOK, FlowInv
<1>2. /\ m.to \in All /\ m.from \in All /\ m.fl \in Flags /\ m.pts \subseteq Points
      /\ m.kind \in {"POOL", "SERVER"}
  BY <1>1 DEF Package
<1> DEFINE l == [at |-> m.to, pts |-> m.pts, fl |-> m.fl,
                 from |-> IF m.kind = "SERVER" THEN m.from ELSE "none"]
<1>3. /\ locals' = locals \cup {l} /\ net' = net \ {m} /\ inserts' = inserts
      /\ UNCHANGED <<regVars, linkVars, store, forwards, out, data, gaveUp>>
  BY DEF BSERVER_on_insert, InitLocal
<1>4. ReplicatePkg(m.to, InsertPkg(SeriesOf(m.pts), m.pts, m.fl))
  <2>1. CASE m.kind = "POOL"
    BY <2>1 DEF BSERVER_on_insert
  <2>2. CASE m.kind = "SERVER"
    <3>1. fifo' = fifo /\ m.to = New
      BY <1>1, <2>2 DEF BSERVER_on_insert, NetOK
    <3> QED BY <3>1, NewPool DEF ReplicatePkg
  <2> QED BY <1>2, <2>1, <2>2
<1>5. l \in Local
  BY <1>2 DEF Local
<1>6. l.at = m.to /\ l.pts = m.pts /\ l.fl = m.fl
  OBVIOUS
<1>7. "none" \notin All /\ "fifo" \notin All
  BY ReindexAssumption DEF All
<1>8. l.from # "fifo" /\ (l.from \in All => l.at = New)
  BY <1>1, <1>2, <1>7 DEF NetOK
<1>9. ArrivesOK(m.to, m.pts, m.fl, data)
  BY <1>1 DEF NetOK
<1> HIDE DEF l
<1> QED BY <1>3, <1>4, <1>5, <1>6, <1>8, <1>9, ArriveKeeps

(* A point whose series has left is forwarded.                             *)
LEMMA ForwardKeeps ==
    ASSUME ReInv, NEW f \in forwards, siridb_forward_points_to_pools(f)
    PROVE  ReInv'
<1>1. f \in Forward /\ ForwardOK(f)
  BY DEF ReInv, ShapeInv, TypeOK, FlowInv
<1>2. PICK s \in Series : PtsOK(f.pts, s, data) /\ Moves(s) /\ f.pool = NumPools
  BY <1>1 DEF ForwardOK
<1>3. f.at \in All
  BY <1>1 DEF Forward
<1>4. f.pool \in Places(s) /\ f.pool # prev_lookup[s]
  BY <1>2, SeriesPools DEF Places
<1>5. f.at # New
  BY <1>1, ReindexAssumption DEF ForwardOK
<1>6. /\ forwards' = forwards \ {f} /\ PoolSend(f.at, f.pool, f.pts, "TESTED")
      /\ inserts' = inserts
      /\ UNCHANGED <<regVars, linkVars, store, locals, fifo, out, data>>
  BY DEF siridb_forward_points_to_pools
<1>7. "TESTED" \in Flags
  BY DEF Flags
<1> QED BY <1>2, <1>3, <1>4, <1>5, <1>6, <1>7, SendKeeps

-----------------------------------------------------------------------------
(* The fifo.                                                               *)

(* The first package of the fifo of x is committed.                        *)
LEMMA TailIs ==
    ASSUME ShapeInv, NEW x \in Servers, fifo[x] # <<>>,
           fifo' = [fifo EXCEPT ![x] = Tail(@)]
    PROVE  /\ fifo' \in [Servers -> Seq(FifoPackage)]
           /\ Len(fifo[x]) \in Nat \ {0} /\ Len(fifo'[x]) = Len(fifo[x]) - 1
           /\ \A i \in 1 .. Len(fifo[x]) - 1 : fifo'[x][i] = fifo[x][i + 1]
           /\ \A y \in Servers : y # x => fifo'[y] = fifo[y]
<1>1. fifo \in [Servers -> Seq(FifoPackage)]
  BY DEF ShapeInv, TypeOK
<1>2. fifo[x] \in Seq(FifoPackage)
  BY <1>1
<1>3. Len(fifo[x]) \in Nat \ {0} /\ Tail(fifo[x]) \in Seq(FifoPackage)
  BY <1>2
<1>4. fifo'[x] = Tail(fifo[x]) /\ \A y \in Servers : y # x => fifo'[y] = fifo[y]
  BY <1>1
<1>5. fifo' \in [Servers -> Seq(FifoPackage)]
  BY <1>1, <1>3
<1>6. /\ Len(fifo'[x]) = Len(fifo[x]) - 1
      /\ \A i \in 1 .. Len(fifo[x]) - 1 : fifo'[x][i] = fifo[x][i + 1]
  <2> DEFINE q == fifo[x]
  <2>1. q \in Seq(FifoPackage) /\ q # <<>>
    BY <1>2
  <2>2. fifo'[x] = Tail(q)
    BY <1>4
  <2> HIDE DEF q
  <2>3. Len(Tail(q)) = Len(q) - 1 /\ \A i \in 1 .. Len(q) - 1 : Tail(q)[i] = q[i + 1]
    BY <2>1
  <2> QED BY <2>2, <2>3 DEF q
<1> QED BY <1>3, <1>4, <1>5, <1>6

(* The queues are in order after it, and at most an order to drop that was *)
(* first is gone.                                                          *)
LEMMA TailQueues ==
    ASSUME ShapeInv, FlowInv, NEW x \in Servers, fifo[x] # <<>>,
           fifo' = [fifo EXCEPT ![x] = Tail(@)]
    PROVE  /\ QueuesOK(fifo', data) /\ OutOK(fifo', out \ {x})
           /\ \A y \in Servers : \A s : DropQueued(y, s) =>
                \/ DropQueued(y, s)'
                \/ y = x /\ fifo[x][1].tp = "DROP_SERIES" /\ fifo[x][1].series = s
           /\ \A y \in Servers : \A i \in 1 .. Len(fifo'[y]) :
                \E j \in 1 .. Len(fifo[y]) : fifo'[y][i] = fifo[y][j]
<1>1. /\ Len(fifo[x]) \in Nat \ {0} /\ Len(fifo'[x]) = Len(fifo[x]) - 1
      /\ \A i \in 1 .. Len(fifo[x]) - 1 : fifo'[x][i] = fifo[x][i + 1]
      /\ \A y \in Servers : y # x => fifo'[y] = fifo[y]
  BY TailIs
<1>2. ASSUME NEW y \in Servers, NEW i \in 1 .. Len(fifo'[y])
      PROVE  \E j \in 1 .. Len(fifo[y]) : fifo'[y][i] = fifo[y][j]
  <2>1. CASE y # x
    BY <1>1, <1>2, <2>1
  <2>2. CASE y = x
    <3>1. i + 1 \in 1 .. Len(fifo[y]) /\ fifo'[y][i] = fifo[y][i + 1]
      BY <1>1, <1>2, <2>2
    <3> QED BY <3>1
  <2> QED BY <2>1, <2>2
<1>3. QueuesOK(fifo', data)
  BY <1>2 DEF FlowInv, QueuesOK
<1>4. OutOK(fifo', out \ {x})
  BY <1>1 DEF FlowInv, OutOK, ShapeInv, TypeOK
<1>5. ASSUME NEW y \in Servers, NEW s, DropQueued(y, s)
      PROVE  \/ DropQueued(y, s)'
             \/ y = x /\ fifo[x][1].tp = "DROP_SERIES" /\ fifo[x][1].series = s
  <2>1. CASE y # x
    BY <1>1, <1>5, <2>1 DEF DropQueued
  <2>2. CASE y = x
    <3>1. PICK i \in 1 .. Len(fifo[x]) : fifo[x][i].tp = "DROP_SERIES" /\ fifo[x][i].series = s
      BY <1>5, <2>2 DEF DropQueued
    <3>2. CASE i = 1
      BY <2>2, <3>1, <3>2
    <3>3. CASE i # 1
      <4>1. i - 1 \in 1 .. Len(fifo'[x]) /\ fifo'[x][i - 1] = fifo[x][i]
        <5>1. i - 1 \in 1 .. Len(fifo[x]) - 1 /\ (i - 1) + 1 = i
          BY <1>1, <3>3
        <5> QED BY <1>1, <5>1
      <4> QED BY <2>2, <3>1, <4>1 DEF DropQueued
    <3> QED BY <3>2, <3>3
  <2> QED BY <2>1, <2>2
<1> QED BY <1>2, <1>3, <1>4, <1>5

(* It did not count, and all others count as before.                       *)
LEMMA TailFifos ==
    ASSUME ShapeInv, NEW x \in Servers, fifo[x] # <<>>,
           fifo' = [fifo EXCEPT ![x] = Tail(@)], out' = out \ {x},
           NEW p, x \in out \/ p \notin fifo[x][1].pts, NEW y \in Servers
    PROVE  Same(InFifos(p, y), InFifos(p, y)')
<1>1. /\ Len(fifo[x]) \in Nat \ {0} /\ Len(fifo'[x]) = Len(fifo[x]) - 1
      /\ \A i \in 1 .. Len(fifo[x]) - 1 : fifo'[x][i] = fifo[x][i + 1]
      /\ \A z \in Servers : z # x => fifo'[z] = fifo[z]
  BY TailIs
<1>2. y \in All
  BY DEF All
<1> DEFINE In(z, i) == i \in 1 .. Len(fifo[z]) /\ p \in fifo[z][i].pts /\ ~(i = 1 /\ z \in out)
           In2(z, i) == /\ i \in 1 .. Len(fifo'[z]) /\ p \in fifo'[z][i].pts
                        /\ ~(i = 1 /\ z \in out')
           A == InFifos(p, y)
           B == InFifos(p, y)'
<1>3. /\ A = {c \in Replicas(y) \X Nat : In(c[1], c[2])}
      /\ B = {c \in Replicas(y) \X Nat : In2(c[1], c[2])}
  BY DEF InFifos
<1>4. CASE x \notin Replicas(y)
  <2>1. \A z \in Replicas(y) : z \in Servers /\ z # x
    BY <1>2, <1>4, OneReplica
  <2>2. \A c \in Replicas(y) \X Nat : In2(c[1], c[2]) <=> In(c[1], c[2])
    BY <1>1, <2>1
  <2>3. B = A
    BY <1>3, <2>2
  <2> HIDE DEF A, B
  <2> QED BY <2>3, SameSelf DEF A, B
<1>5. CASE x \in Replicas(y)
  <2>1. Replicas(y) = {x}
    BY <1>2, <1>5, OneReplica
  <2>2. ~In(x, 1)
    OBVIOUS
  <2>3. \A i \in Nat : In2(x, i) => i > 0 /\ i + 1 \in Nat /\ In(x, i + 1)
    BY <1>1
  <2>4. \A i \in Nat : In(x, i) => i - 1 \in Nat /\ In2(x, i - 1)
    <3> SUFFICES ASSUME NEW i \in Nat, In(x, i) PROVE i - 1 \in Nat /\ In2(x, i - 1)
      OBVIOUS
    <3>1. i \in 1 .. Len(fifo[x]) /\ i # 1
      BY <2>2
    <3>2. i - 1 \in 1 .. Len(fifo[x]) - 1 /\ (i - 1) + 1 = i /\ i - 1 \in Nat
      BY <1>1, <3>1
    <3>3. fifo'[x][i - 1] = fifo[x][i] /\ i - 1 \in 1 .. Len(fifo'[x])
      BY <1>1, <3>2
    <3> QED BY <3>2, <3>3
  <2> HIDE DEF In, In2
  <2>5. \A c \in Replicas(y) \X Nat : c[1] = x /\ c[2] \in Nat /\ c = <<x, c[2]>>
    BY <2>1
  <2>6. \A i \in Nat : (<<x, i>> \in A <=> In(x, i)) /\ (<<x, i>> \in B <=> In2(x, i))
    BY <1>3, <2>1
  <2>7. \A c \in A \cup B : c[2] \in Nat /\ c = <<x, c[2]>>
    BY <1>3, <2>5
  <2> HIDE DEF A, B
  <2>8. A = {} => B = {}
    <3> SUFFICES ASSUME NEW c \in B PROVE A # {}
      OBVIOUS
    <3>1. c[2] \in Nat /\ In2(x, c[2])
      BY <2>6, <2>7
    <3>2. <<x, c[2] + 1>> \in A
      BY <2>3, <2>6, <3>1
    <3> QED BY <3>2
  <2>9. Single(A) => Single(B)
    <3> SUFFICES ASSUME NEW a, A = {a} PROVE Single(B)
      BY DEF Single
    <3>1. PICK k \in Nat : a = <<x, k>> /\ In(x, k)
      BY <2>6, <2>7
    <3>2. k - 1 \in Nat /\ <<x, k - 1>> \in B
      BY <2>4, <2>6, <3>1
    <3>3. ASSUME NEW c \in B PROVE c = <<x, k - 1>>
      <4>1. PICK i \in Nat : c = <<x, i>> /\ In2(x, i)
        BY <2>6, <2>7
      <4>2. i + 1 \in Nat /\ <<x, i + 1>> \in A
        BY <2>3, <2>6, <4>1
      <4>3. <<x, i + 1>> = <<x, k>>
        BY <3>1, <4>2
      <4>4. i + 1 = k
        BY <4>3
      <4>5. i = k - 1
        BY <4>4
      <4> QED BY <4>1, <4>5
    <3>4. B = {<<x, k - 1>>}
      BY <3>2, <3>3
    <3> QED BY <3>4 DEF Single
  <2> QED BY <2>8, <2>9 DEF Same, A, B
<1> QED BY <1>4, <1>5

(* A step after which no server has a series that it had not before.       *)
LEMMA TasksShrink ==
    ASSUME ReInv, UNCHANGED <<task, todo, busy, registered, data>>,
           \A y \in Servers, s \in Series : Has(y, s)' => Has(y, s)
    PROVE  TaskInv'
<1> SUFFICES ASSUME NEW y \in Servers PROVE TaskOK(y)'
  BY DEF TaskInv
<1>1. TaskOK(y)
  BY DEF ReInv, TaskInv
<1>2. Moving(y) => Moving(y)'
  <2> SUFFICES ASSUME Moving(y) PROVE Moving(y)'
    OBVIOUS
  <2>1. task[y].series \in Series
    BY DEF Moving, ReInv, ShapeInv, TypeOK
  <2> QED BY <2>1 DEF Moving
<1> QED BY <1>1, <1>2 DEF TaskOK

(* siridb_series_drop: the points of a series are gone from one server.    *)
LEMMA DroppedIs ==
    ASSUME ShapeInv, NEW y \in All, NEW s \in Series, store' = Dropped(y, s)
    PROVE  /\ store' \in [All -> [Points -> Nat]]
           /\ \A z \in All, p \in Points :
                store'[z][p] = IF z = y /\ p[1] = s THEN 0 ELSE store[z][p]
           /\ \A z \in All, r \in Series : Has(z, r)' <=> Has(z, r) /\ ~(z = y /\ r = s)
<1> DEFINE row == [p \in Points |-> IF p[1] = s THEN 0 ELSE store[y][p]]
<1>1. store \in [All -> [Points -> Nat]]
  BY DEF ShapeInv
<1>2. row \in [Points -> Nat] /\ \A p \in Points : row[p] = IF p[1] = s THEN 0 ELSE store[y][p]
  BY <1>1
<1>3. store' = [store EXCEPT ![y] = row]
  BY DEF Dropped
<1> HIDE DEF row
<1>4. /\ store' \in [All -> [Points -> Nat]]
      /\ store'[y] = row /\ \A z \in All : z # y => store'[z] = store[z]
  BY <1>1, <1>2, <1>3
<1>5. \A z \in All, p \in Points :
        store'[z][p] = IF z = y /\ p[1] = s THEN 0 ELSE store[z][p]
  BY <1>2, <1>4
<1>6. \A r, p : p \in PointsOf(r) => p \in Points /\ p[1] = r
  BY DEF PointsOf
<1>7. ASSUME NEW z \in All, NEW r \in Series
      PROVE  Has(z, r)' <=> Has(z, r) /\ ~(z = y /\ r = s)
  <2>1. CASE z = y /\ r = s
    <3>1. \A p \in PointsOf(r) : ~(store'[z][p] > 0)
      BY <1>5, <1>6, <2>1
    <3> QED BY <2>1, <3>1 DEF Has
  <2>2. CASE ~(z = y /\ r = s)
    <3>1. \A p \in PointsOf(r) : store'[z][p] = store[z][p]
      BY <1>5, <1>6, <2>2
    <3> QED BY <2>2, <3>1 DEF Has
  <2> QED BY <2>1, <2>2
<1> QED BY <1>4, <1>5, <1>7

(* The first package of the fifo of x is at the replica.                   *)
LEMMA OutFifos ==
    ASSUME ShapeInv, NEW x \in Servers, fifo[x] # <<>>, x \notin out, fifo' = fifo,
           out' = out \cup {x}, NEW p, NEW y \in Servers
    PROVE  /\ InFifos(p, y)' = InFifos(p, y) \ {<<x, 1>>}
           /\ <<x, 1>> \in InFifos(p, y) <=> x \in Replicas(y) /\ p \in fifo[x][1].pts
<1>1. fifo[x] \in Seq(FifoPackage)
  BY DEF ShapeInv, TypeOK
<1>2. 1 \in 1 .. Len(fifo[x])
  BY <1>1
<1> DEFINE In(z, i) == i \in 1 .. Len(fifo[z]) /\ p \in fifo[z][i].pts /\ ~(i = 1 /\ z \in out)
           In2(z, i) == /\ i \in 1 .. Len(fifo[z]) /\ p \in fifo[z][i].pts
                        /\ ~(i = 1 /\ z \in out \cup {x})
<1>3. /\ InFifos(p, y) = {c \in Replicas(y) \X Nat : In(c[1], c[2])}
      /\ InFifos(p, y)' = {c \in Replicas(y) \X Nat : In2(c[1], c[2])}
  BY DEF InFifos
<1>4. \A z, i : In2(z, i) <=> In(z, i) /\ ~(i = 1 /\ z = x)
  OBVIOUS
<1>5. In(x, 1) <=> p \in fifo[x][1].pts
  BY <1>2
<1> HIDE DEF In, In2
<1>6. \A c \in Replicas(y) \X Nat : c = <<x, 1>> <=> c[1] = x /\ c[2] = 1
  OBVIOUS
<1>7. InFifos(p, y)' = InFifos(p, y) \ {<<x, 1>>}
  BY <1>3, <1>4, <1>6
<1>8. <<x, 1>> \in Replicas(y) \X Nat <=> x \in Replicas(y)
  OBVIOUS
<1>9. <<x, 1>>[1] = x /\ <<x, 1>>[2] = 1
  OBVIOUS
<1>10. <<x, 1>> \in InFifos(p, y) <=> x \in Replicas(y) /\ p \in fifo[x][1].pts
  BY <1>3, <1>5, <1>8, <1>9
<1> QED BY <1>7, <1>10

(* An insert reaches the replica.                                          *)
LEMMA ReplicateInsertKeeps ==
    ASSUME ReInv, NEW x \in Servers, fifo[x] # <<>>, x \notin out, NEW y \in Replicas(x),
           NEW l, l = [at |-> y, pts |-> fifo[x][1].pts, fl |-> fifo[x][1].fl, from |-> "fifo"],
           fifo[x][1].tp = "INSERT", locals' = locals \cup {l}, out' = out \cup {x},
           UNCHANGED <<regVars, linkVars, store, inserts, forwards, net, fifo, data, gaveUp>>
    PROVE  ReInv'
<1>1. /\ registered' = registered /\ started' = started /\ todo' = todo /\ task' = task
      /\ flag' = flag /\ busy' = busy /\ reach' = reach /\ seen' = seen /\ faults' = faults
      /\ store' = store /\ inserts' = inserts /\ forwards' = forwards /\ net' = net
      /\ fifo' = fifo /\ data' = data /\ gaveUp' = gaveUp
  BY DEF regVars, linkVars
<1>2. /\ x \in All /\ y \in Servers /\ y \in All /\ y # x /\ y # New /\ Pool(y) = Pool(x)
      /\ Replicas(x) = {y} /\ Replicas(y) = {x}
  BY OneReplica, ReindexAssumption DEF All
<1>3. fifo[x] \in Seq(FifoPackage) /\ Len(fifo[x]) \in Nat
  BY DEF ReInv, ShapeInv, TypeOK
<1>4. 1 \in 1 .. Len(fifo[x]) /\ fifo[x][1] \in FifoPackage
  BY <1>3
<1>5. FifoOK(x, fifo[x][1], data)
  BY <1>4 DEF ReInv, FlowInv, QueuesOK
<1>6. PICK pkg \in FifoPackage : pkg = fifo[x][1]
  BY <1>4
<1>7. pkg.series \in Series /\ pkg.pts \subseteq Points /\ pkg.fl \in Flags
  BY DEF FifoPackage
<1>8. /\ PtsOK(pkg.pts, pkg.series, data) /\ Old(x, pkg.series)
      /\ Moves(pkg.series) => pkg.fl = "TEST"
  BY <1>5, <1>6 DEF FifoOK, DropPkg
<1>9. l.at = y /\ l.pts = pkg.pts /\ l.fl = pkg.fl /\ l.from = "fifo"
  BY <1>6
<1>10. l \in Local
  BY <1>2, <1>6, <1>7 DEF Local
<1>11. ShapeInv'
  BY <1>1, <1>10 DEF ReInv, ShapeInv, TypeOK
<1>12. FlowInv'
  <2>1. ArrivesOK(y, pkg.pts, pkg.fl, data)
    BY <1>2, <1>7, <1>8 DEF ArrivesOK, Old, Places
  <2>2. "fifo" \notin All
    BY ReindexAssumption DEF All
  <2>3. LocalOK(l)'
    BY <1>1, <1>2, <1>9, <2>1, <2>2 DEF LocalOK
  <2>4. \A t \in locals : LocalOK(t)'
    BY <1>1 DEF ReInv, FlowInv, LocalOK
  <2>5. (\A i \in inserts' : InsertOK(i)') /\ (\A m \in net' : NetOK(m)')
    BY <1>1 DEF ReInv, FlowInv, InsertOK, NetOK
  <2>6. \A f \in forwards' : ForwardOK(f)'
    BY <1>1 DEF ReInv, FlowInv, ForwardOK
  <2>7. \A t \in locals : ~(t.from = "fifo" /\ t.at = y)
    BY <1>2 DEF ReInv, FlowInv, LocalOK
  <2>8. OneFromFifo'
    BY <1>9, <2>7 DEF ReInv, FlowInv, OneFromFifo
  <2>9. OutOK(fifo', out')
    BY <1>1 DEF ReInv, FlowInv, OutOK
  <2> QED BY <1>1, <2>3, <2>4, <2>5, <2>6, <2>8, <2>9 DEF ReInv, FlowInv
<1>13. TaskInv' /\ StoreInv'
  BY <1>1, TasksKept, StoreKept DEF DropQueued
<1>14. StartInv'
  <2>1. registered = Servers
    BY DEF ReInv, StartInv, Quiet
  <2> QED BY <1>1, <2>1 DEF StartInv
<1>15. CalmInv'
  <2>1. ~Calm
    BY <1>4 DEF Calm
  <2> QED BY <1>1, <2>1 DEF ReInv, CalmInv
<1>16. DataInv'
  BY <1>1 DEF ReInv, DataInv, Numbered
<1>17. CarryInv'
  <2> SUFFICES ASSUME NEW p \in Points, NEW v \in Views(p[1]) PROVE Carried(p, v)'
    BY CarryIs
  <2>1. v \in Servers
    BY DEF Views
  <2>2. /\ InInserts(p)' = InInserts(p) /\ InNet(p)' = InNet(p)
        /\ InForwards(p)' = InForwards(p) /\ InTasks(p)' = InTasks(p)
        /\ InStores(p, v)' = InStores(p, v)
    BY <1>1 DEF InInserts, InNet, InForwards, InTasks, InStores
  <2>3. InLocals(p, v)' = IF p \in pkg.pts /\ v = y THEN InLocals(p, v) \cup {l} ELSE InLocals(p, v)
    BY <1>2, <1>9 DEF InLocals
  <2>4. /\ InFifos(p, v)' = InFifos(p, v) \ {<<x, 1>>}
        /\ <<x, 1>> \in InFifos(p, v) <=> x \in Replicas(v) /\ p \in pkg.pts
    <3>1. ShapeInv
      BY DEF ReInv
    <3> QED BY <1>1, <1>6, <2>1, <3>1, OutFifos
  <2>5. x \in Replicas(v) <=> v = y
    <3>1. x \in Replicas(v) => v \in Replicas(x)
      BY <1>2, <2>1, SamePool DEF Replicas, All
    <3> QED BY <1>2, <3>1
  <2>6. CASE p \notin pkg.pts \/ v # y
    <3>1. InLocals(p, v)' = InLocals(p, v) /\ InFifos(p, v)' = InFifos(p, v)
      BY <2>3, <2>4, <2>5, <2>6
    <3> QED BY <1>1, <2>2, <3>1, CarriedKept, SameSelf DEF ReInv
  <2>7. CASE p \in pkg.pts /\ v = y
    <3> DEFINE w == Where(p, v)
               u == Where(p, v)'
               a == <<x, 1>>
    <3>1. a \in w["fifo"] /\ u["fifo"] = w["fifo"] \ {a}
      BY <2>4, <2>5, <2>7, WhereIs, WhereIsNext
    <3>2. "fifo" \in Tags /\ "local" \in Tags /\ w["fifo"] # {}
      BY <3>1 DEF Tags
    <3>3. One(w) /\ p \in data \ gaveUp
      BY <3>2, OnItsWay
    <3>4. u["local"] = w["local"] \cup {l}
      BY <2>3, <2>7, WhereIs, WhereIsNext
    <3>5. w["local"] = {} => Single(u["local"])
      BY <3>4 DEF Single
    <3>6. \A i \in Tags \ {"fifo", "local"} : u[i] = w[i]
      BY <2>2, WhereIs, WhereIsNext DEF Tags
    <3> HIDE DEF w, u, a
    <3>7. One(u)
      BY <3>1, <3>2, <3>3, <3>5, <3>6, MovesOne
    <3> QED BY <1>1, <3>3, <3>7 DEF Carried, u
  <2> QED BY <2>6, <2>7
<1> QED BY <1>11, <1>12, <1>13, <1>14, <1>15, <1>16, <1>17 DEF ReInv

(* A series is dropped by the replica (on_drop_series).                    *)
LEMMA ReplicateDropKeeps ==
    ASSUME ReInv, NEW x \in Servers, fifo[x] # <<>>, x \notin out, NEW y \in Replicas(x),
           fifo[x][1].tp = "DROP_SERIES", store' = Dropped(y, fifo[x][1].series),
           fifo' = [fifo EXCEPT ![x] = Tail(@)],
           UNCHANGED <<regVars, linkVars, inserts, locals, forwards, net, out, data, gaveUp>>
    PROVE  ReInv'
<1>1. /\ registered' = registered /\ started' = started /\ todo' = todo /\ task' = task
      /\ flag' = flag /\ busy' = busy /\ reach' = reach /\ seen' = seen /\ faults' = faults
      /\ inserts' = inserts /\ locals' = locals /\ forwards' = forwards /\ net' = net
      /\ out' = out /\ data' = data /\ gaveUp' = gaveUp
  BY DEF regVars, linkVars
<1>2. /\ x \in All /\ y \in Servers /\ y \in All /\ y # x /\ y # New /\ Pool(y) = Pool(x)
      /\ Replicas(x) = {y} /\ Replicas(y) = {x}
  BY OneReplica, ReindexAssumption DEF All
<1>3. fifo[x] \in Seq(FifoPackage)
  BY DEF ReInv, ShapeInv, TypeOK
<1>4. 1 \in 1 .. Len(fifo[x]) /\ fifo[x][1] \in FifoPackage
  BY <1>3
<1>5. FifoOK(x, fifo[x][1], data)
  BY <1>4 DEF ReInv, FlowInv, QueuesOK
<1>6. PICK s \in Series : s = fifo[x][1].series
  BY <1>4 DEF FifoPackage
<1>7. fifo[x][1].pts = {} /\ Moves(s) /\ Responsible(x, s)
  BY <1>5, <1>6 DEF FifoOK, DropPkg
<1>8. ~Responsible(y, s)
  BY <1>2, <1>7, OneReplica
<1>9. ShapeInv /\ FlowInv /\ store' = Dropped(y, s)
  BY <1>6 DEF ReInv
<1>10. /\ store' \in [All -> [Points -> Nat]]
       /\ \A z \in All, p \in Points :
            store'[z][p] = IF z = y /\ p[1] = s THEN 0 ELSE store[z][p]
       /\ \A z \in All, r \in Series : Has(z, r)' <=> Has(z, r) /\ ~(z = y /\ r = s)
  BY <1>2, <1>9, DroppedIs
<1>11. fifo' \in [Servers -> Seq(FifoPackage)]
  BY <1>9, TailIs
<1>12. /\ QueuesOK(fifo', data) /\ OutOK(fifo', out \ {x})
       /\ \A z \in Servers : \A r : DropQueued(z, r) => DropQueued(z, r)' \/ (z = x /\ s = r)
       /\ \A z \in Servers : \A i \in 1 .. Len(fifo'[z]) :
            \E j \in 1 .. Len(fifo[z]) : fifo'[z][i] = fifo[z][j]
  BY <1>6, <1>9, TailQueues
<1>13. out \ {x} = out
  OBVIOUS
<1>14. ShapeInv'
  BY <1>1, <1>10, <1>11 DEF ReInv, ShapeInv, TypeOK
<1>15. FlowInv'
  <2>1. (\A i \in inserts' : InsertOK(i)') /\ (\A m \in net' : NetOK(m)')
    BY <1>1 DEF ReInv, FlowInv, InsertOK, NetOK
  <2>2. (\A f \in forwards' : ForwardOK(f)') /\ (\A t \in locals' : LocalOK(t)')
    BY <1>1 DEF ReInv, FlowInv, ForwardOK, LocalOK
  <2> QED BY <1>1, <1>12, <1>13, <2>1, <2>2 DEF ReInv, FlowInv, OneFromFifo
<1>16. TaskInv'
  <2>1. \A z \in Servers, r \in Series : Has(z, r)' => Has(z, r)
    BY <1>10 DEF All
  <2> QED BY <1>1, <2>1, TasksShrink
<1>17. StoreInv'
  <2>1. \A z \in All, p \in Points : StoredOK(z, p)'
    BY <1>1, <1>10 DEF ReInv, StoreInv, StoredOK
  <2>2. ASSUME NEW z \in Servers, NEW r \in Series PROVE LeftOK(z, r)'
    <3> SUFFICES ASSUME Moves(r), Has(z, r)', NEW u \in Replicas(z), Responsible(u, r)
                 PROVE  Has(u, r)' \/ task'[u].series = r \/ DropQueued(u, r)'
      BY DEF LeftOK
    <3>1. z \in All /\ u \in Servers /\ u \in All /\ z \in Replicas(u)
      BY OneReplica DEF All
    <3>2. Has(z, r) /\ ~(z = y /\ r = s)
      BY <1>10, <3>1
    <3>3. Has(u, r) \/ task[u].series = r \/ DropQueued(u, r)
      BY <3>2 DEF ReInv, StoreInv, LeftOK
    <3>4. Has(u, r) => Has(u, r)'
      BY <1>8, <1>10, <3>1
    <3>5. DropQueued(u, r) => DropQueued(u, r)'
      BY <1>2, <1>12, <3>1, <3>2
    <3> QED BY <1>1, <3>3, <3>4, <3>5
  <2> QED BY <2>1, <2>2 DEF StoreInv
<1>18. StartInv'
  <2>1. registered = Servers
    BY DEF ReInv, StartInv, Quiet
  <2> QED BY <1>1, <2>1 DEF StartInv
<1>19. CalmInv'
  <2>1. Calm => Calm'
    BY <1>1, <1>12 DEF Calm
  <2> QED BY <1>1, <2>1 DEF ReInv, CalmInv
<1>20. DataInv'
  BY <1>1 DEF ReInv, DataInv, Numbered
<1>21. CarryInv'
  <2> SUFFICES ASSUME NEW p \in Points, NEW v \in Views(p[1]) PROVE Carried(p, v)'
    BY CarryIs
  <2>1. v \in Servers /\ v \in All /\ New \in All
    BY DEF Views, All
  <2>2. /\ InInserts(p)' = InInserts(p) /\ InNet(p)' = InNet(p)
        /\ InForwards(p)' = InForwards(p) /\ InTasks(p)' = InTasks(p)
        /\ InLocals(p, v)' = InLocals(p, v)
    BY <1>1 DEF InInserts, InNet, InForwards, InTasks, InLocals
  <2>3. ~(v = y /\ p[1] = s)
    BY <1>7, <1>8 DEF Views
  <2>4. store'[v][p] = store[v][p] /\ store'[New][p] = store[New][p]
    BY <1>2, <1>10, <2>1, <2>3
  <2>5. InStores(p, v)' = InStores(p, v)
    BY <2>4 DEF InStores
  <2>6. Same(InFifos(p, v), InFifos(p, v)')
    BY <1>1, <1>7, <1>9, <1>13, <2>1, TailFifos
  <2> QED BY <1>1, <2>2, <2>5, <2>6, CarriedKept, SameSelf DEF ReInv
<1> QED BY <1>14, <1>15, <1>16, <1>17, <1>18, <1>19, <1>20, <1>21 DEF ReInv

(* The replication task sends the first package of the fifo.               *)
LEMMA ReplicateWorkKeeps ==
    ASSUME ReInv, NEW x \in Servers, REPLICATE_work(x)
    PROVE  ReInv'
<1>1. fifo[x] # <<>> /\ x \notin out
  BY DEF REPLICATE_work
<1>2. fifo[x] \in Seq(FifoPackage)
  BY DEF ReInv, ShapeInv, TypeOK
<1>3. Head(fifo[x]) = fifo[x][1]
  BY <1>1, <1>2
<1>4. PICK y \in Replicas(x) :
        \/ /\ fifo[x][1].tp = "INSERT"
           /\ InitLocal(y, fifo[x][1].pts, fifo[x][1].fl, "fifo")
           /\ out' = out \cup {x} /\ store' = store /\ fifo' = fifo
        \/ /\ fifo[x][1].tp = "DROP_SERIES"
           /\ store' = Dropped(y, fifo[x][1].series)
           /\ fifo' = [fifo EXCEPT ![x] = Tail(@)] /\ locals' = locals /\ out' = out
  BY <1>3 DEF REPLICATE_work
<1>5. UNCHANGED <<regVars, linkVars, inserts, forwards, net, data, gaveUp>>
  BY DEF REPLICATE_work
<1>6. CASE fifo[x][1].tp = "INSERT"
  <2> DEFINE l == [at |-> y, pts |-> fifo[x][1].pts, fl |-> fifo[x][1].fl, from |-> "fifo"]
  <2>1. locals' = locals \cup {l} /\ out' = out \cup {x} /\ store' = store /\ fifo' = fifo
    BY <1>4, <1>6 DEF InitLocal
  <2> QED BY <1>1, <1>5, <1>6, <2>1, ReplicateInsertKeeps
<1>7. CASE fifo[x][1].tp = "DROP_SERIES"
  BY <1>1, <1>4, <1>5, <1>7, ReplicateDropKeeps
<1> QED BY <1>4, <1>6, <1>7

-----------------------------------------------------------------------------
(* Local tasks.                                                            *)

(* Points are added to the series of one server.                           *)
LEMMA AddedIs ==
    ASSUME ShapeInv, NEW y \in All, NEW s \in Series, NEW pts, PtsOK(pts, s, data),
           store' = Added(y, pts)
    PROVE  /\ store' \in [All -> [Points -> Nat]]
           /\ \A z \in All, p \in Points :
                store'[z][p] = IF z = y /\ p \in pts THEN store[z][p] + 1 ELSE store[z][p]
           /\ \A z \in All, r \in Series : Has(z, r)' <=> Has(z, r) \/ (z = y /\ r = s)
<1> DEFINE row == [p \in Points |-> IF p \in pts THEN store[y][p] + 1 ELSE store[y][p]]
<1>1. store \in [All -> [Points -> Nat]]
  BY DEF ShapeInv
<1>2. /\ row \in [Points -> Nat]
      /\ \A p \in Points : row[p] = IF p \in pts THEN store[y][p] + 1 ELSE store[y][p]
  BY <1>1
<1>3. store' = [store EXCEPT ![y] = row]
  BY DEF Added
<1> HIDE DEF row
<1>4. /\ store' \in [All -> [Points -> Nat]]
      /\ store'[y] = row /\ \A z \in All : z # y => store'[z] = store[z]
  BY <1>1, <1>2, <1>3
<1>5. \A z \in All, p \in Points :
        store'[z][p] = IF z = y /\ p \in pts THEN store[z][p] + 1 ELSE store[z][p]
  BY <1>2, <1>4
<1>6. \A r, p : p \in PointsOf(r) => p \in Points /\ p[1] = r
  BY DEF PointsOf
<1>7. ASSUME NEW z \in All, NEW r \in Series
      PROVE  Has(z, r)' <=> Has(z, r) \/ (z = y /\ r = s)
  <2>1. \A p \in Points : store[z][p] \in Nat
    BY <1>1
  <2>2. CASE z = y /\ r = s
    <3>1. PICK p \in pts : p \in PointsOf(s) /\ p \in Points
      BY DEF PtsOK, PointsOf
    <3>2. store'[z][p] > 0
      BY <1>5, <2>1, <2>2, <3>1
    <3> QED BY <2>2, <3>1, <3>2 DEF Has
  <2>3. CASE ~(z = y /\ r = s)
    <3>1. \A p \in PointsOf(r) : store'[z][p] = store[z][p]
      <4>1. \A p \in pts : p[1] = s
        BY DEF PtsOK, PointsOf
      <4> QED BY <1>5, <1>6, <2>3, <4>1
    <3> QED BY <2>3, <3>1 DEF Has
  <2> QED BY <2>2, <2>3
<1> QED BY <1>4, <1>5, <1>7

(* Tasks only get an answer or lose it, and of the series that move each   *)
(* server has what it had.                                                 *)
AnswerOnly ==
    \A y \in Servers :
        /\ task'[y].series = task[y].series /\ task'[y].pts = task[y].pts
        /\ \/ task'[y] = task[y]
           \/ task[y].phase \in {"wait", "answered"} /\ task'[y].phase \in {"wait", "answered"}
SameMoving ==
    \A y \in Servers, s \in Series : Moves(s) => (Has(y, s)' <=> Has(y, s))

(* The tasks are in order after that.                                      *)
LEMMA TasksOn ==
    ASSUME ReInv, AnswerOnly, SameMoving, UNCHANGED <<todo, busy, registered, data>>
    PROVE  TaskInv'
<1> SUFFICES ASSUME NEW y \in Servers PROVE TaskOK(y)'
  BY DEF TaskInv
<1>1. TaskOK(y)
  BY DEF ReInv, TaskInv
<1>2. /\ task'[y].series = task[y].series /\ task'[y].pts = task[y].pts
      /\ \/ task'[y] = task[y]
         \/ task[y].phase \in {"wait", "answered"} /\ task'[y].phase \in {"wait", "answered"}
  BY DEF AnswerOnly
<1>3. Moving(y) => Moving(y)'
  <2> SUFFICES ASSUME Moving(y) PROVE Moving(y)'
    OBVIOUS
  <2>1. PICK r \in Series : r = task[y].series
    BY DEF Moving, ReInv, ShapeInv, TypeOK
  <2>2. task'[y].phase \in {"send", "wait", "answered"}
    BY <1>2 DEF Moving
  <2>3. task'[y].phase # "send" => registered = Servers
    BY <1>2 DEF Moving
  <2>4. ~Has(y, r)' /\ task'[y].series = r
    BY <1>2, <2>1 DEF Moving, SameMoving
  <2> QED BY <1>2, <2>1, <2>2, <2>3, <2>4 DEF Moving
<1>4. task'[y] = NoTask \/ task'[y] = Working \/ Moving(y)'
  <2>1. CASE task'[y] = task[y]
    BY <1>1, <1>3, <2>1 DEF TaskOK
  <2>2. CASE task[y].phase \in {"wait", "answered"}
    BY <1>1, <1>3, <2>2 DEF TaskOK, NoTask, Working
  <2> QED BY <1>2, <2>1, <2>2
<1>5. task'[y].phase = "none" <=> task[y].phase = "none"
  BY <1>2
<1> QED BY <1>1, <1>4, <1>5 DEF TaskOK, SameMoving

(* And so is what is left with a replica.                                  *)
LEMMA LeftOn ==
    ASSUME ReInv, AnswerOnly, SameMoving, NEW y \in Servers, NEW s \in Series,
           \A z \in Servers, r \in Series : DropQueued(z, r) => DropQueued(z, r)'
    PROVE  LeftOK(y, s)'
<1> SUFFICES ASSUME Moves(s), Has(y, s)', NEW u \in Replicas(y), Responsible(u, s)
             PROVE  Has(u, s)' \/ task'[u].series = s \/ DropQueued(u, s)'
  BY DEF LeftOK
<1>1. u \in Servers
  BY OneReplica DEF All
<1>2. Has(y, s)
  BY DEF SameMoving
<1>3. Has(u, s) \/ task[u].series = s \/ DropQueued(u, s)
  BY <1>2 DEF ReInv, StoreInv, LeftOK
<1> QED BY <1>1, <1>3 DEF SameMoving, AnswerOnly

(* The answer to the task that a local task works for.                     *)
LEMMA AnswerIs ==
    ASSUME ShapeInv, NEW z, NEW s,
           task' = IF z \in Servers /\ task[z].phase = "wait" /\ task[z].series = s
                   THEN [task EXCEPT ![z].phase = "answered"] ELSE task
    PROVE  task' \in [Servers -> Pieces] /\ AnswerOnly
<1>1. task \in [Servers -> Pieces]
  BY DEF ShapeInv
<1>2. CASE z \in Servers /\ task[z].phase = "wait" /\ task[z].series = s
  <2> DEFINE new == [task[z] EXCEPT !.phase = "answered"]
  <2>1. /\ new \in Pieces /\ new.phase = "answered" /\ new.series = task[z].series
        /\ new.pts = task[z].pts
    BY <1>1, <1>2 DEF Pieces, Phases
  <2>2. task' = [task EXCEPT ![z] = new]
    BY <1>2
  <2> HIDE DEF new
  <2>3. /\ task' \in [Servers -> Pieces]
        /\ \A y \in Servers : task'[y] = IF y = z THEN new ELSE task[y]
    BY <1>1, <2>1, <2>2
  <2> QED BY <1>2, <2>1, <2>3 DEF AnswerOnly
<1>3. CASE ~(z \in Servers /\ task[z].phase = "wait" /\ task[z].series = s)
  BY <1>1, <1>3 DEF AnswerOnly
<1> QED BY <1>2, <1>3

(* A local task that came through a fifo commits the package.              *)
LEMMA FifoDone ==
    ASSUME ReInv, NEW t \in locals,
           IF t.from = "fifo"
           THEN \E y \in Replicas(t.at) : fifo' = [fifo EXCEPT ![y] = Tail(@)] /\ out' = out \ {y}
           ELSE UNCHANGED <<fifo, out>>
    PROVE  /\ fifo' \in [Servers -> Seq(FifoPackage)] /\ out' \subseteq out
           /\ QueuesOK(fifo', data) /\ OutOK(fifo', out')
           /\ \A z \in Servers, r \in Series : DropQueued(z, r) => DropQueued(z, r)'
           /\ \A z \in Servers : \A i \in 1 .. Len(fifo'[z]) :
                \E j \in 1 .. Len(fifo[z]) : fifo'[z][i] = fifo[z][j]
           /\ \A u \in locals \ {t} : u.from = "fifo" => \E z \in Replicas(u.at) : z \in out'
<1>1. ShapeInv /\ FlowInv /\ fifo \in [Servers -> Seq(FifoPackage)]
  BY DEF ReInv, ShapeInv, TypeOK
<1>2. CASE t.from # "fifo"
  BY <1>1, <1>2 DEF FlowInv, LocalOK, DropQueued
<1>3. CASE t.from = "fifo"
  <2>1. PICK y \in Replicas(t.at) : fifo' = [fifo EXCEPT ![y] = Tail(@)] /\ out' = out \ {y}
    BY <1>3
  <2>2. t.at \in All
    BY DEF ReInv, ShapeInv, TypeOK, Local
  <2>3. y \in Servers /\ y \in All /\ Replicas(t.at) = {y} /\ Replicas(y) = {t.at}
    BY <2>1, <2>2, OneReplica DEF All
  <2>4. y \in out /\ fifo[y] # <<>> /\ fifo[y][1].tp = "INSERT"
    BY <1>1, <1>3, <2>3 DEF FlowInv, LocalOK, OutOK
  <2>5. /\ QueuesOK(fifo', data) /\ OutOK(fifo', out \ {y})
        /\ \A z \in Servers, r \in Series : DropQueued(z, r) => DropQueued(z, r)'
        /\ \A z \in Servers : \A i \in 1 .. Len(fifo'[z]) :
             \E j \in 1 .. Len(fifo[z]) : fifo'[z][i] = fifo[z][j]
    BY <1>1, <2>1, <2>3, <2>4, TailQueues
  <2>6. fifo' \in [Servers -> Seq(FifoPackage)]
    BY <1>1, <2>1, <2>3, <2>4, TailIs
  <2>7. ASSUME NEW u \in locals \ {t}, u.from = "fifo" PROVE \E z \in Replicas(u.at) : z \in out'
    <3>1. u.at \in All
      BY DEF ReInv, ShapeInv, TypeOK, Local
    <3>2. PICK z \in Replicas(u.at) : z \in out
      BY <1>1, <2>7 DEF FlowInv, LocalOK
    <3>3. Replicas(z) = {u.at}
      BY <3>1, <3>2, OneReplica
    <3>4. z # y
      BY <1>1, <1>3, <2>3, <2>7, <3>3 DEF FlowInv, OneFromFifo
    <3> QED BY <2>1, <3>2, <3>4
  <2> QED BY <2>1, <2>5, <2>6, <2>7
<1> QED BY <1>2, <1>3

(* The package did not count any more.                                     *)
LEMMA FifoDoneCounts ==
    ASSUME ReInv, NEW t \in locals, NEW p, NEW v \in Servers,
           IF t.from = "fifo"
           THEN \E y \in Replicas(t.at) : fifo' = [fifo EXCEPT ![y] = Tail(@)] /\ out' = out \ {y}
           ELSE UNCHANGED <<fifo, out>>
    PROVE  Same(InFifos(p, v), InFifos(p, v)')
<1>1. ShapeInv /\ FlowInv
  BY DEF ReInv
<1>2. CASE t.from # "fifo"
  <2>1. InFifos(p, v)' = InFifos(p, v)
    BY <1>2 DEF InFifos
  <2> QED BY <2>1, SameSelf
<1>3. CASE t.from = "fifo"
  <2>1. PICK y \in Replicas(t.at) : fifo' = [fifo EXCEPT ![y] = Tail(@)] /\ out' = out \ {y}
    BY <1>3
  <2>2. t.at \in All
    BY DEF ReInv, ShapeInv, TypeOK, Local
  <2>3. y \in Servers /\ Replicas(t.at) = {y}
    BY <2>1, <2>2, OneReplica
  <2>4. y \in out /\ fifo[y] # <<>>
    BY <1>1, <1>3, <2>3 DEF FlowInv, LocalOK, OutOK
  <2> QED BY <1>1, <2>1, <2>3, <2>4, TailFifos
<1> QED BY <1>2, <1>3

(* What a local task does: its points stay; or the series has left and the *)
(* responsible server forwards them, and the other one does nothing.       *)
Stays(t, s) ==
    /\ Moves(s) /\ Old(t.at, s) => Has(t.at, s)
    /\ store' = Added(t.at, t.pts) /\ forwards' = forwards
HasLeft(t, s) == t.at \in Servers /\ Moves(s) /\ Old(t.at, s) /\ store' = store
Forwarded(t) == forwards' = forwards \cup {[at |-> t.at, pts |-> t.pts, pool |-> NumPools]}

(* All points of a local task are of one series, and it does one of the    *)
(* three.                                                                  *)
LEMMA LocalBranches ==
    ASSUME ReInv, NEW t \in locals, INSERT_local_task(t)
    PROVE  \E s \in Series :
              /\ PtsOK(t.pts, s, data) /\ SeriesOf(t.pts) = s
              /\ Pool(t.at) \in Places(s)
              /\ \/ Stays(t, s)
                 \/ HasLeft(t, s) /\ Responsible(t.at, s) /\ Forwarded(t)
                 \/ HasLeft(t, s) /\ ~Responsible(t.at, s) /\ forwards' = forwards
<1>1. t \in Local /\ LocalOK(t)
  BY DEF ReInv, ShapeInv, TypeOK, FlowInv
<1>2. t.at \in All
  BY <1>1 DEF Local
<1>3. PICK s \in Series : /\ PtsOK(t.pts, s, data) /\ Pool(t.at) \in Places(s)
                          /\ Moves(s) /\ Old(t.at, s) => t.fl = "TEST"
  BY <1>1 DEF LocalOK, ArrivesOK
<1>4. SeriesOf(t.pts) = s
  BY <1>3, SeriesOfIs
<1>5. registered = Servers
  BY DEF ReInv, StartInv, Quiet
<1>6. lookup(t.at) = new_lookup
  BY <1>2, <1>5 DEF lookup, All
<1>7. \/ /\ IsTested(t) => INSERT_local_work_test(t.at, s)
         /\ store' = Added(t.at, t.pts) /\ forwards' = forwards
      \/ /\ ~INSERT_local_work_test(t.at, s) /\ Responsible(t.at, s)
         /\ forwards' = forwards \cup {[at |-> t.at, pts |-> t.pts, pool |-> new_lookup[s]]}
         /\ store' = store
      \/ /\ ~INSERT_local_work_test(t.at, s) /\ ~Responsible(t.at, s)
         /\ store' = store /\ forwards' = forwards
  BY <1>4, <1>6 DEF INSERT_local_task
<1>8. INSERT_local_work_test(t.at, s) <=> Has(t.at, s) \/ new_lookup[s] = Pool(t.at)
  BY <1>6 DEF INSERT_local_work_test
<1>9. Moves(s) /\ Old(t.at, s) => IsTested(t) /\ new_lookup[s] # Pool(t.at)
  BY <1>3 DEF IsTested, Moves, Old
<1>10. ~INSERT_local_work_test(t.at, s) =>
         t.at \in Servers /\ Moves(s) /\ Old(t.at, s) /\ new_lookup[s] = NumPools
  <2> SUFFICES ASSUME ~INSERT_local_work_test(t.at, s)
               PROVE  t.at \in Servers /\ Moves(s) /\ Old(t.at, s) /\ new_lookup[s] = NumPools
    OBVIOUS
  <2>1. Moves(s) /\ Old(t.at, s)
    BY <1>3, <1>8 DEF Places, Moves, Old
  <2>2. new_lookup[s] = NumPools /\ prev_lookup[s] # NumPools
    BY <2>1, SeriesPools
  <2> QED BY <1>2, <2>1, <2>2, NewPool DEF All, Old
<1>11. CASE /\ IsTested(t) => INSERT_local_work_test(t.at, s)
            /\ store' = Added(t.at, t.pts) /\ forwards' = forwards
  BY <1>3, <1>4, <1>8, <1>9, <1>11 DEF Stays
<1>12. CASE /\ ~INSERT_local_work_test(t.at, s) /\ Responsible(t.at, s)
            /\ forwards' = forwards \cup {[at |-> t.at, pts |-> t.pts, pool |-> new_lookup[s]]}
            /\ store' = store
  BY <1>3, <1>4, <1>10, <1>12 DEF HasLeft, Forwarded
<1>13. CASE /\ ~INSERT_local_work_test(t.at, s) /\ ~Responsible(t.at, s)
            /\ store' = store /\ forwards' = forwards
  BY <1>3, <1>4, <1>10, <1>13 DEF HasLeft
<1> QED BY <1>7, <1>11, <1>12, <1>13

(* A local task runs.                                                      *)
LEMMA LocalTaskKeeps ==
    ASSUME ReInv, NEW t \in locals, INSERT_local_task(t)
    PROVE  ReInv'
<1>1. /\ registered' = registered /\ started' = started /\ todo' = todo
      /\ flag' = flag /\ busy' = busy /\ reach' = reach /\ seen' = seen /\ faults' = faults
      /\ inserts' = inserts /\ net' = net /\ data' = data /\ gaveUp' = gaveUp
      /\ locals' = locals \ {t}
  BY DEF INSERT_local_task, linkVars
<1>2. PICK s \in Series :
        /\ PtsOK(t.pts, s, data) /\ SeriesOf(t.pts) = s /\ Pool(t.at) \in Places(s)
        /\ \/ Stays(t, s)
           \/ HasLeft(t, s) /\ Responsible(t.at, s) /\ Forwarded(t)
           \/ HasLeft(t, s) /\ ~Responsible(t.at, s) /\ forwards' = forwards
  BY LocalBranches
<1>3. t.at \in All /\ New \in All /\ t.pts \subseteq Points
  BY DEF ReInv, ShapeInv, TypeOK, Local, All
<1>4. ShapeInv /\ FlowInv
  BY DEF ReInv
<1>5. registered = Servers
  BY DEF ReInv, StartInv, Quiet
<1>6. task' \in [Servers -> Pieces] /\ AnswerOnly
  <2>1. task' = IF t.from \in Servers /\ task[t.from].phase = "wait" /\ task[t.from].series = s
                THEN [task EXCEPT ![t.from].phase = "answered"] ELSE task
    BY <1>2 DEF INSERT_local_task
  <2> QED BY <1>4, <2>1, AnswerIs
<1>7. IF t.from = "fifo"
      THEN \E y \in Replicas(t.at) : fifo' = [fifo EXCEPT ![y] = Tail(@)] /\ out' = out \ {y}
      ELSE UNCHANGED <<fifo, out>>
  BY DEF INSERT_local_task
<1>8. /\ fifo' \in [Servers -> Seq(FifoPackage)] /\ out' \subseteq out
      /\ QueuesOK(fifo', data) /\ OutOK(fifo', out')
      /\ \A z \in Servers, r \in Series : DropQueued(z, r) => DropQueued(z, r)'
      /\ \A z \in Servers : \A i \in 1 .. Len(fifo'[z]) :
           \E j \in 1 .. Len(fifo[z]) : fifo'[z][i] = fifo[z][j]
      /\ \A u \in locals \ {t} : u.from = "fifo" => \E z \in Replicas(u.at) : z \in out'
  BY <1>7, FifoDone
<1>9. /\ store' \in [All -> [Points -> Nat]]
      /\ \A z \in All, p \in Points :
           store'[z][p] = IF z = t.at /\ p \in t.pts /\ Stays(t, s)
                          THEN store[z][p] + 1 ELSE store[z][p]
      /\ SameMoving
  <2>1. CASE Stays(t, s)
    <3>1. store' = Added(t.at, t.pts)
      BY <2>1 DEF Stays
    <3>2. /\ store' \in [All -> [Points -> Nat]]
          /\ \A z \in All, p \in Points :
               store'[z][p] = IF z = t.at /\ p \in t.pts THEN store[z][p] + 1 ELSE store[z][p]
          /\ \A z \in All, r \in Series : Has(z, r)' <=> Has(z, r) \/ (z = t.at /\ r = s)
      BY <1>2, <1>3, <1>4, <3>1, AddedIs
    <3>3. ASSUME NEW y \in Servers, NEW r \in Series, Moves(r)
          PROVE  Has(y, r)' <=> Has(y, r)
      <4>1. y \in All
        BY DEF All
      <4>2. y = t.at /\ r = s => Has(y, r)
        BY <1>2, <2>1, <3>3, PairIsOld DEF Stays
      <4> QED BY <3>2, <4>1, <4>2
    <3> QED BY <2>1, <3>2, <3>3 DEF SameMoving
  <2>2. CASE HasLeft(t, s) /\ ~Stays(t, s)
    <3>1. store' = store
      BY <2>2 DEF HasLeft
    <3> QED BY <1>4, <2>2, <3>1 DEF ShapeInv, SameMoving, Has
  <2> QED BY <1>2, <2>1, <2>2
<1>10. forwards' \subseteq Forward /\ \A f \in forwards' : ForwardOK(f)
  <2>1. forwards \subseteq Forward /\ \A f \in forwards : ForwardOK(f)
    BY <1>4 DEF ShapeInv, TypeOK, FlowInv
  <2>2. CASE forwards' = forwards
    BY <2>1, <2>2
  <2>3. CASE HasLeft(t, s) /\ Forwarded(t)
    <3> DEFINE new == [at |-> t.at, pts |-> t.pts, pool |-> NumPools]
    <3>1. NumPools \in 0 .. NumPools
      BY PoolNumber
    <3>2. new \in Forward /\ new.at = t.at /\ new.pts = t.pts /\ new.pool = NumPools
      BY <1>3, <3>1 DEF Forward
    <3>3. forwards' = forwards \cup {new}
      BY <2>3 DEF Forwarded
    <3> HIDE DEF new
    <3>4. ForwardOK(new)
      BY <1>2, <2>3, <3>2 DEF ForwardOK, HasLeft
    <3> QED BY <2>1, <3>2, <3>3, <3>4
  <2> QED BY <1>2, <2>2, <2>3 DEF Stays
<1>11. ShapeInv'
  <2>1. \A y \in Servers :
          /\ task'[y].phase \in Phases
          /\ task'[y].series \in Series \cup {-1}
          /\ task'[y].pts \subseteq Points
    BY <1>6 DEF Pieces
  <2> QED BY <1>1, <1>4, <1>6, <1>8, <1>9, <1>10, <2>1 DEF ShapeInv, TypeOK
<1>12. FlowInv'
  <2>1. (\A i \in inserts' : InsertOK(i)') /\ (\A m \in net' : NetOK(m)')
    BY <1>1, <1>4 DEF FlowInv, InsertOK, NetOK
  <2>2. \A u \in locals' : LocalOK(u)'
    BY <1>1, <1>4, <1>8 DEF FlowInv, LocalOK
  <2>3. \A f \in forwards' : ForwardOK(f)'
    BY <1>1, <1>10 DEF ForwardOK
  <2>4. OneFromFifo'
    BY <1>1, <1>4 DEF FlowInv, OneFromFifo
  <2> QED BY <1>1, <1>8, <2>1, <2>2, <2>3, <2>4 DEF FlowInv
<1>13. TaskInv'
  BY <1>1, <1>6, <1>9, TasksOn
<1>14. StoreInv'
  <2>1. ASSUME NEW z \in All, NEW p \in Points PROVE StoredOK(z, p)'
    <3>1. StoredOK(z, p)
      BY DEF ReInv, StoreInv
    <3>2. p \in t.pts => p \in data /\ p[1] = s
      BY <1>2, SeriesOfIs
    <3> QED BY <1>1, <1>2, <1>9, <3>1, <3>2 DEF StoredOK
  <2>2. \A y \in Servers, r \in Series : LeftOK(y, r)'
    BY <1>6, <1>8, <1>9, LeftOn
  <2> QED BY <2>1, <2>2 DEF StoreInv
<1>15. StartInv'
  BY <1>1, <1>5 DEF StartInv
<1>16. CalmInv'
  <2>1. Calm => t.at = New
    BY DEF Calm
  <2>2. t.at = New => forwards' = forwards
    BY <1>2, ReindexAssumption DEF HasLeft, Stays
  <2>3. Calm => Calm'
    BY <1>1, <1>8, <2>1, <2>2 DEF Calm
  <2> QED BY <1>1, <2>3 DEF ReInv, CalmInv
<1>17. DataInv'
  BY <1>1 DEF ReInv, DataInv, Numbered
<1>18. CarryInv'
  <2> SUFFICES ASSUME NEW p \in Points, NEW v \in Views(p[1]) PROVE Carried(p, v)'
    BY CarryIs
  <2>1. v \in Servers /\ v \in All /\ v # New
    BY ReindexAssumption DEF Views, All
  <2>2. InInserts(p)' = InInserts(p) /\ InNet(p)' = InNet(p)
    BY <1>1 DEF InInserts, InNet
  <2>3. InTasks(p)' = InTasks(p)
    BY <1>6 DEF InTasks, AnswerOnly
  <2>4. Same(InFifos(p, v), InFifos(p, v)')
    BY <1>7, <2>1, FifoDoneCounts
  <2>5. InLocals(p, v)' = InLocals(p, v) \ {t}
    BY <1>1 DEF InLocals
  <2>6. CASE p \notin t.pts \/ t.at \notin {v, New}
    <3>1. InLocals(p, v)' = InLocals(p, v)
      BY <2>5, <2>6 DEF InLocals
    <3>2. store'[v][p] = store[v][p] /\ store'[New][p] = store[New][p]
      BY <1>3, <1>9, <2>1, <2>6
    <3>3. InStores(p, v)' = InStores(p, v)
      BY <3>2 DEF InStores
    <3>4. InForwards(p)' = InForwards(p)
      <4>1. CASE forwards' = forwards
        BY <4>1 DEF InForwards
      <4>2. CASE HasLeft(t, s) /\ Responsible(t.at, s) /\ Forwarded(t)
        <5>1. p \notin t.pts
          <6> SUFFICES ASSUME p \in t.pts PROVE FALSE
            OBVIOUS
          <6>1. p[1] = s /\ v \in Views(s)
            BY <1>2, SeriesOfIs
          <6>2. Responsible(v, s)
            BY <4>2, <6>1 DEF Views, HasLeft
          <6>3. v \in Replicas(t.at)
            BY <1>2, <1>3, <2>6, <6>1, ViewCases
          <6> QED BY <1>3, <4>2, <6>2, <6>3, OneReplica
        <5> QED BY <4>2, <5>1 DEF InForwards, Forwarded
      <4> QED BY <1>2, <4>1, <4>2 DEF Stays
    <3> QED BY <1>1, <2>2, <2>3, <2>4, <3>1, <3>3, <3>4, CarriedKept, SameSelf DEF ReInv
  <2>7. CASE p \in t.pts /\ t.at \in {v, New}
    <3> DEFINE w == Where(p, v)
               u == Where(p, v)'
    <3>1. t \in w["local"] /\ u["local"] = w["local"] \ {t}
      <4>1. t \in InLocals(p, v)
        BY <2>7 DEF InLocals
      <4> QED BY <2>5, <4>1, WhereIs, WhereIsNext
    <3>2. "local" \in Tags /\ "store" \in Tags /\ "forward" \in Tags /\ w["local"] # {}
      BY <3>1 DEF Tags
    <3>3. One(w) /\ p \in data \ gaveUp
      BY <3>2, OnItsWay
    <3>4. u["insert"] = w["insert"] /\ u["net"] = w["net"] /\ u["task"] = w["task"]
          /\ (w["fifo"] = {} => u["fifo"] = {})
      BY <2>2, <2>3, <2>4, WhereIs, WhereIsNext DEF Same
    <3>5. p[1] = s /\ v \in Views(s)
      BY <1>2, <2>7, SeriesOfIs
    <3>6. CASE Stays(t, s)
      <4>1. forwards' = forwards
        BY <3>6 DEF Stays
      <4>2. u["forward"] = w["forward"]
        <5>1. InForwards(p)' = InForwards(p)
          BY <4>1 DEF InForwards
        <5> QED BY <5>1, WhereIs, WhereIsNext
      <4>3. w["store"] = Copies(store[v][p], v) \cup Copies(store[New][p], New)
        BY WhereIs, StoresIs
      <4>4. u["store"] = Copies(store'[v][p], v) \cup Copies(store'[New][p], New)
        <5>1. InStores(p, v)' = Copies(store'[v][p], v) \cup Copies(store'[New][p], New)
          BY StoresIs DEF InStores, Copies
        <5> QED BY <5>1, WhereIsNext
      <4>5. store[v][p] \in Nat /\ store[New][p] \in Nat
        BY <1>3, <1>4, <2>1 DEF ShapeInv
      <4>6. w["store"] = {} => store[v][p] = 0 /\ store[New][p] = 0
        <5>1. /\ store[v][p] > 0 => Copies(store[v][p], v) # {}
              /\ store[New][p] > 0 => Copies(store[New][p], New) # {}
          BY <4>5, CopiesAre
        <5> QED BY <4>3, <4>5, <5>1
      <4>7. store'[v][p] = (IF v = t.at THEN store[v][p] + 1 ELSE store[v][p])
            /\ store'[New][p] = (IF New = t.at THEN store[New][p] + 1 ELSE store[New][p])
        BY <1>3, <1>9, <2>1, <2>7, <3>6
      <4>8. /\ Copies(0, v) = {} /\ Copies(0, New) = {}
            /\ Copies(1, v) = {<<v, 1>>} /\ Copies(1, New) = {<<New, 1>>}
        BY CopiesAre
      <4>9. w["store"] = {} => Single(u["store"])
        <5> SUFFICES ASSUME w["store"] = {} PROVE Single(u["store"])
          OBVIOUS
        <5>1. u["store"] = {<<t.at, 1>>}
          BY <2>1, <2>7, <4>4, <4>6, <4>7, <4>8
        <5> QED BY <5>1 DEF Single
      <4>10. \A i \in Tags \ {"local", "store"} : w[i] = {} => u[i] = {}
        BY <3>4, <4>2 DEF Tags
      <4> HIDE DEF w, u
      <4>11. One(u)
        BY <3>1, <3>2, <3>3, <4>9, <4>10, MovesOne
      <4> QED BY <1>1, <3>3, <4>11 DEF Carried, u
    <3>7. CASE HasLeft(t, s)
      <4>1. t.at = v /\ Responsible(v, s)
        BY <2>7, <3>5, <3>7, ReindexAssumption DEF HasLeft, Views
      <4>2. CASE Forwarded(t)
        <5>1. PICK f : forwards' = forwards \cup {f} /\ f.pts = t.pts
          <6>1. [at |-> t.at, pts |-> t.pts, pool |-> NumPools].pts = t.pts
            OBVIOUS
          <6> QED BY <4>2, <6>1 DEF Forwarded
        <5>2. InForwards(p)' = InForwards(p) \cup {f}
          BY <2>7, <5>1 DEF InForwards
        <5>3. u["forward"] = w["forward"] \cup {f}
          BY <5>2, WhereIs, WhereIsNext
        <5>4. w["forward"] = {} => Single(u["forward"])
          BY <5>3 DEF Single
        <5>5. u["store"] = w["store"]
          <6>1. InStores(p, v)' = InStores(p, v)
            BY <3>7 DEF InStores, HasLeft
          <6> QED BY <6>1, WhereIs, WhereIsNext
        <5>6. \A i \in Tags \ {"local", "forward"} : w[i] = {} => u[i] = {}
          BY <3>4, <5>5 DEF Tags
        <5> HIDE DEF w, u
        <5>7. One(u)
          BY <3>1, <3>2, <3>3, <5>4, <5>6, MovesOne
        <5> QED BY <1>1, <3>3, <5>7 DEF Carried, u
      <4> QED BY <1>2, <3>6, <4>1, <4>2
    <3> QED BY <1>2, <3>6, <3>7
  <2> QED BY <2>6, <2>7
<1> QED BY <1>11, <1>12, <1>13, <1>14, <1>15, <1>16, <1>17, <1>18 DEF ReInv

-----------------------------------------------------------------------------
(* The re-index task.                                                      *)

(* REINDEX_next: the series is taken out of the file.                      *)
LEMMA NextIs ==
    ASSUME ShapeInv, NEW x \in Servers, NEW s, REINDEX_next(x, s)
    PROVE  /\ todo' \in [Servers -> SUBSET Series] /\ todo'[x] = todo[x] \ {s}
           /\ task' \in [Servers -> Pieces]
           /\ \A y \in Servers : y # x => todo'[y] = todo[y] /\ task'[y] = task[y]
           /\ \/ todo[x] = {s} /\ task'[x] = NoTask /\ busy' = busy \ {x}
              \/ todo[x] # {s} /\ task'[x] = Working /\ busy' = busy
           /\ busy' \subseteq busy /\ flag' \subseteq flag
           /\ \A y \in flag : y \in busy' => y \in flag'
<1>1. todo \in [Servers -> SUBSET Series] /\ task \in [Servers -> Pieces]
  BY DEF ShapeInv, TypeOK
<1>2. todo' = [todo EXCEPT ![x] = @ \ {s}]
  BY DEF REINDEX_next
<1>3. /\ todo' \in [Servers -> SUBSET Series] /\ todo'[x] = todo[x] \ {s}
      /\ \A y \in Servers : y # x => todo'[y] = todo[y]
  BY <1>1, <1>2
<1>4. NoTask \in Pieces /\ Working \in Pieces
  BY DEF NoTask, Working, Pieces, Phases
<1>5. CASE todo[x] = {s}
  <2>1. task' = [task EXCEPT ![x] = NoTask] /\ busy' = busy \ {x}
    BY <1>5 DEF REINDEX_next
  <2>2. flag' = flag \ {x} \/ flag' = flag
    BY <1>5 DEF REINDEX_next, siridb_reindex_status_update
  <2> HIDE DEF NoTask
  <2>3. /\ task' \in [Servers -> Pieces] /\ task'[x] = NoTask
        /\ \A y \in Servers : y # x => task'[y] = task[y]
    BY <1>1, <1>4, <2>1
  <2> QED BY <1>3, <1>5, <2>1, <2>2, <2>3
<1>6. CASE todo[x] # {s}
  <2>1. task' = [task EXCEPT ![x] = Working] /\ busy' = busy /\ flag' = flag
    BY <1>6 DEF REINDEX_next, Working
  <2> HIDE DEF Working
  <2>2. /\ task' \in [Servers -> Pieces] /\ task'[x] = Working
        /\ \A y \in Servers : y # x => task'[y] = task[y]
    BY <1>1, <1>4, <2>1
  <2> QED BY <1>3, <1>6, <2>1, <2>2
<1> QED BY <1>5, <1>6

(* The number of no series.                                                *)
LEMMA NoSeries == -1 \notin Series
  BY ReindexAssumption DEF Slots

(* A series that this server does not have to move any more is done.       *)
LEMMA SeriesDoneKeeps ==
    ASSUME ReInv, NEW x \in Servers, NEW s \in todo[x], REINDEX_next(x, s),
           task[x].phase \in {"work", "wait", "answered"},
           ~(Has(x, s) /\ Moves(s) /\ Responsible(x, s)),
           task[x].series \in {s, -1},
           fifo' \in [Servers -> Seq(FifoPackage)],
           QueuesOK(fifo', data), OutOK(fifo', out),
           \A z \in Servers, r \in Series : DropQueued(z, r) => DropQueued(z, r)',
           task[x].series = s /\ Replicas(x) # {} => DropQueued(x, s)',
           \A p \in Points, v \in Servers : InFifos(p, v)' = InFifos(p, v),
           Calm => Calm', StartInv', faults' \in 0 .. MaxFaults, faults' = 0 => faults = 0,
           UNCHANGED <<registered, started, reach, seen, store, inserts, locals, forwards,
                       net, out, data, gaveUp>>
    PROVE  ReInv'
<1>1. ShapeInv /\ FlowInv
  BY DEF ReInv
<1>2. /\ todo' \in [Servers -> SUBSET Series] /\ todo'[x] = todo[x] \ {s}
      /\ task' \in [Servers -> Pieces]
      /\ \A y \in Servers : y # x => todo'[y] = todo[y] /\ task'[y] = task[y]
      /\ \/ todo[x] = {s} /\ task'[x] = NoTask /\ busy' = busy \ {x}
         \/ todo[x] # {s} /\ task'[x] = Working /\ busy' = busy
      /\ busy' \subseteq busy /\ flag' \subseteq flag
      /\ \A y \in flag : y \in busy' => y \in flag'
  BY <1>1, NextIs
<1>3. \A z, r : Has(z, r)' <=> Has(z, r)
  BY DEF Has
<1>4. ShapeInv'
  <2>1. \A y \in Servers :
          /\ task'[y].phase \in Phases
          /\ task'[y].series \in Series \cup {-1}
          /\ task'[y].pts \subseteq Points
    BY <1>2 DEF Pieces
  <2>2. busy' \subseteq flag' /\ flag' \subseteq registered
    BY <1>1, <1>2 DEF ShapeInv, TypeOK
  <2> QED BY <1>1, <1>2, <2>1, <2>2 DEF ShapeInv, TypeOK
<1>5. FlowInv'
  <2>1. (\A i \in inserts' : InsertOK(i)') /\ (\A m \in net' : NetOK(m)')
    BY <1>1 DEF FlowInv, InsertOK, NetOK
  <2>2. (\A f \in forwards' : ForwardOK(f)') /\ (\A t \in locals' : LocalOK(t)')
    BY <1>1 DEF FlowInv, ForwardOK, LocalOK
  <2> QED BY <1>1, <2>1, <2>2 DEF FlowInv, OneFromFifo
<1>6. TaskInv'
  <2> SUFFICES ASSUME NEW y \in Servers PROVE TaskOK(y)'
    BY DEF TaskInv
  <2>1. TaskOK(y)
    BY DEF ReInv, TaskInv
  <2>2. CASE y # x
    <3>1. task'[y] = task[y] /\ todo'[y] = todo[y] /\ (y \in busy' <=> y \in busy)
      BY <1>2, <2>2
    <3>2. Moving(y) => Moving(y)'
      BY <1>3, <3>1 DEF Moving
    <3> QED BY <1>3, <2>1, <3>1, <3>2 DEF TaskOK
  <2>3. CASE y = x
    <3>1. x \in busy
      BY <2>1, <2>3 DEF TaskOK
    <3>2. \A r \in Series :
            x \in registered /\ Has(x, r) /\ Moves(r) /\ Responsible(x, r) => r \in todo'[x]
      BY <1>2, <2>1, <2>3 DEF TaskOK
    <3>3. CASE todo[x] = {s}
      <4>1. task'[x] = NoTask /\ task'[x].phase = "none" /\ x \notin busy' /\ todo'[x] = {}
        BY <1>2, <3>3 DEF NoTask
      <4> QED BY <1>3, <2>3, <3>2, <4>1 DEF TaskOK
    <3>4. CASE todo[x] # {s}
      <4>1. task'[x] = Working /\ task'[x].phase = "work" /\ x \in busy' /\ todo'[x] # {}
        BY <1>2, <3>1, <3>4 DEF Working, NoTask
      <4> QED BY <1>3, <2>3, <3>2, <4>1 DEF TaskOK
    <3> QED BY <3>3, <3>4
  <2> QED BY <2>2, <2>3
<1>7. StoreInv'
  <2>1. \A z \in All, p \in Points : StoredOK(z, p)'
    BY DEF ReInv, StoreInv, StoredOK
  <2>2. ASSUME NEW z \in Servers, NEW r \in Series PROVE LeftOK(z, r)'
    <3> SUFFICES ASSUME Moves(r), Has(z, r)', NEW u \in Replicas(z), Responsible(u, r)
                 PROVE  Has(u, r)' \/ task'[u].series = r \/ DropQueued(u, r)'
      BY DEF LeftOK
    <3>1. u \in Servers /\ z \in Replicas(u)
      BY OneReplica DEF All
    <3>2. Has(u, r) \/ task[u].series = r \/ DropQueued(u, r)
      BY <1>3 DEF ReInv, StoreInv, LeftOK
    <3>3. task[u].series = r => task'[u].series = r \/ DropQueued(u, r)'
      <4>1. CASE u # x
        BY <1>2, <3>1, <4>1
      <4>2. CASE u = x
        BY <3>1, <4>2, NoSeries
      <4> QED BY <4>1, <4>2
    <3> QED BY <1>3, <3>1, <3>2, <3>3
  <2> QED BY <2>1, <2>2 DEF StoreInv
<1>8. CalmInv'
  BY DEF ReInv, CalmInv
<1>9. DataInv'
  BY DEF ReInv, DataInv, Numbered
<1>10. CarryInv'
  <2> SUFFICES ASSUME NEW p \in Points, NEW v \in Views(p[1]) PROVE Carried(p, v)'
    BY CarryIs
  <2>1. v \in Servers
    BY DEF Views
  <2>2. /\ InInserts(p)' = InInserts(p) /\ InNet(p)' = InNet(p)
        /\ InForwards(p)' = InForwards(p) /\ InStores(p, v)' = InStores(p, v)
        /\ InLocals(p, v)' = InLocals(p, v)
    BY DEF InInserts, InNet, InForwards, InStores, InLocals
  <2>3. InTasks(p)' = InTasks(p)
    <3>1. task'[x].phase # "send" /\ task[x].phase # "send"
      BY <1>2 DEF NoTask, Working
    <3> QED BY <1>2, <3>1 DEF InTasks
  <2>4. InFifos(p, v)' = InFifos(p, v)
    BY <2>1
  <2> QED BY <2>2, <2>3, <2>4, CarriedKept, SameSelf DEF ReInv
<1> QED BY <1>4, <1>5, <1>6, <1>7, <1>8, <1>9, <1>10 DEF ReInv

(* A task that waits or has its answer moves a series.                     *)
LEMMA WaitMoves ==
    ASSUME ReInv, NEW x \in Servers, task[x].phase \in {"send", "wait", "answered"}
    PROVE  Moving(x) /\ task[x].series \in Series
<1>1. TaskOK(x)
  BY DEF ReInv, TaskInv
<1>2. Moving(x)
  BY <1>1 DEF TaskOK, NoTask, Working
<1> QED BY <1>2 DEF Moving, ReInv, ShapeInv, TypeOK

(* REINDEX_commit_series.                                                  *)
LEMMA CommitKeeps ==
    ASSUME ReInv, NEW x \in Servers, task[x].phase \in {"wait", "answered"},
           REINDEX_commit_series(x), faults' \in 0 .. MaxFaults, faults' = 0 => faults = 0,
           UNCHANGED <<registered, started, reach, seen, store, inserts, locals, forwards,
                       net, out, data, gaveUp>>
    PROVE  ReInv'
<1>1. Moving(x) /\ task[x].series \in Series
  BY WaitMoves
<1>2. PICK s \in Series : s = task[x].series
  BY <1>1
<1>3. /\ s \in todo[x] /\ Moves(s) /\ Old(x, s) /\ Responsible(x, s) /\ ~Has(x, s)
      /\ registered = Servers
  BY <1>1, <1>2 DEF Moving
<1> DEFINE pkg == [tp |-> "DROP_SERIES", series |-> s, pts |-> {}, fl |-> "none"]
<1>4. ReplicatePkg(x, pkg) /\ REINDEX_next(x, s)
  BY <1>2 DEF REINDEX_commit_series
<1>5. pkg \in FifoPackage /\ pkg.tp = "DROP_SERIES" /\ pkg.series = s /\ pkg.pts = {}
  BY DEF FifoPackage, Flags
<1> HIDE DEF pkg
<1>6. Replicas(x) # {} => FifoOK(x, pkg, data')
  BY <1>3, <1>5 DEF FifoOK, DropPkg
<1>7. ShapeInv /\ FlowInv /\ x \in All
  BY DEF ReInv, All
<1>8. /\ fifo' \in [Servers -> Seq(FifoPackage)]
      /\ Replicas(x) = {} => fifo' = fifo
      /\ Replicas(x) # {} =>
           /\ Len(fifo[x]) \in Nat /\ Len(fifo'[x]) = Len(fifo[x]) + 1
           /\ fifo'[x][Len(fifo[x]) + 1] = pkg
           /\ \A i \in 1 .. Len(fifo[x]) : fifo'[x][i] = fifo[x][i]
      /\ \A y \in Servers : y # x => fifo'[y] = fifo[y]
  BY <1>4, <1>5, <1>7, Appended
<1>9. /\ QueuesOK(fifo', data) /\ OutOK(fifo', out)
      /\ \A y \in Servers, r \in Series : DropQueued(y, r) => DropQueued(y, r)'
      /\ Replicas(x) # {} => DropQueued(x, s)'
  <2>1. /\ QueuesOK(fifo', data') /\ OutOK(fifo', out)
        /\ \A y \in Servers, r \in Series : DropQueued(y, r) => DropQueued(y, r)'
        /\ Replicas(x) # {} /\ pkg.tp = "DROP_SERIES" => DropQueued(x, pkg.series)'
    BY <1>4, <1>5, <1>6, <1>7, AppendQueues
  <2>2. DropQueued(x, pkg.series)' => DropQueued(x, s)'
    BY <1>5 DEF DropQueued, pkg
  <2> QED BY <1>5, <2>1, <2>2
<1>10. \A p \in Points, v \in Servers : InFifos(p, v)' = InFifos(p, v)
  <2> SUFFICES ASSUME NEW p \in Points, NEW v \in Servers PROVE InFifos(p, v)' = InFifos(p, v)
    OBVIOUS
  <2>1. p \notin pkg.pts \/ x \notin Replicas(v) => InFifos(p, v)' = InFifos(p, v)
    BY <1>4, <1>5, <1>7, AppendFifos
  <2> QED BY <1>5, <2>1
<1>11. Calm => Calm'
  <2> SUFFICES ASSUME Calm, NEW y \in Servers, NEW i \in 1 .. Len(fifo'[y])
               PROVE  fifo'[y][i].tp # "INSERT"
    BY DEF Calm
  <2>1. CASE fifo'[y] = fifo[y]
    BY <2>1 DEF Calm
  <2>2. CASE fifo'[y] # fifo[y]
    <3>1. y = x /\ Replicas(x) # {}
      BY <1>8, <2>2
    <3>2. i \in 1 .. Len(fifo[x]) \/ i = Len(fifo[x]) + 1
      BY <1>8, <3>1
    <3> QED BY <1>5, <1>8, <3>1, <3>2 DEF Calm
  <2> QED BY <2>1, <2>2
<1>12. StartInv'
  BY <1>3 DEF StartInv
<1>13. task[x].series \in {s, -1} /\ task[x].phase \in {"work", "wait", "answered"}
  BY <1>2
<1> QED BY <1>3, <1>4, <1>8, <1>9, <1>10, <1>11, <1>12, <1>13, SeriesDoneKeeps

(* An answer, or none in time: the series has been moved.                  *)
LEMMA AnswerKeeps ==
    ASSUME ReInv, NEW x \in Servers, ReindexAnswer(x)
    PROVE  ReInv'
<1>1. /\ task[x].phase \in {"wait", "answered"} /\ REINDEX_commit_series(x)
      /\ faults' = faults
      /\ UNCHANGED <<registered, started, reach, seen, store, inserts, locals, forwards,
                     net, out, data, gaveUp>>
  BY DEF ReindexAnswer, linkVars
<1>2. faults' \in 0 .. MaxFaults
  BY <1>1 DEF ReInv, ShapeInv, TypeOK
<1> QED BY <1>1, <1>2, CommitKeeps

(* No answer in time is handled as an answer.                              *)
LEMMA TimeoutKeeps ==
    ASSUME ReInv, NEW x \in Servers, ReindexTimeout(x)
    PROVE  ReInv'
<1>1. /\ task[x].phase \in {"wait", "answered"} /\ REINDEX_commit_series(x)
      /\ UNCHANGED <<registered, started, reach, seen, store, inserts, locals, forwards,
                     net, out, data, gaveUp>>
  BY DEF ReindexTimeout
<1>2. faults' = faults \/ (faults' = faults + 1 /\ faults < MaxFaults)
  BY DEF ReindexTimeout
<1>3. faults \in 0 .. MaxFaults
  BY DEF ReInv, ShapeInv, TypeOK
<1>4. faults' \in 0 .. MaxFaults /\ (faults' = 0 => faults = 0)
  BY <1>2, <1>3, ReindexAssumption
<1> QED BY <1>1, <1>4, CommitKeeps

(* A series that stays, or that the replica moves, is skipped.             *)
LEMMA SkipKeeps ==
    ASSUME ReInv, NEW x \in Servers, NEW s \in todo[x], task[x].phase = "work",
           ~Has(x, s) \/ new_lookup[s] = Pool(x) \/ ~Responsible(x, s),
           REINDEX_next(x, s),
           UNCHANGED <<registered, started, linkVars, store, inserts, locals, forwards, net,
                       fifo, out, data, gaveUp>>
    PROVE  ReInv'
<1>1. /\ UNCHANGED <<registered, started, reach, seen, store, inserts, locals, forwards,
                     net, out, data, gaveUp>>
      /\ fifo' = fifo /\ faults' = faults
  BY DEF linkVars
<1>2. s \in Series
  BY DEF ReInv, ShapeInv, TypeOK
<1>3. ~(Has(x, s) /\ Moves(s) /\ Responsible(x, s))
  BY <1>2, NewPool, SeriesPools
<1>4. task[x].series \in {s, -1} /\ task[x].series # s
  <2>1. TaskOK(x)
    BY DEF ReInv, TaskInv
  <2>2. task[x] = Working
    BY <2>1 DEF TaskOK, NoTask, Moving
  <2> QED BY <1>2, <2>2, NoSeries DEF Working, NoTask
<1>5. /\ fifo' \in [Servers -> Seq(FifoPackage)] /\ faults' \in 0 .. MaxFaults
      /\ QueuesOK(fifo', data) /\ OutOK(fifo', out)
  BY <1>1 DEF ReInv, ShapeInv, TypeOK, FlowInv
<1>6. \A z \in Servers, r \in Series : DropQueued(z, r) => DropQueued(z, r)'
  BY <1>1 DEF DropQueued
<1>7. \A p \in Points, v \in Servers : InFifos(p, v)' = InFifos(p, v)
  BY <1>1 DEF InFifos
<1>8. (Calm => Calm') /\ StartInv'
  BY <1>1 DEF ReInv, StartInv, Calm, Quiet
<1>9. task[x].phase \in {"work", "wait", "answered"}
  OBVIOUS
<1> QED BY <1>1, <1>3, <1>4, <1>5, <1>6, <1>7, <1>8, <1>9, SeriesDoneKeeps

(* A series leaves the store with its points.                              *)
LEMMA LeaveKeeps ==
    ASSUME ReInv, NEW x \in Servers, NEW s \in todo[x], task[x].phase = "work",
           Has(x, s), new_lookup[s] # Pool(x), Responsible(x, s), NEW new,
           new = [phase |-> "send", series |-> s, pts |-> {p \in PointsOf(s) : store[x][p] > 0}],
           task' = [task EXCEPT ![x] = new], store' = Dropped(x, s),
           UNCHANGED <<todo, busy, flag, registered, started, linkVars, inserts, locals,
                       forwards, net, fifo, out, data, gaveUp>>
    PROVE  ReInv'
<1>1. /\ todo' = todo /\ busy' = busy /\ flag' = flag /\ registered' = registered
      /\ started' = started /\ reach' = reach /\ seen' = seen /\ faults' = faults
      /\ inserts' = inserts /\ locals' = locals /\ forwards' = forwards /\ net' = net
      /\ fifo' = fifo /\ out' = out /\ data' = data /\ gaveUp' = gaveUp
  BY DEF linkVars
<1>2. s \in Series /\ x \in All /\ New \in All /\ x # New
  BY ReindexAssumption DEF ReInv, ShapeInv, TypeOK, All
<1>3. ShapeInv /\ FlowInv
  BY DEF ReInv
<1>4. \A p \in PointsOf(s) : p \in Points /\ p[1] = s
  BY DEF PointsOf
<1>5. \A p \in PointsOf(s) : store[x][p] > 0 => p \in data /\ Pool(x) \in Places(s)
  BY <1>2, <1>4 DEF ReInv, StoreInv, StoredOK
<1>6. Old(x, s) /\ Moves(s)
  BY <1>5 DEF Has, Places, Old, Moves
<1>7. PtsOK(new.pts, s, data) /\ new.phase = "send" /\ new.series = s
  BY <1>5 DEF Has, PtsOK
<1>8. new \in Pieces
  <2>1. {p \in PointsOf(s) : store[x][p] > 0} \in SUBSET Points
    BY <1>4
  <2> QED BY <1>2, <2>1 DEF Pieces, Phases
<1>9. \A p \in Points : p \in new.pts <=> p[1] = s /\ store[x][p] > 0
  BY DEF PointsOf
<1>10. task[x] = Working /\ x \in busy
  <2>1. TaskOK(x)
    BY DEF ReInv, TaskInv
  <2> QED BY <2>1 DEF TaskOK, NoTask, Moving
<1>11. /\ task' \in [Servers -> Pieces] /\ task'[x] = new
       /\ \A y \in Servers : y # x => task'[y] = task[y]
  BY <1>3, <1>8 DEF ShapeInv
<1>12. /\ store' \in [All -> [Points -> Nat]]
       /\ \A z \in All, p \in Points :
            store'[z][p] = IF z = x /\ p[1] = s THEN 0 ELSE store[z][p]
       /\ \A z \in All, r \in Series : Has(z, r)' <=> Has(z, r) /\ ~(z = x /\ r = s)
  BY <1>2, <1>3, DroppedIs
<1>13. ShapeInv'
  <2>1. \A y \in Servers :
          /\ task'[y].phase \in Phases
          /\ task'[y].series \in Series \cup {-1}
          /\ task'[y].pts \subseteq Points
    BY <1>11 DEF Pieces
  <2> QED BY <1>1, <1>3, <1>11, <1>12, <2>1 DEF ShapeInv, TypeOK
<1>14. FlowInv'
  <2>1. (\A i \in inserts' : InsertOK(i)') /\ (\A m \in net' : NetOK(m)')
    BY <1>1, <1>3 DEF FlowInv, InsertOK, NetOK
  <2>2. (\A f \in forwards' : ForwardOK(f)') /\ (\A t \in locals' : LocalOK(t)')
    BY <1>1, <1>3 DEF FlowInv, ForwardOK, LocalOK
  <2> QED BY <1>1, <1>3, <2>1, <2>2 DEF FlowInv, OneFromFifo
<1>15. TaskInv'
  <2> SUFFICES ASSUME NEW y \in Servers PROVE TaskOK(y)'
    BY DEF TaskInv
  <2>1. TaskOK(y) /\ y \in All
    BY DEF ReInv, TaskInv, All
  <2>2. CASE y # x
    <3>1. task'[y] = task[y] /\ \A r \in Series : Has(y, r)' <=> Has(y, r)
      BY <1>11, <1>12, <2>1, <2>2
    <3>2. Moving(y) => Moving(y)'
      <4> SUFFICES ASSUME Moving(y) PROVE Moving(y)'
        OBVIOUS
      <4>1. task[y].series \in Series
        BY <1>3 DEF Moving, ShapeInv, TypeOK
      <4> QED BY <1>1, <3>1, <4>1 DEF Moving
    <3> QED BY <1>1, <2>1, <3>1, <3>2 DEF TaskOK
  <2>3. CASE y = x
    <3>1. ~Has(x, s)'
      BY <1>2, <1>12
    <3>2. Moving(x)'
      BY <1>1, <1>6, <1>7, <1>11, <3>1 DEF Moving
    <3>3. \A r \in Series : Has(x, r)' => Has(x, r)
      BY <1>2, <1>12
    <3> QED BY <1>1, <1>7, <1>10, <1>11, <2>1, <2>3, <3>2, <3>3 DEF TaskOK
  <2> QED BY <2>2, <2>3
<1>16. StoreInv'
  <2>1. \A z \in All, p \in Points : StoredOK(z, p)'
    BY <1>1, <1>12 DEF ReInv, StoreInv, StoredOK
  <2>2. ASSUME NEW z \in Servers, NEW r \in Series PROVE LeftOK(z, r)'
    <3> SUFFICES ASSUME Moves(r), Has(z, r)', NEW u \in Replicas(z), Responsible(u, r)
                 PROVE  Has(u, r)' \/ task'[u].series = r \/ DropQueued(u, r)'
      BY DEF LeftOK
    <3>1. z \in All /\ u \in Servers /\ u \in All
      BY OneReplica DEF All
    <3>2. Has(u, r) \/ task[u].series = r \/ DropQueued(u, r)
      BY <1>12, <3>1 DEF ReInv, StoreInv, LeftOK
    <3>3. Has(u, r) => Has(u, r)' \/ task'[u].series = r
      BY <1>7, <1>11, <1>12, <3>1
    <3>4. task[u].series = r => u # x
      BY <1>10, NoSeries DEF Working, NoTask
    <3>5. DropQueued(u, r) => DropQueued(u, r)'
      BY <1>1 DEF DropQueued
    <3> QED BY <1>11, <3>1, <3>2, <3>3, <3>4, <3>5
  <2> QED BY <2>1, <2>2 DEF StoreInv
<1>17. StartInv' /\ CalmInv'
  BY <1>1 DEF ReInv, StartInv, CalmInv, Calm, Quiet
<1>18. DataInv'
  BY <1>1 DEF ReInv, DataInv, Numbered
<1>19. CarryInv'
  <2> SUFFICES ASSUME NEW p \in Points, NEW v \in Views(p[1]) PROVE Carried(p, v)'
    BY CarryIs
  <2>1. v \in Servers /\ v \in All
    BY DEF Views, All
  <2>2. /\ InInserts(p)' = InInserts(p) /\ InNet(p)' = InNet(p)
        /\ InForwards(p)' = InForwards(p) /\ InLocals(p, v)' = InLocals(p, v)
        /\ InFifos(p, v)' = InFifos(p, v)
    BY <1>1 DEF InInserts, InNet, InForwards, InLocals, InFifos
  <2>3. InTasks(p)' = IF p \in new.pts THEN InTasks(p) \cup {x} ELSE InTasks(p)
    BY <1>7, <1>11 DEF InTasks
  <2>4. store'[New][p] = store[New][p]
    BY <1>2, <1>12
  <2>5. CASE p \notin new.pts
    <3>1. store[x][p] \in Nat
      BY <1>2, <1>3 DEF ShapeInv
    <3>2. store'[v][p] = store[v][p]
      BY <1>9, <1>12, <2>1, <2>5, <3>1
    <3>3. InStores(p, v)' = InStores(p, v)
      BY <2>4, <3>2 DEF InStores
    <3>4. InTasks(p)' = InTasks(p)
      BY <2>3, <2>5
    <3> QED BY <1>1, <2>2, <3>3, <3>4, CarriedKept, SameSelf DEF ReInv
  <2>6. CASE p \in new.pts
    <3>1. p[1] = s /\ store[x][p] > 0
      BY <1>9, <2>6
    <3>2. v = x
      <4>1. v \in Views(s) /\ Responsible(v, s)
        BY <1>6, <3>1 DEF Views
      <4>2. Pool(x) \in Places(s)
        BY <1>6 DEF Old, Places
      <4>3. v = x \/ v \in Replicas(x)
        BY <1>2, <4>1, <4>2, ViewCases
      <4> QED BY <1>2, <4>1, <4>3, OneReplica
    <3> DEFINE w == Where(p, x)
               u == Where(p, x)'
               a == <<x, 1>>
    <3>3. store[x][p] \in Nat /\ store[New][p] \in Nat
      BY <1>2, <1>3 DEF ShapeInv
    <3>4. w["store"] = Copies(store[x][p], x) \cup Copies(store[New][p], New)
      BY WhereIs, StoresIs
    <3>5. u["store"] = Copies(0, x) \cup Copies(store[New][p], New)
      <4>1. store'[x][p] = 0
        BY <1>2, <1>12, <3>1
      <4>2. InStores(p, x)' = Copies(store'[x][p], x) \cup Copies(store'[New][p], New)
        BY StoresIs DEF InStores, Copies
      <4> QED BY <2>4, <4>1, <4>2, WhereIsNext
    <3>6. a \in w["store"] /\ (store[New][p] > 0 => <<New, 1>> \in w["store"])
      BY <3>1, <3>3, <3>4, CopiesAre
    <3>7. "store" \in Tags /\ "task" \in Tags /\ w["store"] # {}
      BY <3>6 DEF Tags
    <3>8. One(w) /\ p \in data \ gaveUp
      BY <3>2, <3>7, OnItsWay
    <3>9. w["store"] = {a}
      BY <3>6, <3>7, <3>8 DEF One, Single
    <3>10. store[New][p] = 0
      BY <1>2, <3>3, <3>6, <3>9
    <3>11. u["store"] = w["store"] \ {a}
      <4>1. Copies(0, x) = {} /\ Copies(0, New) = {}
        BY CopiesAre
      <4> QED BY <3>5, <3>9, <3>10, <4>1
    <3>12. u["task"] = w["task"] \cup {x}
      BY <2>3, <2>6, WhereIs, WhereIsNext
    <3>13. w["task"] = {} => Single(u["task"])
      BY <3>12 DEF Single
    <3>14. \A i \in Tags \ {"store", "task"} : u[i] = w[i]
      BY <2>2, <3>2, WhereIs, WhereIsNext DEF Tags
    <3> HIDE DEF w, u, a
    <3>15. One(u)
      BY <3>6, <3>7, <3>8, <3>11, <3>13, <3>14, MovesOne
    <3> QED BY <1>1, <3>2, <3>8, <3>15 DEF Carried, u
  <2> QED BY <2>5, <2>6
<1> QED BY <1>13, <1>14, <1>15, <1>16, <1>17, <1>18, <1>19 DEF ReInv

(* The timer of the re-index task fires.                                   *)
LEMMA WorkKeeps ==
    ASSUME ReInv, NEW x \in Servers, REINDEX_work(x)
    PROVE  ReInv'
<1>1. task[x].phase = "work"
  BY DEF REINDEX_work
<1>2. UNCHANGED <<registered, started, linkVars, inserts, locals, forwards, net, fifo, out,
                  data, gaveUp>>
  BY DEF REINDEX_work
<1>3. PICK s \in todo[x] :
        \/ /\ ~Has(x, s) \/ new_lookup[s] = Pool(x) \/ ~Responsible(x, s)
           /\ REINDEX_next(x, s) /\ store' = store
        \/ /\ Has(x, s) /\ new_lookup[s] # Pool(x) /\ Responsible(x, s)
           /\ task' = [task EXCEPT ![x] =
                [phase |-> "send", series |-> s, pts |-> {p \in PointsOf(s) : store[x][p] > 0}]]
           /\ store' = Dropped(x, s) /\ UNCHANGED <<todo, busy, flag>>
  BY Zenon DEF REINDEX_work
<1>4. CASE /\ ~Has(x, s) \/ new_lookup[s] = Pool(x) \/ ~Responsible(x, s)
           /\ REINDEX_next(x, s) /\ store' = store
  BY <1>1, <1>2, <1>4, SkipKeeps
<1>5. CASE /\ Has(x, s) /\ new_lookup[s] # Pool(x) /\ Responsible(x, s)
           /\ task' = [task EXCEPT ![x] =
                [phase |-> "send", series |-> s, pts |-> {p \in PointsOf(s) : store[x][p] > 0}]]
           /\ store' = Dropped(x, s) /\ UNCHANGED <<todo, busy, flag>>
  <2>1. PICK new : new = [phase |-> "send", series |-> s,
                          pts |-> {p \in PointsOf(s) : store[x][p] > 0}]
    OBVIOUS
  <2>2. task' = [task EXCEPT ![x] = new]
    BY <1>5, <2>1
  <2> QED BY <1>1, <1>2, <1>5, <2>1, <2>2, LeaveKeeps
<1> QED BY <1>3, <1>4, <1>5

(* The phase of a task that moves a series changes.                        *)
LEMMA PhaseKeeps ==
    ASSUME ReInv, NEW x \in Servers, Moving(x), registered = Servers,
           NEW ph \in {"send", "wait", "answered"}, task' = [task EXCEPT ![x].phase = ph],
           UNCHANGED <<store, todo, busy, registered, fifo, data>>
    PROVE  /\ TaskInv' /\ StoreInv' /\ task' \in [Servers -> Pieces]
           /\ task'[x].phase = ph /\ task'[x].pts = task[x].pts
           /\ \A y \in Servers : y # x => task'[y] = task[y]
<1> DEFINE new == [task[x] EXCEPT !.phase = ph]
<1>1. task \in [Servers -> Pieces]
  BY DEF ReInv, ShapeInv
<1>2. new \in Pieces /\ new.phase = ph /\ new.series = task[x].series /\ new.pts = task[x].pts
  BY <1>1 DEF Pieces, Phases
<1>3. task' = [task EXCEPT ![x] = new]
  OBVIOUS
<1> HIDE DEF new
<1>4. /\ task' \in [Servers -> Pieces] /\ task'[x] = new
      /\ \A y \in Servers : y # x => task'[y] = task[y]
  BY <1>1, <1>2, <1>3
<1>5. \A z, r : Has(z, r)' <=> Has(z, r)
  BY DEF Has
<1>6. \A y \in Servers : task'[y].series = task[y].series /\ task'[y].pts = task[y].pts
  BY <1>2, <1>4
<1>7. TaskInv'
  <2> SUFFICES ASSUME NEW y \in Servers PROVE TaskOK(y)'
    BY DEF TaskInv
  <2>1. TaskOK(y)
    BY DEF ReInv, TaskInv
  <2>2. CASE y # x
    <3>1. task'[y] = task[y]
      BY <1>4, <2>2
    <3>2. Moving(y) => Moving(y)'
      BY <1>5, <3>1 DEF Moving
    <3> QED BY <1>5, <2>1, <3>1, <3>2 DEF TaskOK
  <2>3. CASE y = x
    <3>1. task'[x].phase = ph /\ task'[x].series = task[x].series /\ task'[x].pts = task[x].pts
      BY <1>2, <1>4
    <3>2. Moving(x)'
      BY <1>5, <3>1 DEF Moving
    <3>3. x \in busy
      BY <2>1, <2>3 DEF TaskOK, Moving
    <3> QED BY <1>5, <2>1, <2>3, <3>1, <3>2, <3>3 DEF TaskOK
  <2> QED BY <2>2, <2>3
<1>8. StoreInv'
  <2>1. \A z \in All, p \in Points : StoredOK(z, p)'
    BY DEF ReInv, StoreInv, StoredOK
  <2>2. ASSUME NEW z \in Servers, NEW r \in Series PROVE LeftOK(z, r)'
    <3>1. LeftOK(z, r)
      BY DEF ReInv, StoreInv
    <3>2. \A u \in Replicas(z) : u \in Servers
      BY OneReplica DEF All
    <3>3. \A u : DropQueued(u, r) => DropQueued(u, r)'
      BY DEF DropQueued
    <3> QED BY <1>5, <1>6, <3>1, <3>2, <3>3 DEF LeftOK
  <2> QED BY <2>1, <2>2 DEF StoreInv
<1> QED BY <1>2, <1>4, <1>7, <1>8

(* A package of the re-index task, sent or taken back.                     *)
LEMMA SendPartsKeep ==
    ASSUME ReInv, NEW x \in Servers, Moving(x), registered = Servers,
           NEW ph \in {"send", "wait"}, task' = [task EXCEPT ![x].phase = ph],
           NEW m \in Package, m.pts = task[x].pts, NetOK(m), m.to = New,
           net' \subseteq net \cup {m}, faults' \in 0 .. MaxFaults, faults' = 0 => faults = 0,
           UNCHANGED <<registered, started, todo, flag, busy, reach, seen, store, inserts,
                       locals, forwards, fifo, out, data, gaveUp>>
    PROVE  /\ ShapeInv' /\ FlowInv' /\ TaskInv' /\ StoreInv' /\ StartInv' /\ CalmInv' /\ DataInv'
           /\ \A p \in Points :
                InTasks(p)' = IF p \notin m.pts THEN InTasks(p)
                              ELSE IF ph = "send" THEN InTasks(p) \cup {x} ELSE InTasks(p) \ {x}
           /\ \A p \in Points, v \in Servers :
                /\ InInserts(p)' = InInserts(p) /\ InForwards(p)' = InForwards(p)
                /\ InLocals(p, v)' = InLocals(p, v) /\ InFifos(p, v)' = InFifos(p, v)
                /\ InStores(p, v)' = InStores(p, v)
<1>1. ph \in {"send", "wait", "answered"}
  OBVIOUS
<1>2. /\ TaskInv' /\ StoreInv' /\ task' \in [Servers -> Pieces]
      /\ task'[x].phase = ph /\ task'[x].pts = task[x].pts
      /\ \A y \in Servers : y # x => task'[y] = task[y]
  BY <1>1, PhaseKeeps
<1>3. ShapeInv /\ FlowInv
  BY DEF ReInv
<1>4. ShapeInv'
  <2>1. \A y \in Servers :
          /\ task'[y].phase \in Phases
          /\ task'[y].series \in Series \cup {-1}
          /\ task'[y].pts \subseteq Points
    BY <1>2 DEF Pieces
  <2>2. net' \subseteq Package
    BY <1>3 DEF ShapeInv, TypeOK
  <2> QED BY <1>2, <1>3, <2>1, <2>2 DEF ShapeInv, TypeOK
<1>5. FlowInv'
  <2>1. (\A i \in inserts' : InsertOK(i)') /\ (\A n \in net' : NetOK(n)')
    BY <1>3 DEF FlowInv, InsertOK, NetOK
  <2>2. (\A f \in forwards' : ForwardOK(f)') /\ (\A t \in locals' : LocalOK(t)')
    BY <1>3 DEF FlowInv, ForwardOK, LocalOK
  <2> QED BY <1>3, <2>1, <2>2 DEF FlowInv, OneFromFifo
<1>6. StartInv' /\ DataInv'
  BY DEF ReInv, StartInv, DataInv, Numbered
<1>7. CalmInv'
  <2>1. Calm => Calm'
    BY DEF Calm
  <2> QED BY <2>1 DEF ReInv, CalmInv
<1>8. \A p \in Points :
        InTasks(p)' = IF p \notin m.pts THEN InTasks(p)
                      ELSE IF ph = "send" THEN InTasks(p) \cup {x} ELSE InTasks(p) \ {x}
  BY <1>2 DEF InTasks
<1>9. \A p \in Points, v \in Servers :
        /\ InInserts(p)' = InInserts(p) /\ InForwards(p)' = InForwards(p)
        /\ InLocals(p, v)' = InLocals(p, v) /\ InFifos(p, v)' = InFifos(p, v)
        /\ InStores(p, v)' = InStores(p, v)
  BY DEF InInserts, InForwards, InLocals, InFifos, InStores
<1> QED BY <1>2, <1>4, <1>5, <1>6, <1>7, <1>8, <1>9

(* The points of a series that moves are sent to the new server.           *)
LEMMA ReindexSendKeeps ==
    ASSUME ReInv, NEW x \in Servers, REINDEX_send(x)
    PROVE  ReInv'
<1> DEFINE m == [from |-> x, to |-> New, pts |-> task[x].pts, fl |-> "TESTED",
                 kind |-> "SERVER"]
<1>1. /\ task[x].phase = "send" /\ x \in reach
      /\ net' = net \cup {m} /\ task' = [task EXCEPT ![x].phase = "wait"]
  BY DEF REINDEX_send, siridb_server_is_accessible
<1>2. /\ UNCHANGED <<registered, started, todo, flag, busy, reach, seen, store, inserts,
                     locals, forwards, fifo, out, data, gaveUp>>
      /\ faults' = faults
  BY DEF REINDEX_send, linkVars
<1>3. registered = Servers
  BY <1>1 DEF ReInv, StartInv
<1>4. Moving(x) /\ task[x].series \in Series
  BY <1>1, WaitMoves
<1>5. task[x].pts \subseteq Points
  BY DEF ReInv, ShapeInv, TypeOK
<1>6. m \in Package /\ m.pts = task[x].pts /\ m.to = New /\ m.fl = "TESTED"
  BY <1>5 DEF Package, All, Flags
<1> HIDE DEF m
<1>7. NetOK(m)
  <2>1. PICK s \in Series : s = task[x].series
    BY <1>4
  <2>2. PtsOK(m.pts, s, data) /\ Moves(s)
    BY <1>4, <1>6, <2>1 DEF Moving
  <2>3. Pool(m.to) \in Places(s) /\ ~Old(m.to, s)
    BY <1>6, <2>2, NewPool, SeriesPools DEF Places, Old
  <2> QED BY <1>6, <2>2, <2>3 DEF NetOK, ArrivesOK
<1>8. faults' \in 0 .. MaxFaults
  BY <1>2 DEF ReInv, ShapeInv, TypeOK
<1>9. /\ ShapeInv' /\ FlowInv' /\ TaskInv' /\ StoreInv' /\ StartInv' /\ CalmInv' /\ DataInv'
      /\ \A p \in Points :
           InTasks(p)' = IF p \notin m.pts THEN InTasks(p) ELSE InTasks(p) \ {x}
      /\ \A p \in Points, v \in Servers :
           /\ InInserts(p)' = InInserts(p) /\ InForwards(p)' = InForwards(p)
           /\ InLocals(p, v)' = InLocals(p, v) /\ InFifos(p, v)' = InFifos(p, v)
           /\ InStores(p, v)' = InStores(p, v)
  <2>1. PICK ph \in {"send", "wait"} : ph = "wait"
    OBVIOUS
  <2>2. task' = [task EXCEPT ![x].phase = ph] /\ ph # "send"
    BY <1>1, <2>1
  <2> QED BY <1>1, <1>2, <1>3, <1>4, <1>6, <1>7, <1>8, <2>2, SendPartsKeep
<1>10. CarryInv'
  <2> SUFFICES ASSUME NEW p \in Points, NEW v \in Views(p[1]) PROVE Carried(p, v)'
    BY CarryIs
  <2>1. v \in Servers
    BY DEF Views
  <2>2. InNet(p)' = IF p \in m.pts THEN InNet(p) \cup {m} ELSE InNet(p)
    BY <1>1 DEF InNet
  <2>3. CASE p \notin m.pts
    BY <1>2, <1>9, <2>1, <2>2, <2>3, CarriedKept, SameSelf DEF ReInv
  <2>4. CASE p \in m.pts
    <3> DEFINE w == Where(p, v)
               u == Where(p, v)'
    <3>1. x \in w["task"] /\ u["task"] = w["task"] \ {x}
      <4>1. x \in InTasks(p)
        BY <1>1, <1>6, <2>4 DEF InTasks
      <4> QED BY <1>9, <2>4, <4>1, WhereIs, WhereIsNext
    <3>2. "task" \in Tags /\ "net" \in Tags /\ w["task"] # {}
      BY <3>1 DEF Tags
    <3>3. One(w) /\ p \in data \ gaveUp
      BY <3>2, OnItsWay
    <3>4. u["net"] = w["net"] \cup {m}
      BY <2>2, <2>4, WhereIs, WhereIsNext
    <3>5. w["net"] = {} => Single(u["net"])
      BY <3>4 DEF Single
    <3>6. \A i \in Tags \ {"task", "net"} : u[i] = w[i]
      BY <1>9, <2>1, WhereIs, WhereIsNext DEF Tags
    <3> HIDE DEF w, u
    <3>7. One(u)
      BY <3>1, <3>2, <3>3, <3>5, <3>6, MovesOne
    <3> QED BY <1>2, <3>3, <3>7 DEF Carried, u
  <2> QED BY <2>3, <2>4
<1> QED BY <1>9, <1>10 DEF ReInv

(* The package was not sent: the points are with the task again.           *)
LEMMA WriteErrorKeeps ==
    ASSUME ReInv, NEW x \in Servers, ReindexWriteError(x)
    PROVE  ReInv'
<1>1. /\ task[x].phase = "wait" /\ faults < MaxFaults /\ faults' = faults + 1
      /\ task' = [task EXCEPT ![x].phase = "send"]
      /\ UNCHANGED <<registered, started, todo, flag, busy, reach, seen, store, inserts,
                     locals, forwards, fifo, out, data, gaveUp>>
  BY DEF ReindexWriteError
<1>2. PICK m \in net : m.kind = "SERVER" /\ m.pts = task[x].pts /\ net' = net \ {m}
  BY DEF ReindexWriteError
<1>3. Moving(x) /\ task[x].series \in Series
  BY <1>1, WaitMoves
<1>4. registered = Servers
  BY <1>1, <1>3 DEF Moving
<1>5. m \in Package /\ NetOK(m) /\ m.to = New
  BY <1>2 DEF ReInv, ShapeInv, TypeOK, FlowInv, NetOK
<1>6. faults' \in 0 .. MaxFaults /\ (faults' = 0 => faults = 0)
  <2>1. faults \in 0 .. MaxFaults
    BY DEF ReInv, ShapeInv, TypeOK
  <2> QED BY <1>1, <2>1, ReindexAssumption
<1>7. /\ ShapeInv' /\ FlowInv' /\ TaskInv' /\ StoreInv' /\ StartInv' /\ CalmInv' /\ DataInv'
      /\ \A p \in Points :
           InTasks(p)' = IF p \notin m.pts THEN InTasks(p) ELSE InTasks(p) \cup {x}
      /\ \A p \in Points, v \in Servers :
           /\ InInserts(p)' = InInserts(p) /\ InForwards(p)' = InForwards(p)
           /\ InLocals(p, v)' = InLocals(p, v) /\ InFifos(p, v)' = InFifos(p, v)
           /\ InStores(p, v)' = InStores(p, v)
  <2>1. PICK ph \in {"send", "wait"} : ph = "send"
    OBVIOUS
  <2>2. task' = [task EXCEPT ![x].phase = ph] /\ ph = "send"
    BY <1>1, <2>1
  <2>3. net' \subseteq net \cup {m}
    BY <1>2
  <2> QED BY <1>1, <1>2, <1>3, <1>4, <1>5, <1>6, <2>2, <2>3, SendPartsKeep
<1>8. CarryInv'
  <2> SUFFICES ASSUME NEW p \in Points, NEW v \in Views(p[1]) PROVE Carried(p, v)'
    BY CarryIs
  <2>1. v \in Servers
    BY DEF Views
  <2>2. InNet(p)' = InNet(p) \ {m}
    BY <1>2 DEF InNet
  <2>3. CASE p \notin m.pts
    <3>1. InNet(p)' = InNet(p)
      BY <2>2, <2>3 DEF InNet
    <3> QED BY <1>1, <1>7, <2>1, <2>3, <3>1, CarriedKept, SameSelf DEF ReInv
  <2>4. CASE p \in m.pts
    <3> DEFINE w == Where(p, v)
               u == Where(p, v)'
    <3>1. m \in w["net"] /\ u["net"] = w["net"] \ {m}
      <4>1. m \in InNet(p)
        BY <2>4 DEF InNet
      <4> QED BY <2>2, <4>1, WhereIs, WhereIsNext
    <3>2. "task" \in Tags /\ "net" \in Tags /\ w["net"] # {}
      BY <3>1 DEF Tags
    <3>3. One(w) /\ p \in data \ gaveUp
      BY <3>2, OnItsWay
    <3>4. u["task"] = w["task"] \cup {x}
      BY <1>7, <2>4, WhereIs, WhereIsNext
    <3>5. w["task"] = {} => Single(u["task"])
      BY <3>4 DEF Single
    <3>6. \A i \in Tags \ {"net", "task"} : u[i] = w[i]
      BY <1>7, <2>1, WhereIs, WhereIsNext DEF Tags
    <3> HIDE DEF w, u
    <3>7. One(u)
      BY <3>1, <3>2, <3>3, <3>5, <3>6, MovesOne
    <3> QED BY <1>1, <3>3, <3>7 DEF Carried, u
  <2> QED BY <2>3, <2>4
<1> QED BY <1>7, <1>8 DEF ReInv

(* A connection to the new server is lost with what it carries.            *)
LEMMA LoseKeeps ==
    ASSUME ReInv, NEW x \in Servers, LoseConnection(x)
    PROVE  ReInv'
<1> DEFINE lost == {m \in net : m.from = x /\ m.to = New}
<1>1. /\ x \in reach /\ faults < MaxFaults /\ faults' = faults + 1 /\ reach' = reach \ {x}
      /\ net' = net \ lost /\ gaveUp' = gaveUp \cup UNION {m.pts : m \in lost}
      /\ task' = IF task[x].phase = "answered" THEN [task EXCEPT ![x].phase = "wait"] ELSE task
  BY DEF LoseConnection
<1>2. /\ registered' = registered /\ started' = started /\ todo' = todo /\ flag' = flag
      /\ busy' = busy /\ seen' = seen /\ store' = store /\ inserts' = inserts
      /\ locals' = locals /\ forwards' = forwards /\ fifo' = fifo /\ out' = out /\ data' = data
  BY DEF LoseConnection
<1>3. ShapeInv /\ FlowInv
  BY DEF ReInv
<1>4. lost \subseteq net /\ net' \subseteq net
  BY <1>1
<1> HIDE DEF lost
<1>5. registered = Servers
  BY <1>1 DEF ReInv, StartInv
<1>6. task' \in [Servers -> Pieces] /\ AnswerOnly
  <2>1. task \in [Servers -> Pieces]
    BY <1>3 DEF ShapeInv
  <2>2. CASE task[x].phase = "answered"
    <3> DEFINE new == [task[x] EXCEPT !.phase = "wait"]
    <3>1. /\ new \in Pieces /\ new.phase = "wait" /\ new.series = task[x].series
          /\ new.pts = task[x].pts
      BY <2>1 DEF Pieces, Phases
    <3>2. task' = [task EXCEPT ![x] = new]
      BY <1>1, <2>2
    <3> HIDE DEF new
    <3>3. /\ task' \in [Servers -> Pieces]
          /\ \A y \in Servers : task'[y] = IF y = x THEN new ELSE task[y]
      BY <2>1, <3>1, <3>2
    <3> QED BY <2>2, <3>1, <3>3 DEF AnswerOnly
  <2>3. CASE task[x].phase # "answered"
    BY <1>1, <2>1, <2>3 DEF AnswerOnly
  <2> QED BY <2>2, <2>3
<1>7. \A m \in lost : m.pts \subseteq data
  BY <1>3, <1>4 DEF FlowInv, NetOK, ArrivesOK, PtsOK
<1>8. ShapeInv'
  <2>1. \A y \in Servers :
          /\ task'[y].phase \in Phases
          /\ task'[y].series \in Series \cup {-1}
          /\ task'[y].pts \subseteq Points
    BY <1>6 DEF Pieces
  <2>2. faults' \in 0 .. MaxFaults /\ gaveUp' \subseteq data /\ reach' \subseteq registered
    BY <1>1, <1>3, <1>7, ReindexAssumption DEF ShapeInv, TypeOK
  <2> QED BY <1>2, <1>3, <1>4, <1>6, <2>1, <2>2 DEF ShapeInv, TypeOK
<1>9. FlowInv'
  <2>1. (\A i \in inserts' : InsertOK(i)') /\ (\A m \in net' : NetOK(m)')
    BY <1>2, <1>3, <1>4 DEF FlowInv, InsertOK, NetOK
  <2>2. (\A f \in forwards' : ForwardOK(f)') /\ (\A t \in locals' : LocalOK(t)')
    BY <1>2, <1>3 DEF FlowInv, ForwardOK, LocalOK
  <2> QED BY <1>2, <1>3, <2>1, <2>2 DEF FlowInv, OneFromFifo
<1>10. SameMoving /\ \A z \in Servers, r \in Series : DropQueued(z, r) => DropQueued(z, r)'
  BY <1>2 DEF SameMoving, Has, DropQueued
<1>11. TaskInv'
  BY <1>2, <1>6, <1>10, TasksOn
<1>12. StoreInv'
  <2>1. \A z \in All, p \in Points : StoredOK(z, p)'
    BY <1>2 DEF ReInv, StoreInv, StoredOK
  <2>2. \A y \in Servers, s \in Series : LeftOK(y, s)'
    BY <1>6, <1>10, LeftOn
  <2> QED BY <2>1, <2>2 DEF StoreInv
<1>13. StartInv' /\ DataInv'
  BY <1>2, <1>5 DEF ReInv, StartInv, DataInv, Numbered
<1>14. CalmInv'
  <2>1. faults \in Nat
    BY <1>3 DEF ShapeInv, TypeOK
  <2> QED BY <1>1, <2>1 DEF CalmInv
<1>15. CarryInv'
  <2> SUFFICES ASSUME NEW p \in Points, NEW v \in Views(p[1]) PROVE Carried(p, v)'
    BY CarryIs
  <2>1. /\ InInserts(p)' = InInserts(p) /\ InForwards(p)' = InForwards(p)
        /\ InLocals(p, v)' = InLocals(p, v) /\ InFifos(p, v)' = InFifos(p, v)
        /\ InStores(p, v)' = InStores(p, v)
    BY <1>2 DEF InInserts, InForwards, InLocals, InFifos, InStores
  <2>2. InTasks(p)' = InTasks(p)
    BY <1>6 DEF InTasks, AnswerOnly
  <2>3. CASE \A m \in lost : p \notin m.pts
    <3>1. InNet(p)' = InNet(p)
      BY <1>1, <2>3 DEF InNet
    <3>2. p \in gaveUp' <=> p \in gaveUp
      BY <1>1, <2>3
    <3> QED BY <1>2, <2>1, <2>2, <3>1, <3>2, CarriedKept, SameSelf DEF ReInv
  <2>4. CASE \E m \in lost : p \in m.pts
    <3>1. PICK m \in lost : p \in m.pts
      BY <2>4
    <3> DEFINE w == Where(p, v)
               u == Where(p, v)'
    <3>2. m \in w["net"] /\ m \notin u["net"] /\ u["net"] \subseteq w["net"]
      <4>1. m \in InNet(p) /\ m \notin InNet(p)' /\ InNet(p)' \subseteq InNet(p)
        BY <1>1, <1>4, <3>1 DEF InNet
      <4> QED BY <4>1, WhereIs, WhereIsNext
    <3>3. "net" \in Tags /\ w["net"] # {}
      BY <3>2 DEF Tags
    <3>4. One(w) /\ p \in data \ gaveUp
      BY <3>3, OnItsWay
    <3>5. \A i \in Tags \ {"net"} : u[i] = w[i]
      BY <2>1, <2>2, WhereIs, WhereIsNext DEF Tags
    <3> HIDE DEF w, u
    <3>6. None(u)
      BY <3>2, <3>3, <3>4, <3>5, LosesOne
    <3>7. p \in gaveUp'
      BY <1>1, <3>1
    <3> QED BY <3>6, <3>7 DEF Carried, u
  <2> QED BY <2>3, <2>4
<1> QED BY <1>8, <1>9, <1>11, <1>12, <1>13, <1>14, <1>15 DEF ReInv

-----------------------------------------------------------------------------
(* The invariant holds.                                                    *)

(* Nothing changes.                                                        *)
LEMMA StutterKeeps ==
    ASSUME ReInv, UNCHANGED vars
    PROVE  ReInv'
<1>1. /\ registered' = registered /\ started' = started /\ reach' = reach /\ flag' = flag
      /\ busy' = busy /\ seen' = seen /\ todo' = todo /\ task' = task /\ faults' = faults
      /\ UNCHANGED pointVars
  BY DEF vars, pointVars
<1>2. FlowInv' /\ DataInv' /\ TaskInv' /\ StoreInv' /\ CarryInv'
  BY <1>1, RestKept
<1>3. ShapeInv'
  BY <1>1 DEF ReInv, ShapeInv, TypeOK, pointVars
<1>4. StartInv' /\ CalmInv'
  BY <1>1, PointsKept DEF ReInv, StartInv, CalmInv
<1> QED BY <1>2, <1>3, <1>4 DEF ReInv

(* Every step keeps it, when no insert is accepted before all servers are  *)
(* connected to the new one.                                               *)
LEMMA NextReInv ==
    ASSUME "busy" \notin Env, ReInv, [Next]_vars
    PROVE  ReInv'
<1>1. ASSUME NEW e \in inserts, INSERT_points_to_pools(e) PROVE ReInv'
  BY <1>1, PointsToPoolsKeeps
<1>2. ASSUME NEW m \in net, BSERVER_on_insert(m) PROVE ReInv'
  BY <1>2, BserverKeeps
<1>3. ASSUME NEW t \in locals, INSERT_local_task(t) PROVE ReInv'
  BY <1>3, LocalTaskKeeps
<1>4. ASSUME NEW f \in forwards, siridb_forward_points_to_pools(f) PROVE ReInv'
  BY <1>4, ForwardKeeps
<1>5. ASSUME NEW x \in Servers, REPLICATE_work(x) PROVE ReInv'
  BY <1>5, ReplicateWorkKeeps
<1>6. ASSUME NEW x \in Servers, SERVER_on_auth_response(x) PROVE ReInv'
  BY <1>6, AuthKeeps
<1>7. ASSUME NEW x \in Servers, NEW y \in All, BSERVER_flags_update(x, y) PROVE ReInv'
  BY <1>7, FlagsKeeps
<1>8. ASSUME NEW x \in Servers, REINDEX_work(x) PROVE ReInv'
  BY <1>8, WorkKeeps
<1>9. ASSUME NEW x \in Servers, REINDEX_send(x) PROVE ReInv'
  BY <1>9, ReindexSendKeeps
<1>10. ASSUME NEW x \in Servers, ReindexAnswer(x) PROVE ReInv'
  BY <1>10, AnswerKeeps
<1>11. ASSUME NEW x \in Servers, ReindexTimeout(x) PROVE ReInv'
  BY <1>11, TimeoutKeeps
<1>12. CASE StartNew
  BY <1>12, StartNewKeeps
<1>13. ASSUME NEW x \in All, NEW s \in Series, on_insert(x, s) PROVE ReInv'
  BY <1>13, OnInsertKeeps
<1>14. ASSUME NEW x \in Servers, siridb_servers_register(x) PROVE ReInv'
  BY <1>14, RegisterKeeps
<1>15. ASSUME NEW x \in Servers, ReindexWriteError(x) PROVE ReInv'
  BY <1>15, WriteErrorKeeps
<1>16. ASSUME NEW x \in Servers, LoseConnection(x) PROVE ReInv'
  BY <1>16, LoseKeeps
<1>17. CASE UNCHANGED vars
  BY <1>17, StutterKeeps
<1>18. CASE Progress
  BY <1>1, <1>2, <1>3, <1>4, <1>5, <1>6, <1>7, <1>8, <1>9, <1>10, <1>11, <1>12, <1>18
     DEF Progress
<1> QED BY <1>11, <1>13, <1>14, <1>15, <1>16, <1>17, <1>18 DEF Next

(* What may be where while a pool is added, and that every accepted point  *)
(* is in one place (reindex.c, insert.c, forward.c, replicate.c).          *)
THEOREM ReInvHolds ==
    ASSUME "busy" \notin Env
    PROVE  Spec => []ReInv
<1>1. Init => ReInv
  BY InitReInv
<1>2. ReInv /\ [Next]_vars => ReInv'
  BY NextReInv
<1> QED BY <1>1, <1>2, PTL DEF Spec

-----------------------------------------------------------------------------
(* What it is good for.                                                    *)

(* One carrier of all, or none.                                            *)
LEMMA CountIs ==
    ASSUME NEW w
    PROVE  LET n == Cardinality(w["insert"]) + Cardinality(w["net"])
                    + Cardinality(w["local"]) + Cardinality(w["forward"])
                    + Cardinality(w["task"]) + Cardinality(w["store"])
                    + Cardinality(w["fifo"])
           IN  (One(w) => n = 1) /\ (None(w) => n = 0)
<1>1. \A A : A = {} => Cardinality(A) = 0
  BY FS_EmptySet
<1>2. \A A : Single(A) => Cardinality(A) = 1
  BY FS_Singleton DEF Single
<1>3. /\ "insert" \in Tags /\ "net" \in Tags /\ "local" \in Tags /\ "forward" \in Tags
      /\ "task" \in Tags /\ "store" \in Tags /\ "fifo" \in Tags
  BY DEF Tags
<1> DEFINE c(k) == Cardinality(w[k])
<1>4. None(w) => \A k \in Tags : c(k) = 0
  BY <1>1 DEF None
<1>5. One(w) => \E k \in Tags : c(k) = 1 /\ \A j \in Tags \ {k} : c(j) = 0
  BY <1>1, <1>2 DEF One
<1> HIDE DEF c
<1>6. None(w) => c("insert") + c("net") + c("local") + c("forward") + c("task") + c("store")
                 + c("fifo") = 0
  BY <1>3, <1>4
<1>7. One(w) => c("insert") + c("net") + c("local") + c("forward") + c("task") + c("store")
                + c("fifo") = 1
  <2> SUFFICES ASSUME One(w)
               PROVE  c("insert") + c("net") + c("local") + c("forward") + c("task") + c("store")
                      + c("fifo") = 1
    OBVIOUS
  <2>1. PICK k \in Tags : c(k) = 1 /\ \A j \in Tags \ {k} : c(j) = 0
    BY <1>5
  <2>2. k \in {"insert", "net", "local", "forward", "task", "store", "fifo"}
    BY DEF Tags
  <2> QED BY <1>3, <2>1, <2>2
<1> QED BY <1>6, <1>7 DEF c

(* Where a point is for the server that is responsible for it is what      *)
(* Carriers counts.                                                        *)
LEMMA CarriersAre ==
    ASSUME ReInv, NEW p \in Points, NEW v \in Servers, Old(v, p[1]), Responsible(v, p[1])
    PROVE  Carriers(p) = Cardinality(InInserts(p)) + Cardinality(InNet(p))
                         + Cardinality(InLocals(p, v)) + Cardinality(InForwards(p))
                         + Cardinality(InTasks(p)) + Cardinality(InStores(p, v))
                         + Cardinality(InFifos(p, v))
<1>1. p[1] \in Series /\ v \in Views(p[1]) /\ v \in All /\ New \in All
  BY PointIs DEF Views, All
<1>2. ASSUME NEW y \in All, Pool(y) \in Places(p[1])
      PROVE  Responsible(y, p[1]) <=> y \in {v, New}
  <2>1. \/ y = v
        \/ y = New
        \/ y \in Replicas(v) /\ y # v /\ y # New
    BY <1>1, <1>2, ViewCases
  <2>2. Responsible(New, p[1])
    BY NewPool DEF Responsible
  <2>3. y \in Replicas(v) => ~Responsible(y, p[1])
    BY <1>1, OneReplica
  <2> QED BY <2>1, <2>2, <2>3
<1>3. {t \in locals : p \in t.pts /\ Responsible(t.at, p[1])} = InLocals(p, v)
  <2>1. ASSUME NEW t \in locals, p \in t.pts PROVE t.at \in All /\ Pool(t.at) \in Places(p[1])
    <3>1. t.at \in All /\ LocalOK(t)
      BY DEF ReInv, ShapeInv, TypeOK, Local, FlowInv
    <3>2. PICK s \in Series : PtsOK(t.pts, s, data) /\ Pool(t.at) \in Places(s)
      BY <3>1 DEF LocalOK, ArrivesOK
    <3>3. p[1] = s
      BY <2>1, <3>2, SeriesOfIs
    <3> QED BY <3>1, <3>2, <3>3
  <2> QED BY <1>2, <2>1 DEF InLocals
<1>4. {c \in All \X {1, 2} : store[c[1]][p] >= c[2] /\ Responsible(c[1], p[1])} = InStores(p, v)
  <2>1. ASSUME NEW c \in All \X {1, 2}, store[c[1]][p] >= c[2]
        PROVE  Pool(c[1]) \in Places(p[1])
    <3>1. c[1] \in All /\ c[2] \in {1, 2}
      OBVIOUS
    <3>2. store[c[1]][p] \in Nat
      BY <3>1 DEF ReInv, ShapeInv
    <3>3. store[c[1]][p] > 0
      BY <2>1, <3>1, <3>2
    <3> QED BY <3>1, <3>3 DEF ReInv, StoreInv, StoredOK
  <2>2. \A c \in All \X {1, 2} :
          store[c[1]][p] >= c[2] => (Responsible(c[1], p[1]) <=> c[1] \in {v, New})
    BY <1>2, <2>1
  <2>3. \A c : c \in {v, New} \X {1, 2} <=> c \in All \X {1, 2} /\ c[1] \in {v, New}
    BY <1>1
  <2> QED BY <2>2, <2>3 DEF InStores
<1>5. UNION {{<<x, i>> : i \in {i \in DOMAIN fifo[x] :
                p \in fifo[x][i].pts /\ ~(i = 1 /\ x \in out)}} :
             x \in {x \in Servers : \E y \in Replicas(x) : Responsible(y, p[1])}}
      = InFifos(p, v)
  <2> DEFINE In(x, i) == i \in DOMAIN fifo[x] /\ p \in fifo[x][i].pts /\ ~(i = 1 /\ x \in out)
             Pair(x) == \E y \in Replicas(x) : Responsible(y, p[1])
             L == UNION {{<<x, i>> : i \in {i \in DOMAIN fifo[x] :
                            p \in fifo[x][i].pts /\ ~(i = 1 /\ x \in out)}} :
                         x \in {x \in Servers : \E y \in Replicas(x) : Responsible(y, p[1])}}
  <2>1. \A x \in Servers : DOMAIN fifo[x] = 1 .. Len(fifo[x]) /\ Len(fifo[x]) \in Nat
    BY DEF ReInv, ShapeInv, TypeOK
  <2>2. \A c : c \in L <=> \E x \in Servers, i \in Nat : c = <<x, i>> /\ Pair(x) /\ In(x, i)
    BY <2>1
  <2>3. \A x \in Replicas(v) : x \in Servers
    BY <1>1, OneReplica
  <2>4. \A c : c \in InFifos(p, v) <=>
               \E x \in Replicas(v), i \in Nat : c = <<x, i>> /\ In(x, i)
    <3>1. \A c : c \in Replicas(v) \X Nat <=>
                   \E x \in Replicas(v), i \in Nat : c = <<x, i>>
      OBVIOUS
    <3>2. \A x \in Replicas(v), i \in Nat :
            In(x, i) <=> /\ i \in 1 .. Len(fifo[x])
                         /\ p \in fifo[x][i].pts /\ ~(i = 1 /\ x \in out)
      BY <2>1, <2>3
    <3> HIDE DEF In
    <3> QED BY <3>1, <3>2 DEF InFifos
  <2>5. ASSUME NEW x \in Servers, NEW i \in Nat, In(x, i)
        PROVE  Pair(x) <=> x \in Replicas(v)
    <3>1. FifoOK(x, fifo[x][i], data) /\ x \in All
      BY <2>1, <2>5 DEF ReInv, FlowInv, QueuesOK, All
    <3>2. fifo[x] \in Seq(FifoPackage)
      BY DEF ReInv, ShapeInv, TypeOK
    <3>3. fifo[x][i].series \in Series
      <4>1. fifo[x][i] \in FifoPackage
        BY <2>1, <2>5, <3>2
      <4> QED BY <4>1 DEF FifoPackage
    <3>4. PtsOK(fifo[x][i].pts, fifo[x][i].series, data) /\ Old(x, fifo[x][i].series)
      BY <2>5, <3>1 DEF FifoOK, DropPkg
    <3>5. Old(x, p[1])
      BY <2>5, <3>3, <3>4, SeriesOfIs
    <3>6. x \in Replicas(v) => Pair(x)
      BY <1>1, OneReplica
    <3>7. ASSUME NEW y \in Replicas(x), Responsible(y, p[1]) PROVE x \in Replicas(v)
      <4>1. y \in All /\ Pool(y) = Pool(x) /\ Replicas(y) = {x} /\ y # New
        BY <3>1, OneReplica, ReindexAssumption DEF All
      <4>2. Pool(y) \in Places(p[1])
        BY <3>5, <4>1 DEF Old, Places
      <4>3. y = v
        BY <1>2, <3>7, <4>1, <4>2
      <4> QED BY <4>1, <4>3
    <3> QED BY <3>6, <3>7
  <2> HIDE DEF In, Pair, L
  <2>6. \A c : c \in L <=> c \in InFifos(p, v)
    BY <2>2, <2>3, <2>4, <2>5
  <2>7. L = InFifos(p, v)
    BY <2>6
  <2> QED BY <2>7 DEF L
<1> QED BY <1>3, <1>4, <1>5 DEF Carriers, InInserts, InNet, InForwards, InTasks

(* No point is lost or doubled: PointsSafe.                                *)
LEMMA ReInvSafe == ReInv => PointsSafe
<1> SUFFICES ASSUME ReInv PROVE PointsSafe
  OBVIOUS
<1>1. ASSUME NEW p \in data PROVE Carriers(p) = IF p \in gaveUp THEN 0 ELSE 1
  <2>1. p \in Points /\ p[1] \in Series
    BY PointIs DEF ReInv, ShapeInv, TypeOK
  <2>2. PICK v \in Servers : Old(v, p[1]) /\ Responsible(v, p[1])
    BY <2>1, SomeResponsible
  <2>3. v \in Views(p[1])
    BY <2>2 DEF Views
  <2> DEFINE w == Where(p, v)
  <2>4. /\ p \notin gaveUp => One(w)
        /\ p \in gaveUp => None(w)
    BY <2>1, <2>3 DEF ReInv, CarryInv
  <2>5. Carriers(p) = Cardinality(w["insert"]) + Cardinality(w["net"])
                      + Cardinality(w["local"]) + Cardinality(w["forward"])
                      + Cardinality(w["task"]) + Cardinality(w["store"])
                      + Cardinality(w["fifo"])
    BY <2>1, <2>2, CarriersAre, WhereIs
  <2> HIDE DEF w
  <2> QED BY <2>4, <2>5, CountIs
<1>2. GivenUpByFault
  BY DEF ReInv, CalmInv, GivenUpByFault
<1> QED BY <1>1, <1>2 DEF PointsSafe, Conserved, ReInv, ShapeInv

(* A point that is in one of two stores.                                   *)
LEMMA OneCopy ==
    ASSUME NEW m \in Nat, NEW n \in Nat, NEW v, v # New, Single(Copies(m, v) \cup Copies(n, New))
    PROVE  (m = 1 /\ n = 0) \/ (m = 0 /\ n = 1)
<1>1. PICK a : Copies(m, v) \cup Copies(n, New) = {a}
  BY DEF Single
<1>2. /\ m > 0 => <<v, 1>> = a
      /\ m > 1 => <<v, 2>> = a
      /\ n > 0 => <<New, 1>> = a
      /\ n > 1 => <<New, 2>> = a
  BY <1>1, CopiesAre
<1>3. ~(m > 0 /\ n > 0) /\ ~(m > 1) /\ ~(n > 1)
  BY <1>2
<1>4. ~(m = 0 /\ n = 0)
  <2> SUFFICES ASSUME m = 0, n = 0 PROVE FALSE
    OBVIOUS
  <2>1. Copies(0, v) = {} /\ Copies(0, New) = {}
    BY CopiesAre
  <2> QED BY <1>1, <2>1
<1> QED BY <1>3, <1>4

(* When all is done, a point is in the store of each server that has to    *)
(* have it, or in that of the new server.                                  *)
LEMMA Arrived ==
    ASSUME ReInv, busy = {}, Quiet, NEW p \in data \ gaveUp, NEW v \in Views(p[1])
    PROVE  \/ store[v][p] = 1 /\ store[New][p] = 0
           \/ store[v][p] = 0 /\ store[New][p] = 1
<1>1. p \in Points /\ v \in Servers /\ v \in All /\ New \in All /\ v # New
  BY ReindexAssumption DEF ReInv, ShapeInv, TypeOK, Views, All
<1> DEFINE w == Where(p, v)
<1>2. One(w)
  BY <1>1 DEF ReInv, CarryInv
<1>3. w["insert"] = {} /\ w["net"] = {} /\ w["local"] = {} /\ w["forward"] = {}
  BY WhereIs DEF Quiet, InInserts, InNet, InLocals, InForwards
<1>4. w["task"] = {}
  <2>1. \A y \in Servers : task[y].phase = "none"
    BY DEF ReInv, TaskInv, TaskOK
  <2> QED BY <2>1, WhereIs DEF InTasks
<1>5. w["fifo"] = {}
  <2>1. \A y \in Replicas(v) : y \in Servers /\ fifo[y] = <<>>
    BY <1>1, OneReplica DEF Quiet
  <2>2. \A y \in Replicas(v) : 1 .. Len(fifo[y]) = {}
    BY <2>1
  <2> QED BY <2>2, WhereIs DEF InFifos
<1>6. w["store"] = Copies(store[v][p], v) \cup Copies(store[New][p], New)
  BY WhereIs, StoresIs
<1> HIDE DEF w
<1>7. Single(w["store"])
  BY <1>2, <1>3, <1>4, <1>5 DEF One, Tags, Single
<1>8. store[v][p] \in Nat /\ store[New][p] \in Nat
  BY <1>1 DEF ReInv, ShapeInv
<1> QED BY <1>1, <1>6, <1>7, <1>8, OneCopy

(* Every point ends where the look-up table says: HomeIsRight.             *)
LEMMA ReInvHome == ReInv => HomeIsRight
<1> SUFFICES ASSUME ReInv PROVE HomeIsRight
  OBVIOUS
<1>1. LookupMoves
  <2>1. ASSUME NEW x \in Servers, task[x].phase = "send"
        PROVE  prev_lookup[task[x].series] = Pool(x)
    BY <2>1, WaitMoves DEF Moving, Old
  <2> QED BY <2>1, LookupParts DEF LookupMoves
<1>2. AllHome
  <2> SUFFICES ASSUME registered = Servers, busy = {}, Quiet, NEW p \in data \ gaveUp,
                      NEW x \in All
               PROVE  store[x][p] = IF Pool(x) = new_lookup[p[1]] THEN 1 ELSE 0
    BY DEF AllHome
  <2>1. p \in Points /\ New \in All
    BY DEF ReInv, ShapeInv, TypeOK, All
  <2>2. PICK s \in Series : s = p[1] /\ p \in PointsOf(s)
    BY <2>1, PointIs
  <2>3. \A z \in All : store[z][p] \in Nat /\ (store[z][p] > 0 => Pool(z) \in Places(s))
    BY <2>1, <2>2 DEF ReInv, ShapeInv, StoreInv, StoredOK
  <2>4. CASE ~Moves(s)
    <3>1. Places(s) = {new_lookup[s]} /\ new_lookup[s] # NumPools
      BY <2>4, SeriesPools DEF Places, Moves
    <3>2. CASE Pool(x) # new_lookup[s]
      BY <2>2, <2>3, <3>1, <3>2
    <3>3. CASE Pool(x) = new_lookup[s]
      <4>1. x \in Views(s)
        BY <2>4, <3>1, <3>3, NewPool DEF Views, Old, Moves, All
      <4>2. store[New][p] = 0
        BY <2>1, <2>3, <3>1, NewPool
      <4> QED BY <2>2, <3>3, <4>1, <4>2, Arrived
    <3> QED BY <3>2, <3>3
  <2>5. CASE Moves(s)
    <3>1. new_lookup[s] = NumPools
      BY <2>5, SeriesPools
    <3>2. \A z \in Servers : TaskOK(z) /\ todo[z] = {} /\ task[z] = NoTask
      <4> SUFFICES ASSUME NEW z \in Servers PROVE TaskOK(z) /\ todo[z] = {} /\ task[z] = NoTask
        OBVIOUS
      <4>1. TaskOK(z)
        BY DEF ReInv, TaskInv
      <4>2. task[z].phase = "none" /\ todo[z] = {}
        BY <4>1 DEF TaskOK
      <4> QED BY <4>1, <4>2 DEF TaskOK, Moving, Working, NoTask
    <3>3. \A z \in Servers : Responsible(z, s) => ~Has(z, s)
      BY <2>5, <3>2 DEF TaskOK
    <3>4. \A z \in Servers : ~Has(z, s)
      <4> SUFFICES ASSUME NEW z \in Servers, Has(z, s), ~Responsible(z, s) PROVE FALSE
        BY <3>3
      <4>1. PICK u \in Replicas(z) : TRUE
        BY DEF Responsible
      <4>2. u \in Servers /\ Responsible(u, s)
        BY <4>1, OneReplica DEF All
      <4>3. Has(u, s) \/ task[u].series = s \/ DropQueued(u, s)
        BY <2>5, <4>1, <4>2 DEF ReInv, StoreInv, LeftOK
      <4>4. ~Has(u, s) /\ task[u].series # s
        BY <3>2, <3>3, <4>2, NoSeries DEF NoTask
      <4>5. 1 .. Len(fifo[u]) = {}
        BY <4>2 DEF Quiet
      <4> QED BY <4>3, <4>4, <4>5 DEF DropQueued
    <3>5. \A z \in Servers : store[z][p] = 0
      BY <2>2, <2>3, <3>4 DEF Has, All
    <3>6. CASE x \in Servers
      <4>1. Pool(x) # NumPools
        BY <3>6, NewPool
      <4> QED BY <2>2, <3>1, <3>5, <3>6, <4>1
    <3>7. CASE x = New
      <4>1. PICK v \in Servers : Old(v, s) /\ Responsible(v, s)
        BY SomeResponsible
      <4>2. v \in Views(p[1])
        BY <2>2, <4>1 DEF Views
      <4>3. store[v][p] = 0
        BY <3>5
      <4>4. store[New][p] = 1
        BY <4>2, <4>3, Arrived
      <4>5. Pool(New) = NumPools
        BY NewPool
      <4> QED BY <2>2, <3>1, <3>7, <4>4, <4>5
    <3> QED BY <3>6, <3>7 DEF All
  <2> QED BY <2>4, <2>5
<1> QED BY <1>1, <1>2 DEF HomeIsRight

(* However inserts, the moving of series, the replication and the flags    *)
(* interleave, no accepted point is lost or doubled, unless a connection   *)
(* failed and that was logged (reindex.c, insert.c, forward.c).            *)
THEOREM PointsSafeHolds ==
    ASSUME "busy" \notin Env
    PROVE  Spec => []PointsSafe
  BY ReInvHolds, ReInvSafe, PTL

(* The larger look-up table only moves slots to the new pool, and when the *)
(* servers have moved their series, each point is where it says, on every  *)
(* server of that pool, and no copy is left behind (lookup.c, reindex.c).  *)
THEOREM HomeIsRightHolds ==
    ASSUME "busy" \notin Env
    PROVE  Spec => []HomeIsRight
  BY ReInvHolds, ReInvHome, PTL
=============================================================================
