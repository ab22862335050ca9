-------------------------- MODULE ConnectionProofs --------------------------
(***************************************************************************)
(* Proofs about the promises and the references of the connection between  *)
(* two servers, for any number of package ids, any size of the queue and   *)
(* any number of faults.                                                   *)
(*                                                                         *)
(* The invariant says of each record which promise every package belongs   *)
(* to, and how many ids were used since it was sent (Fits): that number is *)
(* why an answer that is late is not taken for another one.  It says of    *)
(* both records together that a back-end stream is only there when no      *)
(* request for authentication is on its way (Quiet): that is why the       *)
(* reference of the back-end stream is taken once.                         *)
(***************************************************************************)
EXTENDS Connection, FiniteSetTheorems, WellFoundedInduction, TLAPS

(* The record of a server.                                                 *)
Node == [flags : SUBSET Flags, pid : Pids, listed : BOOLEAN, ref : Int,
         stream : Stream \cup {NULL}, backend : BOOLEAN, resolvers : Int,
         promises : SUBSET Promise]

(* The callback of a promise in the map was not called, and that of a      *)
(* promise that ended was; then only the write has a reference to it.      *)
Called(n) == \A p \in n.promises : p.calls = (IF p.open THEN 0 ELSE 1) /\ (p.open \/ p.ref = 1)
(* An id belongs to one promise, also when that one ended and its write    *)
(* still waits.                                                            *)
PidsUnique(n) == \A p, r \in n.promises : p.pid = r.pid => p = r
(* The queue-full flag, which is only kept up for a server that packages   *)
(* can be sent to; that one has a stream that was opened.                  *)
FullExact(n) == "full" \in n.flags <=> Cardinality(Open(n)) >= QueueSize
FullOK(n) == "authenticated" \in n.flags => FullExact(n)
AuthOK(n) == "authenticated" \in n.flags =>
                n.stream # NULL /\ n.stream.state \in {"open", "closing"}

(* A write that waits has its promise, with the reference of the write.    *)
WaitOK(n) ==
    /\ \A i \in 1..Len(n.stream.wait) : \E p \in n.promises :
          /\ p.pid = n.stream.wait[i].pid /\ p.open = ~n.stream.wait[i].stale
          /\ p.open => p.ref = 2
    /\ \A i, j \in 1..Len(n.stream.wait) :
          n.stream.wait[i].pid = n.stream.wait[j].pid => i = j

(* The next id follows from the id and the age of a package, as long as    *)
(* not all ids were used since.                                            *)
Fits(pid, m) ==
    \/ m.age >= PidMod
    \/ pid = (m.pid + 1 + m.age) % PidMod
AgesOK(n) ==
    n.stream.state = "open" =>
        /\ \A i \in 1..Len(n.stream.wait) : Fits(n.pid, n.stream.wait[i])
        /\ \A i \in 1..Len(n.stream.out) : Fits(n.pid, n.stream.out[i])
        /\ \A m \in n.stream.in : Fits(n.pid, m)

(* The answer to a package whose promise ended finds no promise.           *)
NotTaken(n, m) == m.stale => \A p \in Open(n) : p.pid # m.pid
AnswersOK(n) ==
    /\ \A i \in 1..Len(n.stream.out) : NotTaken(n, n.stream.out[i])
    /\ \A m \in n.stream.in : NotTaken(n, m)

(* Packages are only on their way on an open stream, and only wait on one  *)
(* that was opened.                                                        *)
NewOK(n) ==
    /\ n.stream.state # "open" => n.stream.out = <<>> /\ n.stream.in = {}
    /\ n.stream.state \in {"resolving", "connecting"} => n.stream.wait = <<>>

(* The request for authentication is the first package on a stream.        *)
AuthFirst(n) ==
    /\ \A i \in 1..Len(n.stream.out) : n.stream.out[i].kind = "auth" => i = 1
    /\ \A i \in 1..Len(n.stream.wait) :
          n.stream.wait[i].kind = "auth" => i = 1 /\ n.stream.out = <<>>

(* What holds of a stream and the promises of its packages.                *)
StreamInv(n) == WaitOK(n) /\ AgesOK(n) /\ AnswersOK(n) /\ NewOK(n) /\ AuthFirst(n)

(* The references that a record needs.                                     *)
One(b) == IF b THEN 1 ELSE 0
Refs(n) == One(n.listed) + One(n.stream # NULL) + One(n.backend)

(* What holds of the record of a server, but for its references.           *)
BodyInv(n) ==
    /\ n \in Node /\ IsFiniteSet(n.promises)
    /\ Called(n) /\ PidsUnique(n) /\ FullOK(n) /\ AuthOK(n)
    /\ n.stream # NULL => StreamInv(n)

NodeInv(n) == BodyInv(n) /\ n.ref = Refs(n)

(* No request for authentication is on its way any more.                   *)
Quiet(n) ==
    /\ n.stream # NULL /\ n.stream.state \in {"open", "closing"}
    /\ n.stream.state = "open" =>
          /\ \A i \in 1..Len(n.stream.out) : n.stream.out[i].kind # "auth"
          /\ \A i \in 1..Len(n.stream.wait) : n.stream.wait[i].kind # "auth"

(* The inductive invariant: a server has a back-end stream from the other  *)
(* one only when the request for it was read.                              *)
ConnInv ==
    /\ DOMAIN node = Side
    /\ faults \in 0..MaxFaults
    /\ \A x \in Side : NodeInv(node[x]) /\ (node[Other(x)].backend => Quiet(node[x]))

-----------------------------------------------------------------------------
(* Package ids.                                                            *)

(* An id is taken modulo the number of ids.                                *)
LEMMA ModType == \A a \in Int : a % PidMod \in Pids
  BY ConnectionAssumption DEF Pids

(* An id that is not past the last one is taken as it is.                  *)
LEMMA ModSmall == \A a \in Nat : a < PidMod => a % PidMod = a
  BY ConnectionAssumption

(* An id that is past the last one starts again at zero.                   *)
LEMMA ModWrap ==
    ASSUME NEW a \in Int, a >= PidMod, a < PidMod + PidMod
    PROVE  a % PidMod = a - PidMod
  BY ConnectionAssumption

(* The order of the library is the one of the numbers.                     *)
LEMMA LessIsOrder == \A m, n \in Nat : m < n => <<m, n>> \in OpToRel(<, Nat)
  BY Zenon DEF OpToRel

(* A set of numbers that is not empty has its minimum.                     *)
LEMMA MinIn ==
    ASSUME NEW S \in SUBSET Nat, S # {}
    PROVE  Min(S) \in S
<1>1. \E n \in S : \A m \in S : ~(<<m, n>> \in OpToRel(<, Nat))
  BY WFMin, NatLessThanWellFounded, Zenon
<1>2. \E n \in S : \A m \in S : ~(m < n)
  BY <1>1, LessIsOrder, Zenon
<1>3. \E n \in S : \A m \in S : n =< m
  BY <1>2
<1>4. Min(S) = CHOOSE n \in S : \A m \in S : n =< m
  BY DEF Min
<1> HIDE DEF Min
<1> QED BY <1>3, <1>4, Zenon

(* The id that is found for a package is an id, and no open promise has    *)
(* it.                                                                     *)
LEMMA TriedOK ==
    ASSUME NEW n, n.pid \in Pids, Free(n) # {}
    PROVE  /\ Tried(n) \in 1..PidMod /\ Tried(n) = Min(Free(n))
           /\ (n.pid + Tried(n) - 1) % PidMod \in Pids
           /\ \A p \in Open(n) : p.pid # (n.pid + Tried(n) - 1) % PidMod
<1>1. Free(n) \in SUBSET Nat
  BY ConnectionAssumption DEF Free
<1>2. Min(Free(n)) \in Free(n)
  BY <1>1, MinIn
<1>3. Tried(n) \in 1..PidMod /\ \A p \in Open(n) : p.pid # (n.pid + Tried(n) - 1) % PidMod
  BY <1>2 DEF Tried, Free
<1>4. n.pid + Tried(n) - 1 \in Int
  BY <1>3, ConnectionAssumption DEF Pids
<1> QED BY <1>3, <1>4, ModType DEF Tried

(* After k more ids a package is k older.                                  *)
LEMMA FitsAged ==
    ASSUME NEW pid \in Pids, NEW m \in Msg, NEW k \in 1..PidMod, Fits(pid, m)
    PROVE  Fits((pid + k) % PidMod, Aged(m, k))
<1>1. Aged(m, k).age = m.age + k /\ Aged(m, k).pid = m.pid
  BY DEF Aged, Msg
<1>2. m.age \in Nat /\ m.pid \in Pids
  BY DEF Msg
<1>3. CASE m.age + k >= PidMod
  BY <1>1, <1>3 DEF Fits
<1>4. CASE m.age + k < PidMod
  <2>1. pid = (m.pid + 1 + m.age) % PidMod
    BY <1>2, <1>4, ConnectionAssumption DEF Fits
  <2>2. m.pid + 1 + m.age < PidMod \/ m.pid + 1 + m.age >= PidMod
    BY <1>2, ConnectionAssumption DEF Pids
  <2>3. (pid + k) % PidMod = (m.pid + 1 + (m.age + k)) % PidMod
    <3>1. CASE m.pid + 1 + m.age < PidMod
      <4>1. pid = m.pid + 1 + m.age
        BY <1>2, <2>1, <3>1, ModSmall DEF Pids
      <4> QED BY <1>2, <4>1, ConnectionAssumption DEF Pids
    <3>2. CASE m.pid + 1 + m.age >= PidMod
      <4>1. pid = m.pid + 1 + m.age - PidMod
        BY <1>2, <1>4, <2>1, <3>2, ModWrap, ConnectionAssumption DEF Pids
      <4> DEFINE a == m.pid + 1 + (m.age + k)
      <4>2. a \in Int /\ a >= PidMod /\ a < PidMod + PidMod
        BY <1>2, <1>4, <3>2, ConnectionAssumption DEF Pids
      <4>3. a % PidMod = a - PidMod
        BY <4>2, ModWrap
      <4>4. pid + k = a - PidMod /\ pid + k \in Nat /\ pid + k < PidMod
        BY <1>2, <4>1, <4>2, ConnectionAssumption DEF Pids
      <4>5. (pid + k) % PidMod = pid + k
        BY <4>4, ModSmall
      <4> QED BY <4>3, <4>4, <4>5
    <3> QED BY <2>2, <3>1, <3>2
  <2> QED BY <1>1, <2>3 DEF Fits
<1> QED BY <1>2, <1>3, <1>4, ConnectionAssumption

(* The id of the next package is not the id of one that is on its way.     *)
LEMMA FitsOther ==
    ASSUME NEW pid \in Pids, NEW m \in Msg, NEW k \in 1..PidMod, Fits(pid, m),
           m.age + k < PidMod
    PROVE  (pid + k - 1) % PidMod # m.pid
<1>1. m.age \in Nat /\ m.pid \in Pids
  BY DEF Msg
<1>2. pid = (m.pid + 1 + m.age) % PidMod
  BY <1>1, ConnectionAssumption DEF Fits
<1> DEFINE a == m.pid + 1 + m.age
           b == pid + k - 1
<1>3. CASE a < PidMod
  <2>1. pid = a
    BY <1>1, <1>2, <1>3, ModSmall DEF Pids
  <2>2. b = m.pid + (m.age + k)
    BY <1>1, <2>1, ConnectionAssumption DEF Pids
  <2>3. CASE b < PidMod
    <3>1. b % PidMod = b
      BY <1>1, <2>2, <2>3, ModSmall, ConnectionAssumption DEF Pids
    <3> QED BY <1>1, <2>2, <3>1, ConnectionAssumption DEF Pids
  <2>4. CASE b >= PidMod
    <3>1. b < PidMod + PidMod /\ b \in Int
      BY <1>1, <2>2, ConnectionAssumption DEF Pids
    <3>2. b % PidMod = b - PidMod
      BY <2>4, <3>1, ModWrap
    <3> QED BY <1>1, <2>2, <3>2, ConnectionAssumption DEF Pids
  <2>5. b \in Int
    BY <1>1, <2>2, ConnectionAssumption DEF Pids
  <2> QED BY <2>3, <2>4, <2>5, ConnectionAssumption
<1>4. CASE a >= PidMod
  <2>1. a < PidMod + PidMod /\ a \in Int
    BY <1>1, ConnectionAssumption DEF Pids
  <2>2. pid = a - PidMod
    BY <1>2, <1>4, <2>1, ModWrap
  <2>3. b = m.pid + (m.age + k) - PidMod
    BY <1>1, <2>2, ConnectionAssumption DEF Pids
  <2>4. b \in Nat /\ b < PidMod
    BY <1>1, <1>4, <2>2, <2>3, ConnectionAssumption DEF Pids
  <2>5. b % PidMod = b
    BY <2>4, ModSmall
  <2> QED BY <1>1, <2>3, <2>5, ConnectionAssumption DEF Pids
<1>5. a \in Int
  BY <1>1, ConnectionAssumption DEF Pids
<1> QED BY <1>3, <1>4, <1>5, ConnectionAssumption

(* The next id follows the id of the new package.                          *)
LEMMA FitsNew ==
    ASSUME NEW pid \in Pids, NEW k \in 1..PidMod, NEW m,
           m.pid = (pid + k - 1) % PidMod, m.age = 0
    PROVE  Fits((pid + k) % PidMod, m)
<1> DEFINE b == pid + k - 1
<1>1. b \in Nat /\ b < PidMod + PidMod /\ b + 1 = pid + k
  BY ConnectionAssumption DEF Pids
<1>2. CASE b < PidMod
  <2>1. m.pid = b
    BY <1>1, <1>2, ModSmall
  <2> QED BY <1>1, <2>1 DEF Fits
<1>3. CASE b >= PidMod
  <2>1. m.pid = b - PidMod
    BY <1>1, <1>3, ModWrap
  <2>2. pid + k < PidMod + PidMod
    BY ConnectionAssumption DEF Pids
  <2>3. (pid + k) % PidMod = b + 1 - PidMod
    BY <1>1, <1>3, <2>2, ModWrap, ConnectionAssumption DEF Pids
  <2>4. b + 1 - PidMod \in Nat /\ b + 1 - PidMod < PidMod
    BY <1>1, <1>3, <2>2, ConnectionAssumption DEF Pids
  <2>5. (m.pid + 1 + m.age) % PidMod = b + 1 - PidMod
    BY <1>1, <2>1, <2>4, ModSmall, ConnectionAssumption
  <2> QED BY <2>3, <2>5 DEF Fits
<1> QED BY <1>1, <1>2, <1>3, ConnectionAssumption

-----------------------------------------------------------------------------
(* What the operators on the record of a server do.                        *)

(* Everything but the flags.                                               *)
SameButFlags(n, u) ==
    /\ u.pid = n.pid /\ u.listed = n.listed /\ u.ref = n.ref /\ u.stream = n.stream
    /\ u.backend = n.backend /\ u.resolvers = n.resolvers /\ u.promises = n.promises

(* What a step of the stream or of a promise leaves alone.                 *)
Keeps(n, u) ==
    /\ u.ref = n.ref /\ u.listed = n.listed /\ u.backend = n.backend
    /\ (u.stream = NULL <=> n.stream = NULL)

(* The record then needs the same references.                              *)
LEMMA KeepsRefs == ASSUME NEW n, NEW u, Keeps(n, u) PROVE Refs(u) = Refs(n)
  BY DEF Keeps, Refs

(* A record whose flags changed.                                           *)
LEMMA FlagsSet ==
    ASSUME NEW n \in Node, NEW F \in SUBSET Flags
    PROVE  LET u == [n EXCEPT !.flags = F]
           IN  u \in Node /\ u.flags = F /\ SameButFlags(n, u)
  BY DEF Node, SameButFlags

(* The flags are not part of what is said of packages and promises.        *)
LEMMA SameBody ==
    ASSUME NEW n, NEW u, BodyInv(n), u \in Node, SameButFlags(n, u), FullOK(u), AuthOK(u)
    PROVE  BodyInv(u) /\ Refs(u) = Refs(n) /\ (Quiet(n) <=> Quiet(u))
<1>1. Called(u) /\ PidsUnique(u) /\ IsFiniteSet(u.promises) /\ Open(u) = Open(n)
  BY DEF BodyInv, SameButFlags, Called, PidsUnique, Open
<1>2. n.stream # NULL => StreamInv(u)
  BY <1>1 DEF BodyInv, SameButFlags, StreamInv, WaitOK, AgesOK, AnswersOK, NotTaken, NewOK,
     AuthFirst
<1>3. Refs(u) = Refs(n) /\ (Quiet(n) <=> Quiet(u))
  BY DEF SameButFlags, Refs, Quiet
<1> QED BY <1>1, <1>2, <1>3 DEF BodyInv, SameButFlags

(* The flag follows the number of open promises.                           *)
LEMMA UpdOK ==
    ASSUME NEW n \in Node
    PROVE  LET u == SERVER_upd_flag_queue_full(n)
           IN  /\ u \in Node /\ SameButFlags(n, u) /\ FullExact(u)
               /\ "authenticated" \in u.flags <=> "authenticated" \in n.flags
<1> DEFINE F == IF Cardinality(Open(n)) >= QueueSize THEN n.flags \cup {"full"}
                ELSE n.flags \ {"full"}
           u == [n EXCEPT !.flags = F]
<1>1. F \in SUBSET Flags
  BY DEF Node, Flags
<1>2. u = SERVER_upd_flag_queue_full(n)
  BY DEF SERVER_upd_flag_queue_full
<1>3. u \in Node /\ u.flags = F /\ SameButFlags(n, u)
  BY <1>1, FlagsSet
<1>4. Open(u) = Open(n)
  BY <1>3 DEF Open, SameButFlags
<1>5. FullExact(u)
  BY <1>3, <1>4 DEF FullExact
<1>6. "authenticated" \in u.flags <=> "authenticated" \in n.flags
  BY <1>3
<1> QED BY <1>2, <1>3, <1>5, <1>6

(* A record whose stream changed.                                          *)
LEMMA StreamSet ==
    ASSUME NEW n \in Node, NEW s \in Stream
    PROVE  LET u == [n EXCEPT !.stream = s]
           IN  /\ u \in Node /\ u.stream = s /\ s # NULL
               /\ u.flags = n.flags /\ u.pid = n.pid /\ u.listed = n.listed
               /\ u.ref = n.ref /\ u.backend = n.backend /\ u.promises = n.promises
               /\ u.resolvers = n.resolvers
  BY NullAssumption DEF Node

(* A stream after some of its fields changed.                              *)
Closed(s, r, c, i, o) == [s EXCEPT !.ref = r, !.state = c, !.in = i, !.out = o]
Carries(s, w, o, i) == [s EXCEPT !.wait = w, !.out = o, !.in = i]

StreamIs(z, c, b, w, o, i) ==
    /\ z \in Stream /\ z.state = c /\ z.broken = b
    /\ z.wait = w /\ z.out = o /\ z.in = i

(* The fields of a stream that is closed.                                  *)
LEMMA StreamClosed ==
    ASSUME NEW s \in Stream, NEW r \in Int, NEW c \in States, NEW i \in SUBSET Msg,
           NEW o \in Seq(Msg)
    PROVE  StreamIs(Closed(s, r, c, i, o), c, s.broken, s.wait, o, i)
  BY DEF Stream, Closed, StreamIs

(* The fields of a stream with other packages.                             *)
LEMMA StreamCarries ==
    ASSUME NEW s \in Stream, NEW w \in Seq(Msg), NEW o \in Seq(Msg), NEW i \in SUBSET Msg
    PROVE  StreamIs(Carries(s, w, o, i), s.state, s.broken, w, o, i)
  BY DEF Stream, Carries, StreamIs

(* A reference to the stream is given up.                                  *)
LEMMA StreamDecrefOK ==
    ASSUME NEW n, BodyInv(n), n.stream # NULL
    PROVE  LET u == sirinet_stream_decref(n)
           IN  BodyInv(u) /\ Keeps(n, u) /\ (Quiet(n) => Quiet(u))
<1> DEFINE s == n.stream
           z == IF s.ref # 1 THEN [s EXCEPT !.ref = s.ref - 1]
                ELSE [s EXCEPT !.ref = 0, !.state = "closing", !.in = {}, !.out = <<>>]
           u == [n EXCEPT !.stream = z]
<1>1. n \in Node /\ s \in Stream /\ StreamInv(n)
  BY DEF BodyInv, Node
<1>2. /\ z \in Stream /\ z.wait = s.wait
      /\ z.state = s.state \/ z.state = "closing"
      /\ \/ z.out = s.out /\ z.in = s.in /\ z.state = s.state
         \/ z.out = <<>> /\ z.in = {} /\ z.state = "closing"
  <2>1. CASE s.ref # 1
    <3>1. z = [s EXCEPT !.ref = s.ref - 1]
      BY <2>1
    <3> QED BY <1>1, <3>1 DEF Stream
  <2>2. CASE s.ref = 1
    <3>1. z = Closed(s, 0, "closing", {}, <<>>)
      BY <2>2 DEF Closed
    <3>2. "closing" \in States /\ {} \in SUBSET Msg /\ <<>> \in Seq(Msg) /\ 0 \in Int
      BY DEF States
    <3> HIDE DEF z
    <3>3. /\ z \in Stream /\ z.wait = s.wait /\ z.out = <<>> /\ z.in = {} /\ z.state = "closing"
      <4>1. StreamIs(z, "closing", s.broken, s.wait, <<>>, {})
        BY <1>1, <3>1, <3>2, StreamClosed, Zenon
      <4> QED BY <4>1 DEF StreamIs
    <3> QED BY <3>3
  <2> QED BY <2>1, <2>2
<1>3. u = sirinet_stream_decref(n)
  BY DEF sirinet_stream_decref
<1> HIDE DEF z
<1>4. /\ u \in Node /\ u.stream = z /\ z # NULL
      /\ u.flags = n.flags /\ u.pid = n.pid /\ u.listed = n.listed
      /\ u.ref = n.ref /\ u.backend = n.backend /\ u.promises = n.promises
  BY <1>1, <1>2, StreamSet
<1> HIDE DEF u
<1>5. Open(u) = Open(n)
  BY <1>4 DEF Open
<1>6. IsFiniteSet(u.promises) /\ Called(u) /\ PidsUnique(u) /\ FullOK(u) /\ AuthOK(u)
  BY <1>2, <1>4, <1>5 DEF BodyInv, Called, PidsUnique, FullOK, FullExact, AuthOK
<1>7. WaitOK(u)
  BY <1>1, <1>2, <1>4 DEF StreamInv, WaitOK
<1>8. AgesOK(u) /\ AnswersOK(u) /\ NewOK(u) /\ AuthFirst(u)
  <2>1. CASE z.out = s.out /\ z.in = s.in /\ z.state = s.state
    BY <1>1, <1>2, <1>4, <1>5, <2>1 DEF StreamInv, AgesOK, AnswersOK, NotTaken, NewOK, AuthFirst
  <2>2. CASE z.out = <<>> /\ z.in = {} /\ z.state = "closing"
    BY <1>1, <1>2, <1>4, <2>2 DEF StreamInv, AgesOK, AnswersOK, NotTaken, NewOK, AuthFirst
  <2> QED BY <1>2, <2>1, <2>2
<1>9. Keeps(n, u)
  BY <1>4 DEF Keeps
<1>10. Quiet(n) => Quiet(u)
  BY <1>2, <1>4 DEF Quiet
<1> QED BY <1>3, <1>4, <1>6, <1>7, <1>8, <1>9, <1>10 DEF BodyInv, StreamInv

(* A reference to the record that nothing has any more is given up.        *)
LEMMA DecrefOK ==
    ASSUME NEW n, BodyInv(n), n.ref = Refs(n) + 1
    PROVE  LET u == siridb_server_decref(n)
           IN  /\ NodeInv(u) /\ u.backend = n.backend /\ (Quiet(n) => Quiet(u))
<1>1. n \in Node /\ n.ref \in Int
  BY DEF BodyInv, Node
<1>2. CASE n.ref = 1
  <2> DEFINE u == [n EXCEPT !.ref = 0, !.promises = {}, !.flags = {}]
  <2>1. u = siridb_server_decref(n)
    BY <1>2 DEF siridb_server_decref
  <2>2. n.stream = NULL /\ ~n.listed /\ ~n.backend
    BY <1>1, <1>2 DEF Refs, One, Node
  <2>3. /\ u \in Node /\ u.ref = 0 /\ u.promises = {} /\ u.flags = {} /\ u.stream = NULL
        /\ u.listed = n.listed /\ u.backend = n.backend
    <3>1. {} \in SUBSET Promise /\ {} \in SUBSET Flags /\ 0 \in Int
      OBVIOUS
    <3> QED BY <1>1, <2>2, <3>1 DEF Node
  <2> HIDE DEF u
  <2>4. NodeInv(u)
    BY <2>2, <2>3, FS_EmptySet DEF NodeInv, BodyInv, Called, PidsUnique, FullOK, FullExact, AuthOK, Refs, One
  <2>5. ~Quiet(n)
    BY <2>2 DEF Quiet
  <2> QED BY <2>1, <2>3, <2>4, <2>5
<1>3. CASE n.ref # 1
  <2> DEFINE u == [n EXCEPT !.ref = n.ref - 1]
  <2>1. u = siridb_server_decref(n)
    BY <1>3 DEF siridb_server_decref
  <2>2. /\ u \in Node /\ u.ref = n.ref - 1 /\ u.promises = n.promises /\ u.flags = n.flags
        /\ u.stream = n.stream /\ u.pid = n.pid
        /\ u.listed = n.listed /\ u.backend = n.backend
    BY <1>1 DEF Node
  <2> HIDE DEF u
  <2>3. Open(u) = Open(n)
    BY <2>2 DEF Open
  <2>4. Called(u) /\ PidsUnique(u) /\ FullOK(u) /\ AuthOK(u)
    BY <2>2, <2>3 DEF BodyInv, Called, PidsUnique, FullOK, FullExact, AuthOK
  <2>5. u.stream # NULL => StreamInv(u)
    BY <2>2, <2>3 DEF BodyInv, StreamInv, WaitOK, AgesOK, AnswersOK, NotTaken, NewOK, AuthFirst
  <2>6. Refs(u) = Refs(n) /\ Refs(n) \in Int /\ (Quiet(n) => Quiet(u))
    BY <2>2 DEF Refs, Quiet, One
  <2>7. u.ref = Refs(u)
    BY <2>2, <2>6
  <2> QED BY <2>1, <2>2, <2>4, <2>5, <2>6, <2>7 DEF NodeInv, BodyInv
<1> QED BY <1>2, <1>3

-----------------------------------------------------------------------------
(* Sending.                                                                *)

(* A package that is older is still about the same promise.                *)
LEMMA AgedIs ==
    ASSUME NEW m \in Msg, NEW k \in Nat
    PROVE  /\ Aged(m, k) \in Msg /\ Aged(m, k).pid = m.pid /\ Aged(m, k).kind = m.kind
           /\ Aged(m, k).stale = m.stale
  BY DEF Aged, Msg

(* All packages of a sequence get older.                                   *)
LEMMA AllAgedIs ==
    ASSUME NEW q \in Seq(Msg), NEW k \in Nat
    PROVE  /\ AllAged(q, k) \in Seq(Msg) /\ Len(AllAged(q, k)) = Len(q)
           /\ \A i \in 1..Len(q) : AllAged(q, k)[i] = Aged(q[i], k)
<1>1. \A i \in 1..Len(q) : q[i] \in Msg
  OBVIOUS
<1>2. \A i \in 1..Len(q) : Aged(q[i], k) \in Msg
  BY <1>1, AgedIs
<1> QED BY <1>2 DEF AllAged

(* A package is sent: its id is free, and is not the one of a package that *)
(* is on its way.                                                          *)
LEMMA SendOK ==
    ASSUME NEW n, BodyInv(n), n.stream # NULL, n.stream.state \in {"open", "closing"},
           CanSend(n), NEW kind \in Kinds,
           kind = "auth" => n.stream.wait = <<>> /\ n.stream.out = <<>>
    PROVE  LET u == siridb_server_send_pkg(n, kind)
           IN  BodyInv(u) /\ Keeps(n, u) /\ (kind # "auth" /\ Quiet(n) => Quiet(u))
<1> DEFINE s == n.stream
           k == Tried(n)
           pid == (n.pid + Min(Free(n)) - 1) % PidMod
           m == [pid |-> pid, kind |-> kind, age |-> 0, stale |-> FALSE, ok |-> TRUE]
           new == sirinet_promise_t(pid, kind)
           P == n.promises \cup {new}
           w == Append(AllAged(s.wait, k), m)
           o == AllAged(s.out, k)
           i == {Aged(q, k) : q \in s.in}
           z == Carries(s, w, o, i)
           add == [n EXCEPT !.pid = NextPid(n, k), !.promises = P]
           wr == IF s.state = "closing" THEN add ELSE [add EXCEPT !.stream = z]
           u == SERVER_upd_flag_queue_full(wr)
<1>1. /\ n \in Node /\ s \in Stream /\ StreamInv(n) /\ n.pid \in Pids /\ Free(n) # {}
      /\ n.promises \in SUBSET Promise
  BY DEF BodyInv, Node, CanSend
<1>2. /\ k \in 1..PidMod /\ k = Min(Free(n)) /\ pid \in Pids
      /\ \A p \in n.promises : p.pid # pid
  <2>1. \A p \in n.promises : p.open \/ ~p.open
    OBVIOUS
  <2> QED BY <1>1, <2>1, TriedOK DEF CanSend, Open
<1>3. siridb_server_send_pkg(n, kind) = u
  BY DEF siridb_server_send_pkg, Queued, Carries
<1>4. /\ m \in Msg /\ m.pid = pid /\ m.kind = kind /\ m.age = 0 /\ ~m.stale
      /\ new \in Promise /\ new.pid = pid /\ new.open /\ new.ref = 2 /\ new.calls = 0
      /\ k \in Nat
  BY <1>2, ConnectionAssumption DEF Msg, Promise, sirinet_promise_t
<1> HIDE DEF m, new
<1>5. P \in SUBSET Promise /\ NextPid(n, k) \in Pids
  <2>1. n.pid + k \in Int
    BY <1>1, <1>2, ConnectionAssumption DEF Pids
  <2> QED BY <1>1, <1>4, <2>1, ModType DEF NextPid
<1> HIDE DEF P, k
<1>6. /\ add \in Node /\ add.pid = NextPid(n, k) /\ add.promises = P /\ add.flags = n.flags
      /\ add.listed = n.listed /\ add.ref = n.ref /\ add.stream = s /\ add.backend = n.backend
  BY <1>1, <1>5 DEF Node
<1> USE DEF P
<1>7. /\ AllAged(s.wait, k) \in Seq(Msg) /\ Len(AllAged(s.wait, k)) = Len(s.wait)
      /\ \A j \in 1..Len(s.wait) : AllAged(s.wait, k)[j] = Aged(s.wait[j], k)
      /\ o \in Seq(Msg) /\ Len(o) = Len(s.out)
      /\ \A j \in 1..Len(s.out) : o[j] = Aged(s.out[j], k)
      /\ i \in SUBSET Msg
  <2>1. s.wait \in Seq(Msg) /\ s.out \in Seq(Msg) /\ \A q \in s.in : q \in Msg
    BY <1>1 DEF Stream
  <2>2. i \in SUBSET Msg
    BY <1>4, <2>1, AgedIs
  <2> QED BY <1>4, <2>1, <2>2, AllAgedIs
<1>8. /\ w \in Seq(Msg) /\ Len(w) = Len(s.wait) + 1 /\ w[Len(s.wait) + 1] = m
      /\ \A j \in 1..Len(s.wait) : w[j] = Aged(s.wait[j], k)
  <2> DEFINE a == AllAged(s.wait, k)
  <2>1. a \in Seq(Msg) /\ Len(a) = Len(s.wait)
    BY <1>7
  <2>2. \A j \in 1..Len(s.wait) : a[j] = Aged(s.wait[j], k)
    BY <1>7
  <2> HIDE DEF a
  <2>3. /\ Append(a, m) \in Seq(Msg) /\ Len(Append(a, m)) = Len(a) + 1 /\ Append(a, m)[Len(a) + 1] = m
        /\ \A j \in 1..Len(a) : Append(a, m)[j] = a[j]
    BY <1>4, <2>1
  <2>4. w = Append(a, m)
    BY DEF a
  <2> QED BY <2>1, <2>2, <2>3, <2>4
<1> HIDE DEF w, o
<1>9. StreamIs(z, s.state, s.broken, w, o, i)
  BY <1>1, <1>7, <1>8, StreamCarries
<1> HIDE DEF z, add
<1>10. /\ wr \in Node /\ wr.pid = NextPid(n, k) /\ wr.promises = P /\ wr.flags = n.flags
       /\ wr.listed = n.listed /\ wr.ref = n.ref /\ wr.backend = n.backend
       /\ wr.stream # NULL /\ wr.stream = IF s.state = "closing" THEN s ELSE z
  <2>1. z \in Stream
    BY <1>9 DEF StreamIs
  <2> QED BY <1>6, <2>1, StreamSet
<1> HIDE DEF wr
<1>11. /\ u \in Node /\ SameButFlags(wr, u) /\ FullOK(u)
       /\ "authenticated" \in u.flags <=> "authenticated" \in n.flags
  BY <1>10, UpdOK DEF FullOK
<1> HIDE DEF u
<1>12. /\ u.pid = NextPid(n, k) /\ u.promises = P /\ u.listed = n.listed /\ u.ref = n.ref
       /\ u.backend = n.backend /\ u.stream # NULL
       /\ u.stream = IF s.state = "closing" THEN s ELSE z
  BY <1>10, <1>11 DEF SameButFlags
<1>13. IsFiniteSet(u.promises) /\ Called(u) /\ PidsUnique(u)
  <2>1. IsFiniteSet(P)
    BY FS_AddElement DEF BodyInv
  <2> QED BY <1>2, <1>4, <1>12, <2>1 DEF BodyInv, Called, PidsUnique
<1>14. Open(u) = Open(n) \cup {new}
  BY <1>4, <1>12 DEF Open
<1>15. CASE s.state = "closing"
  <2>1. u.stream = s
    BY <1>12, <1>15
  <2>2. WaitOK(u)
    BY <1>1, <1>12, <2>1 DEF StreamInv, WaitOK
  <2>3. AgesOK(u) /\ AnswersOK(u) /\ NewOK(u) /\ AuthFirst(u)
    BY <1>1, <1>15, <2>1 DEF StreamInv, AgesOK, AnswersOK, NewOK, AuthFirst
  <2>4. AuthOK(u)
    BY <1>12, <1>15, <2>1 DEF AuthOK
  <2>5. Quiet(n) => Quiet(u)
    BY <2>1 DEF Quiet
  <2> QED BY <1>3, <1>11, <1>12, <1>13, <2>2, <2>3, <2>4, <2>5 DEF BodyInv, StreamInv, Keeps
<1>16. CASE s.state = "open"
  <2>1. /\ u.stream.state = "open" /\ u.stream.wait = w /\ u.stream.out = o /\ u.stream.in = i
    BY <1>9, <1>12, <1>16 DEF StreamIs
  <2>2. /\ s.wait \in Seq(Msg) /\ s.out \in Seq(Msg) /\ s.in \in SUBSET Msg
        /\ Len(s.wait) \in Nat /\ Len(s.out) \in Nat
        /\ \A j \in 1..Len(s.wait) : s.wait[j] \in Msg
        /\ \A j \in 1..Len(s.out) : s.out[j] \in Msg
    BY <1>1 DEF Stream
  <2>3. /\ \A j \in 1..Len(w) :
              \/ /\ j \in 1..Len(s.wait) /\ w[j].pid = s.wait[j].pid
                 /\ w[j].kind = s.wait[j].kind /\ w[j].stale = s.wait[j].stale
              \/ j = Len(s.wait) + 1 /\ w[j] = m
        /\ \A j \in 1..Len(o) :
              /\ j \in 1..Len(s.out) /\ o[j].pid = s.out[j].pid
              /\ o[j].kind = s.out[j].kind /\ o[j].stale = s.out[j].stale
    <3>1. \A j \in 1..Len(w) : j \in 1..Len(s.wait) \/ j = Len(s.wait) + 1
      BY <1>8, <2>2
    <3>2. \A j \in 1..Len(s.wait) :
             /\ w[j].pid = s.wait[j].pid /\ w[j].kind = s.wait[j].kind
             /\ w[j].stale = s.wait[j].stale
      <4> TAKE j \in 1..Len(s.wait)
      <4>1. w[j] = Aged(s.wait[j], k) /\ s.wait[j] \in Msg
        BY <1>8, <2>2
      <4> DEFINE q == s.wait[j]
      <4>2. Aged(q, k).pid = q.pid /\ Aged(q, k).kind = q.kind /\ Aged(q, k).stale = q.stale
        BY <1>4, <4>1, AgedIs
      <4> QED BY <4>1, <4>2
    <3>3. \A j \in 1..Len(s.out) :
             /\ o[j].pid = s.out[j].pid /\ o[j].kind = s.out[j].kind
             /\ o[j].stale = s.out[j].stale
      <4> TAKE j \in 1..Len(s.out)
      <4>1. o[j] = Aged(s.out[j], k) /\ s.out[j] \in Msg
        BY <1>7, <2>2
      <4> DEFINE q == s.out[j]
      <4>2. Aged(q, k).pid = q.pid /\ Aged(q, k).kind = q.kind /\ Aged(q, k).stale = q.stale
        BY <1>4, <4>1, AgedIs
      <4> QED BY <4>1, <4>2
    <3>4. \A j \in 1..Len(o) : j \in 1..Len(s.out)
      BY <1>7
    <3>5. \A j \in 1..Len(w) : j = Len(s.wait) + 1 => w[j] = m
      BY <1>8
    <3> QED BY <3>1, <3>2, <3>3, <3>4, <3>5
  <2>4. WaitOK(u)
    <3>1. \A j \in 1..Len(w) : \E p \in P :
             p.pid = w[j].pid /\ p.open = ~w[j].stale /\ (p.open => p.ref = 2)
      <4> TAKE j \in 1..Len(w)
      <4>1. CASE j \in 1..Len(s.wait) /\ w[j].pid = s.wait[j].pid /\ w[j].stale = s.wait[j].stale
        BY <1>1, <4>1 DEF StreamInv, WaitOK
      <4>2. CASE w[j] = m
        BY <1>4, <4>2
      <4> QED BY <2>3, <4>1, <4>2
    <3>2. \A j \in 1..Len(s.wait) : s.wait[j].pid # pid
      BY <1>1, <1>2 DEF StreamInv, WaitOK
    <3>3. \A j, l \in 1..Len(w) : w[j].pid = w[l].pid => j = l
      BY <1>1, <1>4, <2>3, <3>2 DEF StreamInv, WaitOK
    <3> QED BY <1>12, <2>1, <3>1, <3>3 DEF WaitOK
  <2>5. AgesOK(u)
    <3>1. \A j \in 1..Len(s.wait) : Fits(NextPid(n, k), Aged(s.wait[j], k))
      BY <1>1, <1>2, <1>16, <2>2, FitsAged DEF StreamInv, AgesOK, NextPid
    <3>2. \A j \in 1..Len(s.out) : Fits(NextPid(n, k), Aged(s.out[j], k))
      BY <1>1, <1>2, <1>16, <2>2, FitsAged DEF StreamInv, AgesOK, NextPid
    <3>3. \A q \in s.in : Fits(NextPid(n, k), Aged(q, k))
      BY <1>1, <1>2, <1>16, <2>2, FitsAged DEF StreamInv, AgesOK, NextPid
    <3>4. Fits(NextPid(n, k), m)
      BY <1>1, <1>2, <1>4, FitsNew DEF NextPid
    <3>5. \A j \in 1..Len(w) : Fits(u.pid, w[j])
      <4> TAKE j \in 1..Len(w)
      <4>1. CASE j \in 1..Len(s.wait)
        BY <1>8, <1>12, <3>1, <4>1
      <4>2. CASE w[j] = m
        BY <1>12, <3>4, <4>2
      <4> QED BY <2>3, <4>1, <4>2
    <3>6. \A j \in 1..Len(o) : Fits(u.pid, o[j])
      BY <1>7, <1>12, <3>2
    <3>7. \A q \in i : Fits(u.pid, q)
      BY <1>12, <3>3
    <3> QED BY <2>1, <3>5, <3>6, <3>7 DEF AgesOK
  <2>6. AnswersOK(u)
    <3>1. \A q \in Range(s.out) \cup s.in : q.age + k < PidMod
      BY <1>2 DEF CanSend
    <3>2. \A j \in 1..Len(s.out) : s.out[j].pid # pid
      <4> TAKE j \in 1..Len(s.out)
      <4>1. s.out[j] \in Range(s.out)
        BY <2>2 DEF Range
      <4>2. s.out[j].age + k < PidMod
        BY <3>1, <4>1
      <4>3. Fits(n.pid, s.out[j])
        BY <1>1, <1>16 DEF StreamInv, AgesOK
      <4> QED BY <1>1, <1>2, <2>2, <4>2, <4>3, FitsOther
    <3>3. \A q \in s.in : q.pid # pid
      <4> TAKE q \in s.in
      <4>1. q.age + k < PidMod
        BY <3>1
      <4>2. Fits(n.pid, q)
        BY <1>1, <1>16 DEF StreamInv, AgesOK
      <4> QED BY <1>1, <1>2, <2>2, <4>1, <4>2, FitsOther
    <3>4. \A j \in 1..Len(o) : NotTaken(u, o[j])
      BY <1>1, <1>4, <1>14, <2>3, <3>2 DEF StreamInv, AnswersOK, NotTaken
    <3>5. \A q \in s.in : NotTaken(u, Aged(q, k))
      <4> TAKE q \in s.in
      <4>1. q \in Msg
        BY <2>2
      <4>2. Aged(q, k).pid = q.pid /\ Aged(q, k).stale = q.stale
        BY <1>4, <4>1, AgedIs
      <4> QED BY <1>1, <1>4, <1>14, <3>3, <4>2 DEF StreamInv, AnswersOK, NotTaken
    <3>6. \A q \in i : NotTaken(u, q)
      BY <3>5
    <3> QED BY <2>1, <3>4, <3>6 DEF AnswersOK
  <2>7. NewOK(u) /\ AuthOK(u)
    BY <1>12, <2>1 DEF NewOK, AuthOK
  <2>8. AuthFirst(u)
    <3>1. s.out = <<>> => o = <<>>
      BY <1>7, <2>2
    <3>2. s.wait = <<>> => Len(s.wait) = 0
      BY <2>2
    <3>3. \A j \in 1..Len(o) : o[j].kind = "auth" => j = 1
      BY <1>1, <2>3 DEF StreamInv, AuthFirst
    <3>4. \A j \in 1..Len(w) : w[j].kind = "auth" => j = 1 /\ o = <<>>
      BY <1>1, <1>4, <2>3, <3>1, <3>2 DEF StreamInv, AuthFirst
    <3> QED BY <2>1, <3>3, <3>4 DEF AuthFirst
  <2>9. kind # "auth" /\ Quiet(n) => Quiet(u)
    <3> SUFFICES ASSUME kind # "auth", Quiet(n) PROVE Quiet(u)
      OBVIOUS
    <3>1. \A j \in 1..Len(o) : o[j].kind # "auth"
      BY <1>16, <2>3 DEF Quiet
    <3>2. \A j \in 1..Len(w) : w[j].kind # "auth"
      <4> TAKE j \in 1..Len(w)
      <4>1. CASE j \in 1..Len(s.wait) /\ w[j].kind = s.wait[j].kind
        BY <1>16, <4>1 DEF Quiet
      <4>2. CASE w[j] = m
        BY <1>4, <4>2
      <4> QED BY <2>3, <4>1, <4>2
    <3> QED BY <1>12, <2>1, <3>1, <3>2 DEF Quiet
  <2> QED BY <1>3, <1>11, <1>12, <1>13, <2>4, <2>5, <2>6, <2>7, <2>8, <2>9
     DEF BodyInv, StreamInv, Keeps
<1> QED BY <1>15, <1>16

-----------------------------------------------------------------------------
(* Promises that end.                                                      *)

(* A package whose promise ended only differs in that.                     *)
LEMMA MarkedIs ==
    ASSUME NEW m \in Msg, NEW p
    PROVE  /\ Marked(m, p) \in Msg /\ Marked(m, p).pid = m.pid /\ Marked(m, p).kind = m.kind
           /\ Marked(m, p).age = m.age
           /\ Marked(m, p).stale = (m.stale \/ m.pid = p.pid)
  BY DEF Marked, Msg

(* All packages of a sequence are marked.                                  *)
LEMMA AllMarkedIs ==
    ASSUME NEW q \in Seq(Msg), NEW p
    PROVE  /\ AllMarked(q, p) \in Seq(Msg) /\ Len(AllMarked(q, p)) = Len(q)
           /\ \A i \in 1..Len(q) : AllMarked(q, p)[i] = Marked(q[i], p)
<1>1. \A i \in 1..Len(q) : q[i] \in Msg
  OBVIOUS
<1>2. \A i \in 1..Len(q) : Marked(q[i], p) \in Msg
  BY <1>1, MarkedIs
<1> QED BY <1>2 DEF AllMarked

(* The callbacks change flags or close the stream.                         *)
LEMMA CallbackOK ==
    ASSUME NEW n, BodyInv(n), FullExact(n), NEW kind \in Kinds, NEW ok \in BOOLEAN,
           ok => n.stream # NULL /\ n.stream.state = "open"
    PROVE  LET u == Callback(n, kind, ok)
           IN  BodyInv(u) /\ Keeps(n, u) /\ (Quiet(n) => Quiet(u))
<1> DEFINE Good(u) == BodyInv(u) /\ Keeps(n, u) /\ (Quiet(n) => Quiet(u))
<1>1. Good(n)
  BY DEF Keeps
<1>2. n \in Node /\ n.flags \in SUBSET Flags
  BY DEF BodyInv, Node
<1>3. CASE kind = "auth"
  <2>1. Callback(n, kind, ok) = SERVER_on_auth_response(n, ok)
    BY <1>3 DEF Callback
  <2>2. CASE ok
    <3> DEFINE u == [n EXCEPT !.flags = n.flags \cup {"authenticated"}]
    <3>1. Callback(n, kind, ok) = u
      BY <2>1, <2>2 DEF SERVER_on_auth_response
    <3>2. n.flags \cup {"authenticated"} \in SUBSET Flags
      BY <1>2 DEF Flags
    <3>3. u \in Node /\ u.flags = n.flags \cup {"authenticated"} /\ SameButFlags(n, u)
      BY <1>2, <3>2, FlagsSet
    <3> HIDE DEF u
    <3>4. FullOK(u) /\ AuthOK(u)
      BY <2>2, <3>3 DEF FullOK, FullExact, AuthOK, SameButFlags, Open
    <3>5. BodyInv(u) /\ (Quiet(n) <=> Quiet(u))
      BY <3>3, <3>4, SameBody
    <3> QED BY <3>1, <3>3, <3>5 DEF Keeps, SameButFlags
  <2>3. CASE ~ok /\ n.stream # NULL
    <3>1. Callback(n, kind, ok) = sirinet_stream_decref(n)
      BY <2>1, <2>3 DEF SERVER_on_auth_response
    <3> QED BY <2>3, <3>1, StreamDecrefOK
  <2>4. CASE ~ok /\ n.stream = NULL
    BY <1>1, <2>1, <2>4 DEF SERVER_on_auth_response
  <2> QED BY <2>2, <2>3, <2>4
<1>4. CASE kind = "flags"
  <2>1. Callback(n, kind, ok) = SERVER_on_flags_update_response(n, ok)
    BY <1>4 DEF Callback
  <2>2. CASE ~ok /\ n.stream # NULL
    <3> DEFINE u == [n EXCEPT !.flags = n.flags \cup {"unavailable"}]
    <3>1. Callback(n, kind, ok) = u
      BY <2>1, <2>2 DEF SERVER_on_flags_update_response
    <3>2. n.flags \cup {"unavailable"} \in SUBSET Flags
      BY <1>2 DEF Flags
    <3>3. u \in Node /\ u.flags = n.flags \cup {"unavailable"} /\ SameButFlags(n, u)
      BY <1>2, <3>2, FlagsSet
    <3> HIDE DEF u
    <3>4. FullOK(u) /\ AuthOK(u)
      BY <3>3 DEF BodyInv, FullOK, FullExact, AuthOK, SameButFlags, Open
    <3>5. BodyInv(u) /\ (Quiet(n) <=> Quiet(u))
      BY <3>3, <3>4, SameBody
    <3> QED BY <3>1, <3>3, <3>5 DEF Keeps, SameButFlags
  <2>3. CASE ~(~ok /\ n.stream # NULL)
    BY <1>1, <2>1, <2>3 DEF SERVER_on_flags_update_response
  <2> QED BY <2>2, <2>3
<1>5. CASE kind = "data"
  <2>1. Callback(n, kind, ok) = n
    BY <1>5 DEF Callback
  <2> QED BY <1>1, <2>1
<1> QED BY <1>3, <1>4, <1>5 DEF Kinds

(* A promise that is in the map ends.                                      *)
LEMMA SettleOK ==
    ASSUME NEW n, BodyInv(n), NEW p \in Open(n), NEW ok \in BOOLEAN,
           ok => n.stream # NULL /\ n.stream.state = "open"
    PROVE  LET u == Settle(n, p, ok)
           IN  BodyInv(u) /\ Keeps(n, u) /\ (Quiet(n) => Quiet(u))
<1> DEFINE s == n.stream
           new == [p EXCEPT !.open = FALSE, !.calls = p.calls + 1, !.ref = p.ref - 1]
           kept == IF Waiting(n, p) /\ new.ref > 0 THEN {new} ELSE {}
           rest == (n.promises \ {p}) \cup kept
           off == IF n.stream = NULL THEN [n EXCEPT !.promises = rest]
                  ELSE [n EXCEPT !.promises = rest, !.stream = Orphaned(s, p)]
           v == SERVER_upd_flag_queue_full(off)
<1>1. Settle(n, p, ok) = Callback(v, p.kind, ok)
  BY DEF Settle
<1>2. /\ n \in Node /\ n.promises \in SUBSET Promise /\ p \in Promise /\ p \in n.promises /\ p.open
      /\ p.calls = 0 /\ p.kind \in Kinds
  BY DEF BodyInv, Called, Node, Open, Promise
<1>3. Waiting(n, p) => p.ref = 2
  BY <1>2 DEF Waiting, Range, BodyInv, StreamInv, WaitOK, PidsUnique
<1>4. /\ p.ref = 2 => new \in Promise
      /\ new.pid = p.pid /\ new.open = FALSE /\ new.calls = 1 /\ new.ref = p.ref - 1
  <2>1. /\ new.pid = p.pid /\ new.open = FALSE /\ new.calls = 1 /\ new.ref = p.ref - 1
    BY <1>2 DEF Promise
  <2>2. ASSUME p.ref = 2 PROVE new \in Promise
    <3>1. p.calls + 1 \in Nat /\ p.ref - 1 \in 1..2 /\ FALSE \in BOOLEAN
      BY <1>2, <2>2
    <3> DEFINE c == p.calls + 1
               f == p.ref - 1
    <3>2. new = [p EXCEPT !.open = FALSE, !.calls = c, !.ref = f]
      OBVIOUS
    <3>3. c \in Nat /\ f \in 1..2
      BY <3>1
    <3> HIDE DEF new, c, f
    <3> QED BY <1>2, <3>2, <3>3 DEF Promise
  <2> QED BY <2>1, <2>2
<1> HIDE DEF new
<1>5. kept = IF Waiting(n, p) THEN {new} ELSE {}
  BY <1>3, <1>4
<1> HIDE DEF kept
<1>6. rest \in SUBSET Promise /\ IsFiniteSet(rest)
  <2>1. IsFiniteSet(n.promises \ {p}) /\ IsFiniteSet(kept)
    BY <1>5, FS_Difference, FS_Singleton, FS_EmptySet DEF BodyInv
  <2>2. IsFiniteSet(rest)
    BY <2>1, FS_Union
  <2> QED BY <1>2, <1>3, <1>4, <1>5, <2>2
<1>7. \A r \in rest : (r \in n.promises /\ r.pid # p.pid) \/ (r = new /\ Waiting(n, p))
  BY <1>2, <1>5 DEF BodyInv, PidsUnique
<1>8. \A r \in n.promises : r.pid # p.pid => r \in rest
  OBVIOUS
<1> HIDE DEF rest
<1>9. s # NULL => /\ s \in Stream /\ StreamInv(n)
                  /\ s.wait \in Seq(Msg) /\ s.out \in Seq(Msg) /\ s.in \in SUBSET Msg
  BY <1>2 DEF BodyInv, Node, Stream
<1> DEFINE i == {Marked(m, p) : m \in s.in}
           z == Orphaned(s, p)
<1>10. s # NULL => StreamIs(z, s.state, s.broken, AllMarked(s.wait, p), AllMarked(s.out, p), i)
  <2> SUFFICES ASSUME s # NULL
               PROVE  StreamIs(z, s.state, s.broken, AllMarked(s.wait, p), AllMarked(s.out, p), i)
    OBVIOUS
  <2>1. AllMarked(s.wait, p) \in Seq(Msg) /\ AllMarked(s.out, p) \in Seq(Msg)
    BY <1>9, AllMarkedIs
  <2>2. i \in SUBSET Msg
    BY <1>9, MarkedIs
  <2>3. z = Carries(s, AllMarked(s.wait, p), AllMarked(s.out, p), i)
    BY DEF Orphaned, Carries
  <2> QED BY <1>9, <2>1, <2>2, <2>3, StreamCarries
<1> HIDE DEF z, i
<1>11. /\ off \in Node /\ off.promises = rest /\ off.flags = n.flags /\ off.pid = n.pid
       /\ off.listed = n.listed /\ off.ref = n.ref /\ off.backend = n.backend
       /\ off.stream = IF s = NULL THEN NULL ELSE z
       /\ (off.stream = NULL <=> s = NULL)
  <2>1. CASE s = NULL
    <3>1. off = [n EXCEPT !.promises = rest]
      BY <2>1
    <3> QED BY <1>2, <1>6, <2>1, <3>1 DEF Node
  <2>2. CASE s # NULL
    <3>1. off = [n EXCEPT !.promises = rest, !.stream = z]
      BY <2>2 DEF z
    <3>2. z \in Stream /\ z # NULL
      BY <1>10, <2>2, NullAssumption DEF StreamIs
    <3> QED BY <1>2, <1>6, <2>2, <3>1, <3>2 DEF Node
  <2> QED BY <2>1, <2>2
<1> HIDE DEF off
<1>12. /\ v \in Node /\ SameButFlags(off, v) /\ FullExact(v)
       /\ "authenticated" \in v.flags <=> "authenticated" \in n.flags
  BY <1>11, UpdOK
<1> HIDE DEF v
<1>13. /\ v.promises = rest /\ v.pid = n.pid /\ v.listed = n.listed /\ v.ref = n.ref
       /\ v.backend = n.backend
       /\ v.stream = IF s = NULL THEN NULL ELSE z
       /\ (v.stream = NULL <=> s = NULL)
  BY <1>11, <1>12 DEF SameButFlags
<1>14. Called(v) /\ PidsUnique(v) /\ FullOK(v) /\ IsFiniteSet(v.promises)
  <2>1. Waiting(n, p) => new.ref = 1 /\ new.calls = 1 /\ ~new.open
    BY <1>3, <1>4
  <2> QED BY <1>4, <1>6, <1>7, <1>12, <1>13, <2>1 DEF Called, PidsUnique, FullOK, BodyInv
<1>15. \A r \in Open(v) : r \in Open(n) /\ r.pid # p.pid
  BY <1>4, <1>7, <1>13 DEF Open
<1>16. CASE s = NULL
  <2>1. AuthOK(v) /\ BodyInv(v) /\ Keeps(n, v) /\ ~Quiet(n)
    BY <1>12, <1>13, <1>14, <1>16 DEF BodyInv, AuthOK, Keeps, Quiet
  <2> QED BY <1>1, <1>2, <1>12, <1>13, <1>16, <2>1, CallbackOK DEF Keeps
<1>17. CASE s # NULL
  <2> DEFINE w == AllMarked(s.wait, p)
             o == AllMarked(s.out, p)
  <2>1. /\ v.stream.state = s.state /\ v.stream.wait = w /\ v.stream.out = o /\ v.stream.in = i
        /\ v.stream # NULL
    BY <1>10, <1>13, <1>17 DEF StreamIs
  <2>2. /\ Len(w) = Len(s.wait)
        /\ \A j \in 1..Len(s.wait) :
              /\ w[j].pid = s.wait[j].pid /\ w[j].kind = s.wait[j].kind /\ w[j].age = s.wait[j].age
              /\ w[j].stale = (s.wait[j].stale \/ s.wait[j].pid = p.pid)
    <3>1. Len(w) = Len(s.wait) /\ \A j \in 1..Len(s.wait) : w[j] = Marked(s.wait[j], p)
      BY <1>9, <1>17, AllMarkedIs
    <3>2. \A j \in 1..Len(s.wait) : s.wait[j] \in Msg
      BY <1>9, <1>17
    <3> HIDE DEF w
    <3>3. ASSUME NEW j \in 1..Len(s.wait)
          PROVE  /\ w[j].pid = s.wait[j].pid /\ w[j].kind = s.wait[j].kind /\ w[j].age = s.wait[j].age
                 /\ w[j].stale = (s.wait[j].stale \/ s.wait[j].pid = p.pid)
      <4> DEFINE q == s.wait[j]
      <4>1. /\ Marked(q, p).pid = q.pid /\ Marked(q, p).kind = q.kind /\ Marked(q, p).age = q.age
            /\ Marked(q, p).stale = (q.stale \/ q.pid = p.pid)
        BY <3>2, MarkedIs
      <4> QED BY <3>1, <4>1
    <3> QED BY <3>1, <3>3
  <2>3. /\ Len(o) = Len(s.out)
        /\ \A j \in 1..Len(s.out) :
              /\ o[j].pid = s.out[j].pid /\ o[j].kind = s.out[j].kind /\ o[j].age = s.out[j].age
              /\ o[j].stale = (s.out[j].stale \/ s.out[j].pid = p.pid)
    <3>1. Len(o) = Len(s.out) /\ \A j \in 1..Len(s.out) : o[j] = Marked(s.out[j], p)
      BY <1>9, <1>17, AllMarkedIs
    <3>2. \A j \in 1..Len(s.out) : s.out[j] \in Msg
      BY <1>9, <1>17
    <3> HIDE DEF o
    <3>3. ASSUME NEW j \in 1..Len(s.out)
          PROVE  /\ o[j].pid = s.out[j].pid /\ o[j].kind = s.out[j].kind /\ o[j].age = s.out[j].age
                 /\ o[j].stale = (s.out[j].stale \/ s.out[j].pid = p.pid)
      <4> DEFINE q == s.out[j]
      <4>1. /\ Marked(q, p).pid = q.pid /\ Marked(q, p).kind = q.kind /\ Marked(q, p).age = q.age
            /\ Marked(q, p).stale = (q.stale \/ q.pid = p.pid)
        BY <3>2, MarkedIs
      <4> QED BY <3>1, <4>1
    <3> QED BY <3>1, <3>3
  <2>4. \A q \in i : \E m \in s.in : /\ q.pid = m.pid /\ q.age = m.age
                                     /\ q.stale = (m.stale \/ m.pid = p.pid)
    <3>1. \A m \in s.in : /\ Marked(m, p).pid = m.pid /\ Marked(m, p).age = m.age
                          /\ Marked(m, p).stale = (m.stale \/ m.pid = p.pid)
      BY <1>9, <1>17, MarkedIs
    <3> QED BY <3>1 DEF i
  <2>5. Len(s.wait) \in Nat /\ Len(s.out) \in Nat /\ StreamInv(n)
    BY <1>9, <1>17
  <2>6. w \in Seq(Msg) /\ o \in Seq(Msg)
    BY <1>9, <1>17, AllMarkedIs
  <2> HIDE DEF w, o
  <2>7. WaitOK(v)
    <3>1. ASSUME NEW j \in 1..Len(w)
          PROVE  \E r \in rest : r.pid = w[j].pid /\ r.open = ~w[j].stale /\ (r.open => r.ref = 2)
      <4>1. PICK r \in n.promises : /\ r.pid = s.wait[j].pid /\ r.open = ~s.wait[j].stale
                                    /\ r.open => r.ref = 2
        BY <2>2, <2>5 DEF StreamInv, WaitOK
      <4> DEFINE q == s.wait[j]
      <4>5. q.stale \in BOOLEAN /\ q.pid = w[j].pid /\ w[j].stale = (q.stale \/ q.pid = p.pid)
        <5>1. q \in Msg
          BY <1>9, <1>17, <2>2
        <5> QED BY <2>2, <5>1 DEF Msg
      <4>2. CASE r.pid = p.pid
        <5>1. r = p
          BY <1>2, <4>2 DEF BodyInv, PidsUnique
        <5>2. Waiting(n, p)
          <6>1. s.wait[j] \in Range(s.wait)
            BY <1>9, <1>17, <2>2 DEF Range
          <6>2. q.stale = ~p.open /\ q.pid = p.pid
            BY <1>2, <4>1, <4>5, <5>1
          <6> QED BY <1>17, <6>1, <6>2 DEF Waiting
        <5>3. new \in rest
          BY <1>5, <5>2 DEF rest
        <5>4. w[j].stale = TRUE /\ w[j].pid = p.pid
          BY <4>1, <4>2, <4>5
        <5> QED BY <1>4, <5>3, <5>4
      <4>3. CASE r.pid # p.pid
        <5>1. r \in rest
          BY <1>8, <4>3
        <5>2. w[j].stale = s.wait[j].stale /\ w[j].pid = s.wait[j].pid
          BY <4>1, <4>3, <4>5
        <5> QED BY <4>1, <5>1, <5>2
      <4> QED BY <4>2, <4>3
    <3>2. \A j, l \in 1..Len(w) : w[j].pid = w[l].pid => j = l
      BY <2>2, <2>5 DEF StreamInv, WaitOK
    <3> QED BY <1>13, <2>1, <3>1, <3>2 DEF WaitOK
  <2>8. AgesOK(v)
    <3>1. s.state = "open" => \A j \in 1..Len(w) : Fits(n.pid, w[j])
      BY <2>2, <2>5 DEF StreamInv, AgesOK, Fits
    <3>2. s.state = "open" => \A j \in 1..Len(o) : Fits(n.pid, o[j])
      BY <2>3, <2>5 DEF StreamInv, AgesOK, Fits
    <3>3. s.state = "open" => \A q \in i : Fits(n.pid, q)
      BY <2>4, <2>5 DEF StreamInv, AgesOK, Fits
    <3> QED BY <1>13, <2>1, <3>1, <3>2, <3>3 DEF AgesOK
  <2>9. AnswersOK(v)
    <3>1. ASSUME NEW j \in 1..Len(o) PROVE NotTaken(v, o[j])
      <4>1. /\ j \in 1..Len(s.out) /\ o[j].pid = s.out[j].pid
            /\ o[j].stale = (s.out[j].stale \/ s.out[j].pid = p.pid)
        BY <2>3
      <4>2. NotTaken(n, s.out[j])
        BY <2>5, <4>1 DEF StreamInv, AnswersOK
      <4> QED BY <1>15, <4>1, <4>2 DEF NotTaken
    <3>2. \A q \in i : NotTaken(v, q)
      <4> TAKE q \in i
      <4>1. PICK m \in s.in : q.pid = m.pid /\ q.stale = (m.stale \/ m.pid = p.pid)
        BY <2>4
      <4>2. NotTaken(n, m)
        BY <2>5 DEF StreamInv, AnswersOK
      <4> QED BY <1>15, <4>1, <4>2 DEF NotTaken
    <3> QED BY <2>1, <3>1, <3>2 DEF AnswersOK
  <2>10. NewOK(v)
    <3>1. (s.wait = <<>> => w = <<>>) /\ (s.out = <<>> => o = <<>>)
      BY <1>9, <1>17, <2>2, <2>3, <2>6
    <3>2. s.in = {} => i = {}
      BY DEF i
    <3> QED BY <2>1, <2>5, <3>1, <3>2 DEF NewOK, StreamInv
  <2>11. AuthFirst(v)
    <3>1. s.out = <<>> => o = <<>>
      BY <1>9, <1>17, <2>3, <2>6
    <3> QED BY <2>1, <2>2, <2>3, <2>5, <3>1 DEF AuthFirst, StreamInv
  <2>12. AuthOK(v)
    BY <1>12, <2>1 DEF BodyInv, AuthOK
  <2>13. BodyInv(v) /\ Keeps(n, v)
    BY <1>12, <1>13, <1>14, <2>7, <2>8, <2>9, <2>10, <2>11, <2>12 DEF BodyInv, StreamInv, Keeps
  <2>14. Quiet(n) => Quiet(v)
    BY <2>1, <2>2, <2>3 DEF Quiet
  <2>15. ok => v.stream # NULL /\ v.stream.state = "open"
    BY <2>1
  <2> DEFINE u == Callback(v, p.kind, ok)
  <2>16. BodyInv(u) /\ Keeps(v, u) /\ (Quiet(v) => Quiet(u))
    BY <1>2, <1>12, <2>13, <2>15, CallbackOK
  <2> HIDE DEF u
  <2>17. Settle(n, p, ok) = u
    BY <1>1 DEF u
  <2> QED BY <2>13, <2>14, <2>16, <2>17 DEF Keeps
<1> QED BY <1>16, <1>17

-----------------------------------------------------------------------------
(* Steps of the stream.                                                    *)

(* One package is about the same promise as another, and as late.          *)
Same(q, m) == q.pid = m.pid /\ q.age = m.age /\ q.stale = m.stale

(* Packages are read, answered or dropped, or the stream goes on to its    *)
(* next state.                                                             *)
LEMMA StreamStepOK ==
    ASSUME NEW n, BodyInv(n), n.stream # NULL, NEW z \in Stream,
           z.wait = n.stream.wait,
           \A j \in 1..Len(z.out) : \E l \in 1..Len(n.stream.out) : z.out[j] = n.stream.out[l] /\ j <= l,
           \A q \in z.in : \/ \E r \in n.stream.in : Same(q, r)
                           \/ \E l \in 1..Len(n.stream.out) : Same(q, n.stream.out[l]),
           \/ z.state = n.stream.state
           \/ n.stream.state = "resolving" /\ z.state = "connecting"
           \/ n.stream.state = "connecting" /\ z.state = "open"
    PROVE  LET u == [n EXCEPT !.stream = z]
           IN  /\ BodyInv(u) /\ Keeps(n, u) /\ (Quiet(n) => Quiet(u))
               /\ u.stream = z /\ u.flags = n.flags /\ u.pid = n.pid /\ u.promises = n.promises
<1> DEFINE s == n.stream
           u == [n EXCEPT !.stream = z]
<1>1. /\ n \in Node /\ s \in Stream /\ StreamInv(n) /\ z.out \in Seq(Msg) /\ s.out \in Seq(Msg)
      /\ Len(z.out) \in Nat /\ Len(s.out) \in Nat
  BY DEF BodyInv, Node, Stream
<1>2. /\ u \in Node /\ u.stream = z /\ z # NULL
      /\ u.flags = n.flags /\ u.pid = n.pid /\ u.listed = n.listed
      /\ u.ref = n.ref /\ u.backend = n.backend /\ u.promises = n.promises
  BY <1>1, StreamSet
<1> HIDE DEF u
<1>3. Open(u) = Open(n) /\ Keeps(n, u)
  BY <1>2 DEF Open, Keeps
<1>4. IsFiniteSet(u.promises) /\ Called(u) /\ PidsUnique(u) /\ FullOK(u) /\ AuthOK(u)
  BY <1>2, <1>3 DEF BodyInv, Called, PidsUnique, FullOK, FullExact, AuthOK
<1>5. WaitOK(u)
  BY <1>1, <1>2 DEF StreamInv, WaitOK
<1>6. s.out = <<>> => z.out = <<>>
  <2>1. s.out = <<>> => Len(s.out) = 0
    OBVIOUS
  <2>2. s.out = <<>> => ~\E j \in 1..Len(z.out) : TRUE
    BY <2>1
  <2>3. s.out = <<>> => Len(z.out) = 0
    BY <1>1, <2>2
  <2> QED BY <1>1, <2>3
<1>7. s.out = <<>> /\ s.in = {} => z.in = {}
  BY <1>1
<1>8. AgesOK(u)
  <2>1. CASE s.state = "open"
    <3>1. \A j \in 1..Len(z.out) : Fits(n.pid, z.out[j])
      BY <1>1, <2>1 DEF StreamInv, AgesOK
    <3>2. \A q \in z.in : Fits(n.pid, q)
      BY <1>1, <2>1 DEF StreamInv, AgesOK, Fits, Same
    <3> QED BY <1>1, <1>2, <2>1, <3>1, <3>2 DEF AgesOK, StreamInv
  <2>2. CASE s.state = "connecting"
    <3>1. s.wait = <<>> /\ z.out = <<>> /\ z.in = {}
      BY <1>1, <1>6, <1>7, <2>2 DEF StreamInv, NewOK
    <3> QED BY <1>2, <3>1 DEF AgesOK
  <2>3. CASE s.state \notin {"open", "connecting"}
    BY <1>2, <2>3 DEF AgesOK
  <2> QED BY <2>1, <2>2, <2>3
<1>9. AnswersOK(u)
  <2>1. \A j \in 1..Len(z.out) : NotTaken(u, z.out[j])
    BY <1>1, <1>3 DEF StreamInv, AnswersOK, NotTaken
  <2>2. \A q \in z.in : NotTaken(u, q)
    BY <1>1, <1>3 DEF StreamInv, AnswersOK, NotTaken, Same
  <2> QED BY <1>2, <2>1, <2>2 DEF AnswersOK
<1>10. NewOK(u)
  BY <1>1, <1>2, <1>6, <1>7 DEF StreamInv, NewOK
<1>11. AuthFirst(u)
  <2>1. \A j \in 1..Len(z.out) : z.out[j].kind = "auth" => j = 1
    <3> TAKE j \in 1..Len(z.out)
    <3>1. PICK l \in 1..Len(s.out) : z.out[j] = s.out[l] /\ j <= l
      OBVIOUS
    <3>2. s.out[l].kind = "auth" => l = 1
      BY <1>1 DEF StreamInv, AuthFirst
    <3> QED BY <1>1, <3>1, <3>2
  <2> QED BY <1>1, <1>2, <1>6, <2>1 DEF StreamInv, AuthFirst
<1>12. Quiet(n) => Quiet(u)
  <2> SUFFICES ASSUME Quiet(n) PROVE Quiet(u)
    OBVIOUS
  <2>1. z.state = s.state
    BY DEF Quiet
  <2>2. s.state = "open" => \A j \in 1..Len(z.out) : z.out[j].kind # "auth"
    BY DEF Quiet
  <2> QED BY <1>2, <2>1, <2>2 DEF Quiet
<1>13. BodyInv(u)
  BY <1>2, <1>4, <1>5, <1>8, <1>9, <1>10, <1>11 DEF BodyInv, StreamInv
<1> QED BY <1>2, <1>3, <1>12, <1>13 DEF u

(* A package is written: its promise loses a reference.                    *)
LEMMA WrittenOK ==
    ASSUME NEW n, BodyInv(n), n.stream # NULL, n.stream.state = "open", n.stream.wait # <<>>
    PROVE  LET m == Head(n.stream.wait)
               u == Written([n EXCEPT !.stream = Sent(@)], PromiseOf(n, m))
           IN  BodyInv(u) /\ Keeps(n, u) /\ (Quiet(n) => Quiet(u))
<1> DEFINE s == n.stream
           m == Head(s.wait)
           p == PromiseOf(n, m)
           low == [p EXCEPT !.ref = p.ref - 1]
           rest == (n.promises \ {p}) \cup (IF p.ref > 1 THEN {low} ELSE {})
           w == Tail(s.wait)
           o == Append(s.out, m)
           z == Sent(s)
           v == [n EXCEPT !.stream = z]
           u == [v EXCEPT !.promises = rest]
<1>1. /\ n \in Node /\ s \in Stream /\ StreamInv(n) /\ n.promises \in SUBSET Promise
      /\ s.wait \in Seq(Msg) /\ s.out \in Seq(Msg) /\ s.in \in SUBSET Msg
      /\ Len(s.wait) \in Nat /\ Len(s.out) \in Nat
  BY DEF BodyInv, Node, Stream
<1>2. /\ m \in Msg /\ m = s.wait[1] /\ 1 \in 1..Len(s.wait)
      /\ w \in Seq(Msg) /\ Len(w) = Len(s.wait) - 1
      /\ \A j \in 1..Len(w) : w[j] = s.wait[j + 1] /\ j + 1 \in 1..Len(s.wait)
  BY <1>1
<1>3. /\ o \in Seq(Msg) /\ Len(o) = Len(s.out) + 1 /\ o[Len(s.out) + 1] = m
      /\ \A j \in 1..Len(s.out) : o[j] = s.out[j]
  BY <1>1, <1>2
<1>4. /\ p \in n.promises /\ p.pid = m.pid /\ p.open = ~m.stale /\ (p.open => p.ref = 2)
      /\ ~p.open => p.ref = 1
  <2>1. PICK r \in n.promises : r.pid = m.pid /\ r.open = ~m.stale /\ (r.open => r.ref = 2)
    BY <1>1, <1>2 DEF StreamInv, WaitOK
  <2>2. p \in n.promises /\ p.pid = m.pid /\ p.open = ~m.stale
    BY <2>1 DEF PromiseOf
  <2>3. p = r
    BY <2>1, <2>2 DEF BodyInv, PidsUnique
  <2> HIDE DEF p
  <2> QED BY <2>1, <2>2, <2>3 DEF BodyInv, Called
<1>5. p \in Promise /\ p.open \in BOOLEAN /\ m.stale \in BOOLEAN
  BY <1>1, <1>2, <1>4 DEF Promise, Msg
<1>6. /\ low.pid = p.pid /\ low.open = p.open /\ low.calls = p.calls /\ low.ref = p.ref - 1
      /\ p.ref > 1 => p.ref = 2 /\ low \in Promise
  <2>1. p.ref \in 1..2
    BY <1>5 DEF Promise
  <2>2. p.ref > 1 => p.ref = 2 /\ p.ref - 1 \in 1..2
    BY <2>1
  <2> HIDE DEF p
  <2> QED BY <1>5, <2>2 DEF Promise
<1>7. Written([n EXCEPT !.stream = Sent(@)], p) = u
  <2>1. v.promises = n.promises
    BY <1>1 DEF Node
  <2> DEFINE left == (v.promises \ {p}) \cup (IF p.ref > 1 THEN {low} ELSE {})
  <2>2. left = rest
    BY <2>1
  <2> HIDE DEF p, m
  <2>3. Written(v, p) = [v EXCEPT !.promises = left]
    BY DEF Written
  <2> HIDE DEF left, rest, v
  <2>4. Written(v, p) = [v EXCEPT !.promises = rest]
    BY <2>2, <2>3
  <2> QED BY <2>4 DEF v
<1> HIDE DEF m, p, low, w, o
<1>8. StreamIs(z, s.state, s.broken, w, o, s.in)
  <2>1. z = [s EXCEPT !.wait = w, !.out = o]
    BY DEF Sent, w, o, m
  <2> HIDE DEF z
  <2> QED BY <1>1, <1>2, <1>3, <2>1 DEF StreamIs, Stream
<1> HIDE DEF z
<1>9. rest \in SUBSET Promise /\ IsFiniteSet(rest)
  <2>1. IsFiniteSet(n.promises \ {p}) /\ IsFiniteSet(IF p.ref > 1 THEN {low} ELSE {})
    BY FS_Difference, FS_Singleton, FS_EmptySet DEF BodyInv
  <2>2. IsFiniteSet(rest)
    BY <2>1, FS_Union
  <2> QED BY <1>1, <1>6, <2>2
<1>10. \A r \in rest : (r \in n.promises /\ r.pid # p.pid) \/ (r = low /\ p.ref = 2)
  BY <1>4, <1>6 DEF BodyInv, PidsUnique
<1>11. \A r \in n.promises : r.pid # p.pid => r \in rest
  OBVIOUS
<1>12. IF p.open THEN Open([promises |-> rest]) = (Open(n) \ {p}) \cup {low}
       ELSE Open([promises |-> rest]) = Open(n)
  BY <1>4, <1>5, <1>6 DEF Open
<1> HIDE DEF rest
<1>13. /\ u \in Node /\ u.promises = rest /\ u.flags = n.flags /\ u.pid = n.pid
       /\ u.listed = n.listed /\ u.ref = n.ref /\ u.backend = n.backend /\ u.stream = z
       /\ z # NULL
  <2>1. z \in Stream /\ z # NULL
    BY <1>8, NullAssumption DEF StreamIs
  <2> QED BY <1>1, <1>9, <2>1 DEF Node
<1> HIDE DEF u
<1>14. Called(u) /\ PidsUnique(u) /\ IsFiniteSet(u.promises)
  <2>1. p.ref = 2 => low.calls = 0 /\ low.open = TRUE /\ low.pid = p.pid
    BY <1>4, <1>5, <1>6 DEF BodyInv, Called
  <2> QED BY <1>6, <1>9, <1>10, <1>13, <2>1 DEF BodyInv, Called, PidsUnique
<1>15. Open(u) = Open([promises |-> rest])
  BY <1>13 DEF Open
<1>16. \A r \in Open(u) : \E t \in Open(n) : t.pid = r.pid
  BY <1>4, <1>6, <1>12, <1>15 DEF Open
<1>17. Cardinality(Open(u)) = Cardinality(Open(n))
  <2>1. IsFiniteSet(Open(n))
    BY FS_Subset DEF BodyInv, Open
  <2>2. CASE p.open
    <3>1. p \in Open(n)
      BY <1>4, <2>2 DEF Open
    <3>2. low \notin Open(n) \ {p}
      BY <1>4, <1>6 DEF BodyInv, PidsUnique, Open
    <3>3. /\ IsFiniteSet(Open(n) \ {p}) /\ Cardinality(Open(n) \ {p}) = Cardinality(Open(n)) - 1
          /\ Cardinality(Open(n)) \in Nat
      BY <2>1, <3>1, FS_RemoveElement, FS_CardinalityType
    <3>4. Cardinality((Open(n) \ {p}) \cup {low}) = Cardinality(Open(n) \ {p}) + 1
      BY <3>2, <3>3, FS_AddElement
    <3>5. Open(u) = (Open(n) \ {p}) \cup {low}
      BY <1>12, <1>15, <2>2
    <3> QED BY <3>3, <3>4, <3>5
  <2>3. CASE ~p.open
    BY <1>12, <1>15, <2>3
  <2> QED BY <2>2, <2>3
<1>18. FullOK(u) /\ AuthOK(u)
  BY <1>8, <1>13, <1>17 DEF BodyInv, FullOK, FullExact, AuthOK, StreamIs
<1>19. /\ u.stream.state = "open" /\ u.stream.wait = w /\ u.stream.out = o /\ u.stream.in = s.in
  BY <1>8, <1>13 DEF StreamIs
<1>20. \A j \in 1..Len(o) : (j \in 1..Len(s.out) /\ o[j] = s.out[j]) \/ (j = Len(s.out) + 1 /\ o[j] = m)
  <2>1. \A j \in 1..Len(o) : j \in 1..Len(s.out) \/ j = Len(s.out) + 1
    BY <1>1, <1>3
  <2> QED BY <1>3, <2>1
<1>21. WaitOK(u)
  <2>1. ASSUME NEW j \in 1..Len(w)
        PROVE  \E r \in rest : r.pid = w[j].pid /\ r.open = ~w[j].stale /\ (r.open => r.ref = 2)
    <3>1. w[j] = s.wait[j + 1] /\ j + 1 \in 1..Len(s.wait) /\ j + 1 # 1
      BY <1>2
    <3>2. PICK r \in n.promises : r.pid = w[j].pid /\ r.open = ~w[j].stale /\ (r.open => r.ref = 2)
      BY <1>1, <3>1 DEF StreamInv, WaitOK
    <3>3. w[j].pid # m.pid
      BY <1>1, <1>2, <3>1 DEF StreamInv, WaitOK
    <3> QED BY <1>4, <1>11, <3>2, <3>3
  <2>2. ASSUME NEW j \in 1..Len(w), NEW l \in 1..Len(w), w[j].pid = w[l].pid PROVE j = l
    <3>1. /\ w[j] = s.wait[j + 1] /\ j + 1 \in 1..Len(s.wait)
          /\ w[l] = s.wait[l + 1] /\ l + 1 \in 1..Len(s.wait)
      BY <1>2
    <3>2. j + 1 = l + 1
      BY <1>1, <2>2, <3>1 DEF StreamInv, WaitOK
    <3> QED BY <3>2
  <2> QED BY <1>13, <1>19, <2>1, <2>2 DEF WaitOK
<1>22. AgesOK(u)
  <2>1. /\ \A j \in 1..Len(s.wait) : Fits(n.pid, s.wait[j])
        /\ \A j \in 1..Len(s.out) : Fits(n.pid, s.out[j])
        /\ \A q \in s.in : Fits(n.pid, q)
    BY <1>1 DEF StreamInv, AgesOK
  <2>2. Fits(n.pid, m)
    BY <1>2, <2>1
  <2>3. \A j \in 1..Len(o) : Fits(n.pid, o[j])
    BY <1>20, <2>1, <2>2
  <2>4. \A j \in 1..Len(w) : Fits(n.pid, w[j])
    BY <1>2, <2>1
  <2> QED BY <1>13, <1>19, <2>1, <2>3, <2>4 DEF AgesOK
<1>23. AnswersOK(u)
  <2>1. \A q : NotTaken(n, q) => NotTaken(u, q)
    BY <1>16 DEF NotTaken
  <2>2. NotTaken(n, m)
    BY <1>4, <1>5 DEF NotTaken, BodyInv, PidsUnique, Open
  <2>3. \A j \in 1..Len(o) : NotTaken(u, o[j])
    BY <1>1, <1>20, <2>1, <2>2 DEF StreamInv, AnswersOK
  <2> QED BY <1>1, <1>19, <2>1, <2>3 DEF StreamInv, AnswersOK
<1>24. NewOK(u)
  BY <1>19 DEF NewOK
<1>25. /\ \A j \in 1..Len(w) : w[j].kind # "auth"
       /\ \A j \in 1..Len(o) : o[j].kind = "auth" => j = 1
  <2>1. ASSUME NEW j \in 1..Len(w) PROVE w[j].kind # "auth"
    <3>1. w[j] = s.wait[j + 1] /\ j + 1 \in 1..Len(s.wait) /\ j + 1 # 1
      BY <1>2
    <3> QED BY <1>1, <3>1 DEF StreamInv, AuthFirst
  <2>2. m.kind = "auth" => Len(s.out) + 1 = 1
    BY <1>1, <1>2 DEF StreamInv, AuthFirst
  <2>3. \A j \in 1..Len(o) : o[j].kind = "auth" => j = 1
    BY <1>1, <1>20, <2>2 DEF StreamInv, AuthFirst
  <2> QED BY <2>1, <2>3
<1>26. AuthFirst(u)
  BY <1>19, <1>25 DEF AuthFirst
<1>27. Quiet(n) => Quiet(u)
  <2> SUFFICES ASSUME Quiet(n) PROVE Quiet(u)
    OBVIOUS
  <2>1. m.kind # "auth" /\ \A j \in 1..Len(s.out) : s.out[j].kind # "auth"
    BY <1>2 DEF Quiet
  <2>2. \A j \in 1..Len(o) : o[j].kind # "auth"
    BY <1>20, <2>1
  <2> QED BY <1>13, <1>19, <1>25, <2>2 DEF Quiet
<1>28. BodyInv(u)
  BY <1>13, <1>14, <1>18, <1>21, <1>22, <1>23, <1>24, <1>26 DEF BodyInv, StreamInv
<1>29. Keeps(n, u)
  BY <1>13 DEF Keeps
<1> QED BY <1>7, <1>27, <1>28, <1>29 DEF m, p

-----------------------------------------------------------------------------
(* The record of a server: its references and the streams that hold it.    *)

(* Neither are the references, the list and the back-end stream.           *)
LEMMA SameStream ==
    ASSUME NEW n, NEW u, BodyInv(n), u \in Node, u.stream = n.stream, u.pid = n.pid,
           u.promises = n.promises, u.flags = n.flags
    PROVE  BodyInv(u) /\ (Quiet(n) <=> Quiet(u))
<1>1. Called(u) /\ PidsUnique(u) /\ IsFiniteSet(u.promises) /\ Open(u) = Open(n)
  BY DEF BodyInv, Called, PidsUnique, Open
<1>2. n.stream # NULL => StreamInv(u)
  BY <1>1 DEF BodyInv, StreamInv, WaitOK, AgesOK, AnswersOK, NotTaken, NewOK, AuthFirst
<1>3. FullOK(u) /\ AuthOK(u)
  BY <1>1 DEF BodyInv, FullOK, FullExact, AuthOK
<1>4. Quiet(n) <=> Quiet(u)
  BY DEF Quiet
<1> QED BY <1>1, <1>2, <1>3, <1>4 DEF BodyInv

(* The stream ends, and the record is left by the back-end stream.         *)
LEMMA GoneOK ==
    ASSUME NEW n, NodeInv(n)
    PROVE  NodeInv(Gone(n)) /\ ~Gone(n).backend /\ (Quiet(n) => Quiet(Gone(n)))
<1>1. n \in Node /\ n.backend \in BOOLEAN
  BY DEF NodeInv, BodyInv, Node
<1>2. CASE n.backend
  <2> DEFINE v == [n EXCEPT !.backend = FALSE]
  <2>1. /\ v \in Node /\ v.stream = n.stream /\ v.pid = n.pid /\ v.promises = n.promises
        /\ v.flags = n.flags /\ v.ref = n.ref /\ v.listed = n.listed /\ v.backend = FALSE
    BY <1>1 DEF Node
  <2>2. Gone(n) = siridb_server_decref(v)
    BY <1>2 DEF Gone
  <2> HIDE DEF v
  <2>3. BodyInv(v) /\ (Quiet(n) <=> Quiet(v))
    BY <2>1, SameStream DEF NodeInv
  <2>4. v.ref = Refs(v) + 1
    BY <1>2, <2>1 DEF NodeInv, Refs, One
  <2>5. /\ NodeInv(siridb_server_decref(v)) /\ siridb_server_decref(v).backend = v.backend
        /\ Quiet(v) => Quiet(siridb_server_decref(v))
    BY <2>3, <2>4, DecrefOK
  <2> QED BY <2>1, <2>2, <2>3, <2>5
<1>3. CASE ~n.backend
  <2>1. Gone(n) = n
    BY <1>3 DEF Gone
  <2> QED BY <1>3, <2>1
<1> QED BY <1>2, <1>3

(* A new stream has a reference to the record.                             *)
LEMMA ConnectOK ==
    ASSUME NEW n, NodeInv(n), n.stream = NULL, NEW x
    PROVE  LET u == siridb_server_connect(x, n)
           IN  NodeInv(u) /\ u.backend = n.backend
<1> DEFINE c == IF x \in Resolves THEN "resolving" ELSE "connecting"
           z == NewStream(c)
           r == IF x \in Resolves THEN n.resolvers + 1 ELSE n.resolvers
           f == n.ref + 1
           u == [n EXCEPT !.stream = z, !.ref = f, !.resolvers = r]
<1>1. siridb_server_connect(x, n) = u
  BY DEF siridb_server_connect
<1>2. n \in Node /\ n.ref \in Int /\ n.resolvers \in Int
  BY DEF NodeInv, BodyInv, Node
<1>3. c \in {"resolving", "connecting"} /\ r \in Int /\ f \in Int /\ f = n.ref + 1
  BY <1>2
<1> HIDE DEF c, r, f
<1>4. /\ z \in Stream /\ z # NULL /\ z.state = c /\ z.wait = <<>> /\ z.out = <<>> /\ z.in = {}
  <2>1. c \in States /\ <<>> \in Seq(Msg) /\ {} \in SUBSET Msg /\ 1 \in Int /\ FALSE \in BOOLEAN
    BY <1>3 DEF States
  <2>2. z \in Stream
    BY <2>1 DEF NewStream, Stream
  <2>3. z.state = c /\ z.wait = <<>> /\ z.out = <<>> /\ z.in = {}
    BY DEF NewStream
  <2> QED BY <2>2, <2>3, NullAssumption
<1> HIDE DEF z
<1>5. /\ u \in Node /\ u.stream = z /\ u.ref = f /\ u.pid = n.pid /\ u.promises = n.promises
      /\ u.flags = n.flags /\ u.listed = n.listed /\ u.backend = n.backend
  BY <1>2, <1>3, <1>4 DEF Node
<1> HIDE DEF u
<1>6. Called(u) /\ PidsUnique(u) /\ IsFiniteSet(u.promises)
  BY <1>5 DEF NodeInv, BodyInv, Called, PidsUnique
<1>7. FullOK(u) /\ AuthOK(u)
  BY <1>5 DEF NodeInv, BodyInv, FullOK, AuthOK
<1>8. StreamInv(u)
  <2>1. Len(<<>>) = 0
    OBVIOUS
  <2> QED BY <1>3, <1>4, <1>5, <2>1 DEF StreamInv, WaitOK, AgesOK, AnswersOK, NewOK, AuthFirst
<1>9. u.ref = Refs(u)
  <2>1. Refs(n) \in Int /\ Refs(u) = Refs(n) + 1
    BY <1>4, <1>5 DEF Refs, One
  <2> QED BY <1>3, <1>5, <2>1 DEF NodeInv
<1> QED BY <1>1, <1>5, <1>6, <1>7, <1>8, <1>9 DEF NodeInv, BodyInv

(* The flags of the other server are read, and it is connected to if it    *)
(* was not.                                                                *)
LEMMA FlagsUpdateOK ==
    ASSUME NEW n, NodeInv(n), NEW y
    PROVE  LET u == BSERVER_flags_update(y, n)
           IN  NodeInv(u) /\ u.backend = n.backend /\ (Quiet(n) => Quiet(u))
<1> DEFINE F == {"running"} \cup (n.flags \cap {"authenticated", "full"})
           v == [n EXCEPT !.flags = F]
<1>1. v = siridb_server_update_flags(n)
  BY DEF siridb_server_update_flags
<1>2. n \in Node /\ F \in SUBSET Flags
  BY DEF NodeInv, BodyInv, Node, Flags
<1>3. v \in Node /\ v.flags = F /\ SameButFlags(n, v)
  BY <1>2, FlagsSet
<1> HIDE DEF v
<1>4. FullOK(v) /\ AuthOK(v)
  BY <1>3 DEF NodeInv, BodyInv, FullOK, FullExact, AuthOK, SameButFlags, Open
<1>5. BodyInv(v) /\ Refs(v) = Refs(n) /\ (Quiet(n) <=> Quiet(v))
  BY <1>3, <1>4, SameBody DEF NodeInv
<1>6. NodeInv(v) /\ v.backend = n.backend /\ v.stream = n.stream
  BY <1>3, <1>5 DEF NodeInv, SameButFlags
<1>7. CASE n.stream = NULL
  <2>1. BSERVER_flags_update(y, n) = siridb_server_connect(y, v)
    BY <1>1, <1>6, <1>7 DEF BSERVER_flags_update
  <2>2. ~Quiet(n)
    BY <1>7 DEF Quiet
  <2>3. /\ NodeInv(siridb_server_connect(y, v))
        /\ siridb_server_connect(y, v).backend = v.backend
    BY <1>6, <1>7, ConnectOK
  <2> QED BY <1>6, <2>1, <2>2, <2>3
<1>8. CASE n.stream # NULL
  <2>1. BSERVER_flags_update(y, n) = v
    BY <1>1, <1>6, <1>8 DEF BSERVER_flags_update
  <2> QED BY <1>5, <1>6, <2>1
<1> QED BY <1>7, <1>8

(* Only a server that has no back-end stream yet.                          *)
LEMMA RequestOK ==
    ASSUME NEW n, NodeInv(n), n.listed, ~n.backend
    PROVE  LET u == siridb_auth_server_request(n)
           IN  NodeInv(u) /\ (Quiet(n) => Quiet(u))
<1> DEFINE f == n.ref + 1
           u == [n EXCEPT !.backend = TRUE, !.ref = f]
<1>1. siridb_auth_server_request(n) = u
  BY DEF siridb_auth_server_request
<1>2. n \in Node /\ f \in Int /\ f = n.ref + 1 /\ n.ref = Refs(n)
  BY DEF NodeInv, BodyInv, Node
<1> HIDE DEF f
<1>3. /\ u \in Node /\ u.stream = n.stream /\ u.pid = n.pid /\ u.promises = n.promises
      /\ u.flags = n.flags /\ u.ref = f /\ u.listed = n.listed /\ u.backend = TRUE
  BY <1>2 DEF Node
<1> HIDE DEF u
<1>4. BodyInv(u) /\ (Quiet(n) <=> Quiet(u))
  BY <1>3, SameStream DEF NodeInv
<1>5. u.ref = Refs(u)
  BY <1>2, <1>3 DEF Refs, One
<1> QED BY <1>1, <1>4, <1>5 DEF NodeInv

(* The socket is closed.                                                   *)
LEMMA FreeOK ==
    ASSUME NEW n, NodeInv(n), n.stream # NULL
    PROVE  LET u == siridb_server_decref([SERVER_write_cb_error(n) EXCEPT !.stream = NULL, !.flags = {}])
           IN  NodeInv(u) /\ u.backend = n.backend
<1> DEFINE P == {p \in n.promises : ~Waiting(n, p)}
           a == [n EXCEPT !.promises = P]
           v == [a EXCEPT !.stream = NULL, !.flags = {}]
<1>1. SERVER_write_cb_error(n) = a
  BY DEF SERVER_write_cb_error
<1>2. n \in Node /\ P \in SUBSET Promise /\ P \subseteq n.promises /\ n.ref = Refs(n) /\ {} \in SUBSET Flags
  BY DEF NodeInv, BodyInv, Node
<1> HIDE DEF P
<1>3. /\ a \in Node /\ a.promises = P /\ a.ref = n.ref /\ a.listed = n.listed /\ a.backend = n.backend
  BY <1>2 DEF Node
<1> HIDE DEF a
<1>4. /\ v \in Node /\ v.promises = P /\ v.ref = n.ref /\ v.listed = n.listed
      /\ v.backend = n.backend /\ v.stream = NULL /\ v.flags = {}
  BY <1>2, <1>3 DEF Node
<1> HIDE DEF v
<1>5. BodyInv(v)
  <2>1. IsFiniteSet(P)
    BY <1>2, FS_Subset DEF NodeInv, BodyInv
  <2>2. Called(v) /\ PidsUnique(v) /\ FullOK(v) /\ AuthOK(v)
    BY <1>2, <1>4 DEF NodeInv, BodyInv, Called, PidsUnique, FullOK, AuthOK
  <2> QED BY <1>4, <2>1, <2>2 DEF BodyInv
<1>6. v.ref = Refs(v) + 1
  BY <1>2, <1>4 DEF Refs, One
<1>7. /\ NodeInv(siridb_server_decref(v)) /\ siridb_server_decref(v).backend = v.backend
  BY <1>5, <1>6, DecrefOK
<1>8. v = [SERVER_write_cb_error(n) EXCEPT !.stream = NULL, !.flags = {}]
  BY <1>1 DEF v
<1> QED BY <1>4, <1>7, <1>8

(* The list gives up the record.                                           *)
LEMMA DropOK ==
    ASSUME NEW n, NodeInv(n), n.listed
    PROVE  LET u == siridb_server_decref([n EXCEPT !.listed = FALSE])
           IN  NodeInv(u) /\ u.backend = n.backend /\ (Quiet(n) => Quiet(u))
<1> DEFINE v == [n EXCEPT !.listed = FALSE]
<1>1. n \in Node /\ n.ref = Refs(n)
  BY DEF NodeInv, BodyInv
<1>2. /\ v \in Node /\ v.stream = n.stream /\ v.pid = n.pid /\ v.promises = n.promises
      /\ v.flags = n.flags /\ v.ref = n.ref /\ v.listed = FALSE /\ v.backend = n.backend
  BY <1>1 DEF Node
<1> HIDE DEF v
<1>3. BodyInv(v) /\ (Quiet(n) <=> Quiet(v))
  BY <1>2, SameStream DEF NodeInv
<1>4. v.ref = Refs(v) + 1
  BY <1>1, <1>2 DEF Refs, One
<1>5. /\ NodeInv(siridb_server_decref(v)) /\ siridb_server_decref(v).backend = v.backend
      /\ Quiet(v) => Quiet(siridb_server_decref(v))
  BY <1>3, <1>4, DecrefOK
<1> QED BY <1>2, <1>3, <1>5 DEF v

(* The record of a server that just started.                               *)
LEMMA NewServer ==
    LET n == siridb_server_new
    IN  /\ n \in Node /\ n.stream = NULL /\ n.promises = {} /\ n.flags = {} /\ n.backend = FALSE
        /\ n.listed = TRUE /\ n.ref = 1
<1>1. 0 \in Pids /\ {} \in SUBSET Flags /\ {} \in SUBSET Promise /\ NULL \in Stream \cup {NULL}
  BY ConnectionAssumption DEF Pids
<1> QED BY <1>1 DEF Node, siridb_server_new

(* The record after a restart.                                             *)
LEMMA RestartedOK ==
    ASSUME NEW b \in BOOLEAN
    PROVE  LET u == [siridb_server_new EXCEPT !.listed = b, !.ref = IF b THEN 1 ELSE 0]
           IN  NodeInv(u) /\ ~u.backend
<1> DEFINE f == IF b THEN 1 ELSE 0
           u == [siridb_server_new EXCEPT !.listed = b, !.ref = f]
<1>1. f \in Int /\ f = One(b)
  BY DEF One
<1> HIDE DEF f
<1>2. /\ u \in Node /\ u.stream = NULL /\ u.promises = {} /\ u.flags = {} /\ u.backend = FALSE
      /\ u.listed = b /\ u.ref = f
  BY <1>1, NewServer DEF Node
<1> HIDE DEF u
<1>3. BodyInv(u)
  BY <1>2, FS_EmptySet DEF BodyInv, Called, PidsUnique, FullOK, AuthOK
<1>4. u.ref = Refs(u)
  BY <1>1, <1>2 DEF Refs, One
<1> QED BY <1>2, <1>3, <1>4 DEF NodeInv, u, f

-----------------------------------------------------------------------------
(* The actions.                                                            *)

(* There are two servers.                                                  *)
LEMMA SideIs ==
    ASSUME NEW x \in Side
    PROVE  /\ Other(x) \in Side /\ Other(x) # x /\ Other(Other(x)) = x
           /\ \A y \in Side : y = x \/ y = Other(x)
  BY ConnectionAssumption DEF Side, Other

(* The number of faults stays in its bounds.                               *)
LEMMA FaultsOK == ASSUME faults \in 0..MaxFaults, Fault \/ NoFault PROVE faults' \in 0..MaxFaults
  BY ConnectionAssumption DEF Fault, NoFault

(* A step of both servers.                                                 *)
LEMMA TwoNodes ==
    ASSUME ConnInv, Fault \/ NoFault, NEW x \in Side, NEW u, NEW v,
           node' = [node EXCEPT ![x] = u, ![Other(x)] = v],
           NodeInv(u), NodeInv(v), v.backend => Quiet(u), u.backend => Quiet(v)
    PROVE  ConnInv'
<1>1. node'[x] = u /\ node'[Other(x)] = v /\ DOMAIN node' = Side
  BY SideIs DEF ConnInv
<1>2. faults' \in 0..MaxFaults
  BY FaultsOK DEF ConnInv
<1>3. ASSUME NEW y \in Side
      PROVE  NodeInv(node'[y]) /\ (node'[Other(y)].backend => Quiet(node'[y]))
  <2>1. y = x \/ y = Other(x)
    BY SideIs
  <2>2. CASE y = x
    BY <1>1, <2>2
  <2>3. CASE y = Other(x)
    BY <1>1, <2>3, SideIs
  <2> QED BY <2>1, <2>2, <2>3
<1> QED BY <1>1, <1>2, <1>3 DEF ConnInv

(* A step of one server.                                                   *)
LEMMA OneNode ==
    ASSUME ConnInv, Fault \/ NoFault, NEW x \in Side, NEW u, Becomes(x, u),
           NodeInv(u), u.backend = node[x].backend, Quiet(node[x]) => Quiet(u)
    PROVE  ConnInv'
<1> DEFINE y == Other(x)
<1>1. /\ NodeInv(node[y]) /\ (node[y].backend => Quiet(node[x]))
      /\ (node[x].backend => Quiet(node[y])) /\ y \in Side
  BY SideIs DEF ConnInv
<1>2. node' = [node EXCEPT ![x] = u, ![Other(x)] = node[y]]
  BY SideIs DEF Becomes, ConnInv
<1> QED BY <1>1, <1>2, TwoNodes

(* A step that leaves the references alone.                                *)
LEMMA KeepsNode ==
    ASSUME NEW n, NodeInv(n), NEW u, BodyInv(u), Keeps(n, u)
    PROVE  NodeInv(u) /\ u.backend = n.backend
  BY KeepsRefs DEF NodeInv, Keeps

(* A server connects.                                                      *)
LEMMA ConnectStep ==
    ASSUME ConnInv, NEW x \in Side, NoFault, node[x].stream = NULL,
           Becomes(x, siridb_server_connect(x, node[x]))
    PROVE  ConnInv'
<1> DEFINE u == siridb_server_connect(x, node[x])
<1>1. NodeInv(node[x]) /\ ~Quiet(node[x])
  BY DEF ConnInv, Quiet
<1>2. NodeInv(u) /\ u.backend = node[x].backend
  BY <1>1, ConnectOK
<1> QED BY <1>1, <1>2, OneNode

(* A server that packages are sent to has an open or a closing stream.     *)
LEMMA SendStep ==
    ASSUME ConnInv, NEW x \in Side, NoFault, node[x].stream # NULL,
           "authenticated" \in node[x].flags, CanSend(node[x]),
           NEW kind \in {"flags", "data"},
           Becomes(x, siridb_server_send_pkg(node[x], kind))
    PROVE  ConnInv'
<1> DEFINE u == siridb_server_send_pkg(node[x], kind)
<1>1. NodeInv(node[x]) /\ BodyInv(node[x]) /\ kind \in Kinds /\ kind # "auth"
  BY DEF ConnInv, NodeInv, Kinds
<1>2. node[x].stream.state \in {"open", "closing"}
  BY <1>1 DEF BodyInv, AuthOK
<1>3. BodyInv(u) /\ Keeps(node[x], u) /\ (Quiet(node[x]) => Quiet(u))
  BY <1>1, <1>2, SendOK
<1> HIDE DEF u
<1>4. NodeInv(u) /\ u.backend = node[x].backend
  BY <1>1, <1>3, KeepsNode
<1> QED BY <1>3, <1>4, OneNode DEF u

(* HEARTBEAT_cb connects or sends the flags.                               *)
LEMMA HeartbeatStep == ASSUME ConnInv, NEW x \in Side, HEARTBEAT_cb(x) PROVE ConnInv'
<1>1. NoFault
  BY DEF HEARTBEAT_cb
<1>2. CASE node[x].stream = NULL /\ Becomes(x, siridb_server_connect(x, node[x]))
  BY <1>1, <1>2, ConnectStep
<1>3. CASE UNCHANGED node
  BY <1>1, <1>3 DEF ConnInv, NoFault
<1>4. CASE /\ node[x].stream # NULL /\ siridb_server_is_online(node[x]) /\ CanSend(node[x])
           /\ Becomes(x, siridb_server_send_pkg(node[x], "flags"))
  <2>1. "authenticated" \in node[x].flags
    BY <1>4 DEF siridb_server_is_online
  <2> QED BY <1>1, <1>4, <2>1, SendStep
<1> QED BY <1>2, <1>3, <1>4 DEF HEARTBEAT_cb

(* A package is sent to an accessible server.                              *)
LEMMA SendDataStep == ASSUME ConnInv, NEW x \in Side, SendData(x) PROVE ConnInv'
<1>1. "authenticated" \in node[x].flags
  BY DEF SendData, siridb_server_is_accessible
<1> QED BY <1>1, SendStep DEF SendData

(* A reference to the stream is given up.                                  *)
LEMMA DecrefStep ==
    ASSUME ConnInv, NEW x \in Side, Fault \/ NoFault, node[x].stream # NULL,
           Becomes(x, sirinet_stream_decref(node[x]))
    PROVE  ConnInv'
<1> DEFINE u == sirinet_stream_decref(node[x])
<1>1. NodeInv(node[x]) /\ BodyInv(node[x])
  BY DEF ConnInv, NodeInv
<1>2. BodyInv(u) /\ Keeps(node[x], u) /\ (Quiet(node[x]) => Quiet(u))
  BY <1>1, StreamDecrefOK
<1> HIDE DEF u
<1>3. NodeInv(u) /\ u.backend = node[x].backend
  BY <1>1, <1>2, KeepsNode
<1> QED BY <1>2, <1>3, OneNode DEF u

(* The end of the stream is read.                                          *)
LEMMA EofStep == ASSUME ConnInv, NEW x \in Side, sirinet_stream_on_eof(x) PROVE ConnInv'
  BY DecrefStep DEF sirinet_stream_on_eof

(* The packages stay where they are, or an answer is read.                 *)
LEMMA SamePackages ==
    ASSUME NEW n, NodeInv(n), n.stream # NULL, NEW z \in Stream,
           z.wait = n.stream.wait, z.out = n.stream.out, z.in \subseteq n.stream.in,
           \/ z.state = n.stream.state
           \/ n.stream.state = "resolving" /\ z.state = "connecting"
           \/ n.stream.state = "connecting" /\ z.state = "open"
    PROVE  LET u == [n EXCEPT !.stream = z]
           IN  /\ NodeInv(u) /\ BodyInv(u) /\ Keeps(n, u) /\ (Quiet(n) => Quiet(u))
               /\ u.stream = z /\ u.flags = n.flags /\ u.pid = n.pid /\ u.promises = n.promises
               /\ z # NULL
<1> DEFINE u == [n EXCEPT !.stream = z]
<1>1. BodyInv(n) /\ n.stream.out \in Seq(Msg) /\ z # NULL
  BY NullAssumption DEF NodeInv, BodyInv, Node, Stream
<1>2. \A j \in 1..Len(z.out) : \E l \in 1..Len(n.stream.out) : z.out[j] = n.stream.out[l] /\ j <= l
  <2> TAKE j \in 1..Len(z.out)
  <2>1. j \in 1..Len(n.stream.out) /\ j <= j
    BY <1>1
  <2> WITNESS j \in 1..Len(n.stream.out)
  <2> QED BY <2>1
<1>3. \A q \in z.in : \E r \in n.stream.in : Same(q, r)
  BY DEF Same
<1>4. /\ BodyInv(u) /\ Keeps(n, u) /\ (Quiet(n) => Quiet(u))
      /\ u.stream = z /\ u.flags = n.flags /\ u.pid = n.pid /\ u.promises = n.promises
  BY <1>1, <1>2, <1>3, StreamStepOK
<1> HIDE DEF u
<1>5. NodeInv(u)
  BY <1>4, KeepsNode
<1> QED BY <1>1, <1>4, <1>5 DEF u

(* The other one ended the connection.                                     *)
LEMMA BrokenOK ==
    ASSUME NEW n, NodeInv(n), n.stream # NULL
    PROVE  LET u == [n EXCEPT !.stream.broken = TRUE]
           IN  NodeInv(u) /\ u.backend = n.backend /\ (Quiet(n) => Quiet(u))
<1> DEFINE z == [n.stream EXCEPT !.broken = TRUE]
           u == [n EXCEPT !.stream = z]
<1>1. n.stream \in Stream
  BY DEF NodeInv, BodyInv, Node
<1>2. /\ z \in Stream /\ z.wait = n.stream.wait /\ z.out = n.stream.out /\ z.in = n.stream.in
      /\ z.state = n.stream.state
  BY <1>1 DEF Stream
<1>3. [n EXCEPT !.stream.broken = TRUE] = u
  OBVIOUS
<1> HIDE DEF z
<1>4. NodeInv(u) /\ Keeps(n, u) /\ (Quiet(n) => Quiet(u))
  BY <1>2, SamePackages
<1> HIDE DEF u
<1> QED BY <1>3, <1>4 DEF Keeps

(* One server starts again, and the other one will read that its stream    *)
(* ended.                                                                  *)
LEMMA RestartStep ==
    ASSUME ConnInv, NEW x \in Side, Fault \/ NoFault, node' = Restarted(x)
    PROVE  ConnInv'
<1> DEFINE y == Other(x)
           b == node[x].listed
           u == [siridb_server_new EXCEPT !.listed = b, !.ref = IF b THEN 1 ELSE 0]
           n == IF node[y].stream = NULL THEN node[y] ELSE [node[y] EXCEPT !.stream.broken = TRUE]
           v == Gone(n)
<1>1. y \in Side /\ NodeInv(node[y]) /\ b \in BOOLEAN
  BY SideIs DEF ConnInv, NodeInv, BodyInv, Node
<1>2. NodeInv(n)
  BY <1>1, BrokenOK
<1> HIDE DEF n
<1>3. NodeInv(v) /\ ~v.backend
  BY <1>2, GoneOK
<1>4. NodeInv(u) /\ ~u.backend
  BY <1>1, RestartedOK
<1>5. node' = [node EXCEPT ![x] = u, ![Other(x)] = v]
  BY DEF Restarted, n
<1> HIDE DEF u, v
<1> QED BY <1>3, <1>4, <1>5, TwoNodes

(* The name is resolved, or the process ends because the stream is gone.   *)
LEMMA ResolvedStep == ASSUME ConnInv, NEW x \in Side, SERVER_on_resolved(x) PROVE ConnInv'
<1> DEFINE r == node[x].resolvers - 1
           n == [node[x] EXCEPT !.resolvers = r]
<1>1. node[x] \in Node /\ NodeInv(node[x]) /\ r \in Int
  BY DEF ConnInv, NodeInv, BodyInv, Node
<1> HIDE DEF r
<1>2. /\ n \in Node /\ n.stream = node[x].stream /\ n.pid = node[x].pid /\ n.promises = node[x].promises
      /\ n.flags = node[x].flags /\ n.ref = node[x].ref /\ n.listed = node[x].listed
      /\ n.backend = node[x].backend
  BY <1>1 DEF Node
<1> HIDE DEF n
<1>3. BodyInv(n) /\ (Quiet(node[x]) <=> Quiet(n))
  BY <1>1, <1>2, SameStream DEF NodeInv
<1>4. NodeInv(n)
  BY <1>1, <1>2, <1>3 DEF NodeInv, Refs
<1>5. CASE n.stream = NULL /\ node' = Restarted(x) /\ NoFault
  BY <1>5, RestartStep
<1>6. CASE /\ n.stream # NULL /\ NoFault
           /\ Becomes(x, [n EXCEPT !.stream.state = IF @ = "resolving" THEN "connecting" ELSE @])
  <2> DEFINE s == n.stream
             c == IF s.state = "resolving" THEN "connecting" ELSE s.state
             z == [s EXCEPT !.state = c]
             u == [n EXCEPT !.stream = z]
  <2>1. s \in Stream
    BY <1>2, <1>6 DEF Node
  <2>2. c \in States /\ (c = s.state \/ (s.state = "resolving" /\ c = "connecting"))
    <3>1. s.state \in States /\ "connecting" \in States
      BY <2>1 DEF Stream, States
    <3> QED BY <3>1
  <2>3. Becomes(x, u)
    BY <1>6
  <2> HIDE DEF c
  <2>4. z \in Stream /\ z.wait = s.wait /\ z.out = s.out /\ z.in = s.in /\ z.state = c
    BY <2>1, <2>2 DEF Stream
  <2> HIDE DEF z
  <2>5. NodeInv(u) /\ Keeps(n, u) /\ (Quiet(n) => Quiet(u))
    BY <1>4, <1>6, <2>2, <2>4, SamePackages
  <2> HIDE DEF u
  <2> QED BY <1>2, <1>3, <1>6, <2>3, <2>5, OneNode DEF Keeps
<1>7. CASE n.stream # NULL /\ Fault /\ Becomes(x, sirinet_stream_decref(n))
  <2> DEFINE u == sirinet_stream_decref(n)
  <2>1. BodyInv(u) /\ Keeps(n, u) /\ (Quiet(n) => Quiet(u))
    BY <1>3, <1>7, StreamDecrefOK
  <2> HIDE DEF u
  <2>2. NodeInv(u) /\ u.backend = n.backend
    BY <1>4, <2>1, KeepsNode
  <2> QED BY <1>2, <1>3, <1>7, <2>1, <2>2, OneNode DEF u
<1> QED BY <1>5, <1>6, <1>7 DEF SERVER_on_resolved, n, r

(* The stream is open, and the request for authentication is the first     *)
(* package on it.                                                          *)
LEMMA OnConnectStep == ASSUME ConnInv, NEW x \in Side, SERVER_on_connect(x) PROVE ConnInv'
<1>1. /\ NodeInv(node[x]) /\ BodyInv(node[x]) /\ node[x].stream # NULL
      /\ node[x].stream.state = "connecting"
  BY DEF ConnInv, NodeInv, SERVER_on_connect
<1>2. CASE Fault /\ Becomes(x, sirinet_stream_decref(node[x]))
  BY <1>1, <1>2, DecrefStep
<1>3. CASE /\ CanSend(node[x]) /\ NoFault
           /\ Becomes(x, siridb_server_send_pkg([node[x] EXCEPT !.stream.state = "open"], "auth"))
  <2> DEFINE s == node[x].stream
             z == [s EXCEPT !.state = "open"]
             n == [node[x] EXCEPT !.stream = z]
             u == siridb_server_send_pkg(n, "auth")
  <2>1. s \in Stream /\ "open" \in States
    BY <1>1 DEF BodyInv, Node, States
  <2>2. z \in Stream /\ z.wait = s.wait /\ z.out = s.out /\ z.in = s.in /\ z.state = "open"
    BY <2>1 DEF Stream
  <2>3. Becomes(x, u)
    BY <1>3
  <2> HIDE DEF z
  <2>4. /\ NodeInv(n) /\ BodyInv(n) /\ Keeps(node[x], n) /\ n.stream = z
        /\ n.pid = node[x].pid /\ n.promises = node[x].promises /\ z # NULL
    BY <1>1, <2>2, SamePackages
  <2> HIDE DEF n
  <2>5. Free(n) = Free(node[x]) /\ CanSend(n)
    <3>1. Free(n) = Free(node[x])
      BY <2>4 DEF Free, Open
    <3> QED BY <1>3, <2>2, <2>4, <3>1 DEF CanSend
  <2>6. z.wait = <<>> /\ z.out = <<>>
    BY <1>1, <2>2 DEF BodyInv, StreamInv, NewOK
  <2>7. BodyInv(u) /\ Keeps(n, u)
    BY <2>2, <2>4, <2>5, <2>6, SendOK DEF Kinds
  <2> HIDE DEF u
  <2>8. NodeInv(u) /\ u.backend = n.backend
    BY <2>4, <2>7, KeepsNode
  <2>9. ~Quiet(node[x])
    BY <1>1 DEF Quiet
  <2> QED BY <1>3, <2>3, <2>4, <2>8, <2>9, OneNode DEF Keeps
<1> QED BY <1>2, <1>3 DEF SERVER_on_connect

(* SERVER_write_cb gives up the reference of the write.                    *)
LEMMA WriteStep == ASSUME ConnInv, NEW x \in Side, SERVER_write_cb(x) PROVE ConnInv'
<1> DEFINE n == node[x]
           u == Written([n EXCEPT !.stream = Sent(@)], PromiseOf(n, Head(n.stream.wait)))
<1>1. /\ NodeInv(n) /\ BodyInv(n) /\ n.stream # NULL /\ n.stream.state = "open"
      /\ n.stream.wait # <<>> /\ NoFault /\ Becomes(x, u)
  BY DEF ConnInv, NodeInv, SERVER_write_cb
<1>2. BodyInv(u) /\ Keeps(n, u) /\ (Quiet(n) => Quiet(u))
  BY <1>1, WrittenOK
<1> HIDE DEF u
<1>3. NodeInv(u) /\ u.backend = n.backend
  BY <1>1, <1>2, KeepsNode
<1> QED BY <1>1, <1>2, <1>3, OneNode

(* The other server loses its back-end stream at the same time.            *)
LEMMA FreeStep == ASSUME ConnInv, NEW x \in Side, sirinet__stream_free(x) PROVE ConnInv'
<1> DEFINE y == Other(x)
           u == siridb_server_decref([SERVER_write_cb_error(node[x]) EXCEPT !.stream = NULL, !.flags = {}])
           v == Gone(node[y])
<1>1. /\ NodeInv(node[x]) /\ NodeInv(node[y]) /\ node[x].stream # NULL /\ NoFault /\ y # x
      /\ (node[x].backend => Quiet(node[y]))
  BY SideIs DEF ConnInv, sirinet__stream_free
<1>2. NodeInv(u) /\ u.backend = node[x].backend
  BY <1>1, FreeOK
<1>3. NodeInv(v) /\ ~v.backend /\ (Quiet(node[y]) => Quiet(v))
  BY <1>1, GoneOK
<1>4. node' = [node EXCEPT ![x] = u, ![Other(x)] = v]
  BY <1>1 DEF sirinet__stream_free
<1> HIDE DEF u, v
<1> QED BY <1>1, <1>2, <1>3, <1>4, TwoNodes

(* The time of a promise is over.                                          *)
LEMMA TimeOutStep == ASSUME ConnInv, NEW x \in Side, TimeOut(x) PROVE ConnInv'
<1>1. PICK p \in Open(node[x]) : SERVER_timeout_pkg(x, p)
  BY DEF TimeOut
<1> DEFINE u == Settle(node[x], p, FALSE)
<1>2. Becomes(x, u) /\ (Fault \/ NoFault)
  BY <1>1 DEF SERVER_timeout_pkg
<1>3. NodeInv(node[x]) /\ BodyInv(node[x])
  BY DEF ConnInv, NodeInv
<1>4. BodyInv(u) /\ Keeps(node[x], u) /\ (Quiet(node[x]) => Quiet(u))
  BY <1>3, SettleOK
<1> HIDE DEF u
<1>5. NodeInv(u) /\ u.backend = node[x].backend
  BY <1>3, <1>4, KeepsNode
<1> QED BY <1>2, <1>4, <1>5, OneNode

(* An answer ends the promise with its id, or is ignored.                  *)
LEMMA OnDataStep == ASSUME ConnInv, NEW x \in Side, SERVER_on_data(x) PROVE ConnInv'
<1> DEFINE n == node[x]
           s == n.stream
<1>1. NodeInv(n) /\ s # NULL /\ s.state = "open" /\ NoFault
  BY DEF ConnInv, SERVER_on_data
<1> DEFINE got(m) == [n EXCEPT !.stream.in = @ \ {m}]
           found(m) == {p \in Open(n) : p.pid = m.pid}
           u(m) == IF found(m) = {} THEN got(m) ELSE Settle(got(m), CHOOSE p \in found(m) : TRUE, m.ok)
<1>2. PICK m \in s.in : Becomes(x, u(m))
  BY DEF SERVER_on_data
<1> DEFINE i == s.in \ {m}
           z == [s EXCEPT !.in = i]
           g == [n EXCEPT !.stream = z]
<1>3. s \in Stream /\ i \in SUBSET Msg /\ i \subseteq s.in /\ m.ok \in BOOLEAN
  BY <1>1 DEF NodeInv, BodyInv, Node, Stream, Msg
<1>4. g = got(m)
  OBVIOUS
<1> HIDE DEF i, got
<1>5. z \in Stream /\ z.wait = s.wait /\ z.out = s.out /\ z.in = i /\ z.state = s.state
  BY <1>3 DEF Stream
<1> HIDE DEF z
<1>6. /\ NodeInv(g) /\ BodyInv(g) /\ Keeps(n, g) /\ (Quiet(n) => Quiet(g)) /\ g.stream = z
      /\ g.promises = n.promises /\ z # NULL
  BY <1>1, <1>3, <1>5, SamePackages
<1> HIDE DEF g
<1>7. CASE found(m) = {}
  <2>1. Becomes(x, g)
    BY <1>2, <1>4, <1>7
  <2> QED BY <1>1, <1>6, <2>1, OneNode DEF Keeps
<1>8. CASE found(m) # {}
  <2> DEFINE p == CHOOSE p \in found(m) : TRUE
             w == Settle(g, p, m.ok)
  <2>1. p \in Open(g)
    <3>1. p \in found(m)
      BY <1>8
    <3> QED BY <1>6, <3>1 DEF Open
  <2>2. Becomes(x, w)
    BY <1>2, <1>4, <1>8
  <2> HIDE DEF p
  <2>3. BodyInv(w) /\ Keeps(g, w) /\ (Quiet(g) => Quiet(w))
    BY <1>1, <1>3, <1>5, <1>6, <2>1, SettleOK
  <2> HIDE DEF w
  <2>4. NodeInv(w) /\ w.backend = g.backend
    BY <1>6, <2>3, KeepsNode
  <2> QED BY <1>1, <1>6, <2>2, <2>3, <2>4, OneNode DEF Keeps
<1> QED BY <1>7, <1>8

(* After the request for authentication there is no other one on its way.  *)
LEMMA AnswerOK ==
    ASSUME NEW n, NodeInv(n), n.stream # NULL, n.stream.state = "open", n.stream.out # <<>>,
           NEW ok \in BOOLEAN
    PROVE  LET u == [n EXCEPT !.stream = Answered(@, ok)]
           IN  /\ NodeInv(u) /\ u.backend = n.backend /\ (Quiet(n) => Quiet(u))
               /\ Head(n.stream.out).kind = "auth" => ~Quiet(n) /\ Quiet(u)
<1> DEFINE s == n.stream
           m == Head(s.out)
           a == [m EXCEPT !.ok = ok]
           o == Tail(s.out)
           i == s.in \cup {a}
           z == Answered(s, ok)
           u == [n EXCEPT !.stream = z]
<1>1. s \in Stream /\ s.out \in Seq(Msg) /\ s.in \in SUBSET Msg /\ StreamInv(n) /\ BodyInv(n)
  BY DEF NodeInv, BodyInv, Node, Stream
<1>2. /\ m \in Msg /\ m = s.out[1] /\ 1 \in 1..Len(s.out)
      /\ o \in Seq(Msg) /\ Len(o) = Len(s.out) - 1 /\ Len(o) \in Nat
      /\ \A j \in 1..Len(o) : o[j] = s.out[j + 1] /\ j + 1 \in 1..Len(s.out) /\ j + 1 # 1 /\ j <= j + 1
  BY <1>1
<1>3. a \in Msg /\ Same(a, m)
  <2> HIDE DEF m
  <2> QED BY <1>2 DEF Msg, Same
<1>4. i \in SUBSET Msg
  BY <1>1, <1>3
<1>5. z = [s EXCEPT !.out = o, !.in = i]
  BY DEF Answered
<1> HIDE DEF z, m, a, o
<1>6. /\ z \in Stream /\ z.wait = s.wait /\ z.out = o /\ z.in = i /\ z.state = s.state
  <2> HIDE DEF i
  <2> QED BY <1>1, <1>2, <1>4, <1>5 DEF Stream
<1>7. \A j \in 1..Len(o) : \E l \in 1..Len(s.out) : o[j] = s.out[l] /\ j <= l
  <2> TAKE j \in 1..Len(o)
  <2>1. j + 1 \in 1..Len(s.out) /\ o[j] = s.out[j + 1] /\ j <= j + 1
    BY <1>2
  <2> QED BY <2>1
<1>8. \A q \in i : \/ \E r \in s.in : Same(q, r)
                   \/ \E l \in 1..Len(s.out) : Same(q, s.out[l])
  BY <1>2, <1>3 DEF Same
<1>9. BodyInv(u) /\ Keeps(n, u) /\ (Quiet(n) => Quiet(u)) /\ u.stream = z
  BY <1>1, <1>6, <1>7, <1>8, StreamStepOK
<1> HIDE DEF u
<1>10. NodeInv(u) /\ u.backend = n.backend
  BY <1>9, KeepsNode
<1>11. ASSUME m.kind = "auth" PROVE ~Quiet(n) /\ Quiet(u)
  <2>1. ~Quiet(n)
    BY <1>2, <1>11 DEF Quiet
  <2>2. \A j \in 1..Len(o) : o[j].kind # "auth"
    <3> TAKE j \in 1..Len(o)
    <3>1. o[j] = s.out[j + 1] /\ j + 1 \in 1..Len(s.out) /\ j + 1 # 1
      BY <1>2
    <3> QED BY <1>1, <3>1 DEF StreamInv, AuthFirst
  <2>3. \A j \in 1..Len(s.wait) : s.wait[j].kind # "auth"
    BY <1>1 DEF StreamInv, AuthFirst
  <2> QED BY <1>6, <1>9, <2>1, <2>2, <2>3 DEF Quiet, Keeps
<1> QED BY <1>9, <1>10, <1>11 DEF u, z, m

(* A request for authentication is answered once, by a server that has no  *)
(* back-end stream from this one.                                          *)
LEMMA ReceiveStep == ASSUME ConnInv, NEW x \in Side, Receive(x) PROVE ConnInv'
<1> DEFINE n == node[x]
           y == Other(x)
           m == Head(n.stream.out)
           u(ok) == [n EXCEPT !.stream = Answered(@, ok)]
           v == BSERVER_flags_update(y, siridb_auth_server_request(node[y]))
           w == BSERVER_flags_update(y, node[y])
<1>1. /\ NodeInv(n) /\ NodeInv(node[y]) /\ n.stream # NULL /\ n.stream.state = "open"
      /\ n.stream.out # <<>> /\ NoFault /\ y # x /\ y \in Side
      /\ (n.backend => Quiet(node[y])) /\ (node[y].backend => Quiet(n))
  BY SideIs DEF ConnInv, Receive
<1>2. \A ok \in BOOLEAN :
         /\ NodeInv(u(ok)) /\ u(ok).backend = n.backend /\ (Quiet(n) => Quiet(u(ok)))
         /\ m.kind = "auth" => ~Quiet(n) /\ Quiet(u(ok))
  BY <1>1, AnswerOK
<1>3. \/ m.kind = "auth" /\ node[y].listed /\ node' = [node EXCEPT ![x] = u(TRUE), ![y] = v]
      \/ m.kind = "flags" /\ node' = [node EXCEPT ![x] = u(TRUE), ![y] = w]
      \/ \E ok \in BOOLEAN : node' = [node EXCEPT ![x] = u(ok)]
  BY <1>1 DEF Receive
<1> HIDE DEF u, v, w, m
<1>4. CASE m.kind = "auth" /\ node[y].listed /\ node' = [node EXCEPT ![x] = u(TRUE), ![y] = v]
  <2> DEFINE r == siridb_auth_server_request(node[y])
  <2>1. ~node[y].backend
    BY <1>1, <1>2, <1>4
  <2>2. NodeInv(r) /\ (Quiet(node[y]) => Quiet(r))
    BY <1>1, <1>4, <2>1, RequestOK
  <2>3. v = BSERVER_flags_update(y, r)
    BY DEF v
  <2> HIDE DEF r
  <2>4. NodeInv(v) /\ (Quiet(r) => Quiet(v))
    BY <2>2, <2>3, FlagsUpdateOK
  <2>5. NodeInv(u(TRUE)) /\ Quiet(u(TRUE)) /\ u(TRUE).backend = n.backend
    BY <1>2, <1>4
  <2> QED BY <1>1, <1>4, <2>2, <2>4, <2>5, TwoNodes
<1>5. CASE node' = [node EXCEPT ![x] = u(TRUE), ![y] = w]
  <2>1. NodeInv(w) /\ w.backend = node[y].backend /\ (Quiet(node[y]) => Quiet(w))
    BY <1>1, FlagsUpdateOK DEF w
  <2>2. NodeInv(u(TRUE)) /\ u(TRUE).backend = n.backend /\ (Quiet(n) => Quiet(u(TRUE)))
    BY <1>2
  <2> QED BY <1>1, <1>5, <2>1, <2>2, TwoNodes
<1>6. ASSUME NEW ok \in BOOLEAN, node' = [node EXCEPT ![x] = u(ok)] PROVE ConnInv'
  <2>1. NodeInv(u(ok)) /\ u(ok).backend = n.backend /\ (Quiet(n) => Quiet(u(ok)))
    BY <1>2
  <2>2. Becomes(x, u(ok))
    BY <1>6 DEF Becomes
  <2> QED BY <1>1, <2>1, <2>2, OneNode
<1> QED BY <1>3, <1>4, <1>5, <1>6

(* A connection is lost.                                                   *)
LEMMA LostStep == ASSUME ConnInv, NEW x \in Side, Lost(x) PROVE ConnInv'
<1> DEFINE y == Other(x)
           u == [node[x] EXCEPT !.stream.broken = TRUE]
           v == Gone(node[y])
<1>1. /\ NodeInv(node[x]) /\ NodeInv(node[y]) /\ node[x].stream # NULL /\ Fault /\ y # x
      /\ (node[x].backend => Quiet(node[y]))
  BY SideIs DEF ConnInv, Lost
<1>2. NodeInv(u) /\ u.backend = node[x].backend
  BY <1>1, BrokenOK
<1>3. NodeInv(v) /\ ~v.backend /\ (Quiet(node[y]) => Quiet(v))
  BY <1>1, GoneOK
<1>4. node' = [node EXCEPT ![x] = u, ![Other(x)] = v]
  BY <1>1 DEF Lost
<1> HIDE DEF u, v
<1> QED BY <1>1, <1>2, <1>3, <1>4, TwoNodes

(* A server is dropped.                                                    *)
LEMMA DropStep == ASSUME ConnInv, NEW x \in Side, siridb_server_drop(x) PROVE ConnInv'
<1> DEFINE u == siridb_server_decref([node[x] EXCEPT !.listed = FALSE])
<1>1. NodeInv(node[x]) /\ node[x].listed /\ Fault /\ Becomes(x, u)
  BY DEF ConnInv, siridb_server_drop
<1>2. NodeInv(u) /\ u.backend = node[x].backend /\ (Quiet(node[x]) => Quiet(u))
  BY <1>1, DropOK
<1> HIDE DEF u
<1> QED BY <1>1, <1>2, OneNode

-----------------------------------------------------------------------------
(* The invariant holds, and it is what makes promises and references right. *)

(***************************************************************************)
(* The invariant holds in every state that two servers reach, for any      *)
(* number of package ids, any size of the queue and any number of faults.  *)
(***************************************************************************)
THEOREM ConnInvHolds == Spec => []ConnInv
<1>1. Init => ConnInv
  <2> SUFFICES ASSUME Init PROVE ConnInv
    OBVIOUS
  <2>1. BodyInv(siridb_server_new)
    BY NewServer, FS_EmptySet DEF BodyInv, Called, PidsUnique, FullOK, AuthOK
  <2>2. NodeInv(siridb_server_new) /\ ~siridb_server_new.backend
    BY <2>1, NewServer DEF NodeInv, Refs, One
  <2>3. DOMAIN node = Side /\ \A x \in Side : node[x] = siridb_server_new
    BY DEF Init
  <2>4. faults \in 0..MaxFaults
    BY ConnectionAssumption DEF Init
  <2> QED BY <2>2, <2>3, <2>4, SideIs DEF ConnInv
<1>2. ConnInv /\ [Next]_vars => ConnInv'
  <2> SUFFICES ASSUME ConnInv, [Next]_vars PROVE ConnInv'
    OBVIOUS
  <2>1. CASE \E x \in Side : HEARTBEAT_cb(x)
    BY <2>1, HeartbeatStep
  <2>2. CASE \E x \in Side : StreamEvent(x)
    BY <2>2, ResolvedStep, OnConnectStep, FreeStep, EofStep DEF StreamEvent
  <2>3. CASE \E x \in Side : SERVER_write_cb(x)
    BY <2>3, WriteStep
  <2>4. CASE \E x \in Side : SERVER_on_data(x)
    BY <2>4, OnDataStep
  <2>5. CASE \E x \in Side : TimeOut(x)
    BY <2>5, TimeOutStep
  <2>6. CASE \E x \in Side : Receive(x)
    BY <2>6, ReceiveStep
  <2>7. CASE \E x \in Side : Lost(x)
    BY <2>7, LostStep
  <2>8. CASE \E x \in Side : Restart(x)
    BY <2>8, RestartStep DEF Restart
  <2>9. CASE SendData(A) \/ siridb_server_drop(A)
    BY <2>9, SendDataStep, DropStep DEF Side
  <2>10. CASE UNCHANGED vars
    BY <2>10 DEF ConnInv, vars
  <2> QED BY <2>1, <2>2, <2>3, <2>4, <2>5, <2>6, <2>7, <2>8, <2>9, <2>10 DEF Next
<1> QED BY <1>1, <1>2, PTL DEF Spec

(***************************************************************************)
(* The record of a server always has as many references as the list, the   *)
(* stream to it and the stream from it: it is not freed while one of them  *)
(* uses it, and not kept when none does.                                   *)
(***************************************************************************)
THEOREM RefsExactHolds == Spec => []RefsExact
<1>1. ConnInv => RefsExact
  BY DEF ConnInv, NodeInv, Refs, One, RefsExact
<1> QED BY <1>1, ConnInvHolds, PTL

(***************************************************************************)
(* Every promise is answered, given up or cancelled once, a write that     *)
(* ends finds its promise, a late answer is never taken for the answer to  *)
(* another package, and the queue-full flag counts the promises.           *)
(***************************************************************************)
THEOREM PromisesExactHolds == Spec => []PromisesExact
<1>1. ConnInv => PromisesExact
  <2> SUFFICES ASSUME ConnInv PROVE PromisesExact
    OBVIOUS
  <2>1. \A x \in Side : NodeInv(node[x]) /\ BodyInv(node[x]) /\ node[x] \in Node
    BY DEF ConnInv, NodeInv, BodyInv
  <2>2. TypeOK
    BY <2>1 DEF ConnInv, TypeOK, Node
  <2>3. CalledOnce
    BY <2>1 DEF BodyInv, Called, CalledOnce
  <2>4. ASSUME NEW x \in Side, node[x].stream # NULL
        PROVE  /\ StreamInv(node[x])
               /\ Range(node[x].stream.wait) = {node[x].stream.wait[i] : i \in 1..Len(node[x].stream.wait)}
               /\ Range(node[x].stream.out) = {node[x].stream.out[i] : i \in 1..Len(node[x].stream.out)}
    <3>1. node[x].stream \in Stream /\ StreamInv(node[x])
      BY <2>1, <2>4 DEF Node, BodyInv
    <3>2. node[x].stream.wait \in Seq(Msg) /\ node[x].stream.out \in Seq(Msg)
      BY <3>1 DEF Stream
    <3> QED BY <3>1, <3>2 DEF Range
  <2>5. WriteHasPromise
    BY <2>4 DEF WriteHasPromise, StreamInv, WaitOK
  <2>6. AnswerMatches
    <3>1. ASSUME NEW x \in Side, node[x].stream # NULL,
                 NEW m \in Range(node[x].stream.out) \cup node[x].stream.in
          PROVE  NotTaken(node[x], m)
      <4>1. AnswersOK(node[x])
        BY <2>4, <3>1 DEF StreamInv
      <4> DEFINE s == node[x].stream
      <4>2. Range(s.out) = {s.out[i] : i \in 1..Len(s.out)}
        BY <2>4, <3>1
      <4>3. CASE m \in s.in
        BY <4>1, <4>3 DEF AnswersOK
      <4>4. CASE m \in Range(s.out)
        <5>1. PICK i \in 1..Len(s.out) : m = s.out[i]
          BY <4>2, <4>4
        <5> QED BY <4>1, <5>1 DEF AnswersOK
      <4> QED BY <4>3, <4>4
    <3> QED BY <3>1 DEF AnswerMatches, NotTaken
  <2>7. FullIsRight
    BY <2>1 DEF BodyInv, FullOK, FullExact, FullIsRight
  <2> QED BY <2>2, <2>3, <2>5, <2>6, <2>7 DEF PromisesExact
<1> QED BY <1>1, ConnInvHolds, PTL

=============================================================================
