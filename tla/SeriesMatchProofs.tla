------------------------- MODULE SeriesMatchProofs -------------------------
(***************************************************************************)
(* Proofs about SeriesMatch: reference counters are exact whatever two     *)
(* queries do to the series of the server (RefsOK), all functions of a     *)
(* select see the same points (SameView), and a query works on the series  *)
(* that its expression denotes (AnswerIsExact, when no parenthesis closes  *)
(* before an operator).                                                    *)
(*                                                                         *)
(* A walk runs the nodes of an expression in an order that is fixed when   *)
(* it begins (WalkOf), so what a query has in its map, its operator and its*)
(* stack follows from the number of nodes that are left (AtNode).  From    *)
(* there on each loop has an invariant of its own.                         *)
(***************************************************************************)
EXTENDS SeriesMatch, FiniteSetTheorems, SequenceTheorems, TLAPS

-----------------------------------------------------------------------------
(* Types.                                                                  *)

OperandTypes == {"name", "all", "re", "group"}
PlainTypes == OperandTypes \cup {"(", ")", "match", "tag", "matched"}
Node == [t : PlainTypes, x : SUBSET (Series \cup Remote)]
        \cup [t : {"opr"}, x : AllOperators]
SavedSet == [map : SUBSET Series, cb : AllOperators \cup {"none"}]

Stages == {"idle", "walk", "re", "exit", "list", "count", "filter", "drop",
           "select", "skip", "end", "done"}

Query == [st : Stages, kind : AllKinds \cup {"none", "error"}, expr : Seq(Node),
          nodes : Seq(Node), where : BOOLEAN, filtered : BOOLEAN,
          master : BOOLEAN, cb : AllOperators \cup {"none"},
          map : SUBSET Series, stack : Seq(SavedSet), pmap : SUBSET Remote,
          vec : SUBSET Series, tmp : SUBSET Series, n : SUBSET Series,
          count : Nat, nsel : 0..2, keep : BOOLEAN,
          cache : SUBSET (Series \X Nat), got : SUBSET ((0..2) \X Series \X Nat)]

-----------------------------------------------------------------------------
(* Expressions and the walk over them.                                     *)

\* An operand of an expression.
IsOperand(v) ==
    /\ v \in Node /\ v.t \in OperandTypes
    /\ v.t = "all" => v.x = Series \cup Remote
    /\ v.t = "re" => v.x = Matching
    /\ v.t = "group" => v.x = Members

IsOpr(v) == v \in Node /\ v.t = "opr"

\* The last operator and operand of an expression with a parenthesis that
\* does not start with one, as the walk takes them.
Opr2(e) == IF e[5].t = ")" THEN e[6] ELSE e[5]
Arg3(e) == IF e[5].t = ")" THEN e[7] ELSE e[6]

Single(e) == Len(e) = 1 /\ IsOperand(e[1])
Double(e) == Len(e) = 3 /\ IsOperand(e[1]) /\ IsOpr(e[2]) /\ IsOperand(e[3])
LeftParen(e) ==
    /\ Len(e) = 7 /\ e[1] = Open /\ IsOperand(e[2]) /\ IsOpr(e[3])
    /\ IsOperand(e[4]) /\ e[5] = Close /\ IsOpr(e[6]) /\ IsOperand(e[7])
RightParen(e) ==
    /\ Len(e) = 7 /\ IsOperand(e[1]) /\ IsOpr(e[2]) /\ e[3] = Open
    /\ IsOperand(e[4]) /\ IsOpr(Opr2(e)) /\ IsOperand(Arg3(e))
    /\ (e[5] = Close \/ e[7] = Close)
    /\ ~Middle => e[5] # Close /\ e[5].t = "opr"

Expr(e) == e \in Seq(Node) /\ (Single(e) \/ Double(e) \/ LeftParen(e) \/ RightParen(e))

\* What an operator makes of two sets.
SetOpr(o, A, B) == {s \in Series \cup Remote : Combine(o, s \in A, s \in B)}

\* The set that the walk computes: a parenthesis always closes at the end.
Walked(e) ==
    IF Len(e) = 1 THEN e[1].x
    ELSE IF Len(e) = 3 THEN SetOpr(e[2].x, e[1].x, e[3].x)
    ELSE IF e[1] = Open
    THEN SetOpr(e[6].x, SetOpr(e[3].x, e[2].x, e[4].x), e[7].x)
    ELSE SetOpr(e[2].x, e[1].x, SetOpr(Opr2(e).x, e[4].x, Arg3(e).x))

IsTag(kind) == kind \in {"tag", "untag"}

\* The number of nodes of the walk.
TagNodes(kind) == IF IsTag(kind) THEN 1 ELSE 0
Parens(e) == Cardinality({i \in 1..Len(e) : e[i].t = "("})
WalkLen(e, kind) == Len(EnterPart(e)) + TagNodes(kind) + Parens(e) + 2

\* The node that runs when k nodes are left.
WalkOf(e, kind, k) == QUERY_walk(e, kind)[Len(QUERY_walk(e, kind)) + 1 - k]

\* The nodes of the expression that are left, closing parenthesis included.
Ahead(q) == IF IsTag(q.kind) THEN Len(q.nodes) - 2 ELSE Len(q.nodes) - 1

-----------------------------------------------------------------------------
(* The invariant of one query, L is the set of live series.                *)

Empty(q) == q.map = {} /\ q.cb = "none"

\* The map is S, apart from series that were dropped meanwhile.
MapIs(q, L, S) == q.map \cap L = S \cap L

\* The state of the walk when k nodes of the expression are left.
AtSingle(q, L, k) ==
    LET e == q.expr
    IN  /\ q.stack = <<>>
        /\ k >= 1 => Empty(q)
        /\ k = 0 => MapIs(q, L, e[1].x)

AtDouble(q, L, k) ==
    LET e == q.expr
    IN  /\ q.stack = <<>>
        /\ k >= 3 => Empty(q)
        /\ k = 2 => q.cb = "none"
        /\ k = 1 => q.cb = e[2].x
        /\ k \in 1..2 => MapIs(q, L, e[1].x)
        /\ k = 0 => MapIs(q, L, SetOpr(e[2].x, e[1].x, e[3].x))

AtLeft(q, L, k) ==
    LET e == q.expr
        first == SetOpr(e[3].x, e[2].x, e[4].x)
    IN  /\ (k = 0 \/ k >= 7) => q.stack = <<>>
        /\ k \in 1..6 => /\ Len(q.stack) = 1
                         /\ q.stack[1] = [map |-> {}, cb |-> "none"]
        /\ k >= 6 => Empty(q)
        /\ k = 5 => q.cb = "none"
        /\ k = 4 => q.cb = e[3].x
        /\ k \in 4..5 => MapIs(q, L, e[2].x)
        /\ k = 2 => q.cb = e[6].x
        /\ k \in 2..3 => MapIs(q, L, first)
        /\ k \in 0..1 => MapIs(q, L, SetOpr(e[6].x, first, e[7].x))

AtRight(q, L, k) ==
    LET e == q.expr
        inner == SetOpr(Opr2(e).x, e[4].x, Arg3(e).x)
    IN  /\ (k = 0 \/ k >= 5) => q.stack = <<>>
        /\ k \in 1..4 => /\ Len(q.stack) = 1
                         /\ q.stack[1].cb = e[2].x
                         /\ q.stack[1].map \cap L = e[1].x \cap L
        /\ k >= 7 => Empty(q)
        /\ k = 6 => q.cb = "none"
        /\ k = 5 => q.cb = e[2].x
        /\ k \in 5..6 => MapIs(q, L, e[1].x)
        /\ k = 4 => Empty(q)
        /\ k = 3 => q.cb = "none"
        /\ k = 2 => q.cb = Opr2(e).x
        /\ k \in 2..3 => MapIs(q, L, e[4].x)
        /\ k = 1 => MapIs(q, L, inner)
        /\ k = 0 => MapIs(q, L, SetOpr(e[2].x, e[1].x, inner))

AtNode(q, L) ==
    /\ Single(q.expr) => AtSingle(q, L, Ahead(q))
    /\ Double(q.expr) => AtDouble(q, L, Ahead(q))
    /\ LeftParen(q.expr) => AtLeft(q, L, Ahead(q))
    /\ RightParen(q.expr) => AtRight(q, L, Ahead(q))

Walking(q) == q.st \in {"walk", "re"}

\* The nodes that are left are the last ones of the walk.
NodesInv(q) ==
    Walking(q) =>
        /\ IsTag(q.kind) => Single(q.expr)
        /\ Len(q.nodes) <= Len(QUERY_walk(q.expr, q.kind))
        /\ \A k \in 1..Len(q.nodes) :
              q.nodes[k] = WalkOf(q.expr, q.kind, Len(q.nodes) + 1 - k)

WalkInv(q, L) == Walking(q) => AtNode(q, L)

\* A regular expression: what is still to be looked at and what matched.
ReInv(q, L) ==
    q.st = "re" =>
        /\ q.nodes # <<>> /\ q.nodes[1].t = "re"
        /\ q.vec \cap q.tmp = {}
        /\ q.tmp \subseteq Matching
        /\ IF q.cb \in {"none", "union", "symmetric"}
           THEN L \cap Matching \subseteq q.vec \cup q.tmp
           ELSE /\ (q.vec \cup q.tmp) \cap L \subseteq q.map
                /\ q.map \cap L \cap Matching \subseteq q.vec \cup q.tmp

\* Which statements get to which stage, and what they hold there.
PhaseInv(q) ==
    /\ (q.st = "idle") <=> (q.kind = "none")
    /\ q.st # "idle" => Expr(q.expr)
    /\ q.st = "idle" => q.map = {} /\ q.stack = <<>>
    /\ Len(q.stack) <= 1
    /\ q.st # "re" => q.tmp = {}
    /\ q.st \in {"idle", "walk", "exit", "end", "done"} => q.vec = {}
    /\ q.st \in {"list", "count", "drop", "select", "skip"} => q.kind = q.st
    /\ Walking(q) => q.kind \in AllKinds
    /\ q.st = "exit" => q.kind \in {"list", "count", "drop", "select", "skip"}
    /\ q.st = "end" => IsTag(q.kind)
    /\ q.st = "filter" => q.kind \in {"drop", "select", "skip"}
    /\ q.st = "filter" => q.vec \cap q.map = {}
    /\ Walking(q) \/ q.st = "filter" => q.filtered = FALSE
    /\ q.st = "exit" /\ q.kind = "drop" => q.filtered = FALSE

\* A drop works on series that were asked for.
DropInv(q, L) ==
    q.kind = "drop" =>
        /\ q.st \in {"exit", "filter", "drop"} =>
              (q.map \cup q.vec) \cap L \subseteq Walked(q.expr)
        /\ q.st = "filter" => q.map \subseteq Where
        /\ q.st = "drop" /\ q.where => q.vec \subseteq Where

\* Series that a list or drop statement asks for.
Asked(q) == {s \in Series : s \in Walked(q.expr) /\ (q.where => s \in Where)}

ListInv(q, L) ==
    q.kind = "list" =>
        /\ Walking(q) \/ q.st = "exit" => q.n = {}
        /\ q.st \in {"exit", "list"} => MapIs(q, L, Walked(q.expr))
        /\ q.st = "list" => /\ q.vec \subseteq q.map
                            /\ L \cap Asked(q) \subseteq q.vec \cup q.n
        /\ q.n \cap L \subseteq Asked(q)
        /\ Cardinality(q.n) <= ListLimit
        /\ q.st = "done" /\ Cardinality(q.n) < ListLimit =>
              L \cap Asked(q) \subseteq q.n

\* The pools of the operands that were entered are asked.
PoolInv(q) ==
    q.kind = "select" /\ q.master =>
        /\ Single(q.expr) \/ Double(q.expr)
        /\ Walking(q) /\ Single(q.expr) /\ Ahead(q) = 0 =>
              q.expr[1].x \cap Remote \subseteq q.pmap
        /\ Walking(q) /\ Double(q.expr) /\ Ahead(q) \in 0..2 =>
              q.expr[1].x \cap Remote \subseteq q.pmap
        /\ Walking(q) /\ Double(q.expr) /\ Ahead(q) = 0 =>
              q.expr[3].x \cap Remote \subseteq q.pmap
        /\ q.st = "re" => q.pmap = Remote
        /\ ~Walking(q) => Walked(q.expr) \cap Remote \subseteq q.pmap

\* A series that was read has a copy of its points as long as it may be read
\* again, and all that was read of it agrees.
SelectInv(q) ==
    q.kind = "select" =>
        /\ Walking(q) \/ q.st = "filter" => q.nsel = 2
        /\ q.st = "select" => q.nsel < 2
        /\ q.nsel = 2 => q.got = {} /\ q.cache = {}
        /\ q.nsel < 2 /\ q.where => q.filtered = TRUE
        /\ q.st \in {"exit", "filter", "select"} => q.keep = TRUE
        /\ \A g, h \in q.got : g[2] = h[2] => g[3] = h[3]
        /\ \A g \in q.got, c \in q.cache : g[2] = c[1] => g[3] = c[2]
        /\ \A c, d \in q.cache : c[1] = d[1] => c[2] = d[2]
        /\ q.st = "select" /\ q.nsel = 1 => \A g \in q.got : g[2] \notin q.vec
        /\ q.st \in {"select", "exit"} /\ q.nsel = 1 =>
              \A g \in q.got : \E c \in q.cache : c[1] = g[2]
        /\ q.st = "select" /\ q.nsel = 0 =>
              \A g \in q.got : g[2] \in q.vec => \E c \in q.cache : c[1] = g[2]

QueryInv(q, L) ==
    /\ q \in Query
    /\ NodesInv(q) /\ WalkInv(q, L) /\ ReInv(q, L) /\ PhaseInv(q)
    /\ DropInv(q, L) /\ ListInv(q, L) /\ PoolInv(q) /\ SelectInv(q)

\* A series is gone because a query dropped it that was asked to.
DroppedInv ==
    \A s \in Series \ live : \E i \in Queries :
        qs[i].kind = "drop" /\ qs[i].st \in {"drop", "done"} /\ s \in Asked(qs[i])

TypeInv ==
    /\ live \subseteq Series /\ tagged \subseteq Series
    /\ ref \in [Series -> Int] /\ ver \in [Series -> 0..MaxInserts]
    /\ qs \in [Queries -> Query]

(* The inductive invariant.                                                *)
Inv ==
    /\ TypeInv
    /\ RefsExact
    /\ DroppedInv
    /\ \A i \in Queries : QueryInv(qs[i], live)

-----------------------------------------------------------------------------
(* Expressions.                                                            *)

(* The two parentheses are nodes, and differ.                              *)
LEMMA OpenClose ==
    /\ Open \in Node /\ Close \in Node /\ Open # Close
    /\ Open.t = "(" /\ Close.t = ")"
  BY DEF Open, Close, Node, PlainTypes

(* What the grammar takes for an operand is a node with the series it      *)
(* matches.                                                                *)
LEMMA OperandIs ==
    ASSUME NEW v \in Operands
    PROVE  IsOperand(v)
<1>1. CASE \E x \in Series \cup Remote : v = Name(x)
  BY <1>1 DEF Name, IsOperand, Node, PlainTypes, OperandTypes
<1>2. CASE v = All
  BY <1>2 DEF All, IsOperand, Node, PlainTypes, OperandTypes
<1>3. CASE v = Regex
  BY <1>3, SeriesMatchAssumption
  DEF Regex, IsOperand, Node, PlainTypes, OperandTypes
<1>4. CASE v = Group
  BY <1>4, SeriesMatchAssumption
  DEF Group, IsOperand, Node, PlainTypes, OperandTypes
<1> QED BY <1>1, <1>2, <1>3, <1>4 DEF Operands

(* A set operator is a node.                                               *)
LEMMA OprIs ==
    ASSUME NEW o \in Operators
    PROVE  IsOpr(Opr(o))
  BY SeriesMatchAssumption DEF IsOpr, Opr, Node

(* The operands of an expression with a parenthesis are operands.          *)
LEMMA SimpleIs == Simple \subseteq Operands
  BY DEF Simple, Operands

(* Operands, operators and parentheses are told apart by their type.       *)
LEMMA KindsOfNodes ==
    /\ \A v : IsOperand(v) => v \in Node /\ v.t \in OperandTypes
                              /\ v # Open /\ v # Close
    /\ \A v : IsOpr(v) => v \in Node /\ v.t = "opr" /\ v.x \in AllOperators
                          /\ v # Open /\ v # Close
  BY OpenClose DEF IsOperand, IsOpr, Node, PlainTypes, OperandTypes

(* An expression without parentheses has one operand, or two with an       *)
(* operator.                                                               *)
LEMMA FlatIs ==
    ASSUME NEW e \in Flat
    PROVE  Expr(e)
<1>1. CASE \E x \in Operands : e = <<x>>
  <2>1. PICK x \in Operands : e = <<x>>
    BY <1>1
  <2>2. IsOperand(x)
    BY <2>1, OperandIs
  <2>3. e \in Seq(Node) /\ Len(e) = 1 /\ e[1] = x
    BY <2>1, <2>2, KindsOfNodes
  <2> QED BY <2>2, <2>3 DEF Expr, Single
<1>2. CASE \E x \in Operands, y \in Operands, o \in Operators :
              e = <<x, Opr(o), y>>
  <2>1. PICK x \in Operands, y \in Operands, o \in Operators :
              e = <<x, Opr(o), y>>
    BY <1>2
  <2>2. IsOperand(x) /\ IsOperand(y) /\ IsOpr(Opr(o))
    BY <2>1, OperandIs, OprIs
  <2>3. /\ e \in Seq(Node) /\ Len(e) = 3
        /\ e[1] = x /\ e[2] = Opr(o) /\ e[3] = y
    BY <2>1, <2>2, KindsOfNodes
  <2> QED BY <2>2, <2>3 DEF Expr, Double
<1> QED BY <1>1, <1>2 DEF Flat

(* A parenthesis around the first or around the last two operands.         *)
LEMMA NestedIs ==
    ASSUME NEW e \in Nested
    PROVE  Expr(e)
<1>1. PICK x \in Simple, y \in Simple, z \in Simple,
           o \in Operators, p \in Operators :
         \/ e = <<x, Opr(o), Open, y, Opr(p), z, Close>>
         \/ e = <<Open, x, Opr(o), y, Close, Opr(p), z>>
  BY DEF Nested
<1>2. /\ IsOperand(x) /\ IsOperand(y) /\ IsOperand(z)
      /\ IsOpr(Opr(o)) /\ IsOpr(Opr(p))
  BY <1>1, OperandIs, OprIs, SimpleIs
<1>3. /\ x \in Node /\ y \in Node /\ z \in Node
      /\ Opr(o) \in Node /\ Opr(p) \in Node
  BY <1>2, KindsOfNodes
<1>4. CASE e = <<x, Opr(o), Open, y, Opr(p), z, Close>>
  <2>1. /\ e \in Seq(Node) /\ Len(e) = 7
        /\ e[1] = x /\ e[2] = Opr(o) /\ e[3] = Open /\ e[4] = y
        /\ e[5] = Opr(p) /\ e[6] = z /\ e[7] = Close
    BY <1>3, <1>4, OpenClose
  <2>2. e[5].t = "opr" /\ e[5] # Close
    BY <1>2, <2>1, KindsOfNodes
  <2>3. Opr2(e) = Opr(p) /\ Arg3(e) = z
    BY <2>1, <2>2 DEF Opr2, Arg3
  <2> QED BY <1>2, <2>1, <2>2, <2>3 DEF Expr, RightParen
<1>5. CASE e = <<Open, x, Opr(o), y, Close, Opr(p), z>>
  <2>1. /\ e \in Seq(Node) /\ Len(e) = 7
        /\ e[1] = Open /\ e[2] = x /\ e[3] = Opr(o) /\ e[4] = y
        /\ e[5] = Close /\ e[6] = Opr(p) /\ e[7] = z
    BY <1>3, <1>5, OpenClose
  <2> QED BY <1>2, <2>1 DEF Expr, LeftParen
<1> QED BY <1>1, <1>4, <1>5

(* A parenthesis around one operand that closes before an operator.        *)
LEMMA InsideIs ==
    ASSUME NEW e \in Inside, Middle
    PROVE  Expr(e)
<1>1. PICK x \in Simple, y \in Simple, z \in Simple,
           o \in Operators, p \in Operators :
         e = <<x, Opr(o), Open, y, Close, Opr(p), z>>
  BY DEF Inside
<1>2. /\ IsOperand(x) /\ IsOperand(y) /\ IsOperand(z)
      /\ IsOpr(Opr(o)) /\ IsOpr(Opr(p))
  BY <1>1, OperandIs, OprIs, SimpleIs
<1>3. /\ x \in Node /\ y \in Node /\ z \in Node
      /\ Opr(o) \in Node /\ Opr(p) \in Node
  BY <1>2, KindsOfNodes
<1>4. /\ e \in Seq(Node) /\ Len(e) = 7
      /\ e[1] = x /\ e[2] = Opr(o) /\ e[3] = Open /\ e[4] = y
      /\ e[5] = Close /\ e[6] = Opr(p) /\ e[7] = z
  BY <1>1, <1>3, OpenClose
<1>5. Opr2(e) = Opr(p) /\ Arg3(e) = z
  BY <1>4, OpenClose DEF Opr2, Arg3
<1> QED BY <1>2, <1>4, <1>5 DEF Expr, RightParen

-----------------------------------------------------------------------------
(* The order of the walk.                                                  *)

(* The nodes that are no part of the expression.                           *)
LEMMA Markers ==
    /\ [t |-> "match", x |-> {}] \in Node
    /\ [t |-> "tag", x |-> {}] \in Node
    /\ [t |-> "matched", x |-> {}] \in Node
  BY DEF Node, PlainTypes

(* The walk when the parts of it are known.                                *)
LEMMA WalkParts ==
    ASSUME NEW e \in Seq(Node), NEW kind,
           EnterPart(e) \in Seq(Node), Parens(e) \in 0..1
    PROVE  /\ QUERY_walk(e, kind) \in Seq(Node)
           /\ Len(QUERY_walk(e, kind)) = WalkLen(e, kind)
           /\ WalkOf(e, kind, WalkLen(e, kind)).t = "match"
           /\ \A k \in 1..Len(EnterPart(e)) : \A i : i = WalkLen(e, kind) - k =>
                 WalkOf(e, kind, i) = EnterPart(e)[k]
           /\ IsTag(kind) => WalkOf(e, kind, Parens(e) + 2).t = "tag"
           /\ Parens(e) = 1 => WalkOf(e, kind, 2) = Close
           /\ WalkOf(e, kind, 1).t = "matched"
<1> DEFINE a == <<[t |-> "match", x |-> {}]>>
           b == IF kind \in {"tag", "untag"} THEN <<[t |-> "tag", x |-> {}]>>
                ELSE <<>>
           d == Closes(e)
           g == TagNodes(kind)
           c == Parens(e)
           u == EnterPart(e)
           n == Len(u) + g + c + 2
<1>1. a \in Seq(Node) /\ Len(a) = 1 /\ a[1].t = "match"
  BY Markers
<1>2. b \in Seq(Node) /\ Len(b) = g /\ (g = 1 => b[1].t = "tag")
  BY Markers DEF IsTag, TagNodes
<1>3. d \in Seq(Node) /\ Len(d) = c /\ (c = 1 => d[1] = Close)
  BY OpenClose DEF Closes, Parens
<1>4. Matched \in Seq(Node) /\ Len(Matched) = 1 /\ Matched[1].t = "matched"
  BY Markers DEF Matched
<1>5. QUERY_walk(e, kind) = ((a \o u) \o b) \o d \o Matched
  BY DEF QUERY_walk, Enters
<1>6. g \in 0..1 /\ c \in 0..1
  BY DEF TagNodes
<1> HIDE DEF a, b, d, g, c, u
<1> DEFINE w1 == a \o u
           w2 == w1 \o b
           w3 == w2 \o d
           w4 == w3 \o Matched
<1>7. /\ w1 \in Seq(Node) /\ Len(w1) = 1 + Len(u)
      /\ w1[1] = a[1] /\ \A k \in 1..Len(u) : w1[k + 1] = u[k]
  <2>0. u \in Seq(Node)
    BY DEF u
  <2>1. /\ w1 \in Seq(Node) /\ Len(w1) = Len(a) + Len(u)
        /\ \A i \in 1 .. Len(a) + Len(u) :
              w1[i] = IF i <= Len(a) THEN a[i] ELSE u[i - Len(a)]
    BY <1>1, <2>0, ConcatProperties
  <2> HIDE DEF w1
  <2> QED BY <1>1, <2>0, <2>1
<1> HIDE DEF w1
<1>8. /\ w2 \in Seq(Node) /\ Len(w2) = 1 + Len(u) + g
      /\ \A k \in 1..Len(w1) : w2[k] = w1[k]
      /\ g = 1 => w2[Len(w2)] = b[1]
  <2>1. /\ w2 \in Seq(Node) /\ Len(w2) = Len(w1) + Len(b)
        /\ \A i \in 1 .. Len(w1) + Len(b) :
              w2[i] = IF i <= Len(w1) THEN w1[i] ELSE b[i - Len(w1)]
    <3>1. w1 \in Seq(Node) /\ b \in Seq(Node)
      BY <1>2, <1>7
    <3> QED BY <3>1, ConcatProperties, Zenon
  <2> HIDE DEF w2
  <2> QED BY <1>2, <1>6, <1>7, <2>1
<1> HIDE DEF w2
<1>9. /\ w3 \in Seq(Node) /\ Len(w3) = 1 + Len(u) + g + c
      /\ \A k \in 1..Len(w2) : w3[k] = w2[k]
      /\ c = 1 => w3[Len(w3)] = Close
  <2>1. /\ w3 \in Seq(Node) /\ Len(w3) = Len(w2) + Len(d)
        /\ \A i \in 1 .. Len(w2) + Len(d) :
              w3[i] = IF i <= Len(w2) THEN w2[i] ELSE d[i - Len(w2)]
    BY <1>3, <1>8, ConcatProperties
  <2> HIDE DEF w3
  <2> QED BY <1>3, <1>6, <1>8, <2>1
<1> HIDE DEF w3
<1>10. /\ w4 \in Seq(Node) /\ Len(w4) = 2 + Len(u) + g + c
       /\ \A k \in 1..Len(w3) : w4[k] = w3[k]
       /\ w4[Len(w4)] = Matched[1]
  <2>1. /\ w4 \in Seq(Node) /\ Len(w4) = Len(w3) + Len(Matched)
        /\ \A i \in 1 .. Len(w3) + Len(Matched) :
              w4[i] = IF i <= Len(w3) THEN w3[i] ELSE Matched[i - Len(w3)]
    BY <1>4, <1>9, ConcatProperties
  <2> HIDE DEF w4
  <2>2. Len(w3) \in Nat /\ Len(w4) = Len(w3) + 1
    BY <1>4, <1>9, <2>1
  <2>3. \A k \in 1..Len(w3) : w4[k] = w3[k]
    BY <1>4, <2>1, <2>2
  <2>4. w4[Len(w4)] = Matched[1]
    BY <1>4, <2>1, <2>2
  <2>5. Len(w4) = 2 + Len(u) + g + c
    BY <1>6, <1>9, <2>2
  <2> QED BY <2>1, <2>3, <2>4, <2>5
<1>11. QUERY_walk(e, kind) = w4
  BY <1>5 DEF w1, w2, w3
<1> HIDE DEF w4
<1>12. Len(u) \in Nat
  BY DEF u
<1>13. \A k : WalkOf(e, kind, k) = w4[n + 1 - k]
  BY <1>6, <1>10, <1>11, <1>12 DEF WalkOf
<1>14. QUERY_walk(e, kind) \in Seq(Node) /\ Len(QUERY_walk(e, kind)) = n
  BY <1>6, <1>10, <1>11, <1>12
<1>15. WalkOf(e, kind, n).t = "match"
  <2>1. n + 1 - n = 1
    BY <1>6, <1>12
  <2>2. WalkOf(e, kind, n) = w4[1]
    BY <1>13, <2>1
  <2>3. w4[1] = w3[1]
    BY <1>6, <1>9, <1>10, <1>12
  <2>4. w3[1] = w2[1]
    BY <1>6, <1>8, <1>9, <1>12
  <2>5. w2[1] = w1[1]
    BY <1>7, <1>8, <1>12
  <2> QED BY <1>1, <1>7, <2>2, <2>3, <2>4, <2>5
<1>16. \A k \in 1..Len(u) : WalkOf(e, kind, n - k) = u[k]
  <2> SUFFICES ASSUME NEW k \in 1..Len(u) PROVE WalkOf(e, kind, n - k) = u[k]
    OBVIOUS
  <2>1. WalkOf(e, kind, n - k) = w4[k + 1]
    BY <1>6, <1>12, <1>13
  <2>2. w4[k + 1] = w3[k + 1] /\ w3[k + 1] = w2[k + 1] /\ w2[k + 1] = w1[k + 1]
    <3>1. k + 1 \in 1..Len(w1) /\ k + 1 \in 1..Len(w2) /\ k + 1 \in 1..Len(w3)
      BY <1>6, <1>7, <1>8, <1>9, <1>12
    <3> QED BY <1>8, <1>9, <1>10, <3>1
  <2> QED BY <1>7, <2>1, <2>2
<1>17. g = 1 => WalkOf(e, kind, c + 2).t = "tag"
  <2> SUFFICES ASSUME g = 1 PROVE WalkOf(e, kind, c + 2).t = "tag"
    OBVIOUS
  <2>1. WalkOf(e, kind, c + 2) = w4[Len(w2)]
    BY <1>6, <1>8, <1>12, <1>13
  <2>2. Len(w2) \in 1..Len(w3) /\ Len(w2) \in 1..Len(w2)
    BY <1>6, <1>8, <1>9, <1>12
  <2>3. w4[Len(w2)] = w3[Len(w2)] /\ w3[Len(w2)] = w2[Len(w2)]
    BY <1>9, <1>10, <2>2
  <2> QED BY <1>2, <1>8, <2>1, <2>3
<1>18. c = 1 => WalkOf(e, kind, 2) = Close
  <2> SUFFICES ASSUME c = 1 PROVE WalkOf(e, kind, 2) = Close
    OBVIOUS
  <2>1. WalkOf(e, kind, 2) = w4[Len(w3)]
    BY <1>6, <1>9, <1>12, <1>13
  <2> QED BY <1>6, <1>9, <1>10, <1>12, <2>1
<1>19. WalkOf(e, kind, 1).t = "matched"
  <2>1. n + 1 - 1 = Len(w4)
    BY <1>6, <1>10, <1>12
  <2>2. WalkOf(e, kind, 1) = w4[Len(w4)]
    BY <1>13, <2>1
  <2> QED BY <1>4, <1>10, <2>2
<1>20. n = WalkLen(e, kind) /\ (IsTag(kind) => g = 1)
  BY DEF g, c, u, WalkLen, TagNodes
<1> HIDE DEF n
<1> QED BY <1>14, <1>15, <1>16, <1>17, <1>18, <1>19, <1>20 DEF c, u

(* Operands and operators are no parentheses.                              *)
LEMMA NodeTypes ==
    /\ \A v : IsOperand(v) => v.t # "(" /\ v.t # ")"
    /\ \A v : IsOpr(v) => v.t # "(" /\ v.t # ")"
  BY DEF IsOperand, IsOpr, OperandTypes

(* A set with one position counts one.                                     *)
LEMMA OneParen ==
    ASSUME NEW S, NEW a \in Nat, S = {a}
    PROVE  Cardinality(S) = 1
  BY FS_Singleton

(* The walk over a single operand: a tag statement has one more node.      *)
LEMMA WalkSingle ==
    ASSUME NEW e \in Seq(Node), NEW kind, Single(e)
    PROVE  /\ QUERY_walk(e, kind) \in Seq(Node)
           /\ Len(QUERY_walk(e, kind)) = 3 + TagNodes(kind)
           /\ WalkOf(e, kind, 3 + TagNodes(kind)).t = "match"
           /\ WalkOf(e, kind, 2 + TagNodes(kind)) = e[1]
           /\ IsTag(kind) => WalkOf(e, kind, 2).t = "tag"
           /\ WalkOf(e, kind, 1).t = "matched"
<1>1. Len(e) = 1 /\ e[1].t # "(" /\ e[1].t # ")"
  BY NodeTypes DEF Single
<1>2. ClosesAt(e) = {} /\ {i \in 1..Len(e) : e[i].t = "("} = {}
  BY <1>1 DEF ClosesAt
<1>3. EnterPart(e) = e
  BY <1>2 DEF EnterPart
<1>4. Parens(e) = 0
  BY <1>2, FS_EmptySet DEF Parens
<1>5. TagNodes(kind) \in 0..1
  BY DEF TagNodes
<1>6. WalkLen(e, kind) = 3 + TagNodes(kind)
  <2>1. WalkLen(e, kind) = 1 + TagNodes(kind) + 0 + 2
    BY <1>1, <1>3, <1>4, Zenon DEF WalkLen
  <2> QED BY <1>5, <2>1
<1>7. 2 + TagNodes(kind) = 3 + TagNodes(kind) - 1 /\ 0 + 2 = 2 /\ 0 \in 0..1
  BY <1>5
<1>8. EnterPart(e) \in Seq(Node) /\ Parens(e) \in 0..1
  BY <1>3, <1>4
<1> DEFINE g == TagNodes(kind)
<1>9. /\ QUERY_walk(e, kind) \in Seq(Node)
      /\ Len(QUERY_walk(e, kind)) = 3 + g
      /\ WalkOf(e, kind, 3 + g).t = "match"
      /\ \A k \in 1..1 : \A i : i = 3 + g - k => WalkOf(e, kind, i) = e[k]
      /\ IsTag(kind) => WalkOf(e, kind, 0 + 2).t = "tag"
      /\ WalkOf(e, kind, 1).t = "matched"
  <2>1. /\ QUERY_walk(e, kind) \in Seq(Node)
        /\ Len(QUERY_walk(e, kind)) = WalkLen(e, kind)
        /\ WalkOf(e, kind, WalkLen(e, kind)).t = "match"
        /\ \A k \in 1..Len(EnterPart(e)) : \A i : i = WalkLen(e, kind) - k =>
              WalkOf(e, kind, i) = EnterPart(e)[k]
        /\ IsTag(kind) => WalkOf(e, kind, Parens(e) + 2).t = "tag"
        /\ Parens(e) = 1 => WalkOf(e, kind, 2) = Close
        /\ WalkOf(e, kind, 1).t = "matched"
    BY <1>8, WalkParts, Zenon
  <2>2. /\ \A k \in 1..1 : \A i : i = 3 + g - k => WalkOf(e, kind, i) = e[k]
        /\ IsTag(kind) => WalkOf(e, kind, 0 + 2).t = "tag"
    <3>1. Len(EnterPart(e)) = 1
      BY <1>1, <1>3, Zenon
    <3>2. \A k \in 1..1 : \A i : i = 3 + g - k => WalkOf(e, kind, i) = e[k]
      <4> SUFFICES ASSUME NEW k \in 1..1, NEW i, i = 3 + g - k
                   PROVE  WalkOf(e, kind, i) = e[k]
        OBVIOUS
      <4>1. WalkOf(e, kind, i) = EnterPart(e)[k]
        <5>1. i = WalkLen(e, kind) - k
          BY <1>5, <1>6
        <5>2. k \in 1..Len(EnterPart(e))
          BY <3>1
        <5> QED BY <2>1, <5>1, <5>2, Zenon
      <4> QED BY <1>3, <4>1
    <3>3. IsTag(kind) => WalkOf(e, kind, 0 + 2).t = "tag"
      BY <1>4, <2>1, Zenon
    <3> QED BY <3>2, <3>3, Zenon
  <2> QED BY <1>6, <2>1, <2>2, Zenon
<1>10. 1 \in 1..1
  OBVIOUS
<1> HIDE DEF g
<1> QED BY <1>7, <1>9, <1>10, Zenon DEF g

(* The walk over two operands and an operator is in the order of the text. *)
LEMMA WalkDouble ==
    ASSUME NEW e \in Seq(Node), NEW kind, Double(e), ~IsTag(kind)
    PROVE  /\ QUERY_walk(e, kind) \in Seq(Node)
           /\ Len(QUERY_walk(e, kind)) = 5
           /\ WalkOf(e, kind, 5).t = "match"
           /\ WalkOf(e, kind, 4) = e[1]
           /\ WalkOf(e, kind, 3) = e[2]
           /\ WalkOf(e, kind, 2) = e[3]
           /\ WalkOf(e, kind, 1).t = "matched"
<1>1. /\ Len(e) = 3 /\ e[1].t # "(" /\ e[1].t # ")" /\ e[2].t # "("
      /\ e[2].t # ")" /\ e[3].t # "(" /\ e[3].t # ")"
  BY NodeTypes DEF Double
<1>2. ClosesAt(e) = {} /\ {i \in 1..Len(e) : e[i].t = "("} = {}
  BY <1>1 DEF ClosesAt
<1>3. EnterPart(e) = e
  BY <1>2 DEF EnterPart
<1>4. Parens(e) = 0
  BY <1>2, FS_EmptySet DEF Parens
<1>5. WalkLen(e, kind) = 5
  <2>1. WalkLen(e, kind) = 3 + 0 + 0 + 2
    BY <1>1, <1>3, <1>4, Zenon DEF WalkLen, TagNodes
  <2> QED BY <2>1
<1>6. EnterPart(e) \in Seq(Node) /\ Parens(e) \in 0..1
  BY <1>3, <1>4
<1>7. /\ QUERY_walk(e, kind) \in Seq(Node)
      /\ Len(QUERY_walk(e, kind)) = 5
      /\ WalkOf(e, kind, 5).t = "match"
      /\ \A k \in 1..3 : \A i : i = 5 - k => WalkOf(e, kind, i) = e[k]
      /\ WalkOf(e, kind, 1).t = "matched"
  <2>1. /\ QUERY_walk(e, kind) \in Seq(Node)
        /\ Len(QUERY_walk(e, kind)) = WalkLen(e, kind)
        /\ WalkOf(e, kind, WalkLen(e, kind)).t = "match"
        /\ \A k \in 1..Len(EnterPart(e)) : \A i : i = WalkLen(e, kind) - k =>
              WalkOf(e, kind, i) = EnterPart(e)[k]
        /\ IsTag(kind) => WalkOf(e, kind, Parens(e) + 2).t = "tag"
        /\ Parens(e) = 1 => WalkOf(e, kind, 2) = Close
        /\ WalkOf(e, kind, 1).t = "matched"
    BY <1>6, WalkParts, Zenon
  <2> QED BY <1>1, <1>3, <1>5, <2>1
<1> QED BY <1>7

(* The last two nodes of an expression with a parenthesis.                 *)
LEMMA LastTwo ==
    ASSUME NEW S, NEW e \in Seq(S), Len(e) = 7
    PROVE  /\ SubSeq(e, 6, 7) \in Seq(S) /\ Len(SubSeq(e, 6, 7)) = 2
           /\ SubSeq(e, 6, 7)[1] = e[6] /\ SubSeq(e, 6, 7)[2] = e[7]
<1>1. \A i \in 6..7 : e[i] \in S
  <2> SUFFICES ASSUME NEW i \in 6..7 PROVE e[i] \in S
    OBVIOUS
  <2>1. i \in 1..Len(e)
    OBVIOUS
  <2> QED BY <2>1, ElementOfSeq
<1>2. 6 \in Int /\ 7 \in Int
  OBVIOUS
<1>3. /\ SubSeq(e, 6, 7) \in Seq(S)
      /\ Len(SubSeq(e, 6, 7)) = IF 6 <= 7 THEN 7 - 6 + 1 ELSE 0
      /\ \A i \in 1 .. 7 - 6 + 1 : SubSeq(e, 6, 7)[i] = e[6 + i - 1]
  BY <1>1, <1>2, SubSeqProperties
<1> QED BY <1>3

(* The expression without its closing parenthesis.                         *)
LEMMA WithoutOne ==
    ASSUME NEW e \in Seq(Node), Len(e) = 7, NEW c \in {5, 7}
    PROVE  /\ RemoveAt(e, c) \in Seq(Node) /\ Len(RemoveAt(e, c)) = 6
           /\ RemoveAt(e, c)[1] = e[1] /\ RemoveAt(e, c)[2] = e[2]
           /\ RemoveAt(e, c)[3] = e[3] /\ RemoveAt(e, c)[4] = e[4]
           /\ RemoveAt(e, c)[5] = (IF c = 5 THEN e[6] ELSE e[5])
           /\ RemoveAt(e, c)[6] = (IF c = 5 THEN e[7] ELSE e[6])
<1> DEFINE a == SubSeq(e, 1, c - 1)
           b == SubSeq(e, c + 1, 7)
           u == a \o b
<1>1. u = RemoveAt(e, c)
  BY DEF RemoveAt
<1>2. CASE c = 5
  <2>1. a \in Seq(Node) /\ Len(a) = 4 /\ \A i \in 1..4 : a[i] = e[i]
    BY <1>2
  <2>2. b \in Seq(Node) /\ Len(b) = 2 /\ b[1] = e[6] /\ b[2] = e[7]
    <3>1. b = SubSeq(e, 6, 7)
      BY <1>2
    <3> HIDE DEF b
    <3> QED BY <3>1, LastTwo
  <2> HIDE DEF a, b
  <2>3. /\ u \in Seq(Node) /\ Len(u) = Len(a) + Len(b)
        /\ \A i \in 1..Len(a) + Len(b) :
              u[i] = IF i <= Len(a) THEN a[i] ELSE b[i - Len(a)]
    BY <2>1, <2>2, ConcatProperties
  <2> HIDE DEF u
  <2>4. Len(u) = 6
    BY <2>1, <2>2, <2>3
  <2>5. u[1] = e[1] /\ u[2] = e[2] /\ u[3] = e[3] /\ u[4] = e[4]
    BY <2>1, <2>2, <2>3
  <2>6. u[5] = e[6] /\ u[6] = e[7]
    BY <2>1, <2>2, <2>3
  <2> QED BY <1>1, <1>2, <2>3, <2>4, <2>5, <2>6
<1>3. CASE c = 7
  <2>1. a \in Seq(Node) /\ Len(a) = 6 /\ \A i \in 1..6 : a[i] = e[i]
    BY <1>3
  <2>2. b = <<>>
    BY <1>3, SubSeqEmpty
  <2>3. a \o <<>> = a
    BY <2>1, ConcatEmptySeq
  <2> HIDE DEF a, b
  <2>4. u = a
    BY <2>2, <2>3
  <2> HIDE DEF u
  <2> QED BY <1>1, <1>3, <2>1, <2>4
<1> QED BY <1>2, <1>3

(* The walk over an expression with parentheses, when the closing one is at*)
(* place c.                                                                *)
LEMMA WalkParen ==
    ASSUME NEW e \in Seq(Node), NEW kind, ~IsTag(kind), Len(e) = 7,
           NEW c \in {5, 7}, NEW o \in 1..7, ClosesAt(e) = {c},
           {i \in 1..Len(e) : e[i].t = "("} = {o}
    PROVE  /\ QUERY_walk(e, kind) \in Seq(Node)
           /\ Len(QUERY_walk(e, kind)) = 9
           /\ WalkOf(e, kind, 9).t = "match"
           /\ WalkOf(e, kind, 8) = e[1] /\ WalkOf(e, kind, 7) = e[2]
           /\ WalkOf(e, kind, 6) = e[3] /\ WalkOf(e, kind, 5) = e[4]
           /\ WalkOf(e, kind, 4) = (IF c = 5 THEN e[6] ELSE e[5])
           /\ WalkOf(e, kind, 3) = (IF c = 5 THEN e[7] ELSE e[6])
           /\ WalkOf(e, kind, 2) = Close
           /\ WalkOf(e, kind, 1).t = "matched"
<1> DEFINE u == RemoveAt(e, c)
<1>1. EnterPart(e) = u
  <2>1. (CHOOSE k \in ClosesAt(e) : TRUE) = c
    OBVIOUS
  <2>2. ClosesAt(e) # {}
    OBVIOUS
  <2> QED BY <2>1, <2>2 DEF EnterPart
<1>2. /\ u \in Seq(Node) /\ Len(u) = 6
      /\ u[1] = e[1] /\ u[2] = e[2] /\ u[3] = e[3] /\ u[4] = e[4]
      /\ u[5] = (IF c = 5 THEN e[6] ELSE e[5])
      /\ u[6] = (IF c = 5 THEN e[7] ELSE e[6])
  BY WithoutOne
<1> HIDE DEF u
<1>3. Parens(e) = 1
  BY OneParen DEF Parens
<1>4. WalkLen(e, kind) = 9
  <2>1. WalkLen(e, kind) = 6 + 0 + 1 + 2
    BY <1>1, <1>2, <1>3, Zenon DEF WalkLen, TagNodes
  <2> QED BY <2>1
<1>5. EnterPart(e) \in Seq(Node) /\ Parens(e) \in 0..1
  BY <1>1, <1>2, <1>3
<1>6. /\ QUERY_walk(e, kind) \in Seq(Node)
      /\ Len(QUERY_walk(e, kind)) = 9
      /\ WalkOf(e, kind, 9).t = "match"
      /\ \A k \in 1..6 : \A i : i = 9 - k => WalkOf(e, kind, i) = u[k]
      /\ WalkOf(e, kind, 2) = Close
      /\ WalkOf(e, kind, 1).t = "matched"
  <2>1. Len(u) = 6
    BY <1>2
  <2>2. /\ QUERY_walk(e, kind) \in Seq(Node)
        /\ Len(QUERY_walk(e, kind)) = WalkLen(e, kind)
        /\ WalkOf(e, kind, WalkLen(e, kind)).t = "match"
        /\ \A k \in 1..Len(EnterPart(e)) : \A i : i = WalkLen(e, kind) - k =>
              WalkOf(e, kind, i) = EnterPart(e)[k]
        /\ IsTag(kind) => WalkOf(e, kind, Parens(e) + 2).t = "tag"
        /\ Parens(e) = 1 => WalkOf(e, kind, 2) = Close
        /\ WalkOf(e, kind, 1).t = "matched"
    BY <1>5, WalkParts, Zenon
  <2> QED BY <1>1, <1>3, <1>4, <2>1, <2>2
<1>7. /\ WalkOf(e, kind, 8) = u[1] /\ WalkOf(e, kind, 7) = u[2]
      /\ WalkOf(e, kind, 6) = u[3] /\ WalkOf(e, kind, 5) = u[4]
      /\ WalkOf(e, kind, 4) = u[5] /\ WalkOf(e, kind, 3) = u[6]
  BY <1>6
<1> QED BY <1>2, <1>6, <1>7, Zenon

(* The walk over an expression that starts with a parenthesis: it runs the *)
(* exit of the parenthesis after the last operand, not where the text      *)
(* closes it.                                                              *)
LEMMA WalkLeft ==
    ASSUME NEW e \in Seq(Node), NEW kind, LeftParen(e), ~IsTag(kind)
    PROVE  /\ QUERY_walk(e, kind) \in Seq(Node)
           /\ Len(QUERY_walk(e, kind)) = 9
           /\ WalkOf(e, kind, 9).t = "match"
           /\ WalkOf(e, kind, 8) = Open /\ WalkOf(e, kind, 7) = e[2]
           /\ WalkOf(e, kind, 6) = e[3] /\ WalkOf(e, kind, 5) = e[4]
           /\ WalkOf(e, kind, 4) = e[6] /\ WalkOf(e, kind, 3) = e[7]
           /\ WalkOf(e, kind, 2) = Close
           /\ WalkOf(e, kind, 1).t = "matched"
<1>1. /\ Len(e) = 7 /\ e[1] = Open /\ e[1].t = "(" /\ e[5].t = ")"
      /\ e[2].t \notin {"(", ")"} /\ e[3].t \notin {"(", ")"}
      /\ e[4].t \notin {"(", ")"} /\ e[6].t \notin {"(", ")"}
      /\ e[7].t \notin {"(", ")"}
  BY NodeTypes, OpenClose DEF LeftParen
<1>2. \A i \in 1..7 : i = 1 \/ i = 2 \/ i = 3 \/ i = 4 \/ i = 5 \/ i = 6 \/ i = 7
  OBVIOUS
<1>3. ClosesAt(e) = {5} /\ {i \in 1..Len(e) : e[i].t = "("} = {1}
  BY <1>1, <1>2 DEF ClosesAt
<1> QED BY <1>1, <1>3, WalkParen

(* The walk over an expression with a parenthesis after its first          *)
(* operator: here too the exit comes last, wherever the text closes it.    *)
LEMMA WalkRight ==
    ASSUME NEW e \in Seq(Node), NEW kind, RightParen(e), ~IsTag(kind)
    PROVE  /\ QUERY_walk(e, kind) \in Seq(Node)
           /\ Len(QUERY_walk(e, kind)) = 9
           /\ WalkOf(e, kind, 9).t = "match"
           /\ WalkOf(e, kind, 8) = e[1] /\ WalkOf(e, kind, 7) = e[2]
           /\ WalkOf(e, kind, 6) = Open /\ WalkOf(e, kind, 5) = e[4]
           /\ WalkOf(e, kind, 4) = Opr2(e) /\ WalkOf(e, kind, 3) = Arg3(e)
           /\ WalkOf(e, kind, 2) = Close
           /\ WalkOf(e, kind, 1).t = "matched"
<1>1. /\ Len(e) = 7 /\ e[3] = Open /\ e[3].t = "("
      /\ e[1].t \notin {"(", ")"} /\ e[2].t \notin {"(", ")"}
      /\ e[4].t \notin {"(", ")"}
      /\ Opr2(e).t \notin {"(", ")"} /\ Arg3(e).t \notin {"(", ")"}
      /\ (e[5] = Close \/ e[7] = Close)
  BY NodeTypes, OpenClose DEF RightParen
<1>2. \A i \in 1..7 : i = 1 \/ i = 2 \/ i = 3 \/ i = 4 \/ i = 5 \/ i = 6 \/ i = 7
  OBVIOUS
<1>3. CASE e[5].t = ")"
  <2>1. Opr2(e) = e[6] /\ Arg3(e) = e[7]
    BY <1>3 DEF Opr2, Arg3
  <2>2. ClosesAt(e) = {5} /\ {i \in 1..Len(e) : e[i].t = "("} = {3}
    BY <1>1, <1>2, <1>3, <2>1, OpenClose DEF ClosesAt
  <2>3. 5 \in {5, 7} /\ 3 \in 1..7
    OBVIOUS
  <2>4. /\ QUERY_walk(e, kind) \in Seq(Node)
        /\ Len(QUERY_walk(e, kind)) = 9
        /\ WalkOf(e, kind, 9).t = "match"
        /\ WalkOf(e, kind, 8) = e[1] /\ WalkOf(e, kind, 7) = e[2]
        /\ WalkOf(e, kind, 6) = e[3] /\ WalkOf(e, kind, 5) = e[4]
        /\ WalkOf(e, kind, 4) = (IF 5 = 5 THEN e[6] ELSE e[5])
        /\ WalkOf(e, kind, 3) = (IF 5 = 5 THEN e[7] ELSE e[6])
        /\ WalkOf(e, kind, 2) = Close
        /\ WalkOf(e, kind, 1).t = "matched"
    BY <1>1, <2>2, <2>3, WalkParen, Zenon
  <2> QED BY <1>1, <2>1, <2>4
<1>4. CASE e[5].t # ")"
  <2>1. Opr2(e) = e[5] /\ Arg3(e) = e[6] /\ e[7].t = ")"
    BY <1>1, <1>4, OpenClose DEF Opr2, Arg3
  <2>2. ClosesAt(e) = {7} /\ {i \in 1..Len(e) : e[i].t = "("} = {3}
    BY <1>1, <1>2, <1>4, <2>1, OpenClose DEF ClosesAt
  <2>3. 7 \in {5, 7} /\ 3 \in 1..7
    OBVIOUS
  <2>4. /\ QUERY_walk(e, kind) \in Seq(Node)
        /\ Len(QUERY_walk(e, kind)) = 9
        /\ WalkOf(e, kind, 9).t = "match"
        /\ WalkOf(e, kind, 8) = e[1] /\ WalkOf(e, kind, 7) = e[2]
        /\ WalkOf(e, kind, 6) = e[3] /\ WalkOf(e, kind, 5) = e[4]
        /\ WalkOf(e, kind, 4) = (IF 7 = 5 THEN e[6] ELSE e[5])
        /\ WalkOf(e, kind, 3) = (IF 7 = 5 THEN e[7] ELSE e[6])
        /\ WalkOf(e, kind, 2) = Close
        /\ WalkOf(e, kind, 1).t = "matched"
    BY <1>1, <2>2, <2>3, WalkParen, Zenon
  <2> QED BY <1>1, <2>1, <2>4
<1> QED BY <1>3, <1>4

-----------------------------------------------------------------------------
(* One step of the walk.                                                   *)

(* A series is in the result of an operator exactly when the truth table   *)
(* of the operator says so.                                                *)
LEMMA SetOprIs ==
    ASSUME NEW A, NEW B
    PROVE  \A s \in Series \cup Remote :
              /\ s \in SetOpr("union", A, B) <=> s \in A \/ s \in B
              /\ s \in SetOpr("intersection", A, B) <=> s \in A /\ s \in B
              /\ s \in SetOpr("difference", A, B) <=> s \in A /\ ~(s \in B)
              /\ s \in SetOpr("symmetric", A, B) <=> ~(s \in A <=> s \in B)
<1> SUFFICES ASSUME NEW s \in Series \cup Remote
             PROVE  /\ s \in SetOpr("union", A, B) <=> s \in A \/ s \in B
                    /\ s \in SetOpr("intersection", A, B) <=> s \in A /\ s \in B
                    /\ s \in SetOpr("difference", A, B) <=> s \in A /\ ~(s \in B)
                    /\ s \in SetOpr("symmetric", A, B) <=> ~(s \in A <=> s \in B)
  OBVIOUS
<1>1. s \in SetOpr("union", A, B) <=> s \in A \/ s \in B
  BY DEF SetOpr, Combine
<1>2. s \in SetOpr("intersection", A, B) <=> s \in A /\ s \in B
  BY DEF SetOpr, Combine
<1>3. s \in SetOpr("difference", A, B) <=> s \in A /\ ~(s \in B)
  BY DEF SetOpr, Combine
<1>4. s \in SetOpr("symmetric", A, B) <=> ~(s \in A <=> s \in B)
  BY DEF SetOpr, Combine
<1> QED BY <1>1, <1>2, <1>3, <1>4

(* An operator makes no series up.                                         *)
LEMMA SetOprType == \A o, A, B : SetOpr(o, A, B) \subseteq Series \cup Remote
  BY DEF SetOpr

(* On the live series the result depends on the live series only.          *)
LEMMA SetOprOn ==
    ASSUME NEW o \in AllOperators, NEW L \in SUBSET Series, NEW A, NEW B,
           NEW A2, NEW B2, A \cap L = A2 \cap L, B \cap L = B2 \cap L
    PROVE  SetOpr(o, A, B) \cap L = SetOpr(o, A2, B2) \cap L
<1> SUFFICES ASSUME NEW s \in L
             PROVE  s \in SetOpr(o, A, B) <=> s \in SetOpr(o, A2, B2)
  OBVIOUS
<1>1. (s \in A <=> s \in A2) /\ (s \in B <=> s \in B2)
  OBVIOUS
<1>2. s \in Series \cup Remote
  OBVIOUS
<1> QED BY <1>1, <1>2, SetOprIs DEF AllOperators

\* z is q after one node.
After(q, z) == z.expr = q.expr /\ z.kind = q.kind /\ z.nodes = Tail(q.nodes)

\* What is known of a query that is at a node.
AtHead(q, L) ==
    /\ q \in Query /\ L \in SUBSET Series /\ Walking(q) /\ Expr(q.expr)
    /\ NodesInv(q) /\ AtNode(q, L) /\ q.nodes # <<>>

(* A step of the walk leaves one node less, and the rest of the same walk. *)
LEMMA NextAhead ==
    ASSUME NEW q \in Query, NEW z, NodesInv(q), Walking(q), q.nodes # <<>>,
           After(q, z)
    PROVE  /\ Ahead(z) = Ahead(q) - 1 /\ Ahead(q) \in Int /\ NodesInv(z)
           /\ z.nodes \in Seq(Node)
<1>1. q.nodes \in Seq(Node)
  BY DEF Query
<1>2. /\ z.nodes \in Seq(Node) /\ Len(z.nodes) = Len(q.nodes) - 1
      /\ \A k \in 1..Len(z.nodes) : z.nodes[k] = q.nodes[k + 1]
  BY <1>1 DEF After
<1>3. Len(q.nodes) \in Nat \ {0}
  BY <1>1
<1>4. Ahead(z) = Ahead(q) - 1 /\ Ahead(q) \in Int
  BY <1>2, <1>3 DEF Ahead, After
<1>5. ASSUME NEW k \in 1..Len(z.nodes)
      PROVE  z.nodes[k] = WalkOf(z.expr, z.kind, Len(z.nodes) + 1 - k)
  <2>1. k + 1 \in 1..Len(q.nodes)
    BY <1>2, <1>3
  <2>2. q.nodes[k + 1] = WalkOf(q.expr, q.kind, Len(q.nodes) + 1 - (k + 1))
    BY <2>1 DEF NodesInv
  <2>3. Len(q.nodes) + 1 - (k + 1) = Len(z.nodes) + 1 - k
    <3>1. Len(z.nodes) = Len(q.nodes) - 1 /\ Len(z.nodes) \in Nat /\ k \in Nat
      BY <1>2
    <3>2. \A a, b, c \in Nat : b = a - 1 => a + 1 - (c + 1) = b + 1 - c
      OBVIOUS
    <3> QED BY <1>3, <3>1, <3>2
  <2> QED BY <1>2, <2>2, <2>3 DEF After
<1>6. Len(z.nodes) <= Len(QUERY_walk(z.expr, z.kind))
  <2>1. Len(q.nodes) <= Len(QUERY_walk(q.expr, q.kind))
    BY DEF NodesInv
  <2>2. z.expr = q.expr /\ z.kind = q.kind
    BY DEF After
  <2> QED BY <1>2, <1>3, <2>1, <2>2
<1>7. IsTag(z.kind) => Single(z.expr)
  BY DEF NodesInv, After
<1> QED BY <1>2, <1>4, <1>5, <1>6, <1>7 DEF NodesInv

(* The node that runs is the one that the walk has there.                  *)
LEMMA HeadNode ==
    ASSUME NEW q, NEW L, AtHead(q, L)
    PROVE  /\ q.expr \in Seq(Node) /\ Len(q.nodes) \in Nat \ {0}
           /\ Len(q.nodes) <= Len(QUERY_walk(q.expr, q.kind))
           /\ Head(q.nodes) = q.nodes[1] /\ q.nodes[1] \in Node
           /\ q.nodes[1] = WalkOf(q.expr, q.kind, Len(q.nodes))
           /\ q.cb \in AllOperators \cup {"none"} /\ q.map \subseteq Series
           /\ q.stack \in Seq(SavedSet)
<1>1. q.nodes \in Seq(Node) /\ q.nodes # <<>> /\ q.expr \in Seq(Node)
  BY DEF AtHead, Query
<1>2. Len(q.nodes) \in Nat \ {0} /\ Head(q.nodes) = q.nodes[1] /\ q.nodes[1] \in Node
  BY <1>1
<1>3. q.nodes[1] = WalkOf(q.expr, q.kind, Len(q.nodes) + 1 - 1)
  BY <1>2 DEF AtHead, NodesInv
<1>4. Len(q.nodes) + 1 - 1 = Len(q.nodes)
  BY <1>2
<1>5. Len(q.nodes) <= Len(QUERY_walk(q.expr, q.kind))
  BY DEF AtHead, NodesInv
<1>6. /\ q.cb \in AllOperators \cup {"none"} /\ q.map \subseteq Series
      /\ q.stack \in Seq(SavedSet)
  BY DEF AtHead, Query
<1> QED BY <1>1, <1>2, <1>3, <1>4, <1>5, <1>6

(* The place in the walk over a single operand tells which node runs.      *)
LEMMA HeadSingle ==
    ASSUME NEW q, NEW L, AtHead(q, L), Single(q.expr)
    PROVE  /\ AtSingle(q, L, Ahead(q)) /\ IsOperand(q.expr[1])
           /\ \/ Ahead(q) = 2 /\ q.nodes[1].t = "match"
              \/ Ahead(q) = 1 /\ q.nodes[1] = q.expr[1]
              \/ /\ Ahead(q) = 0
                 /\ q.nodes[1].t = (IF IsTag(q.kind) THEN "tag" ELSE "matched")
              \/ Ahead(q) = -1 /\ IsTag(q.kind) /\ q.nodes[1].t = "matched"
<1> DEFINE n == Len(q.nodes)
<1>1. /\ n \in Nat \ {0} /\ n <= Len(QUERY_walk(q.expr, q.kind))
      /\ q.nodes[1] = WalkOf(q.expr, q.kind, n) /\ q.expr \in Seq(Node)
  BY HeadNode
<1>2. AtSingle(q, L, Ahead(q)) /\ IsOperand(q.expr[1])
  BY DEF AtHead, AtNode, Single
<1>3. /\ Len(QUERY_walk(q.expr, q.kind)) = 3 + TagNodes(q.kind)
      /\ WalkOf(q.expr, q.kind, 3 + TagNodes(q.kind)).t = "match"
      /\ WalkOf(q.expr, q.kind, 2 + TagNodes(q.kind)) = q.expr[1]
      /\ IsTag(q.kind) => WalkOf(q.expr, q.kind, 2).t = "tag"
      /\ WalkOf(q.expr, q.kind, 1).t = "matched"
  BY <1>1, WalkSingle
<1>4. CASE IsTag(q.kind)
  <2>1. TagNodes(q.kind) = 1 /\ Ahead(q) = n - 2
    BY <1>4 DEF TagNodes, Ahead
  <2> HIDE DEF n
  <2>2. n = 1 \/ n = 2 \/ n = 3 \/ n = 4
    BY <1>1, <1>3, <2>1
  <2> QED BY <1>1, <1>2, <1>3, <1>4, <2>1, <2>2
<1>5. CASE ~IsTag(q.kind)
  <2>1. TagNodes(q.kind) = 0 /\ Ahead(q) = n - 1
    BY <1>5 DEF TagNodes, Ahead
  <2> HIDE DEF n
  <2>2. n = 1 \/ n = 2 \/ n = 3
    BY <1>1, <1>3, <2>1
  <2> QED BY <1>1, <1>2, <1>3, <1>5, <2>1, <2>2
<1> QED BY <1>4, <1>5

(* The same for two operands.                                              *)
LEMMA HeadDouble ==
    ASSUME NEW q, NEW L, AtHead(q, L), Double(q.expr)
    PROVE  /\ AtDouble(q, L, Ahead(q)) /\ ~IsTag(q.kind)
           /\ IsOperand(q.expr[1]) /\ IsOpr(q.expr[2]) /\ IsOperand(q.expr[3])
           /\ \/ Ahead(q) = 4 /\ q.nodes[1].t = "match"
              \/ Ahead(q) = 3 /\ q.nodes[1] = q.expr[1]
              \/ Ahead(q) = 2 /\ q.nodes[1] = q.expr[2]
              \/ Ahead(q) = 1 /\ q.nodes[1] = q.expr[3]
              \/ Ahead(q) = 0 /\ q.nodes[1].t = "matched"
<1> DEFINE n == Len(q.nodes)
<1>1. /\ n \in Nat \ {0} /\ n <= Len(QUERY_walk(q.expr, q.kind))
      /\ q.nodes[1] = WalkOf(q.expr, q.kind, n) /\ q.expr \in Seq(Node)
  BY HeadNode
<1>2. /\ AtDouble(q, L, Ahead(q)) /\ IsOperand(q.expr[1]) /\ IsOpr(q.expr[2])
      /\ IsOperand(q.expr[3])
  BY DEF AtHead, AtNode, Double
<1>3. ~IsTag(q.kind)
  BY DEF AtHead, NodesInv, Single, Double
<1>4. /\ Len(QUERY_walk(q.expr, q.kind)) = 5
      /\ WalkOf(q.expr, q.kind, 5).t = "match"
      /\ WalkOf(q.expr, q.kind, 4) = q.expr[1]
      /\ WalkOf(q.expr, q.kind, 3) = q.expr[2]
      /\ WalkOf(q.expr, q.kind, 2) = q.expr[3]
      /\ WalkOf(q.expr, q.kind, 1).t = "matched"
  BY <1>1, <1>3, WalkDouble
<1>5. Ahead(q) = n - 1
  BY <1>3 DEF Ahead
<1> HIDE DEF n
<1>6. n = 1 \/ n = 2 \/ n = 3 \/ n = 4 \/ n = 5
  BY <1>1, <1>4
<1> QED BY <1>1, <1>2, <1>3, <1>4, <1>5, <1>6

(* The same for an expression that starts with a parenthesis.              *)
LEMMA HeadLeft ==
    ASSUME NEW q, NEW L, AtHead(q, L), LeftParen(q.expr)
    PROVE  /\ AtLeft(q, L, Ahead(q)) /\ ~IsTag(q.kind)
           /\ IsOperand(q.expr[2]) /\ IsOpr(q.expr[3]) /\ IsOperand(q.expr[4])
           /\ IsOpr(q.expr[6]) /\ IsOperand(q.expr[7])
           /\ \/ Ahead(q) = 8 /\ q.nodes[1].t = "match"
              \/ Ahead(q) = 7 /\ q.nodes[1] = Open
              \/ Ahead(q) = 6 /\ q.nodes[1] = q.expr[2]
              \/ Ahead(q) = 5 /\ q.nodes[1] = q.expr[3]
              \/ Ahead(q) = 4 /\ q.nodes[1] = q.expr[4]
              \/ Ahead(q) = 3 /\ q.nodes[1] = q.expr[6]
              \/ Ahead(q) = 2 /\ q.nodes[1] = q.expr[7]
              \/ Ahead(q) = 1 /\ q.nodes[1] = Close
              \/ Ahead(q) = 0 /\ q.nodes[1].t = "matched"
<1> DEFINE n == Len(q.nodes)
<1>1. /\ n \in Nat \ {0} /\ n <= Len(QUERY_walk(q.expr, q.kind))
      /\ q.nodes[1] = WalkOf(q.expr, q.kind, n) /\ q.expr \in Seq(Node)
  BY HeadNode
<1>2. /\ AtLeft(q, L, Ahead(q)) /\ IsOperand(q.expr[2]) /\ IsOpr(q.expr[3])
      /\ IsOperand(q.expr[4]) /\ IsOpr(q.expr[6]) /\ IsOperand(q.expr[7])
  BY DEF AtHead, AtNode, LeftParen
<1>3. ~IsTag(q.kind)
  BY DEF AtHead, NodesInv, Single, LeftParen
<1>4. /\ Len(QUERY_walk(q.expr, q.kind)) = 9
      /\ WalkOf(q.expr, q.kind, 9).t = "match"
      /\ WalkOf(q.expr, q.kind, 8) = Open /\ WalkOf(q.expr, q.kind, 7) = q.expr[2]
      /\ WalkOf(q.expr, q.kind, 6) = q.expr[3]
      /\ WalkOf(q.expr, q.kind, 5) = q.expr[4]
      /\ WalkOf(q.expr, q.kind, 4) = q.expr[6]
      /\ WalkOf(q.expr, q.kind, 3) = q.expr[7]
      /\ WalkOf(q.expr, q.kind, 2) = Close
      /\ WalkOf(q.expr, q.kind, 1).t = "matched"
  BY <1>1, <1>3, WalkLeft
<1>5. Ahead(q) = n - 1
  BY <1>3 DEF Ahead
<1> HIDE DEF n
<1>6. \/ n = 1 \/ n = 2 \/ n = 3 \/ n = 4 \/ n = 5
      \/ n = 6 \/ n = 7 \/ n = 8 \/ n = 9
  BY <1>1, <1>4
<1> QED BY <1>1, <1>2, <1>3, <1>4, <1>5, <1>6

(* The same for an expression with a parenthesis after its first operator. *)
LEMMA HeadRight ==
    ASSUME NEW q, NEW L, AtHead(q, L), RightParen(q.expr)
    PROVE  /\ AtRight(q, L, Ahead(q)) /\ ~IsTag(q.kind)
           /\ IsOperand(q.expr[1]) /\ IsOpr(q.expr[2]) /\ IsOperand(q.expr[4])
           /\ IsOpr(Opr2(q.expr)) /\ IsOperand(Arg3(q.expr))
           /\ \/ Ahead(q) = 8 /\ q.nodes[1].t = "match"
              \/ Ahead(q) = 7 /\ q.nodes[1] = q.expr[1]
              \/ Ahead(q) = 6 /\ q.nodes[1] = q.expr[2]
              \/ Ahead(q) = 5 /\ q.nodes[1] = Open
              \/ Ahead(q) = 4 /\ q.nodes[1] = q.expr[4]
              \/ Ahead(q) = 3 /\ q.nodes[1] = Opr2(q.expr)
              \/ Ahead(q) = 2 /\ q.nodes[1] = Arg3(q.expr)
              \/ Ahead(q) = 1 /\ q.nodes[1] = Close
              \/ Ahead(q) = 0 /\ q.nodes[1].t = "matched"
<1> DEFINE n == Len(q.nodes)
<1>1. /\ n \in Nat \ {0} /\ n <= Len(QUERY_walk(q.expr, q.kind))
      /\ q.nodes[1] = WalkOf(q.expr, q.kind, n) /\ q.expr \in Seq(Node)
  BY HeadNode
<1>2. /\ AtRight(q, L, Ahead(q)) /\ IsOperand(q.expr[1]) /\ IsOpr(q.expr[2])
      /\ IsOperand(q.expr[4]) /\ IsOpr(Opr2(q.expr)) /\ IsOperand(Arg3(q.expr))
  BY DEF AtHead, AtNode, RightParen
<1>3. ~IsTag(q.kind)
  BY DEF AtHead, NodesInv, Single, RightParen
<1>4. /\ Len(QUERY_walk(q.expr, q.kind)) = 9
      /\ WalkOf(q.expr, q.kind, 9).t = "match"
      /\ WalkOf(q.expr, q.kind, 8) = q.expr[1]
      /\ WalkOf(q.expr, q.kind, 7) = q.expr[2]
      /\ WalkOf(q.expr, q.kind, 6) = Open
      /\ WalkOf(q.expr, q.kind, 5) = q.expr[4]
      /\ WalkOf(q.expr, q.kind, 4) = Opr2(q.expr)
      /\ WalkOf(q.expr, q.kind, 3) = Arg3(q.expr)
      /\ WalkOf(q.expr, q.kind, 2) = Close
      /\ WalkOf(q.expr, q.kind, 1).t = "matched"
  BY <1>1, <1>3, WalkRight
<1>5. Ahead(q) = n - 1
  BY <1>3 DEF Ahead
<1> HIDE DEF n
<1>6. \/ n = 1 \/ n = 2 \/ n = 3 \/ n = 4 \/ n = 5
      \/ n = 6 \/ n = 7 \/ n = 8 \/ n = 9
  BY <1>1, <1>4
<1> QED BY <1>1, <1>2, <1>3, <1>4, <1>5, <1>6

\* The value of the map after the operand v.
Result(q, v) ==
    IF q.cb = "none" THEN v.x ELSE SetOpr(q.cb, q.map, v.x)

(* A step that combines the map with an operand gets to the state of the   *)
(* next node.                                                              *)
LEMMA OperandStep ==
    ASSUME NEW q, NEW L, AtHead(q, L), IsOperand(q.nodes[1]), NEW z,
           After(q, z), z.cb = q.cb, z.stack = q.stack,
           z.map \cap L = Result(q, q.nodes[1]) \cap L
    PROVE  AtNode(z, L)
<1>1. Ahead(z) = Ahead(q) - 1 /\ Ahead(q) \in Int /\ z.expr = q.expr
  BY NextAhead DEF AtHead, After
<1>2. q.nodes[1].t \in OperandTypes /\ L \in SUBSET Series
  BY KindsOfNodes DEF AtHead
<1>3. q.nodes[1].t \notin {"match", "tag", "matched", "opr", "(", ")"}
  BY <1>2 DEF OperandTypes
<1>4. \A v : IsOpr(v) => v.t = "opr" /\ v.x \in AllOperators
  BY KindsOfNodes
<1>5. \A o \in AllOperators : o # "none"
  BY DEF AllOperators
<1>6. Open.t = "(" /\ Close.t = ")"
  BY OpenClose
<1> DEFINE v == q.nodes[1]
           k == Ahead(q)
<1>7. ASSUME NEW o \in AllOperators, q.cb = o, NEW S, q.map \cap L = S \cap L
      PROVE  z.map \cap L = SetOpr(o, S, v.x) \cap L
  BY <1>2, <1>5, <1>7, SetOprOn DEF Result
<1>8. q.cb = "none" => z.map \cap L = v.x \cap L
  BY DEF Result
<1>9. ASSUME Single(q.expr) PROVE AtSingle(z, L, Ahead(z))
  <2>1. AtSingle(q, L, k) /\ k = 1 /\ v = q.expr[1]
    BY <1>3, <1>9, HeadSingle
  <2> QED BY <1>1, <1>8, <2>1 DEF AtSingle, Empty, MapIs
<1>10. ASSUME Double(q.expr) PROVE AtDouble(z, L, Ahead(z))
  <2>1. AtDouble(q, L, k) /\ IsOpr(q.expr[2])
    BY <1>10, HeadDouble
  <2>2. (k = 3 /\ v = q.expr[1]) \/ (k = 1 /\ v = q.expr[3])
    <3>1. \/ k = 4 /\ v.t = "match"
          \/ k = 3 /\ v = q.expr[1]
          \/ k = 2 /\ v = q.expr[2]
          \/ k = 1 /\ v = q.expr[3]
          \/ k = 0 /\ v.t = "matched"
      BY <1>10, HeadDouble
    <3>2. q.expr[2].t = "opr"
      BY <1>4, <2>1
    <3> HIDE DEF k
    <3> QED BY <1>3, <3>1, <3>2
  <2>3. CASE k = 3 /\ v = q.expr[1]
    BY <1>1, <1>8, <2>1, <2>3 DEF AtDouble, Empty, MapIs
  <2>4. CASE k = 1 /\ v = q.expr[3]
    <3>1. q.cb = q.expr[2].x /\ q.map \cap L = q.expr[1].x \cap L
      BY <2>1, <2>4 DEF AtDouble, MapIs
    <3>2. z.map \cap L = SetOpr(q.expr[2].x, q.expr[1].x, q.expr[3].x) \cap L
      BY <1>4, <1>7, <2>1, <2>4, <3>1
    <3> QED BY <1>1, <2>1, <2>4, <3>2 DEF AtDouble, Empty, MapIs
  <2> QED BY <2>2, <2>3, <2>4
<1>11. ASSUME LeftParen(q.expr) PROVE AtLeft(z, L, Ahead(z))
  <2>1. AtLeft(q, L, k) /\ IsOpr(q.expr[3]) /\ IsOpr(q.expr[6])
    BY <1>11, HeadLeft
  <2>2. \/ k = 6 /\ v = q.expr[2]
        \/ k = 4 /\ v = q.expr[4]
        \/ k = 2 /\ v = q.expr[7]
    <3>1. \/ k = 8 /\ v.t = "match"
          \/ k = 7 /\ v = Open
          \/ k = 6 /\ v = q.expr[2]
          \/ k = 5 /\ v = q.expr[3]
          \/ k = 4 /\ v = q.expr[4]
          \/ k = 3 /\ v = q.expr[6]
          \/ k = 2 /\ v = q.expr[7]
          \/ k = 1 /\ v = Close
          \/ k = 0 /\ v.t = "matched"
      BY <1>11, HeadLeft
    <3>2. q.expr[3].t = "opr" /\ q.expr[6].t = "opr"
      BY <1>4, <2>1
    <3> HIDE DEF k
    <3> QED BY <1>3, <1>6, <3>1, <3>2
  <2> DEFINE first == SetOpr(q.expr[3].x, q.expr[2].x, q.expr[4].x)
  <2>3. CASE k = 6 /\ v = q.expr[2]
    <3>1. q.cb = "none" /\ z.map \cap L = q.expr[2].x \cap L
      BY <1>8, <2>1, <2>3 DEF AtLeft, Empty
    <3> QED BY <1>1, <2>1, <2>3, <3>1 DEF AtLeft, Empty, MapIs
  <2>4. CASE k = 4 /\ v = q.expr[4]
    <3>1. q.cb = q.expr[3].x /\ q.map \cap L = q.expr[2].x \cap L
      BY <2>1, <2>4 DEF AtLeft, MapIs
    <3>2. z.map \cap L = first \cap L
      BY <1>4, <1>7, <2>1, <2>4, <3>1
    <3> QED BY <1>1, <2>1, <2>4, <3>2 DEF AtLeft, Empty, MapIs
  <2>5. CASE k = 2 /\ v = q.expr[7]
    <3>1. q.cb = q.expr[6].x /\ q.map \cap L = first \cap L
      BY <2>1, <2>5 DEF AtLeft, MapIs
    <3> HIDE DEF first
    <3>2. z.map \cap L = SetOpr(q.expr[6].x, first, q.expr[7].x) \cap L
      BY <1>4, <1>7, <2>1, <2>5, <3>1
    <3> QED BY <1>1, <2>1, <2>5, <3>2 DEF AtLeft, Empty, MapIs, first
  <2> QED BY <2>2, <2>3, <2>4, <2>5
<1>12. ASSUME RightParen(q.expr) PROVE AtRight(z, L, Ahead(z))
  <2>1. AtRight(q, L, k) /\ IsOpr(q.expr[2]) /\ IsOpr(Opr2(q.expr))
    BY <1>12, HeadRight
  <2>2. \/ k = 7 /\ v = q.expr[1]
        \/ k = 4 /\ v = q.expr[4]
        \/ k = 2 /\ v = Arg3(q.expr)
    <3>1. \/ k = 8 /\ v.t = "match"
          \/ k = 7 /\ v = q.expr[1]
          \/ k = 6 /\ v = q.expr[2]
          \/ k = 5 /\ v = Open
          \/ k = 4 /\ v = q.expr[4]
          \/ k = 3 /\ v = Opr2(q.expr)
          \/ k = 2 /\ v = Arg3(q.expr)
          \/ k = 1 /\ v = Close
          \/ k = 0 /\ v.t = "matched"
      BY <1>12, HeadRight
    <3>2. q.expr[2].t = "opr" /\ Opr2(q.expr).t = "opr"
      BY <1>4, <2>1
    <3> HIDE DEF k
    <3> QED BY <1>3, <1>6, <3>1, <3>2
  <2>3. CASE k = 7 /\ v = q.expr[1]
    <3>1. q.cb = "none" /\ z.map \cap L = q.expr[1].x \cap L
      BY <1>8, <2>1, <2>3 DEF AtRight, Empty
    <3> QED BY <1>1, <2>1, <2>3, <3>1 DEF AtRight, Empty, MapIs
  <2>4. CASE k = 4 /\ v = q.expr[4]
    <3>1. q.cb = "none" /\ z.map \cap L = q.expr[4].x \cap L
      BY <1>8, <2>1, <2>4 DEF AtRight, Empty
    <3> QED BY <1>1, <2>1, <2>4, <3>1 DEF AtRight, Empty, MapIs
  <2>5. CASE k = 2 /\ v = Arg3(q.expr)
    <3>1. q.cb = Opr2(q.expr).x /\ q.map \cap L = q.expr[4].x \cap L
      BY <2>1, <2>5 DEF AtRight, MapIs
    <3>2. z.map \cap L = SetOpr(Opr2(q.expr).x, q.expr[4].x, Arg3(q.expr).x) \cap L
      BY <1>4, <1>7, <2>1, <2>5, <3>1
    <3> QED BY <1>1, <2>1, <2>5, <3>2 DEF AtRight, Empty, MapIs
  <2> QED BY <2>2, <2>3, <2>4, <2>5
<1> QED BY <1>1, <1>9, <1>10, <1>11, <1>12 DEF AtNode

(* The first operand of an expression or parenthesis finds an empty map.   *)
LEMMA OperandEmpty ==
    ASSUME NEW q, NEW L, AtHead(q, L), IsOperand(q.nodes[1]), q.cb = "none"
    PROVE  q.map = {}
<1>1. q.nodes[1].t \in OperandTypes
  BY KindsOfNodes
<1>2. q.nodes[1].t \notin {"match", "tag", "matched", "opr", "(", ")"}
  BY <1>1 DEF OperandTypes
<1>3. \A v : IsOpr(v) => v.t = "opr" /\ v.x \in AllOperators
  BY KindsOfNodes
<1>4. \A o \in AllOperators : o # "none"
  BY DEF AllOperators
<1>5. Open.t = "(" /\ Close.t = ")"
  BY OpenClose
<1>6. CASE Single(q.expr)
  BY <1>2, <1>6, HeadSingle DEF AtSingle, Empty
<1>7. CASE Double(q.expr)
  BY <1>2, <1>3, <1>4, <1>7, HeadDouble DEF AtDouble, Empty
<1>8. CASE LeftParen(q.expr)
  BY <1>2, <1>3, <1>4, <1>5, <1>8, HeadLeft DEF AtLeft, Empty
<1>9. CASE RightParen(q.expr)
  BY <1>2, <1>3, <1>4, <1>5, <1>9, HeadRight DEF AtRight, Empty
<1> QED BY <1>6, <1>7, <1>8, <1>9 DEF AtHead, Expr

(* A step that sets the operator gets to the state of the next node.       *)
LEMMA OprStep ==
    ASSUME NEW q, NEW L, AtHead(q, L), q.nodes[1].t = "opr", NEW z,
           After(q, z), z.cb = q.nodes[1].x, z.stack = q.stack, z.map = q.map
    PROVE  AtNode(z, L)
<1>1. Ahead(z) = Ahead(q) - 1 /\ Ahead(q) \in Int /\ z.expr = q.expr
  BY NextAhead DEF AtHead, After
<1>2. \A v : IsOperand(v) => v.t # "opr"
  BY DEF IsOperand, OperandTypes
<1>3. Open.t = "(" /\ Close.t = ")"
  BY OpenClose
<1>4. ASSUME Single(q.expr) PROVE FALSE
  BY <1>2, <1>4, HeadSingle
<1>5. ASSUME Double(q.expr) PROVE AtDouble(z, L, Ahead(z))
  <2>1. AtDouble(q, L, Ahead(q)) /\ Ahead(q) = 2 /\ q.nodes[1] = q.expr[2]
    BY <1>2, <1>5, HeadDouble
  <2> QED BY <1>1, <2>1 DEF AtDouble, MapIs
<1>6. ASSUME LeftParen(q.expr) PROVE AtLeft(z, L, Ahead(z))
  <2>1. /\ AtLeft(q, L, Ahead(q))
        /\ \/ Ahead(q) = 5 /\ q.nodes[1] = q.expr[3]
           \/ Ahead(q) = 3 /\ q.nodes[1] = q.expr[6]
    BY <1>2, <1>3, <1>6, HeadLeft
  <2> QED BY <1>1, <2>1 DEF AtLeft, MapIs
<1>7. ASSUME RightParen(q.expr) PROVE AtRight(z, L, Ahead(z))
  <2>1. /\ AtRight(q, L, Ahead(q))
        /\ \/ Ahead(q) = 6 /\ q.nodes[1] = q.expr[2]
           \/ Ahead(q) = 3 /\ q.nodes[1] = Opr2(q.expr)
    BY <1>2, <1>3, <1>7, HeadRight
  <2> QED BY <1>1, <2>1 DEF AtRight, MapIs
<1> QED BY <1>1, <1>4, <1>5, <1>6, <1>7 DEF AtNode

(* So does the step that enters the match, which finds an empty map.       *)
LEMMA MatchStep ==
    ASSUME NEW q, NEW L, AtHead(q, L), q.nodes[1].t = "match"
    PROVE  /\ q.map = {}
           /\ \A z : After(q, z) /\ z.cb = q.cb /\ z.stack = q.stack
                     /\ z.map = q.map => AtNode(z, L)
<1>1. \A v : (IsOperand(v) => v.t # "match") /\ (IsOpr(v) => v.t # "match")
  BY DEF IsOperand, OperandTypes, IsOpr
<1>2. Open.t = "(" /\ Close.t = ")"
  BY OpenClose
<1>3. ASSUME Single(q.expr) PROVE AtSingle(q, L, Ahead(q)) /\ Ahead(q) = 2
  BY <1>1, <1>3, HeadSingle
<1>4. ASSUME Double(q.expr) PROVE AtDouble(q, L, Ahead(q)) /\ Ahead(q) = 4
  BY <1>1, <1>4, HeadDouble
<1>5. ASSUME LeftParen(q.expr) PROVE AtLeft(q, L, Ahead(q)) /\ Ahead(q) = 8
  BY <1>1, <1>2, <1>5, HeadLeft
<1>6. ASSUME RightParen(q.expr) PROVE AtRight(q, L, Ahead(q)) /\ Ahead(q) = 8
  BY <1>1, <1>2, <1>6, HeadRight
<1>7. q.map = {}
  BY <1>3, <1>4, <1>5, <1>6
  DEF AtHead, Expr, AtSingle, AtDouble, AtLeft, AtRight, Empty
<1>8. ASSUME NEW z, After(q, z), z.cb = q.cb, z.stack = q.stack, z.map = q.map
      PROVE  AtNode(z, L)
  <2>1. Ahead(z) = Ahead(q) - 1 /\ Ahead(q) \in Int /\ z.expr = q.expr
    BY <1>8, NextAhead DEF AtHead, After
  <2>2. ASSUME Single(q.expr) PROVE AtSingle(z, L, Ahead(z))
    BY <1>3, <1>8, <2>1, <2>2 DEF AtSingle, Empty
  <2>3. ASSUME Double(q.expr) PROVE AtDouble(z, L, Ahead(z))
    BY <1>4, <1>8, <2>1, <2>3 DEF AtDouble, Empty
  <2>4. ASSUME LeftParen(q.expr) PROVE AtLeft(z, L, Ahead(z))
    BY <1>5, <1>8, <2>1, <2>4 DEF AtLeft, Empty
  <2>5. ASSUME RightParen(q.expr) PROVE AtRight(z, L, Ahead(z))
    BY <1>6, <1>8, <2>1, <2>5 DEF AtRight, Empty
  <2> QED BY <2>1, <2>2, <2>3, <2>4, <2>5 DEF AtNode
<1> QED BY <1>7, <1>8

(* A parenthesis opens at an empty stack; the map is empty when there is no*)
(* operator before it.                                                     *)
LEMMA OpenStep ==
    ASSUME NEW q, NEW L, AtHead(q, L), q.nodes[1].t = "("
    PROVE  /\ q.stack = <<>>
           /\ q.cb = "none" => q.map = {}
           /\ \A z : /\ After(q, z) /\ z.map = {} /\ z.cb = "none"
                     /\ z.stack = <<[map |-> q.map, cb |-> q.cb]>>
                     => AtNode(z, L)
<1>1. \A v : (IsOperand(v) => v.t # "(") /\ (IsOpr(v) => v.t # "(")
  BY NodeTypes
<1>2. Open.t = "(" /\ Close.t = ")"
  BY OpenClose
<1>3. ~Single(q.expr)
  BY <1>1, HeadSingle
<1>4. ~Double(q.expr)
  BY <1>1, HeadDouble
<1>5. ASSUME LeftParen(q.expr) PROVE AtLeft(q, L, Ahead(q)) /\ Ahead(q) = 7
  BY <1>1, <1>2, <1>5, HeadLeft
<1>6. ASSUME RightParen(q.expr)
      PROVE  /\ AtRight(q, L, Ahead(q)) /\ Ahead(q) = 5
             /\ q.expr[2].x \in AllOperators
  <2>1. AtRight(q, L, Ahead(q)) /\ Ahead(q) = 5 /\ IsOpr(q.expr[2])
    BY <1>1, <1>2, <1>6, HeadRight
  <2> QED BY <2>1, KindsOfNodes
<1>7. LeftParen(q.expr) \/ RightParen(q.expr)
  BY <1>3, <1>4 DEF AtHead, Expr
<1>8. q.stack = <<>>
  BY <1>5, <1>6, <1>7 DEF AtLeft, AtRight
<1>9. q.cb = "none" => q.map = {}
  <2>1. "none" \notin AllOperators
    BY DEF AllOperators
  <2> QED BY <1>5, <1>6, <1>7, <2>1 DEF AtLeft, AtRight, Empty
<1>10. ASSUME NEW z, After(q, z), z.map = {}, z.cb = "none",
              z.stack = <<[map |-> q.map, cb |-> q.cb]>>
       PROVE  AtNode(z, L)
  <2>1. Ahead(z) = Ahead(q) - 1 /\ Ahead(q) \in Int /\ z.expr = q.expr
    BY <1>10, NextAhead DEF AtHead, After
  <2>2. Len(z.stack) = 1 /\ z.stack[1] = [map |-> q.map, cb |-> q.cb]
    BY <1>10
  <2>3. z.stack[1].map = q.map /\ z.stack[1].cb = q.cb
    BY <2>2
  <2>4. ASSUME LeftParen(q.expr) PROVE AtLeft(z, L, Ahead(z))
    <3>1. q.map = {} /\ q.cb = "none" /\ Ahead(z) = 6
      BY <1>5, <2>1, <2>4 DEF AtLeft, Empty
    <3> QED BY <1>10, <2>2, <3>1 DEF AtLeft, Empty
  <2>5. ASSUME RightParen(q.expr) PROVE AtRight(z, L, Ahead(z))
    <3>1. /\ q.cb = q.expr[2].x /\ q.map \cap L = q.expr[1].x \cap L
          /\ Ahead(z) = 4
      BY <1>6, <2>1, <2>5 DEF AtRight, MapIs
    <3> QED BY <1>10, <2>1, <2>2, <2>3, <3>1 DEF AtRight, Empty
  <2> QED BY <1>3, <1>4, <2>1, <2>4, <2>5 DEF AtNode
<1> QED BY <1>8, <1>9, <1>10

(* What the map is after the closing parenthesis.                          *)
Closed(q) ==
    IF q.stack[1].cb = "none" THEN q.map
    ELSE SetOpr(q.stack[1].cb, q.stack[1].map, q.map)

(* So does the step that leaves a parenthesis: the map that was put aside  *)
(* is there, and is empty when no operator was pending.                    *)
LEMMA CloseStep ==
    ASSUME NEW q, NEW L, AtHead(q, L), q.nodes[1].t = ")"
    PROVE  /\ Len(q.stack) = 1
           /\ q.stack[1].cb = "none" => q.stack[1].map = {}
           /\ \A z : /\ After(q, z) /\ z.stack = <<>>
                     /\ z.map \cap L = Closed(q) \cap L
                     => AtNode(z, L)
<1>1. \A v : (IsOperand(v) => v.t # ")") /\ (IsOpr(v) => v.t # ")")
  BY NodeTypes
<1>2. Open.t = "(" /\ Close.t = ")"
  BY OpenClose
<1>3. ~Single(q.expr)
  BY <1>1, HeadSingle
<1>4. ~Double(q.expr)
  BY <1>1, HeadDouble
<1>5. ASSUME LeftParen(q.expr) PROVE AtLeft(q, L, Ahead(q)) /\ Ahead(q) = 1
  BY <1>1, <1>2, <1>5, HeadLeft
<1>6. ASSUME RightParen(q.expr)
      PROVE  /\ AtRight(q, L, Ahead(q)) /\ Ahead(q) = 1
             /\ q.expr[2].x \in AllOperators
  <2>1. AtRight(q, L, Ahead(q)) /\ Ahead(q) = 1 /\ IsOpr(q.expr[2])
    BY <1>1, <1>2, <1>6, HeadRight
  <2> QED BY <2>1, KindsOfNodes
<1>7. LeftParen(q.expr) \/ RightParen(q.expr)
  BY <1>3, <1>4 DEF AtHead, Expr
<1>8. Len(q.stack) = 1
  BY <1>5, <1>6, <1>7 DEF AtLeft, AtRight
<1>9. "none" \notin AllOperators
  BY DEF AllOperators
<1>10. q.stack[1].cb = "none" => q.stack[1].map = {}
  BY <1>5, <1>6, <1>7, <1>9 DEF AtLeft, AtRight
<1>11. ASSUME NEW z, After(q, z), z.stack = <<>>,
              z.map \cap L = Closed(q) \cap L
       PROVE  AtNode(z, L)
  <2>1. Ahead(z) = Ahead(q) - 1 /\ Ahead(q) \in Int /\ z.expr = q.expr
    BY <1>11, NextAhead DEF AtHead, After
  <2>2. ASSUME LeftParen(q.expr) PROVE AtLeft(z, L, Ahead(z))
    <3>1. q.stack[1].cb = "none"
      BY <1>5, <2>2 DEF AtLeft
    <3>2. z.map \cap L = q.map \cap L
      BY <1>11, <3>1 DEF Closed
    <3> QED BY <1>5, <1>11, <2>1, <2>2, <3>2 DEF AtLeft, MapIs
  <2>3. ASSUME RightParen(q.expr) PROVE AtRight(z, L, Ahead(z))
    <3> DEFINE e == q.expr
               inner == SetOpr(Opr2(e).x, e[4].x, Arg3(e).x)
    <3>1. /\ q.stack[1].cb = e[2].x
          /\ q.stack[1].map \cap L = e[1].x \cap L
          /\ q.map \cap L = inner \cap L
      BY <1>6, <2>3 DEF AtRight, MapIs
    <3>2. z.map \cap L = SetOpr(e[2].x, q.stack[1].map, q.map) \cap L
      BY <1>6, <1>9, <1>11, <2>3, <3>1 DEF Closed
    <3> HIDE DEF inner
    <3>3. L \in SUBSET Series /\ e[2].x \in AllOperators
      BY <1>6, <2>3 DEF AtHead
    <3>4. z.map \cap L = SetOpr(e[2].x, e[1].x, inner) \cap L
      BY <3>1, <3>2, <3>3, SetOprOn
    <3> QED BY <1>6, <1>11, <2>1, <2>3, <3>4 DEF AtRight, MapIs, inner
  <2> QED BY <1>3, <1>4, <2>1, <2>2, <2>3 DEF AtNode
<1> QED BY <1>8, <1>10, <1>11

(* A tag is made of the result of a single operand.                        *)
LEMMA TagStep ==
    ASSUME NEW q, NEW L, AtHead(q, L), q.nodes[1].t = "tag", NEW z,
           After(q, z), z.stack = q.stack
    PROVE  AtNode(z, L)
<1>1. /\ \A v : (IsOperand(v) => v.t # "tag") /\ (IsOpr(v) => v.t # "tag")
      /\ Open.t = "(" /\ Close.t = ")"
  BY OpenClose DEF IsOperand, OperandTypes, IsOpr
<1>2. ~Double(q.expr)
  BY <1>1, HeadDouble
<1>3. ~LeftParen(q.expr)
  BY <1>1, HeadLeft
<1>4. ~RightParen(q.expr)
  BY <1>1, HeadRight
<1>5. ASSUME Single(q.expr)
      PROVE  AtSingle(q, L, Ahead(q)) /\ Ahead(q) = 0
  BY <1>1, <1>5, HeadSingle
<1>6. Ahead(z) = Ahead(q) - 1 /\ z.expr = q.expr
  BY NextAhead DEF AtHead, After
<1> QED BY <1>2, <1>3, <1>4, <1>5, <1>6 DEF AtNode, AtSingle

(* At the end of the walk the map is the set that the walk computes.       *)
LEMMA MatchedStep ==
    ASSUME NEW q, NEW L, AtHead(q, L), q.nodes[1].t = "matched"
    PROVE  /\ q.stack = <<>>
           /\ ~IsTag(q.kind) => MapIs(q, L, Walked(q.expr)) /\ Ahead(q) = 0
<1>1. /\ \A v : (IsOperand(v) => v.t # "matched") /\ (IsOpr(v) => v.t # "matched")
      /\ Open.t = "(" /\ Close.t = ")"
  BY OpenClose DEF IsOperand, OperandTypes, IsOpr
<1>2. CASE Single(q.expr)
  <2>1. AtSingle(q, L, Ahead(q)) /\ (~IsTag(q.kind) => Ahead(q) = 0)
    BY <1>1, <1>2, HeadSingle
  <2>2. Walked(q.expr) = q.expr[1].x
    BY <1>2 DEF Walked, Single
  <2> QED BY <2>1, <2>2 DEF AtSingle
<1>3. CASE Double(q.expr)
  <2>1. AtDouble(q, L, Ahead(q)) /\ Ahead(q) = 0
    BY <1>1, <1>3, HeadDouble
  <2>2. Walked(q.expr) = SetOpr(q.expr[2].x, q.expr[1].x, q.expr[3].x)
    BY <1>3 DEF Walked, Double
  <2> QED BY <2>1, <2>2 DEF AtDouble
<1>4. CASE LeftParen(q.expr)
  <2>1. AtLeft(q, L, Ahead(q)) /\ Ahead(q) = 0
    BY <1>1, <1>4, HeadLeft
  <2>2. Walked(q.expr) = SetOpr(q.expr[6].x,
            SetOpr(q.expr[3].x, q.expr[2].x, q.expr[4].x), q.expr[7].x)
    BY <1>4 DEF Walked, LeftParen
  <2> QED BY <2>1, <2>2 DEF AtLeft
<1>5. CASE RightParen(q.expr)
  <2>1. AtRight(q, L, Ahead(q)) /\ Ahead(q) = 0
    BY <1>1, <1>5, HeadRight
  <2>2. q.expr[1] # Open
    BY <1>5, KindsOfNodes DEF RightParen
  <2>3. Walked(q.expr) = SetOpr(q.expr[2].x, q.expr[1].x,
            SetOpr(Opr2(q.expr).x, q.expr[4].x, Arg3(q.expr).x))
    BY <1>5, <2>2 DEF Walked, RightParen
  <2> QED BY <2>1, <2>3 DEF AtRight
<1> QED BY <1>2, <1>3, <1>4, <1>5 DEF AtHead, Expr

-----------------------------------------------------------------------------
(* References.                                                             *)

Bit(s, S) == IF s \in S THEN 1 ELSE 0

\* The set that waits for a closing parenthesis.
Saved(q) == IF Len(q.stack) = 1 THEN q.stack[1].map ELSE {}

Held(q, s) == Bit(s, q.map) + Bit(s, q.tmp) + Bit(s, q.vec) + Bit(s, Saved(q))

(* A set holds one reference of each of its members.                       *)
LEMMA BitType == \A s, S : Bit(s, S) \in {0, 1}
  BY DEF Bit

(* The references of a set are those of its members.                       *)
LEMMA OneIs == \A S : \A s \in Series : One(S)[s] = Bit(s, S)
  BY DEF One, Bit

(* With at most one map put aside, the references that a query holds are   *)
(* those of its sets, added up.                                            *)
LEMMA HoldsIs ==
    ASSUME NEW q, NEW s, q.stack \in Seq(SavedSet), Len(q.stack) <= 1
    PROVE  Holds(q, s) = Held(q, s) /\ Held(q, s) \in Nat
<1> DEFINE K == {k \in 1..Len(q.stack) : s \in q.stack[k].map}
<1>1. Len(q.stack) = 0 \/ Len(q.stack) = 1
  <2>1. Len(q.stack) \in Nat
    BY LenProperties
  <2>2. \A m \in Nat : m <= 1 => m = 0 \/ m = 1
    OBVIOUS
  <2> QED BY <2>1, <2>2, Zenon
<1>2. Cardinality(K) = Bit(s, Saved(q))
  <2>1. CASE Len(q.stack) = 0
    <3>1. K = {}
      BY <2>1
    <3>2. Saved(q) = {}
      BY <2>1 DEF Saved
    <3> HIDE DEF K
    <3> QED BY <3>1, <3>2, FS_EmptySet DEF Bit
  <2>2. CASE Len(q.stack) = 1 /\ s \in q.stack[1].map
    <3>1. K = {1}
      BY <2>2
    <3>2. Bit(s, Saved(q)) = 1
      BY <2>2 DEF Saved, Bit
    <3> HIDE DEF K
    <3> QED BY <3>1, <3>2, FS_Singleton
  <2>3. CASE Len(q.stack) = 1 /\ s \notin q.stack[1].map
    <3>1. K = {}
      BY <2>3
    <3>2. Bit(s, Saved(q)) = 0
      BY <2>3 DEF Saved, Bit
    <3> HIDE DEF K
    <3> QED BY <3>1, <3>2, FS_EmptySet
  <2> QED BY <1>1, <2>1, <2>2, <2>3
<1> HIDE DEF K
<1>3. Holds(q, s) = Bit(s, q.map) + Bit(s, q.tmp) + Bit(s, q.vec) + Cardinality(K)
  BY DEF Holds, Bit, K
<1>4. Held(q, s) \in Nat
  BY BitType DEF Held
<1> QED BY <1>2, <1>3, <1>4 DEF Held

(* The invariant gives what the sum needs.                                 *)
LEMMA QueryHolds ==
    ASSUME NEW q, NEW L, QueryInv(q, L), NEW s
    PROVE  Holds(q, s) = Held(q, s) /\ Held(q, s) \in Nat
  BY HoldsIs DEF QueryInv, PhaseInv, Query

(* The references of the other query do not change.                        *)
LEMMA RefsStep ==
    ASSUME Inv, NEW i \in Queries, NEW z, qs' = [qs EXCEPT ![i] = z],
           QueryInv(z, live'), ref' \in [Series -> Int],
           \A s \in Series :
              ref'[s] = ref[s] + (Bit(s, live') - Bit(s, live))
                        + (Bit(s, tagged') - Bit(s, tagged))
                        + (Held(z, s) - Held(qs[i], s))
    PROVE  RefsExact'
<1> SUFFICES ASSUME NEW s \in Series
             PROVE  ref'[s] = One(live')[s] + One(Members)[s] + One(tagged')[s]
                              + Holds(qs'[1], s) + Holds(qs'[2], s)
  BY DEF RefsExact
<1>1. ref[s] = One(live)[s] + One(Members)[s] + One(tagged)[s]
               + Holds(qs[1], s) + Holds(qs[2], s)
  BY DEF Inv, RefsExact
<1>2. /\ One(live)[s] = Bit(s, live) /\ One(live')[s] = Bit(s, live')
      /\ One(tagged)[s] = Bit(s, tagged) /\ One(tagged')[s] = Bit(s, tagged')
      /\ One(Members)[s] = Bit(s, Members)
  BY OneIs
<1>3. /\ Bit(s, live) \in {0, 1} /\ Bit(s, live') \in {0, 1}
      /\ Bit(s, tagged) \in {0, 1} /\ Bit(s, tagged') \in {0, 1}
      /\ Bit(s, Members) \in {0, 1}
  BY BitType
<1>4. \A j \in Queries : Holds(qs[j], s) = Held(qs[j], s) /\ Held(qs[j], s) \in Nat
  BY QueryHolds DEF Inv
<1>5. Holds(z, s) = Held(z, s) /\ Held(z, s) \in Nat
  BY QueryHolds
<1>6. DOMAIN qs = Queries
  BY DEF Inv, TypeInv
<1>7. ref'[s] = ref[s] + (Bit(s, live') - Bit(s, live))
                + (Bit(s, tagged') - Bit(s, tagged))
                + (Held(z, s) - Held(qs[i], s))
  OBVIOUS
<1>8. CASE i = 1
  <2>1. qs'[1] = z /\ qs'[2] = qs[2]
    BY <1>6, <1>8 DEF Queries
  <2>2. Held(qs[1], s) \in Nat /\ Held(qs[2], s) \in Nat
    BY <1>4 DEF Queries
  <2>3. Holds(qs[1], s) = Held(qs[1], s) /\ Holds(qs[2], s) = Held(qs[2], s)
    BY <1>4 DEF Queries
  <2>4. Holds(qs'[1], s) = Held(z, s) /\ Holds(qs'[2], s) = Held(qs[2], s)
    BY <1>5, <2>1, <2>3
  <2> QED BY <1>1, <1>2, <1>3, <1>5, <1>7, <1>8, <2>2, <2>3, <2>4
<1>9. CASE i = 2
  <2>1. qs'[2] = z /\ qs'[1] = qs[1]
    BY <1>6, <1>9 DEF Queries
  <2>2. Held(qs[1], s) \in Nat /\ Held(qs[2], s) \in Nat
    BY <1>4 DEF Queries
  <2>3. Holds(qs[1], s) = Held(qs[1], s) /\ Holds(qs[2], s) = Held(qs[2], s)
    BY <1>4 DEF Queries
  <2>4. Holds(qs'[2], s) = Held(z, s) /\ Holds(qs'[1], s) = Held(qs[1], s)
    BY <1>5, <2>1, <2>3
  <2> QED BY <1>1, <1>2, <1>3, <1>5, <1>7, <1>9, <2>2, <2>3, <2>4
<1> QED BY <1>8, <1>9 DEF Queries

-----------------------------------------------------------------------------
(* From a query to the system.                                             *)

(* What is known of a query stays true when series are dropped.            *)
LEMMA FewerLive ==
    ASSUME NEW q, NEW L, NEW M, QueryInv(q, L), M \subseteq L
    PROVE  QueryInv(q, M)
<1>1. WalkInv(q, M)
  <2>1. SUFFICES ASSUME Walking(q), AtNode(q, L) PROVE AtNode(q, M)
    BY DEF QueryInv, WalkInv
  <2>2. \A S : MapIs(q, L, S) => MapIs(q, M, S)
    BY DEF MapIs
  <2>3. ASSUME Single(q.expr) PROVE AtSingle(q, M, Ahead(q))
    BY <2>1, <2>2, <2>3 DEF AtNode, AtSingle
  <2>4. ASSUME Double(q.expr) PROVE AtDouble(q, M, Ahead(q))
    BY <2>1, <2>2, <2>4 DEF AtNode, AtDouble
  <2>5. ASSUME LeftParen(q.expr) PROVE AtLeft(q, M, Ahead(q))
    BY <2>1, <2>2, <2>5 DEF AtNode, AtLeft
  <2>6. ASSUME RightParen(q.expr) PROVE AtRight(q, M, Ahead(q))
    BY <2>1, <2>2, <2>6 DEF AtNode, AtRight
  <2> QED BY <2>3, <2>4, <2>5, <2>6 DEF AtNode
<1>2. ReInv(q, M)
  BY DEF QueryInv, ReInv
<1>3. DropInv(q, M)
  BY DEF QueryInv, DropInv
<1>4. ListInv(q, M)
  BY DEF QueryInv, ListInv, MapIs
<1> QED BY <1>1, <1>2, <1>3, <1>4 DEF QueryInv

(* A step of query i that drops no series.                                 *)
LEMMA StepOK ==
    ASSUME Inv, NEW i \in Queries, NEW z, qs' = [qs EXCEPT ![i] = z],
           qs[i].st \notin {"drop", "done"},
           QueryInv(z, live), live' = live, ver' = ver, tagged' \subseteq Series,
           ref' \in [Series -> Int],
           \A s \in Series :
              ref'[s] = ref[s] + (Bit(s, tagged') - Bit(s, tagged))
                        + (Held(z, s) - Held(qs[i], s))
    PROVE  Inv'
<1>1. qs' \in [Queries -> Query] /\ z \in Query
  BY DEF Inv, TypeInv, QueryInv
<1>2. TypeInv'
  BY <1>1 DEF Inv, TypeInv
<1>3. \A j \in Queries : QueryInv(qs'[j], live)
  BY DEF Inv, TypeInv
<1>4. \A j \in Queries : QueryInv(qs'[j], live')
  BY <1>3
<1>5. DroppedInv'
  <2> SUFFICES ASSUME NEW s \in Series \ live'
               PROVE  \E j \in Queries : /\ qs'[j].kind = "drop"
                                         /\ qs'[j].st \in {"drop", "done"}
                                         /\ s \in Asked(qs'[j])
    BY DEF DroppedInv
  <2>1. PICK j \in Queries : /\ qs[j].kind = "drop"
                             /\ qs[j].st \in {"drop", "done"}
                             /\ s \in Asked(qs[j])
    BY DEF Inv, DroppedInv
  <2>2. qs'[j] = qs[j]
    BY <2>1 DEF Inv, TypeInv
  <2> QED BY <2>1, <2>2
<1>6. RefsExact'
  <2>1. QueryInv(z, live')
    OBVIOUS
  <2>2. ASSUME NEW s \in Series
        PROVE  ref'[s] = ref[s] + (Bit(s, live') - Bit(s, live))
                         + (Bit(s, tagged') - Bit(s, tagged))
                         + (Held(z, s) - Held(qs[i], s))
    <3>1. Bit(s, live') - Bit(s, live) = 0
      BY BitType
    <3>2. ref[s] \in Int
      BY DEF Inv, TypeInv
    <3> QED BY <3>1, <3>2
  <2> QED BY <2>1, <2>2, RefsStep
<1> QED BY <1>2, <1>4, <1>5, <1>6 DEF Inv

(* A step of query i that moves references or none at all.                 *)
LEMMA SameRefs ==
    ASSUME Inv, NEW i \in Queries, NEW z, qs' = [qs EXCEPT ![i] = z],
           qs[i].st \notin {"drop", "done"}, QueryInv(z, live),
           live' = live, ver' = ver, tagged' = tagged, ref' = ref,
           \A s \in Series : Held(z, s) = Held(qs[i], s)
    PROVE  Inv'
<1>1. ref' \in [Series -> Int] /\ tagged' \subseteq Series
  BY DEF Inv, TypeInv
<1>2. ASSUME NEW s \in Series
      PROVE  ref'[s] = ref[s] + (Bit(s, tagged') - Bit(s, tagged))
                       + (Held(z, s) - Held(qs[i], s))
  <2>1. Held(z, s) = Held(qs[i], s) /\ Held(z, s) \in Nat
    BY QueryHolds
  <2>2. Bit(s, tagged') = Bit(s, tagged) /\ Bit(s, tagged) \in {0, 1}
    BY BitType
  <2>3. ref'[s] = ref[s] /\ ref[s] \in Int
    BY DEF Inv, TypeInv
  <2> QED BY <2>1, <2>2, <2>3
<1> QED BY <1>1, <1>2, StepOK

\* Query i becomes z and holds the same references.
Becomes(i, z) ==
    /\ qs' = [qs EXCEPT ![i] = z] /\ QueryInv(z, live)
    /\ qs[i].st \notin {"drop", "done"}
    /\ live' = live /\ ver' = ver /\ tagged' = tagged /\ ref' = ref
    /\ \A s \in Series : Held(z, s) = Held(qs[i], s)

(* The same for a step that only moves series inside a query.              *)
LEMMA BecomesOK ==
    ASSUME Inv, NEW i \in Queries, NEW z, Becomes(i, z)
    PROVE  Inv'
<1>1. /\ qs' = [qs EXCEPT ![i] = z] /\ QueryInv(z, live)
      /\ qs[i].st \notin {"drop", "done"}
      /\ live' = live /\ ver' = ver /\ tagged' = tagged /\ ref' = ref
      /\ \A s \in Series : Held(z, s) = Held(qs[i], s)
  BY DEF Becomes
<1> QED BY <1>1, SameRefs


-----------------------------------------------------------------------------
(* The nodes of the walk.                                                  *)

(* What the invariant says of one query.                                   *)
LEMMA HereIs ==
    ASSUME Inv, NEW i \in Queries
    PROVE  /\ QueryInv(qs[i], live) /\ qs[i] \in Query /\ live \in SUBSET Series
           /\ tagged \in SUBSET Series /\ ref \in [Series -> Int]
           /\ \A s \in Series : ref[s] \in Int
           /\ ver \in [Series -> 0..MaxInserts]
  BY DEF Inv, TypeInv

(* What it says of a query at a node of type t.                            *)
LEMMA AtIs ==
    ASSUME Inv, NEW i \in Queries, NEW t, At(i, t)
    PROVE  /\ AtHead(qs[i], live) /\ Head(qs[i].nodes) = qs[i].nodes[1]
           /\ qs[i].nodes[1].t = t /\ qs[i].st = "walk"
           /\ qs[i].vec = {} /\ qs[i].tmp = {}
<1>1. QueryInv(qs[i], live) /\ qs[i] \in Query /\ live \in SUBSET Series
  BY HereIs
<1>2. qs[i].st = "walk" /\ qs[i].nodes # <<>> /\ Head(qs[i].nodes).t = t
  BY DEF At
<1>3. Walking(qs[i])
  BY <1>2 DEF Walking
<1>4. AtHead(qs[i], live)
  BY <1>1, <1>2, <1>3 DEF AtHead, QueryInv, PhaseInv, WalkInv
<1>5. Head(qs[i].nodes) = qs[i].nodes[1]
  BY <1>4, HeadNode
<1>6. qs[i].vec = {} /\ qs[i].tmp = {}
  BY <1>1, <1>2 DEF QueryInv, PhaseInv
<1> QED BY <1>2, <1>4, <1>5, <1>6

\* What the nodes of a walk leave alone.
SameRest(q, z) ==
    /\ z.where = q.where /\ z.filtered = q.filtered /\ z.master = q.master
    /\ z.n = q.n /\ z.nsel = q.nsel /\ z.cache = q.cache /\ z.got = q.got

(* One node of the walk.                                                   *)
LEMMA WalkStep ==
    ASSUME NEW q, NEW L, AtHead(q, L), QueryInv(q, L), NEW z \in Query,
           After(q, z), SameRest(q, z), z.st = "walk", AtNode(z, L),
           z.vec = {}, z.tmp = {}, Len(z.stack) <= 1,
           q.pmap \subseteq z.pmap,
           IsOperand(q.nodes[1]) => q.nodes[1].x \cap Remote \subseteq z.pmap
    PROVE  QueryInv(z, L)
<1>1. /\ q \in Query /\ Walking(q) /\ Expr(q.expr) /\ NodesInv(q)
      /\ q.nodes # <<>>
  BY DEF AtHead
<1>2. Ahead(z) = Ahead(q) - 1 /\ Ahead(q) \in Int /\ NodesInv(z)
  BY <1>1, NextAhead
<1>3. Walking(z) /\ z.expr = q.expr /\ z.kind = q.kind
  BY DEF Walking, After
<1>4. WalkInv(z, L) /\ ReInv(z, L)
  BY DEF WalkInv, ReInv
<1>5. PhaseInv(z)
  BY <1>1, <1>3 DEF PhaseInv, QueryInv, SameRest, Walking
<1>6. DropInv(z, L)
  BY DEF DropInv
<1>7. ListInv(z, L)
  <2>1. q.kind = "list" => q.n = {} /\ Cardinality(q.n) <= ListLimit
    BY <1>1 DEF QueryInv, ListInv
  <2> QED BY <1>3, <2>1 DEF ListInv, SameRest
<1>8. PoolInv(z)
  <2> SUFFICES ASSUME q.kind = "select", q.master PROVE PoolInv(z)
    BY <1>3 DEF PoolInv, SameRest
  <2>1. /\ Single(q.expr) \/ Double(q.expr)
        /\ Single(q.expr) /\ Ahead(q) = 0 =>
              q.expr[1].x \cap Remote \subseteq q.pmap
        /\ Double(q.expr) /\ Ahead(q) \in 0..2 =>
              q.expr[1].x \cap Remote \subseteq q.pmap
    BY <1>1 DEF QueryInv, PoolInv
  <2>2. ASSUME Single(q.expr), Ahead(q) = 1
        PROVE  q.expr[1].x \cap Remote \subseteq z.pmap
    BY <2>2, HeadSingle
  <2>3. ASSUME Double(q.expr), Ahead(q) = 3
        PROVE  q.expr[1].x \cap Remote \subseteq z.pmap
    BY <2>3, HeadDouble
  <2>4. ASSUME Double(q.expr), Ahead(q) = 1
        PROVE  q.expr[3].x \cap Remote \subseteq z.pmap
    BY <2>4, HeadDouble
  <2>5. ASSUME Double(q.expr), Ahead(z) \in 0..2
        PROVE  q.expr[1].x \cap Remote \subseteq z.pmap
    <3>1. Ahead(q) = 3 \/ Ahead(q) \in 0..2
      BY <1>2, <2>5
    <3> QED BY <2>1, <2>3, <2>5, <3>1
  <2>6. Ahead(z) = 0 => Ahead(q) = 1
    BY <1>2
  <2> QED BY <1>3, <2>1, <2>2, <2>4, <2>5, <2>6 DEF PoolInv
<1>9. SelectInv(z)
  BY <1>1, <1>3 DEF SelectInv, QueryInv, SameRest
<1> QED BY <1>2, <1>4, <1>5, <1>6, <1>7, <1>8, <1>9 DEF QueryInv

(* enter_series_match keeps the invariant.                                 *)
LEMMA MatchOK ==
    ASSUME Inv, NEW i \in Queries, enter_series_match(i)
    PROVE  Inv'
<1> DEFINE q == qs[i]
           z == [NextNode(q) EXCEPT !.map = {}]
<1>1. /\ AtHead(q, live) /\ q.nodes[1].t = "match" /\ q.st = "walk"
      /\ q.vec = {} /\ q.tmp = {}
  BY AtIs DEF enter_series_match
<1>2. /\ QueryInv(q, live) /\ q \in Query /\ ref \in [Series -> Int]
      /\ \A s \in Series : ref[s] \in Int
  BY HereIs
<1>3. q.nodes # <<>> /\ q.nodes \in Seq(Node)
  BY <1>1 DEF AtHead, Query
<1>4. Tail(q.nodes) \in Seq(Node)
  BY <1>3
<1>5. z \in Query
  BY <1>2, <1>4 DEF Query, NextNode
<1>6. /\ After(q, z) /\ SameRest(q, z) /\ z.st = q.st /\ z.vec = q.vec
      /\ z.tmp = q.tmp /\ z.stack = q.stack /\ z.pmap = q.pmap
      /\ z.cb = q.cb /\ z.map = {}
  BY <1>2 DEF Query, NextNode, After, SameRest
<1>7. /\ qs' = [qs EXCEPT ![i] = z] /\ ref' = ref /\ live' = live
      /\ tagged' = tagged /\ ver' = ver
  BY DEF enter_series_match, Set
<1> HIDE DEF z
<1>8. q.map = {} /\ AtNode(z, live)
  BY <1>1, <1>6, MatchStep
<1>9. ~IsOperand(q.nodes[1])
  BY <1>1 DEF IsOperand, OperandTypes
<1>10. Len(q.stack) <= 1
  BY <1>2 DEF QueryInv, PhaseInv
<1>11. QueryInv(z, live)
  BY <1>1, <1>2, <1>5, <1>6, <1>8, <1>9, <1>10, WalkStep
<1>12. \A s : Held(z, s) = Held(q, s)
  BY <1>6, <1>8 DEF Held, Saved
<1> QED BY <1>1, <1>2, <1>7, <1>11, <1>12, SameRefs


(* The nodes that are left after the first one.                            *)
LEMMA TailIs ==
    ASSUME NEW q, NEW L, AtHead(q, L)
    PROVE  Tail(q.nodes) \in Seq(Node)
<1>1. q.nodes # <<>> /\ q.nodes \in Seq(Node)
  BY DEF AtHead, Query
<1> QED BY <1>1

(* enter_series_setopr keeps the invariant.                                *)
LEMMA OprOK ==
    ASSUME Inv, NEW i \in Queries, enter_series_setopr(i)
    PROVE  Inv'
<1> DEFINE q == qs[i]
           z == [NextNode(q) EXCEPT !.cb = Head(q.nodes).x]
<1>1. /\ AtHead(q, live) /\ Head(q.nodes) = q.nodes[1]
      /\ q.nodes[1].t = "opr" /\ q.st = "walk" /\ q.vec = {} /\ q.tmp = {}
  BY AtIs DEF enter_series_setopr
<1>2. QueryInv(q, live) /\ q \in Query
  BY HereIs
<1>3. Tail(q.nodes) \in Seq(Node) /\ q.nodes[1] \in Node
  BY <1>1, TailIs, HeadNode
<1>4. Head(q.nodes).x \in AllOperators
  BY <1>1, <1>3 DEF Node, PlainTypes, OperandTypes
<1>5. z \in Query
  BY <1>2, <1>3, <1>4 DEF Query, NextNode
<1>6. /\ After(q, z) /\ SameRest(q, z) /\ z.st = q.st /\ z.vec = q.vec
      /\ z.tmp = q.tmp /\ z.stack = q.stack /\ z.pmap = q.pmap
      /\ z.cb = Head(q.nodes).x /\ z.map = q.map
  BY <1>2 DEF Query, NextNode, After, SameRest
<1>7. /\ qs' = [qs EXCEPT ![i] = z] /\ ref' = ref /\ live' = live
      /\ tagged' = tagged /\ ver' = ver
  BY DEF enter_series_setopr, Set
<1> HIDE DEF z
<1>8. AtNode(z, live)
  BY <1>1, <1>6, OprStep
<1>9. ~IsOperand(q.nodes[1])
  BY <1>1 DEF IsOperand, OperandTypes
<1>10. Len(q.stack) <= 1
  BY <1>2 DEF QueryInv, PhaseInv
<1>11. QueryInv(z, live)
  BY <1>1, <1>2, <1>5, <1>6, <1>8, <1>9, <1>10, WalkStep
<1>12. \A s : Held(z, s) = Held(q, s)
  BY <1>6 DEF Held, Saved
<1>13. q.st \notin {"drop", "done"}
  BY <1>1
<1> HIDE DEF q
<1> QED BY <1>7, <1>11, <1>12, <1>13, SameRefs DEF q

\* What an operator makes of two maps of series.
Updated(cb, A, B) == IF cb = "none" THEN B ELSE SetOpr(cb, A, B) \cap Series

(* The four functions of imap.c on maps with reference counts return what  *)
(* their operator says and give up one reference for each place that a     *)
(* series loses.                                                           *)
LEMMA UpdateIs ==
    ASSUME NEW cb \in AllOperators \cup {"none"}, NEW A \in SUBSET Series,
           NEW B \in SUBSET Series, cb = "none" => A = {}
    PROVE  /\ update_cb(cb, A, B).map = Updated(cb, A, B)
           /\ Updated(cb, A, B) \subseteq Series
           /\ \A s \in Series : update_cb(cb, A, B).lost[s]
                  = Bit(s, A) + Bit(s, B) - Bit(s, Updated(cb, A, B))
<1> DEFINE u == update_cb(cb, A, B)
<1>1. \A S, T : \A s \in Series : Lost(S, T)[s] = Bit(s, S) + Bit(s, T)
  BY OneIs DEF Lost
<1>2. CASE cb = "none"
  <2>1. u = [map |-> B, lost |-> One({})]
    BY <1>2 DEF update_cb
  <2>2. Updated(cb, A, B) = B
    BY <1>2 DEF Updated
  <2>3. u.map = B /\ u.lost = One({})
    BY <2>1
  <2> QED BY <1>2, <2>2, <2>3, OneIs DEF Bit
<1>3. CASE cb = "union"
  <2>1. u = [map |-> A \cup B, lost |-> One(A \cap B)]
    BY <1>3 DEF update_cb, imap_union_ref
  <2>2. Updated(cb, A, B) = A \cup B
    BY <1>3, SetOprIs DEF Updated
  <2>3. u.map = A \cup B /\ u.lost = One(A \cap B)
    BY <2>1
  <2> QED BY <2>2, <2>3, OneIs DEF Bit
<1>4. CASE cb = "intersection"
  <2>1. u = [map |-> A \cap B, lost |-> Lost(B, A \ B)]
    BY <1>4 DEF update_cb, imap_intersection_ref
  <2>2. Updated(cb, A, B) = A \cap B
    BY <1>4, SetOprIs DEF Updated
  <2>3. u.map = A \cap B /\ u.lost = Lost(B, A \ B)
    BY <2>1
  <2> QED BY <1>1, <2>2, <2>3 DEF Bit
<1>5. CASE cb = "difference"
  <2>1. u = [map |-> A \ B, lost |-> Lost(A \cap B, B)]
    BY <1>5 DEF update_cb, imap_difference_ref
  <2>2. Updated(cb, A, B) = A \ B
    BY <1>5, SetOprIs DEF Updated
  <2>3. u.map = A \ B /\ u.lost = Lost(A \cap B, B)
    BY <2>1
  <2> QED BY <1>1, <2>2, <2>3 DEF Bit
<1>6. CASE cb = "symmetric"
  <2>1. u = [map |-> (A \ B) \cup (B \ A), lost |-> Lost(A \cap B, A \cap B)]
    BY <1>6 DEF update_cb, imap_symmetric_difference_ref
  <2>2. Updated(cb, A, B) = (A \ B) \cup (B \ A)
    BY <1>6, SetOprIs DEF Updated
  <2>3. u.map = (A \ B) \cup (B \ A) /\ u.lost = Lost(A \cap B, A \cap B)
    BY <2>1
  <2> QED BY <1>1, <2>2, <2>3 DEF Bit
<1> QED BY <1>2, <1>3, <1>4, <1>5, <1>6 DEF AllOperators

\* What the result u of an operator is.
ResultIs(u, cb, A, B) ==
    /\ u.map = Updated(cb, A, B) /\ Updated(cb, A, B) \in SUBSET Series
    /\ \A s \in Series : u.lost[s] = Bit(s, A) + Bit(s, B) - Bit(s, Updated(cb, A, B))

(* The same in one word.                                                   *)
LEMMA ResultOK ==
    ASSUME NEW cb \in AllOperators \cup {"none"}, NEW A \in SUBSET Series,
           NEW B \in SUBSET Series, cb = "none" => A = {}
    PROVE  ResultIs(update_cb(cb, A, B), cb, A, B)
BY UpdateIs DEF ResultIs

\* The series B of an operand X are enough for an operator on the map A: when
\* series can only disappear from the map the ones that are in it will do.
Enough(cb, A, L, B, X) ==
    IF cb \in {"none", "union", "symmetric"} THEN B \cap L = X \cap L
    ELSE A \cap B \cap L = A \cap X \cap L

Wanted(cb, A, X) == IF cb = "none" THEN X ELSE SetOpr(cb, A, X)

(* On the live series the result does not depend on what is gone, nor on   *)
(* series outside the map when series can only disappear from it.          *)
LEMMA UpdatedOn ==
    ASSUME NEW cb \in AllOperators \cup {"none"}, NEW A \in SUBSET Series,
           NEW B \in SUBSET Series, NEW X, NEW L \in SUBSET Series,
           Enough(cb, A, L, B, X)
    PROVE  Updated(cb, A, B) \cap L = Wanted(cb, A, X) \cap L
<1>1. CASE cb = "none"
  BY <1>1 DEF Updated, Enough, Wanted
<1>2. CASE cb = "union"
  BY <1>2, SetOprIs DEF Updated, Enough, Wanted
<1>3. CASE cb = "symmetric"
  BY <1>3, SetOprIs DEF Updated, Enough, Wanted
<1>4. CASE cb = "intersection"
  BY <1>4, SetOprIs DEF Updated, Enough, Wanted
<1>5. CASE cb = "difference"
  BY <1>5, SetOprIs DEF Updated, Enough, Wanted
<1> QED BY <1>1, <1>2, <1>3, <1>4, <1>5 DEF AllOperators

(* A node that has the type of an operand is one.                          *)
LEMMA OperandHead ==
    ASSUME NEW q, NEW L, AtHead(q, L), q.nodes[1].t \in OperandTypes
    PROVE  IsOperand(q.nodes[1])
<1>1. \A v : IsOpr(v) => v.t = "opr"
  BY DEF IsOpr
<1>2. Open.t = "(" /\ Close.t = ")"
  BY DEF Open, Close
<1>3. q.nodes[1].t \notin {"match", "tag", "matched", "opr", "(", ")"}
  BY DEF OperandTypes
<1>4. Expr(q.expr)
  BY DEF AtHead
<1>5. CASE Single(q.expr)
  BY <1>3, <1>5, HeadSingle
<1>6. CASE Double(q.expr)
  BY <1>1, <1>3, <1>6, HeadDouble
<1>7. CASE LeftParen(q.expr)
  BY <1>1, <1>2, <1>3, <1>7, HeadLeft
<1>8. CASE RightParen(q.expr)
  BY <1>1, <1>2, <1>3, <1>8, HeadRight
<1> QED BY <1>4, <1>5, <1>6, <1>7, <1>8 DEF Expr

(* The map after an operand.                                               *)
LEMMA UpdateStep ==
    ASSUME NEW q, NEW L, AtHead(q, L), IsOperand(q.nodes[1]),
           NEW B \in SUBSET Series, Enough(q.cb, q.map, L, B, q.nodes[1].x), NEW z,
           After(q, z), z.cb = q.cb, z.stack = q.stack,
           z.map = Updated(q.cb, q.map, B)
    PROVE  AtNode(z, L)
<1>1. /\ q.cb \in AllOperators \cup {"none"} /\ q.map \in SUBSET Series
      /\ L \in SUBSET Series
  BY HeadNode DEF AtHead
<1>2. Updated(q.cb, q.map, B) \cap L = Wanted(q.cb, q.map, q.nodes[1].x) \cap L
  <2>1. \A X : Enough(q.cb, q.map, L, B, X) =>
               Updated(q.cb, q.map, B) \cap L = Wanted(q.cb, q.map, X) \cap L
    BY <1>1, UpdatedOn
  <2> QED BY <2>1
<1>3. z.map \cap L = Result(q, q.nodes[1]) \cap L
  BY <1>2 DEF Result, Wanted
<1> QED BY <1>3, OperandStep

(* enter_series_name keeps the invariant.                                  *)
LEMMA NameOK ==
    ASSUME Inv, NEW i \in Queries, enter_series_name(i)
    PROVE  Inv'
<1> DEFINE q == qs[i]
           found == Head(q.nodes).x \cap live
           here  == q.map \cap found
           new   == CASE q.cb \in {"none", "union"} -> q.map \cup found
                      [] q.cb = "difference" -> q.map \ found
                      [] q.cb = "intersection" -> here
                      [] q.cb = "symmetric" -> (q.map \ found) \cup (found \ q.map)
           z == [NextNode(q) EXCEPT !.map = new, !.pmap = @ \cup NamePool(q)]
<1>1. /\ AtHead(q, live) /\ Head(q.nodes) = q.nodes[1]
      /\ q.nodes[1].t = "name" /\ q.st = "walk" /\ q.vec = {} /\ q.tmp = {}
  BY AtIs DEF enter_series_name
<1>2. /\ QueryInv(q, live) /\ q \in Query /\ live \in SUBSET Series
      /\ tagged \in SUBSET Series /\ ref \in [Series -> Int]
  BY HereIs
<1>3. Tail(q.nodes) \in Seq(Node)
  BY <1>1, TailIs
<1>4. IsOperand(q.nodes[1])
  BY <1>1, OperandHead DEF OperandTypes
<1>5. /\ q.cb \in AllOperators \cup {"none"} /\ q.map \in SUBSET Series
      /\ q.pmap \in SUBSET Remote
  BY <1>2 DEF Query
<1>6. found \in SUBSET Series
  BY <1>2
<1>7. q.cb = "none" => q.map = {}
  BY <1>1, <1>4, OperandEmpty
<1>8. new = Updated(q.cb, q.map, found) /\ new \in SUBSET Series
  <2> HIDE DEF found
  <2>1. CASE q.cb = "none"
    BY <1>6, <1>7, <2>1 DEF Updated
  <2>2. CASE q.cb = "union"
    BY <1>5, <1>6, <2>2, SetOprIs DEF Updated
  <2>3. CASE q.cb = "intersection"
    BY <1>5, <1>6, <2>3, SetOprIs DEF Updated
  <2>4. CASE q.cb = "difference"
    BY <1>5, <1>6, <2>4, SetOprIs DEF Updated
  <2>5. CASE q.cb = "symmetric"
    BY <1>5, <1>6, <2>5, SetOprIs DEF Updated
  <2> QED BY <1>5, <2>1, <2>2, <2>3, <2>4, <2>5 DEF AllOperators
<1>9. ref' = Drop(Add(ref, new \ q.map), One(q.map \ new))
  BY DEF enter_series_name
<1>10. /\ qs' = [qs EXCEPT ![i] = z] /\ live' = live
       /\ tagged' = tagged /\ ver' = ver
  BY DEF enter_series_name, Set
<1> HIDE DEF new
<1>11. NamePool(q) \subseteq Remote /\ NamePool(q) = q.nodes[1].x \cap Remote
  BY <1>1 DEF NamePool
<1>12. z \in Query
  BY <1>2, <1>3, <1>5, <1>8, <1>11 DEF Query, NextNode
<1>13. /\ After(q, z) /\ SameRest(q, z) /\ z.st = q.st /\ z.vec = q.vec
       /\ z.tmp = q.tmp /\ z.stack = q.stack /\ z.pmap = q.pmap \cup NamePool(q)
       /\ z.cb = q.cb /\ z.map = new
  BY <1>2 DEF Query, NextNode, After, SameRest
<1> HIDE DEF z
<1>14. Enough(q.cb, q.map, live, found, q.nodes[1].x)
  BY <1>1 DEF Enough
<1> HIDE DEF found
<1>15. AtNode(z, live)
  BY <1>1, <1>4, <1>6, <1>8, <1>13, <1>14, UpdateStep
<1>16. Len(q.stack) <= 1
  BY <1>2 DEF QueryInv, PhaseInv
<1>17. QueryInv(z, live)
  BY <1>1, <1>2, <1>11, <1>12, <1>13, <1>15, <1>16, WalkStep
<1>18. ref' \in [Series -> Int]
  BY <1>2, <1>9, OneIs, BitType DEF Drop, Add
<1>19. ASSUME NEW s \in Series
       PROVE  ref'[s] = ref[s] + (Bit(s, tagged') - Bit(s, tagged))
                        + (Held(z, s) - Held(q, s))
  <2> HIDE DEF q
  <2>1. ref'[s] = ref[s] + Bit(s, new \ q.map) - Bit(s, q.map \ new)
    <3>1. Add(ref, new \ q.map)[s] = ref[s] + One(new \ q.map)[s]
      BY DEF Add
    <3>2. ref'[s] = Add(ref, new \ q.map)[s] - One(q.map \ new)[s]
      BY <1>9 DEF Drop
    <3>3. /\ One(new \ q.map)[s] = Bit(s, new \ q.map)
          /\ One(q.map \ new)[s] = Bit(s, q.map \ new)
      BY OneIs
    <3>4. \A S : Bit(s, S) \in Int
      BY BitType
    <3>5. ref[s] \in Int
      BY <1>2
    <3> QED BY <3>1, <3>2, <3>3, <3>4, <3>5
  <2>2. Bit(s, new \ q.map) - Bit(s, q.map \ new) = Bit(s, new) - Bit(s, q.map)
    BY DEF Bit
  <2>3. Saved(z) = Saved(q)
    BY <1>13 DEF Saved
  <2>4. /\ Held(z, s) = Bit(s, new) + Bit(s, q.tmp) + Bit(s, q.vec) + Bit(s, Saved(q))
        /\ Held(q, s) = Bit(s, q.map) + Bit(s, q.tmp) + Bit(s, q.vec) + Bit(s, Saved(q))
    BY <1>13, <2>3 DEF Held
  <2>5. \A S : Bit(s, S) \in Int
    BY BitType
  <2>6. ref[s] \in Int /\ tagged' = tagged
    BY <1>2, <1>10
  <2> HIDE DEF q
  <2> QED BY <2>1, <2>2, <2>4, <2>5, <2>6
<1>20. q.st \notin {"drop", "done"} /\ tagged' \subseteq Series
  BY <1>1, <1>2, <1>10
<1> HIDE DEF q
<1> QED BY <1>10, <1>17, <1>18, <1>19, <1>20, StepOK DEF q

(* Every operand but a name is merged with the operator of the query.  The *)
(* series of it have a reference of their own in r.                        *)
LEMMA UpdateOK ==
    ASSUME Inv, NEW i \in Queries, AtHead(qs[i], live), IsOperand(qs[i].nodes[1]),
           qs[i].vec = {}, NEW B \in SUBSET Series,
           Enough(qs[i].cb, qs[i].map, live, B, qs[i].nodes[1].x),
           NEW r \in [Series -> Int],
           \A s \in Series : r[s] = ref[s] + Bit(s, B) - Bit(s, qs[i].tmp),
           Update(i, qs[i], B, r), UNCHANGED <<live, tagged, ver>>
    PROVE  Inv'
<1> DEFINE q == qs[i]
           u == update_cb(q.cb, q.map, B)
           new == Updated(q.cb, q.map, B)
           z == [NextNode(q) EXCEPT !.st = "walk", !.map = u.map, !.tmp = {},
                                    !.vec = {}, !.pmap = Remote]
<1>1. QueryInv(q, live) /\ q \in Query /\ tagged \in SUBSET Series
      /\ \A s \in Series : ref[s] \in Int
  BY HereIs
<1>2. Tail(q.nodes) \in Seq(Node)
  BY TailIs
<1>3. /\ q.cb \in AllOperators \cup {"none"} /\ q.map \in SUBSET Series
      /\ q.pmap \in SUBSET Remote
  BY <1>1 DEF Query
<1>4. q.cb = "none" => q.map = {}
  BY OperandEmpty
<1>5. /\ u.map = new /\ new \in SUBSET Series
      /\ \A s \in Series : u.lost[s] = Bit(s, q.map) + Bit(s, B) - Bit(s, new)
  <2>1. ResultIs(u, q.cb, q.map, B)
    BY <1>3, <1>4, ResultOK
  <2> HIDE DEF u, q, z
  <2> QED BY <2>1 DEF ResultIs
<1>6. ref' = Drop(r, u.lost) /\ qs' = [qs EXCEPT ![i] = z]
  BY DEF Update, Set
<1> HIDE DEF u, new
<1>7. z \in Query
  BY <1>1, <1>2, <1>5 DEF Query, NextNode, Stages
<1>8. /\ After(q, z) /\ SameRest(q, z) /\ z.st = "walk" /\ z.vec = {}
      /\ z.tmp = {} /\ z.stack = q.stack /\ z.pmap = Remote
      /\ z.cb = q.cb /\ z.map = new
  BY <1>1, <1>5 DEF Query, NextNode, After, SameRest
<1> HIDE DEF z
<1>9. AtNode(z, live)
  BY <1>8, UpdateStep DEF new
<1>10. Len(q.stack) <= 1
  BY <1>1 DEF QueryInv, PhaseInv
<1>11. QueryInv(z, live)
  BY <1>1, <1>3, <1>7, <1>8, <1>9, <1>10, WalkStep
<1>12. \A s, S : Bit(s, S) \in Int
  BY BitType
<1>13. ref' \in [Series -> Int]
  BY <1>5, <1>6, <1>12 DEF Drop
<1>14. ASSUME NEW s \in Series
       PROVE  ref'[s] = ref[s] + (Bit(s, tagged') - Bit(s, tagged))
                        + (Held(z, s) - Held(q, s))
  <2>1. ref'[s] = r[s] - u.lost[s]
    BY <1>6 DEF Drop
  <2>2. Saved(z) = Saved(q)
    BY <1>8 DEF Saved
  <2>3. Bit(s, {}) = 0
    BY DEF Bit
  <2>4. /\ Held(z, s) = Bit(s, new) + 0 + 0 + Bit(s, Saved(q))
        /\ Held(q, s) = Bit(s, q.map) + Bit(s, q.tmp) + 0 + Bit(s, Saved(q))
    BY <1>8, <2>2, <2>3 DEF Held
  <2>5. r[s] = ref[s] + Bit(s, B) - Bit(s, q.tmp)
    OBVIOUS
  <2>6. u.lost[s] = Bit(s, q.map) + Bit(s, B) - Bit(s, new)
    BY <1>5
  <2>7. ref[s] \in Int /\ tagged' = tagged
    BY <1>1
  <2>8. \A S : Bit(s, S) \in Int
    BY <1>12
  <2> HIDE DEF q
  <2> QED BY <2>1, <2>4, <2>5, <2>6, <2>7, <2>8
<1>15. q.st \notin {"drop", "done"} /\ tagged' \subseteq Series
  BY <1>1 DEF AtHead, Walking
<1> HIDE DEF q
<1> QED BY <1>6, <1>11, <1>13, <1>14, <1>15, StepOK DEF q

(* New references.                                                         *)
LEMMA AddIs ==
    ASSUME Inv, NEW B
    PROVE  /\ Add(ref, B) \in [Series -> Int]
           /\ \A s \in Series : Add(ref, B)[s] = ref[s] + Bit(s, B)
<1>1. \A s \in Series : ref[s] \in Int
  BY DEF Inv, TypeInv
<1>2. \A s \in Series : One(B)[s] = Bit(s, B)
  BY OneIs
<1>3. \A s : Bit(s, B) \in Int
  BY BitType
<1> QED BY <1>1, <1>2, <1>3 DEF Add

(* enter_series_all and enter_group_tag_match: the operand has a reference *)
(* of its own to each series.                                              *)
LEMMA NewOperandOK ==
    ASSUME Inv, NEW i \in Queries, NEW t, At(i, t), t \in OperandTypes,
           NEW B \in SUBSET Series,
           Enough(qs[i].cb, qs[i].map, live, B, qs[i].nodes[1].x),
           Update(i, qs[i], B, Add(ref, B)), UNCHANGED <<live, tagged, ver>>
    PROVE  Inv'
<1>1. /\ AtHead(qs[i], live) /\ qs[i].nodes[1].t = t
      /\ qs[i].vec = {} /\ qs[i].tmp = {}
  BY AtIs
<1>2. IsOperand(qs[i].nodes[1])
  BY <1>1, OperandHead
<1>3. /\ Add(ref, B) \in [Series -> Int]
      /\ \A s \in Series : Add(ref, B)[s] = ref[s] + Bit(s, B)
  BY AddIs
<1>4. ASSUME NEW s \in Series
      PROVE  Add(ref, B)[s] = ref[s] + Bit(s, B) - Bit(s, qs[i].tmp)
  <2>1. Bit(s, qs[i].tmp) = 0 /\ Bit(s, B) \in Int
    BY <1>1, BitType DEF Bit
  <2>2. ref[s] \in Int
    BY DEF Inv, TypeInv
  <2> QED BY <1>3, <2>1, <2>2
<1> QED BY <1>1, <1>2, <1>3, <1>4, UpdateOK

(* The series that an operand with all series needs.                       *)
LEMMA CandidatesIs ==
    ASSUME NEW q \in Query, live \in SUBSET Series, NEW X, X \subseteq Series \cup Remote
    PROVE  /\ Candidates(q) \in SUBSET Series
           /\ X = Series \cup Remote => Enough(q.cb, q.map, live, Candidates(q), X)
<1>1. q.map \in SUBSET Series
  BY DEF Query
<1> QED BY <1>1 DEF Candidates, Enough

(* enter_series_all keeps the invariant.                                   *)
LEMMA AllOK ==
    ASSUME Inv, NEW i \in Queries, enter_series_all(i)
    PROVE  Inv'
<1>1. At(i, "all") /\ "all" \in OperandTypes
  BY DEF enter_series_all, OperandTypes
<1>2. AtHead(qs[i], live) /\ qs[i].nodes[1].t = "all"
  BY <1>1, AtIs
<1>3. qs[i].nodes[1].x = Series \cup Remote
  BY <1>1, <1>2, OperandHead DEF IsOperand
<1>4. qs[i] \in Query /\ live \in SUBSET Series
  BY HereIs
<1>5. /\ Candidates(qs[i]) \in SUBSET Series
      /\ Enough(qs[i].cb, qs[i].map, live, Candidates(qs[i]), qs[i].nodes[1].x)
  BY <1>3, <1>4, CandidatesIs
<1>6. /\ Update(i, qs[i], Candidates(qs[i]), Add(ref, Candidates(qs[i])))
      /\ UNCHANGED <<live, tagged, ver>>
  BY DEF enter_series_all
<1> QED BY <1>1, <1>5, <1>6, NewOperandOK

-----------------------------------------------------------------------------
(* The end of a query.                                                     *)

(* A query that ends gives back every reference it holds.                  *)
LEMMA FreeOK ==
    ASSUME Inv, NEW i \in Queries, qs[i].st \notin {"drop", "done", "idle"},
           NEW q \in Query, QUERIES_FREE(i, q), UNCHANGED <<live, tagged, ver>>,
           q.stack = qs[i].stack, q.expr = qs[i].expr,
           \A s \in Series : Held(q, s) = Held(qs[i], s),
           q.kind # "none",
           q.kind = "list" =>
              /\ q.n \cap live \subseteq Asked(q) /\ Cardinality(q.n) <= ListLimit
              /\ Cardinality(q.n) < ListLimit => live \cap Asked(q) \subseteq q.n,
           q.kind = "select" => q = qs[i] /\ ~Walking(q)
    PROVE  Inv'
<1> DEFINE z == [q EXCEPT !.st = "done", !.map = {}, !.tmp = {}, !.vec = {},
                          !.stack = <<>>]
<1>1. /\ QueryInv(qs[i], live) /\ qs[i] \in Query /\ tagged \in SUBSET Series
      /\ \A s \in Series : ref[s] \in Int
  BY HereIs
<1>2. /\ qs' = [qs EXCEPT ![i] = z]
      /\ ref' = [s \in Series |-> ref[s] - Holds(q, s)]
  BY DEF QUERIES_FREE, Set
<1>3. <<>> \in Seq(SavedSet)
  OBVIOUS
<1>4. z \in Query
  BY <1>3 DEF Query, Stages
<1>5. /\ z.st = "done" /\ z.kind = q.kind /\ z.expr = q.expr /\ z.map = {}
      /\ z.stack = <<>> /\ z.vec = {} /\ z.tmp = {} /\ z.n = q.n
      /\ z.where = q.where /\ z.master = q.master /\ z.pmap = q.pmap
      /\ z.nsel = q.nsel /\ z.got = q.got /\ z.cache = q.cache
      /\ z.filtered = q.filtered
  BY DEF Query
<1> HIDE DEF z
<1>6. Asked(z) = Asked(q)
  BY <1>5 DEF Asked
<1>7. Expr(z.expr) /\ Len(q.stack) <= 1
  BY <1>1, <1>5 DEF QueryInv, PhaseInv
<1>8. NodesInv(z) /\ WalkInv(z, live) /\ ReInv(z, live)
  BY <1>5 DEF NodesInv, WalkInv, ReInv, Walking
<1>9. PhaseInv(z)
  <2>1. Len(<<>>) <= 1
    OBVIOUS
  <2> QED BY <1>5, <1>7, <2>1 DEF PhaseInv, Walking
<1>10. DropInv(z, live) /\ ListInv(z, live)
  BY <1>5, <1>6 DEF DropInv, ListInv, Walking
<1>11. PoolInv(z)
  <2> SUFFICES ASSUME z.kind = "select", z.master PROVE PoolInv(z)
    BY DEF PoolInv
  <2>1. PoolInv(q) /\ ~Walking(q) /\ ~Walking(z)
    BY <1>1, <1>5 DEF QueryInv, Walking
  <2> QED BY <1>5, <2>1 DEF PoolInv
<1>12. SelectInv(z)
  <2> SUFFICES ASSUME z.kind = "select" PROVE SelectInv(z)
    BY DEF SelectInv
  <2>1. SelectInv(q) /\ ~Walking(z)
    BY <1>1, <1>5 DEF QueryInv, Walking
  <2> QED BY <1>5, <2>1 DEF SelectInv
<1>13. QueryInv(z, live)
  BY <1>4, <1>8, <1>9, <1>10, <1>11, <1>12 DEF QueryInv
<1>14. \A s \in Series : Holds(q, s) = Held(q, s) /\ Held(q, s) \in Nat
  BY <1>7, HoldsIs DEF Query
<1>15. ASSUME NEW s \in Series PROVE Held(z, s) = 0
  <2>1. Bit(s, {}) = 0
    BY DEF Bit
  <2>2. Saved(z) = {}
    BY <1>5 DEF Saved
  <2> QED BY <1>5, <2>1, <2>2 DEF Held
<1>16. ref' \in [Series -> Int]
  BY <1>1, <1>2, <1>14
<1>17. ASSUME NEW s \in Series
       PROVE  ref'[s] = ref[s] + (Bit(s, tagged') - Bit(s, tagged))
                        + (Held(z, s) - Held(qs[i], s))
  <2>1. ref'[s] = ref[s] - Held(q, s)
    BY <1>2, <1>14
  <2>2. Held(q, s) = Held(qs[i], s) /\ Held(q, s) \in Nat /\ Held(z, s) = 0
    BY <1>14, <1>15
  <2>3. ref[s] \in Int /\ Bit(s, tagged') \in Int /\ tagged' = tagged
    BY <1>1, BitType
  <2> QED BY <2>1, <2>2, <2>3
<1> QED BY <1>1, <1>2, <1>13, <1>16, <1>17, StepOK

-----------------------------------------------------------------------------
(* Regular expressions.                                                    *)

\* What stays the same between two nodes.
SameWalk(q, z) ==
    /\ z.expr = q.expr /\ z.kind = q.kind /\ z.nodes = q.nodes
    /\ z.map = q.map /\ z.cb = q.cb /\ z.stack = q.stack

(* A step to or in the loop of a regular expression.                       *)
LEMMA ReStage ==
    ASSUME NEW q, NEW L, QueryInv(q, L), Walking(q), NEW z \in Query, z.st = "re",
           SameWalk(q, z), SameRest(q, z), ReInv(z, L),
           z.pmap = Remote \/ (q.st = "re" /\ z.pmap = q.pmap)
    PROVE  QueryInv(z, L)
<1>1. Walking(z)
  BY DEF Walking
<1>2. Ahead(z) = Ahead(q)
  BY DEF Ahead, SameWalk
<1>3. NodesInv(z)
  BY <1>1 DEF QueryInv, NodesInv, SameWalk
<1>4. AtNode(q, L)
  BY DEF QueryInv, WalkInv
<1>5. \A S : MapIs(q, L, S) <=> MapIs(z, L, S)
  BY DEF MapIs, SameWalk
<1>6. Empty(q) <=> Empty(z)
  BY DEF Empty, SameWalk
<1>7. AtNode(z, L)
  <2>1. ASSUME Single(q.expr) PROVE AtSingle(z, L, Ahead(q))
    BY <1>4, <1>5, <1>6, <2>1 DEF AtNode, AtSingle, SameWalk
  <2>2. ASSUME Double(q.expr) PROVE AtDouble(z, L, Ahead(q))
    BY <1>4, <1>5, <1>6, <2>2 DEF AtNode, AtDouble, SameWalk
  <2>3. ASSUME LeftParen(q.expr) PROVE AtLeft(z, L, Ahead(q))
    BY <1>4, <1>5, <1>6, <2>3 DEF AtNode, AtLeft, SameWalk
  <2>4. ASSUME RightParen(q.expr) PROVE AtRight(z, L, Ahead(q))
    BY <1>4, <1>5, <1>6, <2>4 DEF AtNode, AtRight, SameWalk
  <2> QED BY <1>2, <2>1, <2>2, <2>3, <2>4 DEF AtNode, SameWalk
<1>8. WalkInv(z, L)
  BY <1>7 DEF WalkInv
<1>9. PhaseInv(z)
  BY <1>1 DEF QueryInv, PhaseInv, SameWalk, SameRest, Walking
<1>10. DropInv(z, L)
  BY DEF DropInv
<1>11. ListInv(z, L)
  BY DEF QueryInv, ListInv, SameWalk, SameRest
<1>12. PoolInv(z)
  BY <1>1, <1>2 DEF QueryInv, PoolInv, SameWalk, SameRest
<1>13. SelectInv(z)
  BY DEF QueryInv, SelectInv, SameWalk, SameRest
<1> QED BY <1>3, <1>8, <1>9, <1>10, <1>11, <1>12, <1>13 DEF QueryInv

(* A query that fails ends.                                                *)
LEMMA ErrorOK ==
    ASSUME Inv, NEW i \in Queries, qs[i].st \notin {"drop", "done", "idle"},
           QUERIES_FREE(i, [qs[i] EXCEPT !.kind = "error"]),
           UNCHANGED <<live, tagged, ver>>
    PROVE  Inv'
<1> DEFINE q == [qs[i] EXCEPT !.kind = "error"]
<1>1. qs[i] \in Query
  BY HereIs
<1>2. q \in Query
  BY <1>1 DEF Query
<1>3. /\ q.kind = "error" /\ q.stack = qs[i].stack /\ q.expr = qs[i].expr
      /\ q.map = qs[i].map /\ q.tmp = qs[i].tmp /\ q.vec = qs[i].vec
  BY <1>1 DEF Query
<1>4. QUERIES_FREE(i, q)
  OBVIOUS
<1> HIDE DEF q
<1>5. \A s : Held(q, s) = Held(qs[i], s)
  BY <1>3 DEF Held, Saved
<1>6. q.kind # "none" /\ q.kind # "list" /\ q.kind # "select"
  BY <1>3
<1> QED BY <1>2, <1>3, <1>4, <1>5, <1>6, FreeOK

(* enter_group_tag_match keeps the invariant.                              *)
LEMMA GroupOK ==
    ASSUME Inv, NEW i \in Queries, enter_group_tag_match(i)
    PROVE  Inv'
<1>1. At(i, "group") /\ "group" \in OperandTypes
  BY DEF enter_group_tag_match, OperandTypes
<1>2. AtHead(qs[i], live) /\ qs[i].nodes[1].t = "group"
  BY <1>1, AtIs
<1>3. qs[i].nodes[1].x = Members
  BY <1>1, <1>2, OperandHead DEF IsOperand
<1>4. Members \in SUBSET Series
  BY SeriesMatchAssumption
<1>5. Enough(qs[i].cb, qs[i].map, live, Members, qs[i].nodes[1].x)
  BY <1>3 DEF Enough
<1>6. UNCHANGED <<live, tagged, ver>>
  BY DEF enter_group_tag_match
<1>7. CASE QUERIES_FREE(i, [qs[i] EXCEPT !.kind = "error"])
  <2>1. qs[i].st \notin {"drop", "done", "idle"}
    BY <1>1 DEF At
  <2> QED BY <1>6, <1>7, <2>1, ErrorOK
<1>8. CASE Update(i, qs[i], Members, Add(ref, Members))
  BY <1>1, <1>4, <1>5, <1>6, <1>8, NewOperandOK
<1> QED BY <1>7, <1>8 DEF enter_group_tag_match

(* enter_series_re keeps the invariant.                                    *)
LEMMA ReOK ==
    ASSUME Inv, NEW i \in Queries, enter_series_re(i)
    PROVE  Inv'
<1> DEFINE q == qs[i]
           C == Candidates(q)
           z == [q EXCEPT !.st = "re", !.vec = C, !.pmap = Remote]
<1>1. /\ AtHead(q, live) /\ q.nodes[1].t = "re" /\ q.st = "walk"
      /\ q.vec = {} /\ q.tmp = {}
  BY AtIs DEF enter_series_re
<1>2. /\ QueryInv(q, live) /\ q \in Query /\ live \in SUBSET Series
      /\ tagged \in SUBSET Series /\ \A s \in Series : ref[s] \in Int
  BY HereIs
<1>3. UNCHANGED <<live, tagged, ver>>
  BY DEF enter_series_re
<1>4. CASE QUERIES_FREE(i, [q EXCEPT !.kind = "error"])
  BY <1>1, <1>3, <1>4, ErrorOK
<1>5. CASE ref' = Add(ref, C) /\ Set(i, z)
  <2>1. C \in SUBSET Series
    BY <1>2, CandidatesIs
  <2>2. /\ q.cb \in {"none", "union", "symmetric"} => C = live
        /\ q.cb \notin {"none", "union", "symmetric"} => C = q.map
    BY DEF Candidates
  <2> HIDE DEF C
  <2>3. z \in Query
    BY <1>2, <2>1 DEF Query, Stages
  <2>4. /\ z.st = "re" /\ SameWalk(q, z) /\ SameRest(q, z) /\ z.pmap = Remote
        /\ z.vec = C /\ z.tmp = q.tmp
    BY <1>2 DEF Query, SameWalk, SameRest
  <2>5. qs' = [qs EXCEPT ![i] = z]
    BY <1>5 DEF Set
  <2> HIDE DEF z
  <2>6. ReInv(z, live)
    <3>1. q.nodes # <<>>
      BY <1>1 DEF AtHead
    <3> QED BY <1>1, <2>2, <2>4, <3>1 DEF ReInv, SameWalk
  <2>7. QueryInv(z, live)
    BY <1>1, <1>2, <2>3, <2>4, <2>6, ReStage DEF Walking
  <2>8. /\ ref' \in [Series -> Int]
        /\ \A s \in Series : ref'[s] = ref[s] + Bit(s, C)
    BY <1>5, AddIs
  <2>9. ASSUME NEW s \in Series
        PROVE  ref'[s] = ref[s] + (Bit(s, tagged') - Bit(s, tagged))
                         + (Held(z, s) - Held(q, s))
    <3>1. Saved(z) = Saved(q) /\ z.map = q.map
      BY <2>4 DEF Saved, SameWalk
    <3>2. Bit(s, {}) = 0 /\ \A S : Bit(s, S) \in Int
      BY BitType DEF Bit
    <3>3. /\ Held(z, s) = Bit(s, q.map) + 0 + Bit(s, C) + Bit(s, Saved(q))
          /\ Held(q, s) = Bit(s, q.map) + 0 + 0 + Bit(s, Saved(q))
      BY <1>1, <2>4, <3>1, <3>2 DEF Held
    <3>4. ref[s] \in Int /\ tagged' = tagged
      BY <1>2, <1>3
    <3> HIDE DEF q
    <3> QED BY <2>8, <3>2, <3>3, <3>4
  <2>10. q.st \notin {"drop", "done"} /\ tagged' \subseteq Series
    BY <1>1, <1>2, <1>3
  <2> HIDE DEF q
  <2> QED BY <1>3, <2>5, <2>7, <2>8, <2>9, <2>10, StepOK DEF q
<1> QED BY <1>4, <1>5 DEF enter_series_re

(* A query gives up the reference of one series of its list.               *)
LEMMA ReleaseOne ==
    ASSUME Inv, NEW i \in Queries, NEW s \in qs[i].vec, NEW z,
           qs' = [qs EXCEPT ![i] = z], qs[i].st \notin {"drop", "done"},
           QueryInv(z, live), UNCHANGED <<live, tagged, ver>>,
           ref' = Drop(ref, One({s})),
           /\ z.map = qs[i].map /\ z.tmp = qs[i].tmp
           /\ z.vec = qs[i].vec \ {s} /\ z.stack = qs[i].stack
    PROVE  Inv'
<1> DEFINE q == qs[i]
<1>1. /\ tagged \in SUBSET Series /\ ref \in [Series -> Int]
      /\ \A x \in Series : ref[x] \in Int
  BY HereIs
<1>2. \A x, S : Bit(x, S) \in Int
  BY BitType
<1>3. \A x \in Series : ref'[x] = ref[x] - Bit(x, {s})
  BY OneIs DEF Drop
<1>4. ref' \in [Series -> Int]
  BY <1>1, <1>2, OneIs DEF Drop
<1>5. ASSUME NEW x \in Series
      PROVE  ref'[x] = ref[x] + (Bit(x, tagged') - Bit(x, tagged))
                       + (Held(z, x) - Held(q, x))
  <2>1. Saved(z) = Saved(q)
    BY DEF Saved
  <2>2. Bit(x, q.vec \ {s}) = Bit(x, q.vec) - Bit(x, {s})
    BY DEF Bit
  <2>3. /\ Held(z, x) = Bit(x, q.map) + Bit(x, q.tmp)
                        + Bit(x, q.vec \ {s}) + Bit(x, Saved(q))
        /\ Held(q, x) = Bit(x, q.map) + Bit(x, q.tmp) + Bit(x, q.vec)
                        + Bit(x, Saved(q))
    BY <2>1 DEF Held
  <2>4. ref[x] \in Int /\ tagged' = tagged
    BY <1>1
  <2>5. ref'[x] = ref[x] - Bit(x, {s})
    BY <1>3
  <2> HIDE DEF q
  <2> QED BY <1>2, <2>2, <2>3, <2>4, <2>5
<1>6. tagged' \subseteq Series
  BY <1>1
<1> HIDE DEF q
<1> QED BY <1>4, <1>5, <1>6, StepOK DEF q

(* One series of the regular expression: moved to the result or released.  *)
LEMMA ReLoop ==
    ASSUME Inv, NEW i \in Queries, qs[i].st = "re", NEW s \in qs[i].vec,
           async_series_re(i),
           IF s \in Matching
           THEN /\ Set(i, [qs[i] EXCEPT !.vec = @ \ {s}, !.tmp = @ \cup {s}])
                /\ UNCHANGED ref
           ELSE /\ Set(i, [qs[i] EXCEPT !.vec = @ \ {s}])
                /\ ref' = Drop(ref, One({s}))
    PROVE  Inv'
<1> DEFINE q == qs[i]
<1>1. /\ QueryInv(q, live) /\ q \in Query /\ live \in SUBSET Series
      /\ tagged \in SUBSET Series /\ ref \in [Series -> Int]
      /\ \A x \in Series : ref[x] \in Int
  BY HereIs
<1>2. UNCHANGED <<live, tagged, ver>>
  BY DEF async_series_re
<1>3. s \in Series /\ q.vec \in SUBSET Series /\ q.tmp \in SUBSET Series
  BY <1>1 DEF Query
<1>4. ReInv(q, live) /\ q.vec \cap q.tmp = {} /\ Walking(q)
  BY <1>1 DEF QueryInv, ReInv, Walking
<1>5. q.st \notin {"drop", "done"} /\ tagged' \subseteq Series
  BY <1>1, <1>2
<1>6. CASE s \in Matching
  <2> DEFINE z == [q EXCEPT !.vec = @ \ {s}, !.tmp = @ \cup {s}]
  <2>1. z \in Query
    BY <1>1, <1>3 DEF Query
  <2>2. /\ z.st = "re" /\ SameWalk(q, z) /\ SameRest(q, z) /\ z.pmap = q.pmap
        /\ z.vec = q.vec \ {s} /\ z.tmp = q.tmp \cup {s}
    BY <1>1 DEF Query, SameWalk, SameRest
  <2>3. qs' = [qs EXCEPT ![i] = z] /\ ref' = ref
    BY <1>6 DEF Set
  <2> HIDE DEF z
  <2>4. ReInv(z, live)
    BY <1>4, <1>6, <2>2 DEF ReInv, SameWalk
  <2>5. QueryInv(z, live)
    BY <1>1, <1>4, <2>1, <2>2, <2>4, ReStage
  <2>6. ASSUME NEW x \in Series PROVE Held(z, x) = Held(q, x)
    <3>1. Saved(z) = Saved(q) /\ z.map = q.map
      BY <2>2 DEF Saved, SameWalk
    <3>2. Bit(x, q.vec \ {s}) + Bit(x, q.tmp \cup {s}) = Bit(x, q.vec) + Bit(x, q.tmp)
      BY <1>4 DEF Bit
    <3>3. \A S : Bit(x, S) \in Int
      BY BitType
    <3>4. /\ Held(z, x) = Bit(x, q.map) + Bit(x, q.tmp \cup {s})
                          + Bit(x, q.vec \ {s}) + Bit(x, Saved(q))
          /\ Held(q, x) = Bit(x, q.map) + Bit(x, q.tmp) + Bit(x, q.vec)
                          + Bit(x, Saved(q))
      BY <2>2, <3>1 DEF Held
    <3> HIDE DEF q
    <3> QED BY <3>2, <3>3, <3>4
  <2> HIDE DEF q
  <2> QED BY <1>2, <1>5, <2>3, <2>5, <2>6, SameRefs DEF q
<1>7. CASE s \notin Matching
  <2> DEFINE z == [q EXCEPT !.vec = @ \ {s}]
  <2>1. z \in Query
    BY <1>1, <1>3 DEF Query
  <2>2. /\ z.st = "re" /\ SameWalk(q, z) /\ SameRest(q, z) /\ z.pmap = q.pmap
        /\ z.vec = q.vec \ {s} /\ z.tmp = q.tmp
    BY <1>1 DEF Query, SameWalk, SameRest
  <2>3. qs' = [qs EXCEPT ![i] = z] /\ ref' = Drop(ref, One({s}))
    BY <1>7 DEF Set
  <2> HIDE DEF z
  <2>4. ReInv(z, live)
    BY <1>4, <1>7, <2>2 DEF ReInv, SameWalk
  <2>5. QueryInv(z, live)
    BY <1>1, <1>4, <2>1, <2>2, <2>4, ReStage
  <2>6. /\ z.map = q.map /\ z.tmp = q.tmp /\ z.vec = q.vec \ {s}
        /\ z.stack = q.stack
    BY <2>2 DEF SameWalk
  <2> HIDE DEF q
  <2> QED BY <1>2, <1>5, <2>3, <2>5, <2>6, ReleaseOne DEF q
<1> QED BY <1>6, <1>7

(* async_series_re keeps the invariant.                                    *)
LEMMA AsyncReOK ==
    ASSUME Inv, NEW i \in Queries, async_series_re(i)
    PROVE  Inv'
<1> DEFINE q == qs[i]
<1>1. /\ QueryInv(q, live) /\ q \in Query /\ live \in SUBSET Series
      /\ ref \in [Series -> Int] /\ \A x \in Series : ref[x] \in Int
  BY HereIs
<1>2. q.st = "re" /\ UNCHANGED <<live, tagged, ver>>
  BY DEF async_series_re
<1>3. CASE q.vec = {}
  <2>1. Update(i, q, q.tmp, ref)
    BY <1>3 DEF async_series_re
  <2>2. AtHead(q, live)
    BY <1>1, <1>2 DEF AtHead, QueryInv, PhaseInv, WalkInv, ReInv, Walking
  <2>3. q.nodes[1].t = "re" /\ ReInv(q, live)
    BY <1>1, <1>2 DEF QueryInv, ReInv
  <2>4. IsOperand(q.nodes[1])
    BY <2>2, <2>3, OperandHead DEF OperandTypes
  <2>5. q.nodes[1].x = Matching
    BY <2>3, <2>4 DEF IsOperand
  <2>6. q.tmp \in SUBSET Series
    BY <1>1 DEF Query
  <2>7. Enough(q.cb, q.map, live, q.tmp, q.nodes[1].x)
    BY <1>2, <1>3, <2>3, <2>5 DEF Enough, ReInv
  <2>8. ASSUME NEW s \in Series
        PROVE  ref[s] = ref[s] + Bit(s, q.tmp) - Bit(s, q.tmp)
    BY <1>1, BitType
  <2> HIDE DEF q
  <2> QED BY <1>1, <1>2, <1>3, <2>1, <2>2, <2>4, <2>6, <2>7, <2>8, UpdateOK DEF q
<1>4. CASE q.vec # {}
  <2>1. PICK s \in q.vec :
           IF s \in Matching
           THEN /\ Set(i, [q EXCEPT !.vec = @ \ {s}, !.tmp = @ \cup {s}])
                /\ UNCHANGED ref
           ELSE /\ Set(i, [q EXCEPT !.vec = @ \ {s}])
                /\ ref' = Drop(ref, One({s}))
    BY <1>4 DEF async_series_re
  <2> QED BY <1>2, <2>1, ReLoop
<1> QED BY <1>3, <1>4

-----------------------------------------------------------------------------
(* Parentheses.                                                            *)

\* What waits for the closing parenthesis.
Waiting(q) == [map |-> q.map, cb |-> q.cb]

(* The map moves to the stack when a parenthesis opens.                    *)
LEMMA OpenNew ==
    ASSUME Inv, NEW i \in Queries, At(i, "("), NEW z \in Query,
           qs' = [qs EXCEPT ![i] = z], UNCHANGED <<live, ref, tagged, ver>>,
           After(qs[i], z), SameRest(qs[i], z), z.st = "walk", z.vec = {}, z.tmp = {},
           z.pmap = qs[i].pmap, z.map = {}, z.cb = "none",
           z.stack = <<Waiting(qs[i])>>
    PROVE  Inv'
<1> DEFINE q == qs[i]
<1>1. /\ AtHead(q, live) /\ q.nodes[1].t = "(" /\ q.st = "walk"
      /\ q.vec = {} /\ q.tmp = {}
  BY AtIs
<1>2. QueryInv(q, live)
  BY HereIs
<1>3. q.stack = <<>> /\ AtNode(z, live)
  BY <1>1, OpenStep DEF Waiting
<1>4. ~IsOperand(q.nodes[1])
  BY <1>1 DEF IsOperand, OperandTypes
<1>5. Len(z.stack) = 1 /\ z.stack[1] = Waiting(q)
  OBVIOUS
<1>6. QueryInv(z, live)
  <2>1. Len(z.stack) <= 1 /\ q.pmap \subseteq z.pmap
    BY <1>5
  <2> HIDE DEF q
  <2>2. After(q, z) /\ SameRest(q, z)
    BY DEF q
  <2> QED BY <1>1, <1>2, <1>3, <1>4, <2>1, <2>2, WalkStep
<1>7. Saved(z) = q.map /\ Saved(q) = {}
  BY <1>3, <1>5 DEF Saved, Waiting
<1>8. \A s : Held(z, s) = Held(q, s)
  BY <1>1, <1>7, BitType DEF Held
<1>9. q.st \notin {"drop", "done"}
  BY <1>1
<1> HIDE DEF q
<1>10. Becomes(i, z)
  BY <1>6, <1>8, <1>9 DEF Becomes, q
<1> QED BY <1>10, BecomesOK

(* enter_series_parentheses keeps the invariant.                           *)
LEMMA OpenOK ==
    ASSUME Inv, NEW i \in Queries, enter_series_parentheses(i)
    PROVE  Inv'
<1> DEFINE q == qs[i]
           w == Waiting(q)
           st == Append(q.stack, w)
<1>1. /\ At(i, "(") /\ AtHead(q, live) /\ q.nodes[1].t = "(" /\ q.st = "walk"
      /\ q.vec = {} /\ q.tmp = {}
  BY AtIs DEF enter_series_parentheses
<1>2. q \in Query
  BY HereIs
<1>3. q.stack = <<>> /\ (q.cb = "none" => q.map = {})
  BY <1>1, OpenStep
<1>4. Tail(q.nodes) \in Seq(Node)
  BY <1>1, TailIs
<1>5. w \in SavedSet
  BY <1>2 DEF Query, SavedSet, Waiting
<1>6. st \in Seq(SavedSet)
  BY <1>3, <1>5
<1>7. st = <<w>>
  BY <1>3
<1> HIDE DEF st
<1>8. UNCHANGED <<live, ref, tagged, ver>>
  BY DEF enter_series_parentheses
<1>9. CASE q.cb # "none"
  <2> DEFINE z == [NextNode(q) EXCEPT !.cb = "none", !.map = {}, !.stack = st]
  <2>1. NextNode(q).stack = q.stack
    BY <1>2 DEF NextNode, Query
  <2>2. Set(i, z)
    BY <1>9, <2>1 DEF enter_series_parentheses, st, Waiting
  <2>3. qs' = [qs EXCEPT ![i] = z]
    BY <2>2 DEF Set
  <2>4. z \in Query
    BY <1>2, <1>4, <1>6 DEF Query, NextNode
  <2>5. /\ After(q, z) /\ SameRest(q, z) /\ z.st = q.st /\ z.vec = q.vec
        /\ z.tmp = q.tmp /\ z.stack = st /\ z.pmap = q.pmap
        /\ z.cb = "none" /\ z.map = {}
    BY <1>2 DEF Query, NextNode, After, SameRest
  <2> HIDE DEF z, q
  <2> QED BY <1>1, <1>7, <1>8, <2>3, <2>4, <2>5, OpenNew DEF q
<1>10. CASE q.cb = "none"
  <2> DEFINE z == [NextNode(q) EXCEPT !.stack = st]
  <2>1. NextNode(q).stack = q.stack
    BY <1>2 DEF NextNode, Query
  <2>2. w = [map |-> {}, cb |-> "none"]
    BY <1>3, <1>10 DEF Waiting
  <2>3. Set(i, z)
    BY <1>10, <2>1, <2>2 DEF enter_series_parentheses, st
  <2>4. qs' = [qs EXCEPT ![i] = z]
    BY <2>3 DEF Set
  <2>5. z \in Query
    BY <1>2, <1>4, <1>6 DEF Query, NextNode
  <2>6. /\ After(q, z) /\ SameRest(q, z) /\ z.st = q.st /\ z.vec = q.vec
        /\ z.tmp = q.tmp /\ z.stack = st /\ z.pmap = q.pmap
        /\ z.cb = q.cb /\ z.map = q.map
    BY <1>2 DEF Query, NextNode, After, SameRest
  <2> HIDE DEF z, q
  <2> QED BY <1>1, <1>3, <1>7, <1>8, <1>10, <2>4, <2>5, <2>6, OpenNew DEF q
<1> QED BY <1>9, <1>10

(* exit_series_parentheses keeps the invariant.                            *)
LEMMA CloseOK ==
    ASSUME Inv, NEW i \in Queries, exit_series_parentheses(i)
    PROVE  Inv'
<1> DEFINE q == qs[i]
           sset == q.stack[1]
           u == update_cb(sset.cb, sset.map, q.map)
           m == Updated(sset.cb, sset.map, q.map)
           p == NextNode([q EXCEPT !.stack = <<>>])
           z == [p EXCEPT !.map = m]
<1>1. /\ AtHead(q, live) /\ q.nodes[1].t = ")" /\ q.st = "walk"
      /\ q.vec = {} /\ q.tmp = {}
  BY AtIs DEF exit_series_parentheses
<1>2. /\ QueryInv(q, live) /\ q \in Query /\ live \in SUBSET Series
      /\ tagged \in SUBSET Series /\ ref \in [Series -> Int]
      /\ \A s \in Series : ref[s] \in Int
  BY HereIs
<1>3. Tail(q.nodes) \in Seq(Node)
  BY <1>1, TailIs
<1>4. /\ Len(q.stack) = 1 /\ (sset.cb = "none" => sset.map = {})
      /\ \A x : /\ After(q, x) /\ x.stack = <<>>
                /\ x.map \cap live = Closed(q) \cap live
                => AtNode(x, live)
  BY <1>1, CloseStep
<1>5. q.map \in SUBSET Series /\ q.stack \in Seq(SavedSet)
  BY <1>2 DEF Query
<1>6. Front(q.stack) = <<>> /\ Last(q.stack) = sset /\ sset \in SavedSet
  BY <1>4, <1>5 DEF Front, Last
<1>7. sset.cb \in AllOperators \cup {"none"} /\ sset.map \in SUBSET Series
  BY <1>6 DEF SavedSet
<1>8. /\ u.map = m /\ m \in SUBSET Series
      /\ \A s \in Series : u.lost[s] = Bit(s, sset.map) + Bit(s, q.map) - Bit(s, m)
  <2>1. q.map \in SUBSET Series /\ (sset.cb = "none" => sset.map = {})
    BY <1>4, <1>5
  <2>2. ResultIs(u, sset.cb, sset.map, q.map)
    BY <1>7, <2>1, ResultOK
  <2> HIDE DEF u, q, z, sset
  <2> QED BY <2>2 DEF ResultIs
<1>9. UNCHANGED <<live, tagged, ver>>
  BY DEF exit_series_parentheses
<1>10. m \cap live = Closed(q) \cap live
  BY <1>2, <1>5 DEF Updated, Closed
<1>0. p.map = q.map /\ <<>> \in Seq(SavedSet)
  BY <1>2 DEF Query, NextNode
<1>11. p = [q EXCEPT !.stack = <<>>, !.nodes = Tail(q.nodes)]
  BY <1>2 DEF Query, NextNode
<1>12. /\ qs' = [qs EXCEPT ![i] = z]
       /\ ref' \in [Series -> Int]
       /\ \A s \in Series : ref'[s] = ref[s] - (Bit(s, sset.map) + Bit(s, q.map) - Bit(s, m))
  <2>0. \A s, S : Bit(s, S) \in Int
    BY BitType
  <2>1. CASE sset.cb # "none"
    <3>1. Set(i, [p EXCEPT !.map = u.map]) /\ ref' = Drop(ref, u.lost)
      BY <1>0, <1>6, <2>1 DEF exit_series_parentheses
    <3>2. qs' = [qs EXCEPT ![i] = z]
      BY <1>8, <3>1 DEF Set
    <3> HIDE DEF u, m, q
    <3> QED BY <1>2, <1>8, <2>0, <3>1, <3>2 DEF Drop
  <2>2. CASE sset.cb = "none"
    <3>1. Set(i, p) /\ ref' = ref
      BY <1>6, <2>2 DEF exit_series_parentheses
    <3>2. m = q.map /\ sset.map = {}
      BY <1>4, <2>2 DEF Updated
    <3>3. z = p
      BY <1>2, <1>11, <3>2 DEF Query
    <3>4. \A s \in Series : Bit(s, sset.map) = 0
      BY <3>2 DEF Bit
    <3>5. qs' = [qs EXCEPT ![i] = z]
      BY <3>1, <3>3 DEF Set
    <3> HIDE DEF m, q, sset, z
    <3> QED BY <1>2, <2>0, <3>1, <3>2, <3>4, <3>5
  <2> QED BY <2>1, <2>2
<1> HIDE DEF m
<1>13. z \in Query
  BY <1>0, <1>2, <1>3, <1>8 DEF Query, NextNode
<1>14. /\ After(q, z) /\ SameRest(q, z) /\ z.st = q.st /\ z.vec = q.vec
       /\ z.tmp = q.tmp /\ z.stack = <<>> /\ z.pmap = q.pmap
       /\ z.map = m
  BY <1>2 DEF Query, NextNode, After, SameRest
<1> HIDE DEF z, p
<1>15. AtNode(z, live)
  BY <1>4, <1>10, <1>14
<1>16. ~IsOperand(q.nodes[1])
  BY <1>1 DEF IsOperand, OperandTypes
<1>17. Len(z.stack) <= 1
  BY <1>14
<1>18. QueryInv(z, live)
  BY <1>1, <1>2, <1>13, <1>14, <1>15, <1>16, <1>17, WalkStep
<1>19. ASSUME NEW s \in Series
       PROVE  ref'[s] = ref[s] + (Bit(s, tagged') - Bit(s, tagged))
                        + (Held(z, s) - Held(q, s))
  <2>1. Saved(z) = {} /\ Saved(q) = sset.map
    BY <1>4, <1>14 DEF Saved
  <2>2. Bit(s, {}) = 0 /\ \A S : Bit(s, S) \in Int
    BY BitType DEF Bit
  <2>3. /\ Held(z, s) = Bit(s, m) + 0 + 0 + 0
        /\ Held(q, s) = Bit(s, q.map) + 0 + 0 + Bit(s, sset.map)
    BY <1>1, <1>14, <2>1, <2>2 DEF Held
  <2>4. ref[s] \in Int /\ tagged' = tagged
    BY <1>2, <1>9
  <2>5. ref'[s] = ref[s] - (Bit(s, sset.map) + Bit(s, q.map) - Bit(s, m))
    BY <1>12
  <2> HIDE DEF q, sset
  <2> QED BY <2>2, <2>3, <2>4, <2>5
<1>20. q.st \notin {"drop", "done"} /\ tagged' \subseteq Series
  BY <1>1, <1>2, <1>9
<1> HIDE DEF q
<1> QED BY <1>9, <1>12, <1>18, <1>19, <1>20, StepOK DEF q

-----------------------------------------------------------------------------
(* The end of the walk.                                                    *)

(* An operator adds nothing that is in neither set.                        *)
LEMMA SetOprIn ==
    ASSUME NEW o \in AllOperators, NEW A, NEW B
    PROVE  SetOpr(o, A, B) \subseteq A \cup B
<1> SUFFICES ASSUME NEW s \in SetOpr(o, A, B) PROVE s \in A \/ s \in B
  OBVIOUS
<1>1. s \in Series \cup Remote
  BY SetOprType
<1> QED BY <1>1, SetOprIs DEF AllOperators

(* exit_series_match keeps the invariant.                                  *)
LEMMA MatchedOK ==
    ASSUME Inv, NEW i \in Queries, exit_series_match(i)
    PROVE  Inv'
<1> DEFINE q == qs[i]
           st == IF q.kind \in {"tag", "untag"} THEN "end" ELSE "exit"
           k == (q.kind = "select" /\ q.nsel > 1)
           z == [NextNode(q) EXCEPT !.st = st, !.keep = k]
<1>1. /\ AtHead(q, live) /\ q.nodes[1].t = "matched" /\ q.st = "walk"
      /\ q.vec = {} /\ q.tmp = {}
  BY AtIs DEF exit_series_match
<1>2. QueryInv(q, live) /\ q \in Query /\ live \in SUBSET Series
  BY HereIs
<1>3. Tail(q.nodes) \in Seq(Node)
  BY <1>1, TailIs
<1>4. st \in Stages /\ st \in {"end", "exit"} /\ k \in BOOLEAN
  BY DEF Stages
<1>5. qs' = [qs EXCEPT ![i] = z] /\ UNCHANGED <<live, ref, tagged, ver>>
  BY DEF exit_series_match, Set
<1>6. /\ IsTag(q.kind) => st = "end"
      /\ ~IsTag(q.kind) => st = "exit"
  BY DEF IsTag
<1> HIDE DEF st
<1>7. q.kind = "select" /\ q.nsel = 2 => k = TRUE
  OBVIOUS
<1> HIDE DEF k
<1>8. z \in Query
  BY <1>2, <1>3, <1>4 DEF Query, NextNode
<1>9. /\ After(q, z) /\ SameRest(q, z) /\ z.st = st /\ z.vec = q.vec
      /\ z.tmp = q.tmp /\ z.stack = q.stack /\ z.pmap = q.pmap
      /\ z.map = q.map /\ z.keep = k
  BY <1>2 DEF Query, NextNode, After, SameRest
<1> HIDE DEF z
<1>10. q.stack = <<>> /\ (~IsTag(q.kind) => MapIs(q, live, Walked(q.expr)) /\ Ahead(q) = 0)
  BY <1>1, MatchedStep
<1>11. z.kind = q.kind /\ z.expr = q.expr /\ z.st \in {"end", "exit"} /\ ~Walking(z)
  BY <1>4, <1>9 DEF After, Walking
<1>12. q.kind \in AllKinds /\ Walking(q) /\ Expr(q.expr) /\ q.filtered = FALSE
  BY <1>1, <1>2 DEF QueryInv, PhaseInv, Walking
<1>13. NodesInv(z) /\ WalkInv(z, live) /\ ReInv(z, live)
  BY <1>11 DEF NodesInv, WalkInv, ReInv, Walking
<1>14. PhaseInv(z)
  <2>1. Len(z.stack) <= 1
    BY <1>9, <1>10
  <2>2. z.st = "exit" => q.kind \in {"list", "count", "drop", "select", "skip"}
    BY <1>6, <1>9, <1>12 DEF AllKinds, IsTag
  <2>3. z.kind # "none" /\ z.st # "idle"
    BY <1>11, <1>12 DEF AllKinds
  <2>4. z.vec = {} /\ z.tmp = {} /\ z.filtered = FALSE
    BY <1>1, <1>9, <1>12 DEF SameRest
  <2>5. z.st = "end" => IsTag(z.kind)
    BY <1>6, <1>9, <1>11
  <2> QED BY <1>11, <1>12, <2>1, <2>2, <2>3, <2>4, <2>5 DEF PhaseInv
<1>15. DropInv(z, live)
  BY <1>1, <1>6, <1>9, <1>10, <1>11 DEF DropInv, MapIs, IsTag
<1>16. ListInv(z, live)
  <2>1. q.kind = "list" => q.n = {} /\ Cardinality(q.n) <= ListLimit
    BY <1>2, <1>12 DEF QueryInv, ListInv
  <2>2. q.kind = "list" => MapIs(z, live, Walked(z.expr))
    BY <1>9, <1>10, <1>11 DEF MapIs, IsTag
  <2> QED BY <1>9, <1>11, <2>1, <2>2 DEF ListInv, SameRest
<1>17. PoolInv(z)
  <2> SUFFICES ASSUME q.kind = "select", q.master PROVE PoolInv(z)
    BY <1>9, <1>11 DEF PoolInv, SameRest
  <2>1. Ahead(q) = 0
    BY <1>10 DEF IsTag
  <2>2. 0 \in 0..2
    OBVIOUS
  <2>3. /\ Single(q.expr) \/ Double(q.expr)
        /\ Single(q.expr) => q.expr[1].x \cap Remote \subseteq q.pmap
        /\ Double(q.expr) => (q.expr[1].x \cup q.expr[3].x) \cap Remote \subseteq q.pmap
    BY <1>2, <1>12, <2>1, <2>2 DEF QueryInv, PoolInv
  <2>4. ASSUME Single(q.expr) PROVE Walked(q.expr) = q.expr[1].x
    BY <2>4 DEF Single, Walked
  <2>5. ASSUME Double(q.expr)
        PROVE  Walked(q.expr) \subseteq q.expr[1].x \cup q.expr[3].x
    <3>1. q.expr[2].x \in AllOperators
      BY <2>5 DEF Double, IsOpr, Node, PlainTypes, OperandTypes
    <3>2. Walked(q.expr) = SetOpr(q.expr[2].x, q.expr[1].x, q.expr[3].x)
      BY <2>5 DEF Double, Walked
    <3> HIDE DEF q
    <3> QED BY <3>1, <3>2, SetOprIn
  <2>6. Walked(q.expr) \cap Remote \subseteq q.pmap
    BY <2>3, <2>4, <2>5
  <2> HIDE DEF q
  <2> QED BY <1>9, <1>11, <2>3, <2>6 DEF PoolInv
<1>18. SelectInv(z)
  <2> SUFFICES ASSUME q.kind = "select" PROVE SelectInv(z)
    BY <1>11 DEF SelectInv
  <2>1. q.nsel = 2 /\ q.got = {} /\ q.cache = {}
    BY <1>2, <1>12 DEF QueryInv, SelectInv
  <2>2. z.keep = TRUE /\ z.nsel = 2 /\ z.got = {} /\ z.cache = {}
    BY <1>7, <1>9, <2>1 DEF SameRest
  <2> QED BY <1>11, <2>2 DEF SelectInv
<1>19. QueryInv(z, live)
  BY <1>8, <1>13, <1>14, <1>15, <1>16, <1>17, <1>18 DEF QueryInv
<1>20. \A s : Held(z, s) = Held(q, s)
  BY <1>9 DEF Held, Saved
<1>21. q.st \notin {"drop", "done"}
  BY <1>1
<1> HIDE DEF q
<1> QED BY <1>5, <1>19, <1>20, <1>21, SameRefs DEF q

-----------------------------------------------------------------------------
(* Tags.                                                                   *)

(* The series move from the map to the tag, or back out of both.           *)
LEMMA TagNew ==
    ASSUME Inv, NEW i \in Queries, At(i, "tag"), tagged' \subseteq Series,
           Set(i, [NextNode(qs[i]) EXCEPT !.map = {}]), UNCHANGED <<live, ver>>,
           ref' \in [Series -> Int],
           \A s \in Series : ref'[s] = ref[s] + (Bit(s, tagged') - Bit(s, tagged))
                                       - Bit(s, qs[i].map)
    PROVE  Inv'
<1> DEFINE q == qs[i]
           z == [NextNode(q) EXCEPT !.map = {}]
<1>1. /\ AtHead(q, live) /\ q.nodes[1].t = "tag" /\ q.st = "walk"
      /\ q.vec = {} /\ q.tmp = {}
  BY AtIs
<1>2. /\ QueryInv(q, live) /\ q \in Query
      /\ \A s \in Series : ref[s] \in Int
  BY HereIs
<1>3. Tail(q.nodes) \in Seq(Node)
  BY <1>1, TailIs
<1>4. z \in Query
  BY <1>2, <1>3 DEF Query, NextNode
<1>5. /\ After(q, z) /\ SameRest(q, z) /\ z.st = q.st /\ z.vec = q.vec
      /\ z.tmp = q.tmp /\ z.stack = q.stack /\ z.pmap = q.pmap
      /\ z.map = {}
  BY <1>2 DEF Query, NextNode, After, SameRest
<1>6. qs' = [qs EXCEPT ![i] = z]
  BY DEF Set
<1> HIDE DEF z
<1>7. AtNode(z, live)
  BY <1>1, <1>5, TagStep
<1>8. ~IsOperand(q.nodes[1])
  BY <1>1 DEF IsOperand, OperandTypes
<1>9. Len(q.stack) <= 1
  BY <1>2 DEF QueryInv, PhaseInv
<1>10. QueryInv(z, live)
  BY <1>1, <1>2, <1>4, <1>5, <1>7, <1>8, <1>9, WalkStep
<1>11. ASSUME NEW s \in Series
       PROVE  ref'[s] = ref[s] + (Bit(s, tagged') - Bit(s, tagged))
                        + (Held(z, s) - Held(q, s))
  <2>1. Saved(z) = Saved(q)
    BY <1>5 DEF Saved
  <2>2. Bit(s, {}) = 0 /\ \A S : Bit(s, S) \in Int
    BY BitType DEF Bit
  <2>3. /\ Held(z, s) = 0 + 0 + 0 + Bit(s, Saved(q))
        /\ Held(q, s) = Bit(s, q.map) + 0 + 0 + Bit(s, Saved(q))
    BY <1>1, <1>5, <2>1, <2>2 DEF Held
  <2>4. ref[s] \in Int
    BY <1>2
  <2>5. ref'[s] = ref[s] + (Bit(s, tagged') - Bit(s, tagged)) - Bit(s, q.map)
    OBVIOUS
  <2> HIDE DEF q
  <2> QED BY <2>2, <2>3, <2>4, <2>5
<1>12. q.st \notin {"drop", "done"}
  BY <1>1
<1> HIDE DEF q
<1> QED BY <1>6, <1>10, <1>11, <1>12, StepOK DEF q

(* Counters stay integers.                                                 *)
LEMMA DropType ==
    ASSUME NEW r, NEW l, \A s \in Series : r[s] \in Int, \A s \in Series : l[s] \in Int
    PROVE  Drop(r, l) \in [Series -> Int]
  BY DEF Drop

(* enter_tag_series keeps the invariant.                                   *)
LEMMA TagOK ==
    ASSUME Inv, NEW i \in Queries, enter_tag_series(i)
    PROVE  Inv'
<1> DEFINE q == qs[i]
           in == IF q.where THEN q.map \cap Where ELSE q.map
<1>1. /\ qs[i] \in Query /\ tagged \in SUBSET Series
      /\ \A s \in Series : ref[s] \in Int
  BY HereIs
<1>2. q.map \in SUBSET Series /\ in \subseteq q.map
  BY <1>1 DEF Query
<1>3. imap_union_ref(tagged, in).map = tagged \cup in
  BY DEF imap_union_ref
<1>4. /\ tagged' = tagged \cup in
      /\ ref' = Drop(ref, Lost(tagged \cap in, q.map \ in))
      /\ Set(i, [NextNode(q) EXCEPT !.map = {}])
      /\ UNCHANGED <<live, ver>> /\ At(i, "tag")
  BY <1>3 DEF enter_tag_series
<1> HIDE DEF in
<1>5. \A s, S : Bit(s, S) \in Int
  BY BitType
<1>6. \A s \in Series : Lost(tagged \cap in, q.map \ in)[s]
                          = Bit(s, tagged \cap in) + Bit(s, q.map \ in)
  BY OneIs DEF Lost
<1>7. \A s \in Series :
         ref'[s] = ref[s] - (Bit(s, tagged \cap in) + Bit(s, q.map \ in))
  BY <1>4, <1>6 DEF Drop
<1>8. ref' \in [Series -> Int]
  <2> HIDE DEF q
  <2>1. ASSUME NEW s \in Series PROVE Lost(tagged \cap in, q.map \ in)[s] \in Int
    <3>1. Bit(s, tagged \cap in) \in Int /\ Bit(s, q.map \ in) \in Int
      BY <1>5
    <3>2. Lost(tagged \cap in, q.map \ in)[s]
             = Bit(s, tagged \cap in) + Bit(s, q.map \ in)
      BY <1>6
    <3> QED BY <3>1, <3>2
  <2>2. Drop(ref, Lost(tagged \cap in, q.map \ in)) \in [Series -> Int]
    BY <1>1, <2>1, DropType
  <2> QED BY <1>4, <2>2
<1>9. ASSUME NEW s \in Series
      PROVE  ref'[s] = ref[s] + (Bit(s, tagged') - Bit(s, tagged)) - Bit(s, q.map)
  <2>1. Bit(s, tagged \cap in) + Bit(s, q.map \ in)
           = Bit(s, q.map) - (Bit(s, tagged \cup in) - Bit(s, tagged))
    BY <1>2 DEF Bit
  <2>2. ref[s] \in Int /\ tagged' = tagged \cup in
    BY <1>1, <1>4
  <2>3. ref'[s] = ref[s] - (Bit(s, tagged \cap in) + Bit(s, q.map \ in))
    BY <1>7
  <2>4. \A S : Bit(s, S) \in Int
    BY <1>5
  <2> HIDE DEF q
  <2> QED BY <2>1, <2>2, <2>3, <2>4
<1>10. tagged' \subseteq Series
  BY <1>1, <1>2, <1>4
<1> QED BY <1>4, <1>8, <1>9, <1>10, TagNew

(* An error of enter_tag_series or enter_untag_series keeps the invariant. *)
LEMMA TagErrorOK ==
    ASSUME Inv, NEW i \in Queries, TagError(i)
    PROVE  Inv'
<1>1. qs[i].st \notin {"drop", "done", "idle"}
  BY DEF TagError, At
<1> QED BY <1>1, ErrorOK DEF TagError

(* enter_untag_series keeps the invariant.                                 *)
LEMMA UntagOK ==
    ASSUME Inv, NEW i \in Queries, enter_untag_series(i)
    PROVE  Inv'
<1> DEFINE q == qs[i]
           in == IF q.where THEN q.map \cap Where ELSE q.map
           u == imap_difference_ref(tagged, in)
<1>1. /\ qs[i] \in Query /\ tagged \in SUBSET Series
      /\ \A s \in Series : ref[s] \in Int
  BY HereIs
<1>2. q.map \in SUBSET Series /\ in \subseteq q.map
  BY <1>1 DEF Query
<1>3. u.map = tagged \ in /\ u.lost = Lost(tagged \cap in, in)
  BY DEF imap_difference_ref
<1>4. /\ tagged' = tagged \ in
      /\ ref' = Drop(Drop(ref, u.lost), One(q.map \ in))
      /\ Set(i, [NextNode(q) EXCEPT !.map = {}])
      /\ UNCHANGED <<live, ver>> /\ At(i, "tag")
  BY <1>3 DEF enter_untag_series
<1> HIDE DEF in, u
<1>5. \A s, S : Bit(s, S) \in Int
  BY BitType
<1>6. \A s \in Series : u.lost[s] = Bit(s, tagged \cap in) + Bit(s, in)
  BY <1>3, OneIs DEF Lost
<1>7. \A s \in Series : Drop(ref, u.lost)[s]
                          = ref[s] - (Bit(s, tagged \cap in) + Bit(s, in))
  BY <1>6 DEF Drop
<1>8. \A s \in Series : One(q.map \ in)[s] = Bit(s, q.map \ in)
  BY OneIs
<1>9. \A s \in Series : ref'[s] = ref[s] - (Bit(s, tagged \cap in) + Bit(s, in))
                                  - Bit(s, q.map \ in)
  BY <1>4, <1>7, <1>8 DEF Drop
<1>10. ref' \in [Series -> Int]
  <2>1. \A s \in Series : Drop(ref, u.lost)[s] \in Int
    BY <1>1, <1>5, <1>7
  <2>2. \A s \in Series : One(q.map \ in)[s] \in Int
    BY <1>5, <1>8
  <2> HIDE DEF q
  <2>3. Drop(Drop(ref, u.lost), One(q.map \ in)) \in [Series -> Int]
    BY <2>1, <2>2, DropType
  <2> QED BY <1>4, <2>3
<1>11. ASSUME NEW s \in Series
       PROVE  ref'[s] = ref[s] + (Bit(s, tagged') - Bit(s, tagged)) - Bit(s, q.map)
  <2>1. (Bit(s, tagged \cap in) + Bit(s, in)) + Bit(s, q.map \ in)
           = Bit(s, q.map) - (Bit(s, tagged \ in) - Bit(s, tagged))
    BY <1>2 DEF Bit
  <2>2. ref[s] \in Int /\ tagged' = tagged \ in
    BY <1>1, <1>4
  <2>3. ref'[s] = ref[s] - (Bit(s, tagged \cap in) + Bit(s, in)) - Bit(s, q.map \ in)
    BY <1>9
  <2>4. \A S : Bit(s, S) \in Int
    BY <1>5
  <2> HIDE DEF q
  <2> QED BY <2>1, <2>2, <2>3, <2>4
<1>12. tagged' \subseteq Series
  BY <1>1, <1>4
<1> QED BY <1>4, <1>10, <1>11, <1>12, TagNew

-----------------------------------------------------------------------------
(* Loops over the series that were found.                                  *)

(* After the walk only the stage of the statement matters.                 *)
LEMMA StageInv ==
    ASSUME NEW z \in Query, NEW L, ~Walking(z), PhaseInv(z), DropInv(z, L),
           ListInv(z, L), PoolInv(z), SelectInv(z)
    PROVE  QueryInv(z, L)
  BY DEF QueryInv, NodesInv, WalkInv, ReInv, Walking

\* The fields of a query that its loops leave alone.
SameQuery(q, z) ==
    /\ z.expr = q.expr /\ z.kind = q.kind /\ z.where = q.where
    /\ z.master = q.master /\ z.pmap = q.pmap /\ z.stack = q.stack
    /\ z.tmp = q.tmp

(* The pools to ask do not change after the walk.                          *)
LEMMA PoolSame ==
    ASSUME NEW q, NEW z, SameQuery(q, z), PoolInv(q), ~Walking(q), ~Walking(z)
    PROVE  PoolInv(z)
  BY DEF PoolInv, SameQuery, Walking

(* A list of the series in the map has references of its own.              *)
LEMMA NewList ==
    ASSUME Inv, NEW i \in Queries, NEW z, qs' = [qs EXCEPT ![i] = z],
           qs[i].st \notin {"drop", "done"}, qs[i].vec = {},
           QueryInv(z, live), UNCHANGED <<live, tagged, ver>>,
           ref' = Add(ref, qs[i].map),
           /\ z.map = qs[i].map /\ z.tmp = qs[i].tmp
           /\ z.vec = qs[i].map /\ z.stack = qs[i].stack
    PROVE  Inv'
<1> DEFINE q == qs[i]
<1>1. /\ tagged \in SUBSET Series /\ \A x \in Series : ref[x] \in Int
  BY HereIs
<1>2. /\ ref' \in [Series -> Int]
      /\ \A x \in Series : ref'[x] = ref[x] + Bit(x, q.map)
  BY AddIs
<1>3. ASSUME NEW x \in Series
      PROVE  ref'[x] = ref[x] + (Bit(x, tagged') - Bit(x, tagged))
                       + (Held(z, x) - Held(q, x))
  <2>1. Saved(z) = Saved(q)
    BY DEF Saved
  <2>2. Bit(x, {}) = 0 /\ \A S : Bit(x, S) \in Int
    BY BitType DEF Bit
  <2>3. /\ Held(z, x) = Bit(x, q.map) + Bit(x, q.tmp) + Bit(x, q.map)
                        + Bit(x, Saved(q))
        /\ Held(q, x) = Bit(x, q.map) + Bit(x, q.tmp) + 0 + Bit(x, Saved(q))
    BY <2>1, <2>2 DEF Held
  <2>4. ref[x] \in Int /\ tagged' = tagged
    BY <1>1
  <2>5. ref'[x] = ref[x] + Bit(x, q.map)
    BY <1>2
  <2> HIDE DEF q
  <2> QED BY <2>2, <2>3, <2>4, <2>5
<1>4. tagged' \subseteq Series
  BY <1>1
<1> HIDE DEF q
<1> QED BY <1>2, <1>3, <1>4, StepOK DEF q

(* exit_tag_series keeps the invariant.                                    *)
LEMMA EndOK ==
    ASSUME Inv, NEW i \in Queries, exit_tag_series(i)
    PROVE  Inv'
<1>1. QueryInv(qs[i], live) /\ qs[i] \in Query
  BY HereIs
<1>2. qs[i].st = "end" /\ QUERIES_FREE(i, qs[i]) /\ UNCHANGED <<live, tagged, ver>>
  BY DEF exit_tag_series
<1>3. qs[i].kind \in {"tag", "untag"}
  BY <1>1, <1>2 DEF QueryInv, PhaseInv, IsTag
<1>4. /\ qs[i].kind # "none" /\ qs[i].kind # "list" /\ qs[i].kind # "select"
      /\ qs[i].st \notin {"drop", "done", "idle"}
  BY <1>2, <1>3
<1> QED BY <1>1, <1>2, <1>4, FreeOK

(* exit_list_series keeps the invariant.                                   *)
LEMMA ListOK ==
    ASSUME Inv, NEW i \in Queries, exit_list_series(i)
    PROVE  Inv'
<1> DEFINE q == qs[i]
           z == [q EXCEPT !.st = "list", !.vec = q.map]
<1>1. QueryInv(q, live) /\ q \in Query /\ live \in SUBSET Series
  BY HereIs
<1>2. /\ q.st = "exit" /\ q.kind = "list" /\ ref' = Add(ref, q.map)
      /\ qs' = [qs EXCEPT ![i] = z] /\ UNCHANGED <<live, tagged, ver>>
  BY DEF exit_list_series, Set
<1>3. z \in Query
  BY <1>1 DEF Query, Stages
<1>4. /\ SameQuery(q, z) /\ z.st = "list" /\ z.vec = q.map /\ z.map = q.map
      /\ z.n = q.n /\ z.filtered = q.filtered
  BY <1>1 DEF Query, SameQuery
<1> HIDE DEF z
<1>5. q.vec = {} /\ PhaseInv(q) /\ ListInv(q, live)
  BY <1>1, <1>2 DEF QueryInv, PhaseInv
<1>6. PhaseInv(z) /\ ~Walking(z)
  BY <1>2, <1>4, <1>5 DEF PhaseInv, SameQuery, Walking
<1>7. ListInv(z, live)
  <2>1. Asked(z) \subseteq Walked(q.expr) /\ Asked(z) = Asked(q)
    BY <1>4 DEF Asked, SameQuery
  <2>2. q.n = {} /\ MapIs(q, live, Walked(q.expr)) /\ Cardinality(q.n) <= ListLimit
    BY <1>2, <1>5 DEF ListInv
  <2>3. MapIs(z, live, Walked(z.expr)) /\ live \cap Asked(z) \subseteq z.vec
    BY <1>4, <2>1, <2>2 DEF MapIs, SameQuery
  <2> QED BY <1>4, <1>6, <2>2, <2>3 DEF ListInv
<1>8. QueryInv(z, live)
  <2>1. z.kind = "list"
    BY <1>2, <1>4 DEF SameQuery
  <2>2. DropInv(z, live) /\ PoolInv(z) /\ SelectInv(z)
    BY <2>1 DEF DropInv, PoolInv, SelectInv
  <2> QED BY <1>3, <1>6, <1>7, <2>2, StageInv
<1>9. q.st \notin {"drop", "done"} /\ z.tmp = q.tmp /\ z.stack = q.stack
  BY <1>2, <1>4 DEF SameQuery
<1> HIDE DEF q
<1> QED BY <1>2, <1>4, <1>5, <1>8, <1>9, NewList DEF q

(* A set of series is finite.                                              *)
LEMMA SeriesFinite ==
    ASSUME NEW S, S \subseteq Series
    PROVE  IsFiniteSet(S) /\ Cardinality(S) \in Nat
<1>1. IsFiniteSet(S)
  BY SeriesMatchAssumption, FS_Subset
<1> QED BY <1>1, FS_CardinalityType

(* async_list_series keeps the invariant: a series leaves the list of what *)
(* is to be shown when it is shown or does not satisfy the where expression*)
LEMMA AsyncListOK ==
    ASSUME Inv, NEW i \in Queries, async_list_series(i)
    PROVE  Inv'
<1> DEFINE q == qs[i]
<1>1. QueryInv(q, live) /\ q \in Query /\ live \in SUBSET Series
  BY HereIs
<1>2. q.st = "list" /\ UNCHANGED <<live, tagged, ver>>
  BY DEF async_list_series
<1>3. q.kind = "list" /\ PhaseInv(q)
  BY <1>1, <1>2 DEF QueryInv, PhaseInv
<1>4. /\ MapIs(q, live, Walked(q.expr)) /\ q.vec \subseteq q.map
      /\ live \cap Asked(q) \subseteq q.vec \cup q.n
      /\ q.n \cap live \subseteq Asked(q) /\ Cardinality(q.n) <= ListLimit
  BY <1>1, <1>2, <1>3 DEF QueryInv, ListInv
<1>5. q.n \subseteq Series /\ q.vec \subseteq Series /\ q.where \in BOOLEAN
  BY <1>1 DEF Query
<1>6. IsFiniteSet(q.n) /\ Cardinality(q.n) \in Nat /\ ListLimit \in Nat
  BY <1>5, SeriesFinite, SeriesMatchAssumption
<1>7. CASE q.vec = {} \/ Cardinality(q.n) = ListLimit
  <2>1. QUERIES_FREE(i, q)
    BY <1>7 DEF async_list_series
  <2>2. Cardinality(q.n) < ListLimit => live \cap Asked(q) \subseteq q.n
    BY <1>4, <1>6, <1>7
  <2>3. q.kind # "none" /\ q.kind # "select" /\ q.st \notin {"drop", "done", "idle"}
    BY <1>2, <1>3
  <2> HIDE DEF q
  <2> QED BY <1>1, <1>2, <1>4, <2>1, <2>2, <2>3, FreeOK DEF q
<1>8. CASE ~(q.vec = {} \/ Cardinality(q.n) = ListLimit)
  <2>1. PICK s \in q.vec :
           /\ ref' = Drop(ref, One({s}))
           /\ Set(i, [q EXCEPT !.vec = @ \ {s},
                      !.n = IF ~q.where \/ s \in Where THEN @ \cup {s} ELSE @])
    BY <1>8 DEF async_list_series
  <2> DEFINE m == IF ~q.where \/ s \in Where THEN q.n \cup {s} ELSE q.n
             z == [q EXCEPT !.vec = q.vec \ {s}, !.n = m]
  <2>2. qs' = [qs EXCEPT ![i] = z] /\ ref' = Drop(ref, One({s}))
    BY <2>1 DEF Set
  <2>3. m \subseteq Series /\ m \subseteq q.n \cup {s} /\ q.n \subseteq m
    BY <1>5
  <2>4. q.where => s \in Where \/ m = q.n
    OBVIOUS
  <2>5. (q.where => s \in Where) => s \in m
    BY <1>5
  <2>6. Cardinality(m) <= ListLimit
    <3>1. Cardinality(q.n) < ListLimit
      BY <1>4, <1>6, <1>8
    <3>2. /\ IsFiniteSet(q.n \cup {s})
          /\ Cardinality(q.n \cup {s}) \in {Cardinality(q.n), Cardinality(q.n) + 1}
      BY <1>6, FS_AddElement
    <3>3. m = q.n \/ m = q.n \cup {s}
      OBVIOUS
    <3> HIDE DEF m
    <3>4. Cardinality(m) \in {Cardinality(q.n), Cardinality(q.n) + 1}
      BY <3>2, <3>3
    <3> QED BY <1>6, <3>1, <3>4
  <2> HIDE DEF m
  <2>7. z \in Query
    BY <1>1, <1>5, <2>3 DEF Query
  <2>8. /\ SameQuery(q, z) /\ z.st = "list" /\ z.vec = q.vec \ {s}
        /\ z.map = q.map /\ z.n = m /\ z.filtered = q.filtered
    BY <1>1, <1>2 DEF Query, SameQuery
  <2> HIDE DEF z
  <2>9. PhaseInv(z) /\ ~Walking(z)
    BY <1>2, <1>3, <2>8 DEF PhaseInv, SameQuery, Walking
  <2>10. Asked(z) = Asked(q) /\ z.kind = "list"
    BY <1>3, <2>8 DEF Asked, SameQuery
  <2>11. \A x \in Series : x \in Asked(q) <=> x \in Walked(q.expr) /\ (q.where => x \in Where)
    BY DEF Asked
  <2>12. m \cap live \subseteq Asked(q)
    <3> SUFFICES ASSUME NEW x \in m \cap live, x \notin q.n PROVE x \in Asked(q)
      BY <1>4
    <3>1. x = s /\ m # q.n
      BY <2>3
    <3>2. q.where => s \in Where
      BY <2>4, <3>1
    <3>3. s \in Walked(q.expr) /\ s \in Series
      BY <1>4, <1>5, <3>1 DEF MapIs
    <3> QED BY <2>11, <3>1, <3>2, <3>3
  <2>13. live \cap Asked(q) \subseteq z.vec \cup m
    <3> SUFFICES ASSUME NEW x \in live, x \in Asked(q), x \notin q.vec \ {s}
                 PROVE  x \in m
      BY <2>8
    <3>1. x \in q.n \/ x = s
      BY <1>4
    <3>2. q.where => x \in Where
      BY DEF Asked
    <3> QED BY <2>3, <2>5, <3>1, <3>2
  <2>14. ListInv(z, live)
    <3>1. MapIs(z, live, Walked(z.expr)) /\ z.vec \subseteq z.map
      BY <1>4, <2>8 DEF MapIs, SameQuery
    <3> QED BY <2>6, <2>8, <2>9, <2>10, <2>12, <2>13, <3>1 DEF ListInv
  <2>15. DropInv(z, live) /\ PoolInv(z) /\ SelectInv(z)
    BY <2>10 DEF DropInv, PoolInv, SelectInv
  <2>16. QueryInv(z, live)
    BY <2>7, <2>9, <2>14, <2>15, StageInv
  <2>17. q.st \notin {"drop", "done"} /\ z.tmp = q.tmp /\ z.stack = q.stack
    BY <1>2, <2>8 DEF SameQuery
  <2> HIDE DEF q
  <2>18. s \in q.vec
    OBVIOUS
  <2> QED BY <1>2, <2>2, <2>8, <2>16, <2>17, <2>18, ReleaseOne DEF q
<1> QED BY <1>7, <1>8

(* A statement that neither lists, drops nor selects has no more to keep.  *)
LEMMA PlainStage ==
    ASSUME NEW z \in Query, NEW L, ~Walking(z), PhaseInv(z),
           z.kind \notin {"list", "drop", "select"}
    PROVE  QueryInv(z, L)
<1>1. DropInv(z, L) /\ ListInv(z, L) /\ PoolInv(z) /\ SelectInv(z)
  BY DEF DropInv, ListInv, PoolInv, SelectInv
<1> QED BY <1>1, StageInv

(* exit_count_series keeps the invariant.                                  *)
LEMMA CountOK ==
    ASSUME Inv, NEW i \in Queries, exit_count_series(i)
    PROVE  Inv'
<1> DEFINE q == qs[i]
<1>1. QueryInv(q, live) /\ q \in Query
  BY HereIs
<1>2. q.st = "exit" /\ q.kind = "count" /\ UNCHANGED <<live, tagged, ver>>
  BY DEF exit_count_series
<1>3. q.vec = {} /\ PhaseInv(q) /\ q.map \in SUBSET Series
  BY <1>1, <1>2 DEF QueryInv, PhaseInv, Query
<1>4. CASE q.where
  <2> DEFINE z == [q EXCEPT !.st = "count", !.vec = q.map]
  <2>1. ref' = Add(ref, q.map) /\ qs' = [qs EXCEPT ![i] = z]
    BY <1>4 DEF exit_count_series, Set
  <2>2. z \in Query
    BY <1>1, <1>3 DEF Query, Stages
  <2>3. /\ SameQuery(q, z) /\ z.st = "count" /\ z.vec = q.map /\ z.map = q.map
        /\ z.filtered = q.filtered
    BY <1>1 DEF Query, SameQuery
  <2> HIDE DEF z
  <2>4. PhaseInv(z) /\ ~Walking(z) /\ z.kind = "count"
    BY <1>2, <1>3, <2>3 DEF PhaseInv, SameQuery, Walking
  <2>5. QueryInv(z, live)
    BY <2>2, <2>4, PlainStage
  <2>6. q.st \notin {"drop", "done"} /\ z.tmp = q.tmp /\ z.stack = q.stack
    BY <1>2, <2>3 DEF SameQuery
  <2> HIDE DEF q
  <2> QED BY <1>2, <1>3, <2>1, <2>3, <2>5, <2>6, NewList DEF q
<1>5. CASE ~q.where
  <2> DEFINE c == Cardinality(q.map)
             z == [q EXCEPT !.count = c]
  <2>1. QUERIES_FREE(i, z)
    BY <1>5 DEF exit_count_series
  <2>2. c \in Nat
    BY <1>3, SeriesFinite
  <2> HIDE DEF c
  <2>3. z \in Query
    BY <1>1, <2>2 DEF Query
  <2>4. /\ SameQuery(q, z) /\ z.map = q.map /\ z.vec = q.vec
    BY <1>1 DEF Query, SameQuery
  <2> HIDE DEF z
  <2>5. \A s : Held(z, s) = Held(q, s)
    BY <2>4 DEF Held, Saved, SameQuery
  <2>6. /\ z.kind # "none" /\ z.kind # "list" /\ z.kind # "select"
        /\ q.st \notin {"drop", "done", "idle"}
        /\ z.stack = q.stack /\ z.expr = q.expr
    BY <1>2, <2>4 DEF SameQuery
  <2> HIDE DEF q
  <2> QED BY <1>2, <2>1, <2>3, <2>5, <2>6, FreeOK DEF q
<1> QED BY <1>4, <1>5

(* async_count_series keeps the invariant.                                 *)
LEMMA AsyncCountOK ==
    ASSUME Inv, NEW i \in Queries, async_count_series(i)
    PROVE  Inv'
<1> DEFINE q == qs[i]
<1>1. QueryInv(q, live) /\ q \in Query
  BY HereIs
<1>2. q.st = "count" /\ UNCHANGED <<live, tagged, ver>>
  BY DEF async_count_series
<1>3. q.kind = "count" /\ PhaseInv(q) /\ q.vec \in SUBSET Series /\ q.count \in Nat
  BY <1>1, <1>2 DEF QueryInv, PhaseInv, Query
<1>4. CASE q.vec = {}
  <2>1. QUERIES_FREE(i, q)
    BY <1>4 DEF async_count_series
  <2>2. /\ q.kind # "none" /\ q.kind # "list" /\ q.kind # "select"
        /\ q.st \notin {"drop", "done", "idle"}
    BY <1>2, <1>3
  <2> HIDE DEF q
  <2> QED BY <1>1, <1>2, <2>1, <2>2, FreeOK DEF q
<1>5. CASE q.vec # {}
  <2>1. PICK s \in q.vec :
           /\ ref' = Drop(ref, One({s}))
           /\ Set(i, [q EXCEPT !.vec = @ \ {s}, !.count = @ + One(Where)[s]])
    BY <1>5 DEF async_count_series
  <2> DEFINE c == q.count + One(Where)[s]
             z == [q EXCEPT !.vec = q.vec \ {s}, !.count = c]
  <2>2. qs' = [qs EXCEPT ![i] = z] /\ ref' = Drop(ref, One({s}))
    BY <2>1 DEF Set
  <2>3. c \in Nat
    <3>1. s \in Series
      BY <1>3
    <3>2. One(Where)[s] \in Nat
      BY <3>1 DEF One
    <3> QED BY <1>3, <3>2
  <2> HIDE DEF c
  <2>4. z \in Query
    BY <1>1, <1>3, <2>3 DEF Query
  <2>5. /\ SameQuery(q, z) /\ z.st = "count" /\ z.vec = q.vec \ {s} /\ z.map = q.map
        /\ z.filtered = q.filtered
    BY <1>1, <1>2 DEF Query, SameQuery
  <2> HIDE DEF z
  <2>6. PhaseInv(z) /\ ~Walking(z) /\ z.kind = "count"
    BY <1>2, <1>3, <2>5 DEF PhaseInv, SameQuery, Walking
  <2>7. QueryInv(z, live)
    BY <2>4, <2>6, PlainStage
  <2>8. q.st \notin {"drop", "done"} /\ z.tmp = q.tmp /\ z.stack = q.stack
    BY <1>2, <2>5 DEF SameQuery
  <2> HIDE DEF q
  <2>9. s \in q.vec
    OBVIOUS
  <2> QED BY <1>2, <2>2, <2>5, <2>7, <2>8, <2>9, ReleaseOne DEF q
<1> QED BY <1>4, <1>5

-----------------------------------------------------------------------------
(* From the walk or the where expression to the work itself.               *)

\* q0 is query i when it goes on, with the where expression removed or not.
GoesOn(i, q0) ==
    /\ qs[i].st \in {"exit", "filter"} /\ qs[i].vec = {}
    /\ q0 \in Query /\ SameQuery(qs[i], q0)
    /\ q0.map = qs[i].map /\ q0.vec = {} /\ q0.st = qs[i].st
    /\ q0.n = qs[i].n /\ q0.nsel = qs[i].nsel /\ q0.keep = qs[i].keep
    /\ q0.cache = qs[i].cache /\ q0.got = qs[i].got
    /\ \/ q0 = qs[i] /\ qs[i].st = "exit"
       \/ q0.filtered = TRUE /\ qs[i].st = "filter"

(* The references of the map move to the list.                             *)
LEMMA MoveList ==
    ASSUME Inv, NEW i \in Queries, NEW q0, GoesOn(i, q0), NEW z,
           qs' = [qs EXCEPT ![i] = z], QueryInv(z, live),
           UNCHANGED <<live, ref, tagged, ver>>,
           z.map = {} /\ z.vec = q0.map /\ z.tmp = q0.tmp /\ z.stack = q0.stack
    PROVE  Inv'
<1> DEFINE q == qs[i]
<1>1. /\ z.map = {} /\ z.vec = q.map /\ z.tmp = q.tmp /\ z.stack = q.stack
      /\ q.vec = {} /\ q.st \notin {"drop", "done"}
  BY DEF GoesOn, SameQuery
<1>2. ASSUME NEW s PROVE Held(z, s) = Held(q, s)
  <2>1. Saved(z) = Saved(q)
    BY <1>1 DEF Saved
  <2>2. \A S : Bit(s, S) \in Int
    BY BitType
  <2>3. /\ Held(z, s) = Bit(s, {}) + Bit(s, q.tmp) + Bit(s, q.map) + Bit(s, Saved(q))
        /\ Held(q, s) = Bit(s, q.map) + Bit(s, q.tmp) + Bit(s, {}) + Bit(s, Saved(q))
    BY <1>1, <2>1 DEF Held
  <2> HIDE DEF q
  <2> QED BY <2>2, <2>3
<1>3. live' = live /\ ref' = ref /\ tagged' = tagged /\ ver' = ver
  OBVIOUS
<1>4. \A s \in Series : Held(z, s) = Held(qs[i], s)
  BY <1>2
<1>5. qs[i].st \notin {"drop", "done"}
  BY <1>1
<1>6. Becomes(i, z)
  BY <1>3, <1>4, <1>5 DEF Becomes
<1> QED BY <1>6, BecomesOK

(* exit_drop_series keeps the invariant.                                   *)
LEMMA DropExitOK ==
    ASSUME Inv, NEW i \in Queries, NEW q0, GoesOn(i, q0), q0.kind = "drop",
           exit_drop_series(i, q0), UNCHANGED <<live, tagged, ver>>
    PROVE  Inv'
<1> DEFINE q == [q0 EXCEPT !.vec = q0.map, !.map = {}]
<1>1. QueryInv(qs[i], live) /\ qs[i] \in Query /\ q0 \in Query
  BY HereIs DEF GoesOn
<1>2. q \in Query
  BY <1>1 DEF Query
<1>3. /\ SameQuery(q0, q) /\ q.st = q0.st /\ q.vec = q0.map /\ q.map = {}
      /\ q.filtered = q0.filtered /\ q.n = q0.n
  BY <1>1 DEF Query, SameQuery
<1>4. IF q.where /\ ~q.filtered
      THEN Set(i, [q EXCEPT !.st = "filter"]) /\ UNCHANGED ref
      ELSE \/ /\ q.vec # {} /\ Cardinality(q.vec) >= Cardinality(live)
              /\ QUERIES_FREE(i, [q EXCEPT !.kind = "error"])
           \/ Set(i, [q EXCEPT !.st = "drop"]) /\ UNCHANGED ref
  BY DEF exit_drop_series
<1> HIDE DEF q
<1>5. SameQuery(qs[i], q) /\ q.kind = "drop" /\ qs[i].kind = "drop"
  BY <1>3 DEF GoesOn, SameQuery
<1>6. PhaseInv(qs[i]) /\ DropInv(qs[i], live)
  BY <1>1 DEF QueryInv
<1>7. /\ q.vec \cap live \subseteq Walked(q.expr)
      /\ q.filtered = TRUE => q.vec \subseteq Where
      /\ q.filtered \in BOOLEAN
      /\ qs[i].st \in {"exit", "filter"}
  <2>1. q.vec = qs[i].map /\ qs[i].st \in {"exit", "filter"}
    BY <1>3 DEF GoesOn
  <2>2. q.filtered = TRUE => qs[i].st = "filter"
    BY <1>3, <1>5, <1>6 DEF GoesOn, PhaseInv
  <2>3. q.filtered \in BOOLEAN
    BY <1>2 DEF Query
  <2>4. q.vec \cap live \subseteq Walked(q.expr)
    BY <1>5, <1>6, <2>1 DEF DropInv, SameQuery
  <2> QED BY <1>5, <1>6, <2>1, <2>2, <2>3, <2>4 DEF DropInv
<1>8. ASSUME NEW st \in {"filter", "drop"}, Set(i, [q EXCEPT !.st = st]), UNCHANGED ref,
             st = "filter" => q.filtered = FALSE,
             st = "drop" /\ q.where => q.filtered = TRUE
      PROVE  Inv'
  <2> DEFINE z == [q EXCEPT !.st = st]
  <2>1. st \in Stages
    BY DEF Stages
  <2>2. z \in Query
    BY <1>2, <2>1 DEF Query
  <2>3. /\ SameQuery(q, z) /\ z.st = st /\ z.map = q.map /\ z.vec = q.vec
        /\ z.filtered = q.filtered /\ z.n = q.n
    BY <1>2 DEF Query, SameQuery
  <2>4. qs' = [qs EXCEPT ![i] = z] /\ UNCHANGED <<live, ref, tagged, ver>>
    BY <1>8 DEF Set
  <2> HIDE DEF z
  <2>5. /\ z.kind = "drop" /\ z.expr = qs[i].expr /\ z.tmp = qs[i].tmp
        /\ z.stack = qs[i].stack
    BY <1>5, <2>3 DEF SameQuery
  <2>6. PhaseInv(z) /\ ~Walking(z)
    BY <1>3, <1>6, <1>7, <1>8, <2>3, <2>5 DEF PhaseInv, Walking
  <2>7. DropInv(z, live)
    BY <1>3, <1>5, <1>7, <1>8, <2>3, <2>5 DEF DropInv, SameQuery
  <2>8. ListInv(z, live) /\ PoolInv(z) /\ SelectInv(z)
    BY <2>5 DEF ListInv, PoolInv, SelectInv
  <2>9. QueryInv(z, live)
    BY <2>2, <2>6, <2>7, <2>8, StageInv
  <2>10. z.map = {} /\ z.vec = q0.map /\ z.tmp = q0.tmp /\ z.stack = q0.stack
    BY <1>3, <2>3, <2>5 DEF GoesOn, SameQuery
  <2> QED BY <2>4, <2>9, <2>10, MoveList
<1>9. ASSUME QUERIES_FREE(i, [q EXCEPT !.kind = "error"]) PROVE Inv'
  <2> DEFINE z == [q EXCEPT !.kind = "error"]
  <2>1. z \in Query
    BY <1>2 DEF Query
  <2>2. /\ z.expr = q.expr /\ z.stack = q.stack /\ z.map = q.map /\ z.vec = q.vec
        /\ z.tmp = q.tmp /\ z.kind = "error"
    BY <1>2 DEF Query
  <2>3. QUERIES_FREE(i, z)
    BY <1>9
  <2> HIDE DEF z
  <2>4. /\ z.kind # "none" /\ z.kind # "list" /\ z.kind # "select"
        /\ qs[i].st \notin {"drop", "done", "idle"}
        /\ z.stack = qs[i].stack /\ z.expr = qs[i].expr
    BY <1>5, <1>7, <2>2 DEF SameQuery
  <2>5. ASSUME NEW s \in Series PROVE Held(z, s) = Held(qs[i], s)
    <3>1. /\ z.map = {} /\ z.vec = qs[i].map /\ qs[i].vec = {}
          /\ z.tmp = qs[i].tmp /\ z.stack = qs[i].stack
      BY <1>3, <1>5, <2>2 DEF GoesOn, SameQuery
    <3>2. Saved(z) = Saved(qs[i])
      BY <3>1 DEF Saved
    <3>3. \A S : Bit(s, S) \in Int
      BY BitType
    <3> QED BY <3>1, <3>2, <3>3 DEF Held
  <2> QED BY <2>1, <2>3, <2>4, <2>5, FreeOK
<1>10. CASE q.where /\ ~q.filtered
  <2>1. q.filtered = FALSE
    BY <1>7, <1>10
  <2> QED BY <1>4, <1>8, <1>10, <2>1
<1>11. CASE ~(q.where /\ ~q.filtered)
  <2>1. q.where => q.filtered = TRUE
    BY <1>7, <1>11
  <2> QED BY <1>4, <1>8, <1>9, <1>11, <2>1
<1> QED BY <1>10, <1>11

(* exit_select_aggregate keeps the invariant: a list of the series for the *)
(* next function, until there is none.                                     *)
LEMMA SelectExitOK ==
    ASSUME Inv, NEW i \in Queries, NEW q0, GoesOn(i, q0),
           q0.kind \in {"select", "skip"}, exit_select_aggregate(i, q0),
           UNCHANGED <<live, tagged, ver>>
    PROVE  Inv'
<1>1. QueryInv(qs[i], live) /\ qs[i] \in Query /\ q0 \in Query
  BY HereIs DEF GoesOn
<1>2. PhaseInv(qs[i]) /\ PoolInv(qs[i]) /\ SelectInv(qs[i])
  BY <1>1 DEF QueryInv
<1>3. /\ SameQuery(qs[i], q0) /\ qs[i].kind = q0.kind /\ q0.vec = {}
      /\ qs[i].vec = {} /\ q0.map = qs[i].map
      /\ qs[i].st \in {"exit", "filter"} /\ q0.st = qs[i].st
  BY DEF GoesOn, SameQuery
<1>4. q0.nsel \in 0..2 /\ q0.filtered \in BOOLEAN /\ q0.map \in SUBSET Series
  BY <1>1 DEF Query
<1>5. ~Walking(qs[i]) /\ qs[i].tmp = {} /\ qs[i].st \notin {"drop", "done", "idle"}
  BY <1>2, <1>3 DEF Walking, PhaseInv
<1>6. q0.kind = "select" =>
         /\ q0.nsel = 2 => q0.got = {} /\ q0.cache = {}
         /\ q0.st = "filter" => q0.nsel = 2
         /\ q0.nsel < 2 /\ q0.where => q0.filtered = TRUE
         /\ q0.keep = TRUE
         /\ \A g, h \in q0.got : g[2] = h[2] => g[3] = h[3]
         /\ \A g \in q0.got, c \in q0.cache : g[2] = c[1] => g[3] = c[2]
         /\ \A c, d \in q0.cache : c[1] = d[1] => c[2] = d[2]
         /\ q0.nsel = 1 => \A g \in q0.got : \E c \in q0.cache : c[1] = g[2]
  <2> SUFFICES ASSUME q0.kind = "select"
               PROVE  /\ q0.nsel = 2 => q0.got = {} /\ q0.cache = {}
                      /\ q0.st = "filter" => q0.nsel = 2
                      /\ q0.nsel < 2 /\ q0.where => q0.filtered = TRUE
                      /\ q0.keep = TRUE
                      /\ \A g, h \in q0.got : g[2] = h[2] => g[3] = h[3]
                      /\ \A g \in q0.got, c \in q0.cache : g[2] = c[1] => g[3] = c[2]
                      /\ \A c, d \in q0.cache : c[1] = d[1] => c[2] = d[2]
                      /\ q0.nsel = 1 => \A g \in q0.got : \E c \in q0.cache : c[1] = g[2]
    OBVIOUS
  <2>1. /\ q0.nsel = qs[i].nsel /\ q0.keep = qs[i].keep /\ q0.got = qs[i].got
        /\ q0.cache = qs[i].cache /\ q0.where = qs[i].where
        /\ q0 = qs[i] \/ q0.filtered = TRUE
    BY DEF GoesOn, SameQuery
  <2>2. qs[i].st = "filter" => qs[i].nsel = 2
    BY <1>2, <1>3 DEF SelectInv
  <2>3. /\ qs[i].nsel = 2 => qs[i].got = {} /\ qs[i].cache = {}
        /\ qs[i].nsel < 2 /\ qs[i].where => qs[i].filtered = TRUE
        /\ qs[i].keep = TRUE
        /\ \A g, h \in qs[i].got : g[2] = h[2] => g[3] = h[3]
        /\ \A g \in qs[i].got, c \in qs[i].cache : g[2] = c[1] => g[3] = c[2]
        /\ \A c, d \in qs[i].cache : c[1] = d[1] => c[2] = d[2]
    BY <1>2, <1>3 DEF SelectInv
  <2>4. qs[i].nsel = 1 => \A g \in qs[i].got : \E c \in qs[i].cache : c[1] = g[2]
    BY <1>2, <1>3, <2>2 DEF SelectInv
  <2> QED BY <1>3, <2>1, <2>2, <2>3, <2>4
<1>7. CASE q0.where /\ ~q0.filtered
  <2> DEFINE z == [q0 EXCEPT !.st = "filter", !.vec = q0.map, !.map = {}]
  <2>1. qs' = [qs EXCEPT ![i] = z] /\ UNCHANGED <<live, ref, tagged, ver>>
    BY <1>7 DEF exit_select_aggregate, Set
  <2>2. z \in Query
    <3>1. "filter" \in Stages /\ {} \in SUBSET Series
      BY DEF Stages
    <3> QED BY <1>1, <1>4, <3>1 DEF Query
  <2>3. /\ SameQuery(q0, z) /\ z.st = "filter" /\ z.vec = q0.map /\ z.map = {}
        /\ z.filtered = q0.filtered /\ z.nsel = q0.nsel /\ z.keep = q0.keep
        /\ z.got = q0.got /\ z.cache = q0.cache
    BY <1>1 DEF Query, SameQuery
  <2> HIDE DEF z
  <2>4. SameQuery(qs[i], z) /\ z.kind = q0.kind /\ z.where = q0.where
    BY <1>3, <2>3 DEF SameQuery
  <2>5. PhaseInv(z) /\ ~Walking(z)
    <3>1. z.filtered = FALSE
      BY <1>4, <1>7, <2>3
    <3> QED BY <1>2, <1>3, <1>5, <2>3, <2>4, <3>1 DEF PhaseInv, Walking, SameQuery
  <2>6. DropInv(z, live) /\ ListInv(z, live)
    BY <2>4 DEF DropInv, ListInv
  <2>7. PoolInv(z)
    BY <1>2, <1>5, <2>4, <2>5, PoolSame
  <2>8. SelectInv(z)
    <3> SUFFICES ASSUME z.kind = "select" PROVE SelectInv(z)
      BY DEF SelectInv
    <3>1. q0.nsel = 2
      BY <1>4, <1>6, <1>7, <2>4
    <3> QED BY <1>6, <2>3, <2>4, <3>1 DEF SelectInv
  <2>9. QueryInv(z, live)
    BY <2>2, <2>5, <2>6, <2>7, <2>8, StageInv
  <2>10. z.map = {} /\ z.vec = q0.map /\ z.tmp = q0.tmp /\ z.stack = q0.stack
    BY <2>3 DEF SameQuery
  <2> QED BY <2>1, <2>9, <2>10, MoveList
<1>8. CASE ~(q0.where /\ ~q0.filtered) /\ q0.nsel = 0
  <2>1. QUERIES_FREE(i, q0)
    BY <1>8 DEF exit_select_aggregate
  <2>2. q0.kind = "select" => q0 = qs[i] /\ ~Walking(q0)
    BY <1>3, <1>5, <1>6, <1>8 DEF GoesOn
  <2>3. \A s : Held(q0, s) = Held(qs[i], s)
    BY <1>3 DEF Held, Saved, SameQuery
  <2>4. q0.kind # "none" /\ q0.kind # "list"
    OBVIOUS
  <2>5. q0.stack = qs[i].stack /\ q0.expr = qs[i].expr
    BY <1>3 DEF SameQuery
  <2> QED BY <1>1, <1>5, <2>1, <2>2, <2>3, <2>4, <2>5, FreeOK
<1>9. CASE ~(q0.where /\ ~q0.filtered) /\ q0.nsel # 0
  <2> DEFINE k == q0.kind
             n == q0.nsel - 1
             z == [q0 EXCEPT !.st = k, !.nsel = n, !.vec = q0.map]
  <2>1. ref' = Add(ref, q0.map) /\ qs' = [qs EXCEPT ![i] = z]
    BY <1>9 DEF exit_select_aggregate, Set
  <2>2. k \in Stages /\ k \in {"select", "skip"}
    BY DEF Stages
  <2>3. n \in 0..2 /\ n < 2 /\ (n = 0 => q0.nsel = 1) /\ (n = 1 => q0.nsel = 2)
    BY <1>4, <1>9
  <2> HIDE DEF n, k
  <2>4. z \in Query
    BY <1>1, <1>4, <2>2, <2>3 DEF Query
  <2>5. /\ SameQuery(q0, z) /\ z.st = k /\ z.vec = q0.map /\ z.map = q0.map
        /\ z.filtered = q0.filtered /\ z.nsel = n /\ z.keep = q0.keep
        /\ z.got = q0.got /\ z.cache = q0.cache
    BY <1>1 DEF Query, SameQuery
  <2> HIDE DEF z
  <2>6. SameQuery(qs[i], z) /\ z.kind = k /\ z.where = q0.where
    BY <1>3, <2>5 DEF SameQuery, k
  <2>7. PhaseInv(z) /\ ~Walking(z)
    BY <1>2, <1>3, <1>5, <2>2, <2>5, <2>6 DEF PhaseInv, Walking, SameQuery
  <2>8. DropInv(z, live) /\ ListInv(z, live)
    BY <2>2, <2>6 DEF DropInv, ListInv
  <2>9. PoolInv(z)
    BY <1>2, <1>5, <2>6, <2>7, PoolSame
  <2>10. SelectInv(z)
    <3> SUFFICES ASSUME z.kind = "select" PROVE SelectInv(z)
      BY DEF SelectInv
    <3>0. q0.kind = "select" /\ z.st = "select"
      BY <2>5, <2>6 DEF k
    <3>1. z.where => z.filtered = TRUE
      BY <1>4, <1>9, <2>5, <2>6
    <3>2. z.nsel = 0 => \A g \in z.got : \E c \in z.cache : c[1] = g[2]
      BY <1>6, <2>3, <2>5, <3>0
    <3>3. z.nsel = 1 => z.got = {}
      BY <1>6, <2>3, <2>5, <3>0
    <3>4. z.nsel < 2 /\ z.nsel # 2
      BY <2>3, <2>5
    <3>5. /\ z.keep = TRUE
          /\ \A g, h \in z.got : g[2] = h[2] => g[3] = h[3]
          /\ \A g \in z.got, c \in z.cache : g[2] = c[1] => g[3] = c[2]
          /\ \A c, d \in z.cache : c[1] = d[1] => c[2] = d[2]
      BY <1>6, <2>5, <3>0
    <3> QED BY <2>7, <3>0, <3>1, <3>2, <3>3, <3>4, <3>5 DEF SelectInv
  <2>11. QueryInv(z, live)
    BY <2>4, <2>7, <2>8, <2>9, <2>10, StageInv
  <2>12. z.map = qs[i].map /\ z.tmp = qs[i].tmp /\ z.vec = qs[i].map /\ z.stack = qs[i].stack
    BY <1>3, <2>5, <2>6 DEF SameQuery
  <2> QED BY <1>3, <1>5, <2>1, <2>11, <2>12, NewList
<1> QED BY <1>7, <1>8, <1>9

(* The work of a drop or select statement starts.                          *)
LEMMA ContinueOK ==
    ASSUME Inv, NEW i \in Queries, NEW q0, GoesOn(i, q0), Continue(i, q0),
           q0.kind \in {"drop", "select", "skip"}, UNCHANGED <<live, tagged, ver>>
    PROVE  Inv'
<1>1. CASE q0.kind = "drop"
  BY <1>1, DropExitOK DEF Continue
<1>2. CASE q0.kind # "drop"
  BY <1>2, SelectExitOK DEF Continue
<1> QED BY <1>1, <1>2

(* exit_drop_series and exit_select_aggregate after the walk or after the  *)
(* points of all series were read.                                         *)
LEMMA ExitOK ==
    ASSUME Inv, NEW i \in Queries, Exit(i)
    PROVE  Inv'
<1>1. QueryInv(qs[i], live) /\ qs[i] \in Query
  BY HereIs
<1>2. /\ qs[i].st = "exit" /\ qs[i].kind \in {"drop", "select", "skip"}
      /\ Continue(i, qs[i]) /\ UNCHANGED <<live, tagged, ver>>
  BY DEF Exit
<1>3. GoesOn(i, qs[i])
  BY <1>1, <1>2 DEF GoesOn, SameQuery, QueryInv, PhaseInv
<1> QED BY <1>2, <1>3, ContinueOK

(* async_filter_series keeps the invariant.                                *)
LEMMA FilterOK ==
    ASSUME Inv, NEW i \in Queries, async_filter_series(i)
    PROVE  Inv'
<1> DEFINE q == qs[i]
<1>1. QueryInv(q, live) /\ q \in Query
  BY HereIs
<1>2. q.st = "filter" /\ UNCHANGED <<live, tagged, ver>>
  BY DEF async_filter_series
<1>3. /\ PhaseInv(q) /\ DropInv(q, live) /\ PoolInv(q) /\ SelectInv(q)
      /\ q.kind \in {"drop", "select", "skip"} /\ q.vec \cap q.map = {}
      /\ q.vec \in SUBSET Series /\ q.map \in SUBSET Series
      /\ ~Walking(q)
  BY <1>1, <1>2 DEF QueryInv, PhaseInv, Query, Walking
<1>4. CASE q.vec = {}
  <2> DEFINE z == Filtered(q)
  <2>1. Continue(i, z)
    BY <1>4 DEF async_filter_series
  <2>2. z \in Query
    BY <1>1 DEF Query, Filtered
  <2>3. /\ SameQuery(q, z) /\ z.map = q.map /\ z.vec = q.vec /\ z.st = q.st
        /\ z.n = q.n /\ z.nsel = q.nsel /\ z.keep = q.keep /\ z.cache = q.cache
        /\ z.got = q.got /\ z.filtered = TRUE
    BY <1>1 DEF Query, Filtered, SameQuery
  <2> HIDE DEF z
  <2>4. GoesOn(i, z)
    BY <1>2, <1>4, <2>2, <2>3 DEF GoesOn
  <2>5. z.kind \in {"drop", "select", "skip"}
    BY <1>3, <2>3 DEF SameQuery
  <2> QED BY <1>2, <2>1, <2>4, <2>5, ContinueOK
<1>5. ASSUME NEW s \in q.vec, NEW m, NEW z \in Query, SameQuery(q, z), z.map = m,
             z.vec = q.vec \ {s}, z.st = q.st, z.filtered = q.filtered,
             z.nsel = q.nsel, z.keep = q.keep, z.cache = q.cache, z.got = q.got,
             m = q.map \/ (m = q.map \cup {s} /\ s \in Where)
      PROVE  QueryInv(z, live)
  <2>1. z.kind = q.kind /\ z.expr = q.expr /\ z.tmp = q.tmp /\ z.stack = q.stack
    BY <1>5 DEF SameQuery
  <2>2. PhaseInv(z) /\ ~Walking(z)
    BY <1>2, <1>3, <1>5, <2>1 DEF PhaseInv, Walking
  <2>3. DropInv(z, live)
    BY <1>2, <1>3, <1>5, <2>1 DEF DropInv
  <2>4. ListInv(z, live)
    BY <1>3, <2>1 DEF ListInv
  <2>5. PoolInv(z)
    BY <1>3, <1>5, <2>2, PoolSame
  <2>6. SelectInv(z)
    BY <1>2, <1>3, <1>5, <2>1 DEF SelectInv, SameQuery
  <2> QED BY <2>2, <2>3, <2>4, <2>5, <2>6, StageInv
<1>6. CASE q.vec # {}
  <2>1. PICK s \in q.vec :
           IF cexpr_run(s)
           THEN Set(i, [q EXCEPT !.vec = @ \ {s}, !.map = @ \cup {s}]) /\ UNCHANGED ref
           ELSE Set(i, [q EXCEPT !.vec = @ \ {s}]) /\ ref' = Drop(ref, One({s}))
    BY <1>6 DEF async_filter_series
  <2>2. s \in Series /\ q.st \notin {"drop", "done"}
    BY <1>2, <1>3
  <2>3. CASE cexpr_run(s)
    <3> DEFINE m == q.map \cup {s}
               z == [q EXCEPT !.vec = q.vec \ {s}, !.map = m]
    <3>1. qs' = [qs EXCEPT ![i] = z] /\ ref' = ref
      BY <2>1, <2>3 DEF Set
    <3>2. m \in SUBSET Series
      BY <1>3, <2>2
    <3>3. m = q.map \cup {s} /\ s \in Where
      BY <2>3 DEF cexpr_run
    <3> HIDE DEF m
    <3>4. z \in Query
      BY <1>1, <1>3, <3>2 DEF Query
    <3>5. /\ SameQuery(q, z) /\ z.map = m /\ z.vec = q.vec \ {s} /\ z.st = q.st
          /\ z.filtered = q.filtered /\ z.nsel = q.nsel /\ z.keep = q.keep
          /\ z.cache = q.cache /\ z.got = q.got
      BY <1>1 DEF Query, SameQuery
    <3> HIDE DEF z
    <3>6. QueryInv(z, live)
      BY <1>5, <3>3, <3>4, <3>5
    <3>7. ASSUME NEW x \in Series PROVE Held(z, x) = Held(q, x)
      <4>1. Saved(z) = Saved(q) /\ z.tmp = q.tmp
        BY <3>5 DEF Saved, SameQuery
      <4>2. Bit(x, m) + Bit(x, q.vec \ {s}) = Bit(x, q.map) + Bit(x, q.vec)
        BY <1>3, <3>3 DEF Bit
      <4>3. \A S : Bit(x, S) \in Int
        BY BitType
      <4>4. /\ Held(z, x) = Bit(x, m) + Bit(x, q.tmp) + Bit(x, q.vec \ {s})
                            + Bit(x, Saved(q))
            /\ Held(q, x) = Bit(x, q.map) + Bit(x, q.tmp) + Bit(x, q.vec)
                            + Bit(x, Saved(q))
        BY <3>5, <4>1 DEF Held
      <4> HIDE DEF q
      <4> QED BY <4>2, <4>3, <4>4
    <3> HIDE DEF q
    <3> QED BY <1>2, <2>2, <3>1, <3>6, <3>7, SameRefs DEF q
  <2>4. CASE ~cexpr_run(s)
    <3> DEFINE z == [q EXCEPT !.vec = q.vec \ {s}]
    <3>1. qs' = [qs EXCEPT ![i] = z] /\ ref' = Drop(ref, One({s}))
      BY <2>1, <2>4 DEF Set
    <3>2. z \in Query
      BY <1>1, <1>3 DEF Query
    <3>3. /\ SameQuery(q, z) /\ z.map = q.map /\ z.vec = q.vec \ {s} /\ z.st = q.st
          /\ z.filtered = q.filtered /\ z.nsel = q.nsel /\ z.keep = q.keep
          /\ z.cache = q.cache /\ z.got = q.got
      BY <1>1 DEF Query, SameQuery
    <3> HIDE DEF z
    <3>4. QueryInv(z, live)
      BY <1>5, <3>2, <3>3
    <3>5. z.tmp = q.tmp /\ z.stack = q.stack /\ s \in q.vec
      BY <3>3 DEF SameQuery
    <3> HIDE DEF q
    <3> QED BY <1>2, <2>2, <3>1, <3>3, <3>4, <3>5, ReleaseOne DEF q
  <2> QED BY <2>3, <2>4
<1> QED BY <1>4, <1>6

-----------------------------------------------------------------------------
(* Drop.                                                                   *)

(* A query that has dropped its last series ends; what it dropped it was   *)
(* asked to.                                                               *)
LEMMA DropEndOK ==
    ASSUME Inv, NEW i \in Queries, qs[i].st = "drop", QUERIES_FREE(i, qs[i]),
           UNCHANGED <<live, tagged, ver>>
    PROVE  Inv'
<1> DEFINE q == qs[i]
           z == [q EXCEPT !.st = "done", !.map = {}, !.tmp = {}, !.vec = {},
                          !.stack = <<>>]
<1>1. /\ QueryInv(q, live) /\ q \in Query /\ tagged \in SUBSET Series
      /\ \A s \in Series : ref[s] \in Int
  BY HereIs
<1>2. /\ qs' = [qs EXCEPT ![i] = z]
      /\ ref' = [s \in Series |-> ref[s] - Holds(q, s)]
  BY DEF QUERIES_FREE, Set
<1>3. <<>> \in Seq(SavedSet)
  OBVIOUS
<1>4. z \in Query
  BY <1>1, <1>3 DEF Query, Stages
<1>5. /\ z.st = "done" /\ z.kind = q.kind /\ z.expr = q.expr /\ z.map = {}
      /\ z.stack = <<>> /\ z.vec = {} /\ z.tmp = {} /\ z.where = q.where
  BY <1>1 DEF Query
<1> HIDE DEF z
<1>6. PhaseInv(q) /\ q.kind = "drop"
  BY <1>1 DEF QueryInv, PhaseInv
<1>7. PhaseInv(z) /\ ~Walking(z) /\ z.kind = "drop"
  <2>1. Len(<<>>) <= 1
    OBVIOUS
  <2> QED BY <1>5, <1>6, <2>1 DEF PhaseInv, Walking
<1>8. DropInv(z, live) /\ ListInv(z, live) /\ PoolInv(z) /\ SelectInv(z)
  BY <1>5, <1>7 DEF DropInv, ListInv, PoolInv, SelectInv
<1>9. QueryInv(z, live)
  BY <1>4, <1>7, <1>8, StageInv
<1>10. \A s : Holds(q, s) = Held(q, s) /\ Held(q, s) \in Nat
  BY <1>1, QueryHolds
<1>11. ref' \in [Series -> Int]
  BY <1>1, <1>2, <1>10
<1>12. Asked(z) = Asked(q)
  BY <1>5 DEF Asked
<1>13. ASSUME NEW s \in Series
       PROVE  ref'[s] = ref[s] + (Bit(s, live') - Bit(s, live))
                        + (Bit(s, tagged') - Bit(s, tagged))
                        + (Held(z, s) - Held(q, s))
  <2>1. ref'[s] = ref[s] - Held(q, s)
    BY <1>2, <1>10
  <2>2. Bit(s, {}) = 0 /\ Saved(z) = {}
    BY <1>5 DEF Bit, Saved
  <2>3. Held(z, s) = 0 + 0 + 0 + 0
    BY <1>5, <2>2 DEF Held
  <2>4. Held(q, s) \in Nat /\ ref[s] \in Int
    BY <1>1, <1>10
  <2>5. /\ Bit(s, tagged') \in Int /\ tagged' = tagged
        /\ Bit(s, live') \in Int /\ live' = live
    BY BitType
  <2> HIDE DEF q
  <2> QED BY <2>1, <2>3, <2>4, <2>5
<1>14. QueryInv(z, live')
  BY <1>9
<1>15. RefsExact'
  <2> HIDE DEF q
  <2> QED BY <1>2, <1>11, <1>13, <1>14, RefsStep DEF q
<1> HIDE DEF q
<1>16. qs' \in [Queries -> Query] /\ DOMAIN qs = Queries
  BY <1>2, <1>4 DEF Inv, TypeInv
<1>17. TypeInv'
  BY <1>1, <1>11, <1>16 DEF Inv, TypeInv
<1>18. \A j \in Queries : QueryInv(qs'[j], live')
  <2> SUFFICES ASSUME NEW j \in Queries PROVE QueryInv(qs'[j], live')
    OBVIOUS
  <2>1. CASE j = i
    BY <1>2, <1>14, <1>16, <2>1
  <2>2. CASE j # i
    BY <1>2, <1>16, <2>2 DEF Inv
  <2> QED BY <2>1, <2>2
<1>19. DroppedInv'
  <2> SUFFICES ASSUME NEW s \in Series \ live'
               PROVE  \E j \in Queries : /\ qs'[j].kind = "drop"
                                         /\ qs'[j].st \in {"drop", "done"}
                                         /\ s \in Asked(qs'[j])
    BY DEF DroppedInv
  <2>1. PICK j \in Queries : /\ qs[j].kind = "drop"
                             /\ qs[j].st \in {"drop", "done"}
                             /\ s \in Asked(qs[j])
    BY DEF Inv, DroppedInv
  <2>2. CASE j = i
    <3>1. qs'[j] = z
      BY <1>2, <1>16, <2>2
    <3>2. s \in Asked(z)
      BY <1>12, <2>1, <2>2 DEF q
    <3> QED BY <1>5, <1>7, <3>1, <3>2
  <2>3. CASE j # i
    <3>1. qs'[j] = qs[j]
      BY <1>2, <1>16, <2>3
    <3> QED BY <2>1, <3>1
  <2> QED BY <2>2, <2>3
<1> QED BY <1>15, <1>17, <1>18, <1>19 DEF Inv

(* async_drop_series keeps the invariant: a series that another query      *)
(* dropped meanwhile is only released.                                     *)
LEMMA DropOK ==
    ASSUME Inv, NEW i \in Queries, async_drop_series(i)
    PROVE  Inv'
<1> DEFINE q == qs[i]
<1>1. /\ QueryInv(q, live) /\ q \in Query /\ live \in SUBSET Series
      /\ tagged \in SUBSET Series /\ ref \in [Series -> Int]
      /\ \A x \in Series : ref[x] \in Int
  BY HereIs
<1>2. q.st = "drop" /\ UNCHANGED <<tagged, ver>>
  BY DEF async_drop_series
<1>3. CASE q.vec = {}
  BY <1>2, <1>3, DropEndOK DEF async_drop_series
<1>4. CASE q.vec # {}
  <2>1. PICK s \in q.vec :
           siridb_series_drop(s) /\ Set(i, [q EXCEPT !.vec = @ \ {s}])
    BY <1>4 DEF async_drop_series
  <2> DEFINE z == [q EXCEPT !.vec = q.vec \ {s}]
  <2>2. qs' = [qs EXCEPT ![i] = z]
    BY <2>1 DEF Set
  <2>3. live' = live \ {s} /\ ref' = Drop(ref, Lost(live \cap {s}, {s}))
    BY <2>1 DEF siridb_series_drop
  <2>4. /\ PhaseInv(q) /\ DropInv(q, live) /\ q.kind = "drop"
        /\ q.vec \in SUBSET Series
    BY <1>1, <1>2 DEF QueryInv, PhaseInv, Query
  <2>5. z \in Query
    BY <1>1, <2>4 DEF Query
  <2>6. /\ SameQuery(q, z) /\ z.map = q.map /\ z.vec = q.vec \ {s} /\ z.st = q.st
        /\ z.filtered = q.filtered
    BY <1>1 DEF Query, SameQuery
  <2> HIDE DEF z
  <2>7. z.kind = "drop" /\ z.expr = q.expr /\ z.tmp = q.tmp /\ z.stack = q.stack
        /\ z.where = q.where
    BY <2>4, <2>6 DEF SameQuery
  <2>8. PhaseInv(z) /\ ~Walking(z)
    BY <1>2, <2>4, <2>6, <2>7 DEF PhaseInv, Walking
  <2>9. DropInv(z, live)
    BY <1>2, <2>4, <2>6, <2>7 DEF DropInv
  <2>10. ListInv(z, live) /\ PoolInv(z) /\ SelectInv(z)
    BY <2>7 DEF ListInv, PoolInv, SelectInv
  <2>11. QueryInv(z, live)
    BY <2>5, <2>8, <2>9, <2>10, StageInv
  <2>12. live' \subseteq live
    BY <2>3
  <2>13. QueryInv(z, live')
    BY <2>11, <2>12, FewerLive
  <2>14. \A x, S : Bit(x, S) \in Int
    BY BitType
  <2>15. \A x \in Series : Lost(live \cap {s}, {s})[x]
                             = Bit(x, live \cap {s}) + Bit(x, {s})
    BY OneIs DEF Lost
  <2>16. ref' \in [Series -> Int]
    <3> HIDE DEF q
    <3>1. ASSUME NEW x \in Series PROVE Lost(live \cap {s}, {s})[x] \in Int
      <4>1. Bit(x, live \cap {s}) \in Int /\ Bit(x, {s}) \in Int
        BY <2>14
      <4>2. Lost(live \cap {s}, {s})[x] = Bit(x, live \cap {s}) + Bit(x, {s})
        BY <2>15
      <4> QED BY <4>1, <4>2
    <3>2. Drop(ref, Lost(live \cap {s}, {s})) \in [Series -> Int]
      BY <1>1, <3>1, DropType
    <3> QED BY <2>3, <3>2
  <2>17. ASSUME NEW x \in Series
         PROVE  ref'[x] = ref[x] + (Bit(x, live') - Bit(x, live))
                          + (Bit(x, tagged') - Bit(x, tagged))
                          + (Held(z, x) - Held(q, x))
    <3>1. ref'[x] = ref[x] - (Bit(x, live \cap {s}) + Bit(x, {s}))
      BY <2>3, <2>15 DEF Drop
    <3>2. Bit(x, live \ {s}) - Bit(x, live) = 0 - Bit(x, live \cap {s})
      BY DEF Bit
    <3>3. Bit(x, q.vec \ {s}) = Bit(x, q.vec) - Bit(x, {s})
      BY DEF Bit
    <3>4. Saved(z) = Saved(q)
      BY <2>7 DEF Saved
    <3>5. /\ Held(z, x) = Bit(x, q.map) + Bit(x, q.tmp) + Bit(x, q.vec \ {s})
                          + Bit(x, Saved(q))
          /\ Held(q, x) = Bit(x, q.map) + Bit(x, q.tmp) + Bit(x, q.vec)
                          + Bit(x, Saved(q))
      BY <2>6, <2>7, <3>4 DEF Held
    <3>6. ref[x] \in Int /\ tagged' = tagged /\ live' = live \ {s}
      BY <1>1, <1>2, <2>3
    <3> HIDE DEF q
    <3>7. \A S : Bit(x, S) \in Int
      BY <2>14
    <3> QED BY <3>1, <3>2, <3>3, <3>5, <3>6, <3>7
  <2>18. s \in Series /\ (s \in live => s \in Asked(q))
    <3>1. s \in Series
      BY <2>4
    <3>2. s \in live => s \in Walked(q.expr)
      BY <1>2, <2>4 DEF DropInv
    <3>3. q.where => s \in Where
      BY <1>2, <2>4 DEF DropInv
    <3> QED BY <3>1, <3>2, <3>3 DEF Asked
  <2>19. Asked(z) = Asked(q)
    BY <2>7 DEF Asked
  <2>20. z.st = "drop"
    BY <1>2, <2>6
  <2> HIDE DEF q
  <2>21. RefsExact'
    BY <2>2, <2>13, <2>16, <2>17, RefsStep DEF q
  <2>22. qs' \in [Queries -> Query] /\ DOMAIN qs = Queries
    BY <2>2, <2>5 DEF Inv, TypeInv
  <2>23. TypeInv'
    BY <1>1, <1>2, <2>3, <2>16, <2>22 DEF Inv, TypeInv
  <2>24. \A j \in Queries : QueryInv(qs'[j], live')
    <3> SUFFICES ASSUME NEW j \in Queries PROVE QueryInv(qs'[j], live')
      OBVIOUS
    <3>1. CASE j = i
      BY <2>2, <2>13, <2>22, <3>1
    <3>2. CASE j # i
      <4>1. qs'[j] = qs[j] /\ QueryInv(qs[j], live)
        BY <2>2, <2>22, <3>2 DEF Inv
      <4> QED BY <2>12, <4>1, FewerLive
    <3> QED BY <3>1, <3>2
  <2>25. DroppedInv'
    <3> SUFFICES ASSUME NEW x \in Series \ live'
                 PROVE  \E j \in Queries : /\ qs'[j].kind = "drop"
                                           /\ qs'[j].st \in {"drop", "done"}
                                           /\ x \in Asked(qs'[j])
      BY DEF DroppedInv
    <3>1. qs'[i] = z
      BY <2>2, <2>22
    <3>2. CASE x \in live
      <4>1. x = s
        BY <2>3, <3>2
      <4> QED BY <2>7, <2>18, <2>19, <2>20, <3>1, <3>2, <4>1
    <3>3. CASE x \notin live
      <4>1. PICK j \in Queries : /\ qs[j].kind = "drop"
                                 /\ qs[j].st \in {"drop", "done"}
                                 /\ x \in Asked(qs[j])
        BY <3>3 DEF Inv, DroppedInv
      <4>2. CASE j = i
        <5>1. x \in Asked(z)
          BY <2>19, <4>1, <4>2 DEF q
        <5> QED BY <2>7, <2>20, <3>1, <5>1
      <4>3. CASE j # i
        <5>1. qs'[j] = qs[j]
          BY <2>2, <2>22, <4>3
        <5> QED BY <4>1, <5>1
      <4> QED BY <4>2, <4>3
    <3> QED BY <3>2, <3>3
  <2> QED BY <2>21, <2>23, <2>24, <2>25 DEF Inv
<1> QED BY <1>3, <1>4

-----------------------------------------------------------------------------
(* Select.                                                                 *)

(* async_no_points_aggregate keeps the invariant.                          *)
LEMMA SkipOK ==
    ASSUME Inv, NEW i \in Queries, async_no_points_aggregate(i)
    PROVE  Inv'
<1> DEFINE q == qs[i]
<1>1. QueryInv(q, live) /\ q \in Query /\ ver \in [Series -> 0..MaxInserts]
  BY HereIs
<1>2. q.st = "skip" /\ UNCHANGED <<live, tagged, ver>>
  BY DEF async_no_points_aggregate
<1>3. /\ q.kind = "skip" /\ PhaseInv(q) /\ q.vec \in SUBSET Series
      /\ q.nsel \in 0..2 /\ q.got \in SUBSET ((0..2) \X Series \X Nat)
      /\ q.st \notin {"drop", "done"}
  BY <1>1, <1>2 DEF QueryInv, PhaseInv, Query
<1>4. CASE q.vec = {}
  <2> DEFINE z == [q EXCEPT !.st = "exit"]
  <2>1. qs' = [qs EXCEPT ![i] = z] /\ ref' = ref
    BY <1>4 DEF async_no_points_aggregate, Set
  <2>2. z \in Query
    BY <1>1 DEF Query, Stages
  <2>3. /\ SameQuery(q, z) /\ z.st = "exit" /\ z.vec = q.vec /\ z.map = q.map
        /\ z.filtered = q.filtered
    BY <1>1 DEF Query, SameQuery
  <2> HIDE DEF z
  <2>4. PhaseInv(z) /\ ~Walking(z) /\ z.kind = "skip"
    BY <1>2, <1>3, <1>4, <2>3 DEF PhaseInv, SameQuery, Walking
  <2>5. QueryInv(z, live)
    BY <2>2, <2>4, PlainStage
  <2>6. \A s : Held(z, s) = Held(q, s)
    BY <2>3 DEF Held, Saved, SameQuery
  <2>7. /\ live' = live /\ ref' = ref /\ tagged' = tagged /\ ver' = ver
        /\ qs[i].st \notin {"drop", "done"}
    BY <1>2, <1>3, <2>1
  <2>8. \A s \in Series : Held(z, s) = Held(qs[i], s)
    BY <2>6
  <2> QED BY <2>1, <2>5, <2>7, <2>8, SameRefs
<1>5. CASE q.vec # {}
  <2>1. PICK s \in q.vec :
           /\ ref' = Drop(ref, One({s}))
           /\ Set(i, [q EXCEPT !.vec = @ \ {s},
                               !.got = @ \cup {<<q.nsel, s, ver[s]>>}])
    BY <1>5 DEF async_no_points_aggregate
  <2> DEFINE got == q.got \cup {<<q.nsel, s, ver[s]>>}
             z == [q EXCEPT !.vec = q.vec \ {s}, !.got = got]
  <2>2. qs' = [qs EXCEPT ![i] = z] /\ ref' = Drop(ref, One({s}))
    BY <2>1 DEF Set
  <2>3. s \in Series /\ ver[s] \in Nat
    <3>1. s \in Series
      BY <1>3
    <3>2. ver[s] \in 0..MaxInserts /\ MaxInserts \in Nat
      BY <1>1, <3>1, SeriesMatchAssumption
    <3> QED BY <3>1, <3>2
  <2>4. got \in SUBSET ((0..2) \X Series \X Nat)
    BY <1>3, <2>3
  <2> HIDE DEF got
  <2>5. z \in Query
    BY <1>1, <1>3, <2>4 DEF Query
  <2>6. /\ SameQuery(q, z) /\ z.st = q.st /\ z.vec = q.vec \ {s} /\ z.map = q.map
        /\ z.filtered = q.filtered
    BY <1>1 DEF Query, SameQuery
  <2> HIDE DEF z
  <2>7. PhaseInv(z) /\ ~Walking(z) /\ z.kind = "skip"
    BY <1>2, <1>3, <2>6 DEF PhaseInv, SameQuery, Walking
  <2>8. QueryInv(z, live)
    BY <2>5, <2>7, PlainStage
  <2>9. z.tmp = q.tmp /\ z.stack = q.stack /\ s \in q.vec
    BY <2>6 DEF SameQuery
  <2> HIDE DEF q
  <2> QED BY <1>2, <1>3, <2>2, <2>6, <2>8, <2>9, ReleaseOne DEF q
<1> QED BY <1>4, <1>5

\* The points of series s that query q sees.
Points(q, s) ==
    IF Cached(q, s) # {} THEN {x[2] : x \in Cached(q, s)}
    ELSE IF s \in live THEN {ver[s]} ELSE {}

(* What is read of a series agrees with what was read of it before: either *)
(* there is a copy of the points or the series was never read.             *)
LEMMA PointsAgree ==
    ASSUME Inv, NEW i \in Queries, qs[i].st = "select", NEW s \in qs[i].vec
    PROVE  /\ Points(qs[i], s) \subseteq Nat
           /\ \A v, w \in Points(qs[i], s) : v = w
           /\ \A g \in qs[i].got : g[2] = s => \A v \in Points(qs[i], s) : g[3] = v
           /\ \A c \in qs[i].cache : c[1] = s => \A v \in Points(qs[i], s) : c[2] = v
<1> DEFINE q == qs[i]
           P == Points(q, s)
<1>1. QueryInv(q, live) /\ q \in Query /\ ver \in [Series -> 0..MaxInserts]
  BY HereIs
<1>2. SelectInv(q) /\ q.kind = "select" /\ q.nsel \in 0..2 /\ s \in Series
      /\ q.cache \in SUBSET (Series \X Nat)
  BY <1>1 DEF QueryInv, PhaseInv, Query
<1>3. /\ q.nsel < 2
      /\ \A g \in q.got, c \in q.cache : g[2] = c[1] => g[3] = c[2]
      /\ \A c, d \in q.cache : c[1] = d[1] => c[2] = d[2]
      /\ q.nsel = 1 => \A g \in q.got : g[2] \notin q.vec
      /\ q.nsel = 0 =>
            \A g \in q.got : g[2] \in q.vec => \E c \in q.cache : c[1] = g[2]
  BY <1>2 DEF SelectInv
<1>4. ver[s] \in Nat
  <2>1. ver[s] \in 0..MaxInserts /\ MaxInserts \in Nat
    BY <1>1, <1>2, SeriesMatchAssumption
  <2> QED BY <2>1
<1>5. Cached(q, s) = {c \in q.cache : c[1] = s}
  BY DEF Cached
<1>6. CASE Cached(q, s) # {}
  <2>1. P = {x[2] : x \in Cached(q, s)}
    BY <1>6 DEF Points
  <2> HIDE DEF P
  <2>2. \A v \in P : \E x \in q.cache : x[1] = s /\ v = x[2]
    BY <1>5, <2>1
  <2>3. P \subseteq Nat
    BY <1>2, <2>2
  <2> HIDE DEF q
  <2> QED BY <1>3, <2>2, <2>3 DEF P, q
<1>7. CASE Cached(q, s) = {}
  <2>1. \A c \in q.cache : c[1] # s
    BY <1>5, <1>7
  <2>2. q.nsel = 0 \/ q.nsel = 1
    BY <1>2, <1>3
  <2>3. \A g \in q.got : g[2] # s
    BY <1>3, <2>1, <2>2
  <2>4. P \subseteq {ver[s]}
    BY <1>7 DEF Points
  <2> HIDE DEF P
  <2>5. P \subseteq Nat /\ \A v, w \in P : v = w
    BY <1>4, <2>4
  <2> QED BY <2>1, <2>3, <2>5 DEF P
<1> QED BY <1>6, <1>7

(* The points of one series go to one function.                            *)
LEMMA SelectOne ==
    ASSUME Inv, NEW i \in Queries, qs[i].st = "select", NEW s \in qs[i].vec, NEW z \in Query,
           SameQuery(qs[i], z), z.st = "select", z.vec = qs[i].vec \ {s},
           z.nsel = qs[i].nsel, z.keep = qs[i].keep, z.filtered = qs[i].filtered,
           NEW G, NEW K, z.got = qs[i].got \cup G,
           \A g \in G : g[2] = s /\ g[3] \in Points(qs[i], s),
           \A c \in K : c[1] = s /\ c[2] \in Points(qs[i], s),
           G # {} => K # {},
           \/ z.cache = qs[i].cache \cup K
           \/ qs[i].nsel = 0 /\ z.cache = {c \in qs[i].cache : c[1] # s}
    PROVE  SelectInv(z)
<1> DEFINE q == qs[i]
           P == Points(q, s)
<1>1. QueryInv(q, live)
  BY HereIs
<1>2. SelectInv(q) /\ q.kind = "select"
  BY <1>1 DEF QueryInv, PhaseInv
<1>3. /\ \A v, w \in P : v = w
      /\ \A g \in q.got : g[2] = s => \A v \in P : g[3] = v
      /\ \A c \in q.cache : c[1] = s => \A v \in P : c[2] = v
  BY PointsAgree
<1>4. /\ q.nsel < 2 /\ q.nsel # 2
      /\ q.where => q.filtered = TRUE
      /\ q.keep = TRUE
      /\ \A g, h \in q.got : g[2] = h[2] => g[3] = h[3]
      /\ \A g \in q.got, c \in q.cache : g[2] = c[1] => g[3] = c[2]
      /\ \A c, d \in q.cache : c[1] = d[1] => c[2] = d[2]
      /\ q.nsel = 1 => \A g \in q.got : g[2] \notin q.vec
      /\ q.nsel = 1 => \A g \in q.got : \E c \in q.cache : c[1] = g[2]
      /\ q.nsel = 0 =>
            \A g \in q.got : g[2] \in q.vec => \E c \in q.cache : c[1] = g[2]
  BY <1>2 DEF SelectInv
<1>5. z.kind = "select" /\ z.where = q.where
  BY <1>2 DEF SameQuery
<1> HIDE DEF P
<1>6. \A g \in z.got : g \in q.got \/ (g[2] = s /\ g[3] \in P)
  <2>1. \A g \in G : g[2] = s /\ g[3] \in P
    BY DEF P
  <2>2. z.got = q.got \cup G
    OBVIOUS
  <2> QED BY <2>1, <2>2
<1>7. \A c \in z.cache : c \in q.cache \/ (c[1] = s /\ c[2] \in P)
  <2>1. \A c \in K : c[1] = s /\ c[2] \in P
    BY DEF P
  <2>2. z.cache \subseteq q.cache \cup K
    OBVIOUS
  <2> QED BY <2>1, <2>2
<1>8. \A g, h \in z.got : g[2] = h[2] => g[3] = h[3]
  <2> HIDE DEF q
  <2> QED BY <1>3, <1>4, <1>6
<1>9. \A g \in z.got, c \in z.cache : g[2] = c[1] => g[3] = c[2]
  <2> HIDE DEF q
  <2> QED BY <1>3, <1>4, <1>6, <1>7
<1>10. \A c, d \in z.cache : c[1] = d[1] => c[2] = d[2]
  <2> HIDE DEF q
  <2> QED BY <1>3, <1>4, <1>7
<1>11. ASSUME z.nsel = 1
       PROVE  \A g \in z.got : g[2] \notin z.vec /\ \E c \in z.cache : c[1] = g[2]
  <2>1. z.cache = q.cache \cup K /\ q.nsel = 1
    BY <1>11
  <2> SUFFICES ASSUME NEW g \in z.got
               PROVE  g[2] \notin z.vec /\ \E c \in z.cache : c[1] = g[2]
    OBVIOUS
  <2>2. CASE g \in q.got
    BY <1>4, <2>1, <2>2
  <2>3. CASE g \in G
    <3>1. PICK c \in K : TRUE
      BY <2>3
    <3> QED BY <2>1, <2>3, <3>1
  <2> QED BY <2>2, <2>3
<1>12. ASSUME z.nsel = 0, NEW g \in z.got, g[2] \in z.vec
       PROVE  \E c \in z.cache : c[1] = g[2]
  <2>1. g[2] # s /\ g \in q.got /\ q.nsel = 0 /\ g[2] \in q.vec
    BY <1>12
  <2>2. PICK c \in q.cache : c[1] = g[2]
    BY <1>4, <2>1
  <2>3. c \in z.cache
    BY <2>1, <2>2
  <2> QED BY <2>2, <2>3
<1> HIDE DEF q
<1>13. z.nsel < 2 /\ z.nsel # 2 /\ z.keep = TRUE /\ (z.where => z.filtered = TRUE)
       /\ ~Walking(z)
  BY <1>4, <1>5 DEF q, Walking
<1> QED BY <1>5, <1>8, <1>9, <1>10, <1>11, <1>12, <1>13 DEF SelectInv

(* async_select_aggregate keeps the invariant.                             *)
LEMMA SelectOK ==
    ASSUME Inv, NEW i \in Queries, async_select_aggregate(i)
    PROVE  Inv'
<1> DEFINE q == qs[i]
<1>1. QueryInv(q, live) /\ q \in Query
  BY HereIs
<1>2. q.st = "select" /\ UNCHANGED <<live, tagged, ver>>
  BY DEF async_select_aggregate
<1>3. /\ q.kind = "select" /\ PhaseInv(q) /\ PoolInv(q) /\ SelectInv(q)
      /\ q.vec \in SUBSET Series /\ q.nsel \in 0..2
      /\ q.got \in SUBSET ((0..2) \X Series \X Nat)
      /\ q.cache \in SUBSET (Series \X Nat)
      /\ q.st \notin {"drop", "done", "idle"} /\ ~Walking(q)
  BY <1>1, <1>2 DEF QueryInv, PhaseInv, Query, Walking
<1>4. CASE q.vec = {}
  <2> DEFINE z == [q EXCEPT !.st = "exit"]
  <2>1. qs' = [qs EXCEPT ![i] = z] /\ ref' = ref
    BY <1>4 DEF async_select_aggregate, Set
  <2>2. z \in Query
    BY <1>1 DEF Query, Stages
  <2>3. /\ SameQuery(q, z) /\ z.st = "exit" /\ z.vec = q.vec /\ z.map = q.map
        /\ z.filtered = q.filtered /\ z.nsel = q.nsel /\ z.keep = q.keep
        /\ z.got = q.got /\ z.cache = q.cache
    BY <1>1 DEF Query, SameQuery
  <2> HIDE DEF z
  <2>4. PhaseInv(z) /\ ~Walking(z) /\ z.kind = "select"
    BY <1>2, <1>3, <1>4, <2>3 DEF PhaseInv, SameQuery, Walking
  <2>5. DropInv(z, live) /\ ListInv(z, live)
    BY <2>4 DEF DropInv, ListInv
  <2>6. PoolInv(z)
    BY <1>3, <2>3, <2>4, PoolSame
  <2>7. SelectInv(z)
    BY <1>2, <1>3, <2>3, <2>4 DEF SelectInv, SameQuery
  <2>8. QueryInv(z, live)
    BY <2>2, <2>4, <2>5, <2>6, <2>7, StageInv
  <2>9. \A s : Held(z, s) = Held(q, s)
    BY <2>3 DEF Held, Saved, SameQuery
  <2>10. /\ live' = live /\ ref' = ref /\ tagged' = tagged /\ ver' = ver
        /\ qs[i].st \notin {"drop", "done"}
    BY <1>2, <1>3, <2>1
  <2>11. \A s \in Series : Held(z, s) = Held(qs[i], s)
    BY <2>9
  <2> QED BY <2>1, <2>8, <2>10, <2>11, SameRefs
<1>5. CASE QUERIES_FREE(i, [q EXCEPT !.kind = "error"])
  BY <1>2, <1>3, <1>5, ErrorOK
<1>6. ASSUME NEW s \in q.vec,
             LET c == Cached(q, s)
                 points == IF c # {} THEN {x[2] : x \in c}
                           ELSE IF s \in live THEN {ver[s]} ELSE {}
             IN  /\ ref' = Drop(ref, One({s}))
                 /\ Set(i, [q EXCEPT !.vec = @ \ {s},
                      !.got = @ \cup {<<q.nsel, s, v>> : v \in points},
                      !.cache = IF c # {} /\ q.nsel = 0 THEN @ \ c
                                ELSE IF q.keep THEN @ \cup {<<s, v>> : v \in points}
                                ELSE @])
      PROVE  Inv'
  <2> DEFINE P == Points(q, s)
             G == {<<q.nsel, s, v>> : v \in P}
             K == {<<s, v>> : v \in P}
             got == q.got \cup G
             cache == IF Cached(q, s) # {} /\ q.nsel = 0 THEN q.cache \ Cached(q, s)
                      ELSE IF q.keep THEN q.cache \cup K ELSE q.cache
             z == [q EXCEPT !.vec = q.vec \ {s}, !.got = got, !.cache = cache]
  <2>1. qs' = [qs EXCEPT ![i] = z] /\ ref' = Drop(ref, One({s}))
    BY <1>6 DEF Set, Points
  <2>2. s \in Series /\ P \subseteq Nat
    BY <1>2, <1>3, PointsAgree
  <2> HIDE DEF P
  <2>3. G \in SUBSET ((0..2) \X Series \X Nat) /\ K \in SUBSET (Series \X Nat)
    BY <1>3, <2>2
  <2>4. /\ \A g \in G : g[2] = s /\ g[3] \in P
        /\ \A c \in K : c[1] = s /\ c[2] \in P
        /\ G # {} => K # {}
    <3>1. \A g \in G : g[2] = s /\ g[3] \in P
      OBVIOUS
    <3>2. \A c \in K : c[1] = s /\ c[2] \in P
      OBVIOUS
    <3>3. ASSUME G # {} PROVE K # {}
      <4>1. PICK v \in P : TRUE
        BY <3>3
      <4>2. <<s, v>> \in K
        BY <4>1
      <4> QED BY <4>2
    <3> QED BY <3>1, <3>2, <3>3
  <2>5. q.keep = TRUE
    BY <1>2, <1>3 DEF SelectInv
  <2>6. \/ cache = q.cache \cup K
        \/ q.nsel = 0 /\ cache = {c \in q.cache : c[1] # s}
    BY <2>5 DEF Cached
  <2> HIDE DEF G, K
  <2>7. got \in SUBSET ((0..2) \X Series \X Nat) /\ cache \in SUBSET (Series \X Nat)
    BY <1>3, <2>3
  <2>8. got = q.got \cup G
    OBVIOUS
  <2> HIDE DEF got, cache
  <2>9. z \in Query
    BY <1>1, <1>3, <2>7 DEF Query
  <2>10. /\ SameQuery(q, z) /\ z.st = q.st /\ z.vec = q.vec \ {s} /\ z.map = q.map
         /\ z.filtered = q.filtered /\ z.nsel = q.nsel /\ z.keep = q.keep
         /\ z.got = got /\ z.cache = cache
    BY <1>1 DEF Query, SameQuery
  <2> HIDE DEF z
  <2>11. SelectInv(z)
    <3>1. /\ \A g \in G : g[2] = s /\ g[3] \in Points(q, s)
          /\ \A c \in K : c[1] = s /\ c[2] \in Points(q, s)
      BY <2>4 DEF P
    <3>2. z.got = q.got \cup G /\ z.st = "select" /\ s \in q.vec
      BY <1>2, <2>8, <2>10
    <3>3. \/ z.cache = q.cache \cup K
          \/ q.nsel = 0 /\ z.cache = {c \in q.cache : c[1] # s}
      BY <2>6, <2>10
    <3> HIDE DEF q
    <3> QED BY <1>2, <2>4, <2>9, <2>10, <3>1, <3>2, <3>3, SelectOne DEF q
  <2>12. PhaseInv(z) /\ ~Walking(z) /\ z.kind = "select"
    BY <1>2, <1>3, <2>10 DEF PhaseInv, SameQuery, Walking
  <2>13. DropInv(z, live) /\ ListInv(z, live)
    BY <2>12 DEF DropInv, ListInv
  <2>14. PoolInv(z)
    BY <1>3, <2>10, <2>12, PoolSame
  <2>15. QueryInv(z, live)
    BY <2>9, <2>11, <2>12, <2>13, <2>14, StageInv
  <2>16. z.tmp = q.tmp /\ z.stack = q.stack /\ s \in q.vec
    BY <2>10 DEF SameQuery
  <2> HIDE DEF q
  <2> QED BY <1>2, <1>3, <2>1, <2>10, <2>15, <2>16, ReleaseOne DEF q
<1>7. CASE q.vec # {}
  <2>1. \/ QUERIES_FREE(i, [q EXCEPT !.kind = "error"])
        \/ \E s \in q.vec :
              LET c == Cached(q, s)
                  points == IF c # {} THEN {x[2] : x \in c}
                            ELSE IF s \in live THEN {ver[s]} ELSE {}
              IN  /\ ref' = Drop(ref, One({s}))
                  /\ Set(i, [q EXCEPT !.vec = @ \ {s},
                       !.got = @ \cup {<<q.nsel, s, v>> : v \in points},
                       !.cache = IF c # {} /\ q.nsel = 0 THEN @ \ c
                                 ELSE IF q.keep THEN @ \cup {<<s, v>> : v \in points}
                                 ELSE @])
    BY <1>7 DEF async_select_aggregate
  <2> QED BY <1>5, <1>6, <2>1
<1> QED BY <1>4, <1>7

-----------------------------------------------------------------------------
(* The start of a query.                                                   *)

(* The nodes of a new walk.                                                *)
LEMMA NewWalk ==
    ASSUME NEW z, Expr(z.expr), z.nodes = QUERY_walk(z.expr, z.kind),
           IsTag(z.kind) => Single(z.expr), z.map = {}, z.cb = "none",
           z.stack = <<>>
    PROVE  /\ QUERY_walk(z.expr, z.kind) \in Seq(Node) /\ NodesInv(z)
           /\ \A L : AtNode(z, L)
           /\ Single(z.expr) => Ahead(z) = 2
           /\ Double(z.expr) => Ahead(z) = 4
<1> DEFINE e == z.expr
           W == QUERY_walk(e, z.kind)
<1>1. e \in Seq(Node)
  BY DEF Expr
<1>2. ASSUME Single(e) PROVE W \in Seq(Node) /\ Ahead(z) = 2
  <2>1. W \in Seq(Node) /\ Len(W) = 3 + TagNodes(z.kind)
    BY <1>1, <1>2, WalkSingle
  <2> HIDE DEF W
  <2>2. Ahead(z) = IF IsTag(z.kind) THEN Len(W) - 2 ELSE Len(W) - 1
    BY DEF Ahead, W
  <2> QED BY <2>1, <2>2 DEF TagNodes
<1>3. \/ Len(e) = 1 /\ ~Double(e) /\ ~LeftParen(e) /\ ~RightParen(e)
      \/ Len(e) = 3 /\ ~Single(e) /\ ~LeftParen(e) /\ ~RightParen(e)
      \/ Len(e) = 7 /\ ~Single(e) /\ ~Double(e)
  BY DEF Expr, Single, Double, LeftParen, RightParen
<1>4. ASSUME ~Single(e) PROVE ~IsTag(z.kind) /\ Ahead(z) = Len(W) - 1
  BY <1>4 DEF Ahead
<1>5. ASSUME Double(e) PROVE W \in Seq(Node) /\ Ahead(z) = 4
  <2>1. ~Single(e)
    BY <1>5 DEF Double, Single
  <2>2. W \in Seq(Node) /\ Len(W) = 5
    BY <1>1, <1>4, <1>5, <2>1, WalkDouble
  <2> HIDE DEF W
  <2> QED BY <1>4, <2>1, <2>2
<1>6. ASSUME LeftParen(e) PROVE W \in Seq(Node) /\ Ahead(z) = 8
  <2>1. ~Single(e)
    BY <1>6 DEF LeftParen, Single
  <2>2. W \in Seq(Node) /\ Len(W) = 9
    BY <1>1, <1>4, <1>6, <2>1, WalkLeft
  <2> HIDE DEF W
  <2> QED BY <1>4, <2>1, <2>2
<1>7. ASSUME RightParen(e) PROVE W \in Seq(Node) /\ Ahead(z) = 8
  <2>1. ~Single(e)
    BY <1>7 DEF RightParen, Single
  <2>2. W \in Seq(Node) /\ Len(W) = 9
    BY <1>1, <1>4, <1>7, <2>1, WalkRight
  <2> HIDE DEF W
  <2> QED BY <1>4, <2>1, <2>2
<1>8. W \in Seq(Node)
  BY <1>2, <1>5, <1>6, <1>7 DEF Expr
<1>9. NodesInv(z)
  <2>1. Len(W) \in Nat
    BY <1>8, LenProperties
  <2>2. ASSUME NEW k \in 1..Len(W)
        PROVE  W[k] = WalkOf(e, z.kind, Len(W) + 1 - k)
    <3>1. WalkOf(e, z.kind, Len(W) + 1 - k) = W[Len(W) + 1 - (Len(W) + 1 - k)]
      BY DEF WalkOf
    <3>2. Len(W) + 1 - (Len(W) + 1 - k) = k
      <4>1. \A a \in Nat : \A b \in 1..a : a + 1 - (a + 1 - b) = b
        OBVIOUS
      <4> HIDE DEF W
      <4> QED BY <2>1, <4>1
    <3> HIDE DEF W
    <3> QED BY <3>1, <3>2
  <2>3. z.nodes = W
    OBVIOUS
  <2> HIDE DEF W
  <2>4. Len(z.nodes) <= Len(W)
    BY <2>1, <2>3
  <2> QED BY <2>2, <2>3, <2>4 DEF NodesInv, W
<1>10. ASSUME NEW L PROVE AtNode(z, L)
  <2>1. Empty(z)
    BY DEF Empty
  <2>2. ASSUME Single(e) PROVE AtSingle(z, L, Ahead(z))
    BY <1>2, <2>1, <2>2 DEF AtSingle
  <2>3. ASSUME Double(e) PROVE AtDouble(z, L, Ahead(z))
    BY <1>5, <2>1, <2>3 DEF AtDouble
  <2>4. ASSUME LeftParen(e) PROVE AtLeft(z, L, Ahead(z))
    BY <1>6, <2>1, <2>4 DEF AtLeft
  <2>5. ASSUME RightParen(e) PROVE AtRight(z, L, Ahead(z))
    BY <1>7, <2>1, <2>5 DEF AtRight
  <2> QED BY <2>2, <2>3, <2>4, <2>5 DEF AtNode
<1> QED BY <1>2, <1>5, <1>8, <1>9, <1>10

(* Every expression of a query has one of the four forms.                  *)
LEMMA ExpressionsIs ==
    ASSUME NEW i, NEW e \in Expressions(i)
    PROVE  Expr(e)
<1>1. CASE i = 1 /\ Middle
  BY <1>1, InsideIs DEF Expressions
<1>2. CASE i = 1 /\ ~Middle
  BY <1>2, FlatIs, NestedIs DEF Expressions
<1>3. CASE i # 1
  <2>1. PICK x \in DropNames : e = <<x>>
    BY <1>3 DEF Expressions
  <2>2. e \in Flat
    BY <2>1, DropNamesAssumption DEF Flat
  <2> QED BY <2>2, FlatIs
<1> QED BY <1>1, <1>2, <1>3

\* The fields of a new query.
NewFields(x, kind, e, w, m) ==
    /\ QUERY_walk(e, kind) \in Seq(Node) => x \in Query
    /\ x.st = "walk" /\ x.kind = kind /\ x.expr = e
    /\ x.nodes = QUERY_walk(e, kind) /\ x.where = w /\ x.master = m
    /\ x.map = {} /\ x.cb = "none" /\ x.stack = <<>> /\ x.vec = {}
    /\ x.tmp = {} /\ x.n = {} /\ x.filtered = FALSE /\ x.cache = {}
    /\ x.got = {} /\ (kind = "select" => x.nsel = 2)

(* A new query is one, with nothing found yet.                             *)
LEMMA NewIs ==
    ASSUME NEW kind \in AllKinds, NEW e \in Seq(Node), NEW w \in BOOLEAN,
           NEW m \in BOOLEAN
    PROVE  NewFields(New(kind, e, w, m), kind, e, w, m)
<1> DEFINE W == QUERY_walk(e, kind)
           p == IF kind = "select" /\ m THEN {} ELSE Remote
           k == IF kind \in {"select", "skip"} THEN 2 ELSE 0
           st == "walk"
           y == [Idle EXCEPT !.st = st, !.kind = kind, !.expr = e, !.nodes = W]
           z == [y EXCEPT !.where = w, !.master = m, !.pmap = p, !.nsel = k]
<1>1. /\ Idle \in Query /\ Idle.map = {} /\ Idle.cb = "none" /\ Idle.stack = <<>>
      /\ Idle.vec = {} /\ Idle.tmp = {} /\ Idle.n = {} /\ Idle.filtered = FALSE
      /\ Idle.cache = {} /\ Idle.got = {} /\ Idle.pmap = Remote
  <2>1. <<>> \in Seq(SavedSet) /\ <<>> \in Seq(Node)
    OBVIOUS
  <2> QED BY <2>1 DEF Idle, Query, Stages
<1>2. p \in SUBSET Remote /\ k \in 0..2 /\ (kind = "select" => k = 2)
      /\ st \in Stages /\ st = "walk"
  BY DEF Stages
<1>3. New(kind, e, w, m) = z
  BY <1>1 DEF New
<1> HIDE DEF W, p, k, st
<1>4. ASSUME W \in Seq(Node) PROVE z \in Query
  <2>1. y \in Query
    BY <1>1, <1>2, <1>4 DEF Query
  <2> HIDE DEF y
  <2>2. w \in BOOLEAN /\ m \in BOOLEAN
    OBVIOUS
  <2>3. [y EXCEPT !.where = w, !.master = m] \in Query
    BY <2>1, <2>2 DEF Query
  <2>4. z = [[y EXCEPT !.where = w, !.master = m] EXCEPT !.pmap = p, !.nsel = k]
    BY <2>1 DEF Query
  <2> DEFINE v == [y EXCEPT !.where = w, !.master = m]
  <2>5. v \in Query /\ z = [v EXCEPT !.pmap = p, !.nsel = k]
    BY <2>3, <2>4
  <2> HIDE DEF v, z
  <2> QED BY <1>2, <2>5 DEF Query
<1>5. /\ z.st = st /\ z.kind = kind /\ z.expr = e
      /\ z.nodes = W /\ z.where = w /\ z.master = m
      /\ z.map = Idle.map /\ z.cb = Idle.cb /\ z.stack = Idle.stack
      /\ z.vec = Idle.vec /\ z.tmp = Idle.tmp /\ z.n = Idle.n
      /\ z.filtered = Idle.filtered /\ z.cache = Idle.cache
      /\ z.got = Idle.got /\ z.nsel = k
  BY <1>1 DEF Query
<1> HIDE DEF z
<1>6. NewFields(z, kind, e, w, m)
  BY <1>1, <1>2, <1>4, <1>5 DEF W, NewFields
<1> QED BY <1>3, <1>6

(* Begin keeps the invariant.                                              *)
LEMMA BeginOK ==
    ASSUME Inv, NEW i \in Queries, Begin(i)
    PROVE  Inv'
<1>1. PICK kind \in IF i = 1 THEN Kinds ELSE {"drop"}, e \in Expressions(i),
           w \in BOOLEAN, m \in BOOLEAN :
        /\ Len(e) > 1 => ~w /\ \/ kind = "list"
                               \/ kind = "select" /\ m /\ Len(e) = 3
        /\ Set(i, New(kind, e, w, m))
  BY DEF Begin
<1>2. qs[i].st = "idle" /\ live' = live /\ ref' = ref /\ tagged' = tagged /\ ver' = ver
  BY DEF Begin
<1> DEFINE z == New(kind, e, w, m)
<1>3. kind \in AllKinds
  BY SeriesMatchAssumption DEF AllKinds
<1>4. Expr(e) /\ e \in Seq(Node)
  BY ExpressionsIs DEF Expr
<1>5. /\ QUERY_walk(e, kind) \in Seq(Node) => z \in Query
      /\ z.st = "walk" /\ z.kind = kind /\ z.expr = e
      /\ z.nodes = QUERY_walk(e, kind) /\ z.where = w /\ z.master = m
      /\ z.map = {} /\ z.cb = "none" /\ z.stack = <<>> /\ z.vec = {}
      /\ z.tmp = {} /\ z.n = {} /\ z.filtered = FALSE /\ z.cache = {}
      /\ z.got = {} /\ (kind = "select" => z.nsel = 2)
  <2>1. w \in BOOLEAN /\ m \in BOOLEAN
    OBVIOUS
  <2>2. NewFields(z, kind, e, w, m)
    BY <1>3, <1>4, <2>1, NewIs
  <2> HIDE DEF z
  <2> QED BY <2>2 DEF NewFields
<1>6. qs' = [qs EXCEPT ![i] = z]
  BY <1>1 DEF Set
<1> HIDE DEF z
<1>7. \/ Single(e) /\ Len(e) = 1
      \/ Double(e) /\ Len(e) = 3
      \/ Len(e) = 7
  BY <1>4 DEF Expr, Single, Double, LeftParen, RightParen
<1>8. IsTag(kind) => Single(e)
  <2>1. IsTag(kind) => Len(e) \in {1, 3, 7} /\ ~(Len(e) > 1)
    BY <1>1, <1>7 DEF IsTag
  <2> QED BY <1>7, <2>1
<1>9. /\ QUERY_walk(e, kind) \in Seq(Node) /\ NodesInv(z)
      /\ \A L : AtNode(z, L)
      /\ Single(e) => Ahead(z) = 2
      /\ Double(e) => Ahead(z) = 4
  BY <1>4, <1>5, <1>8, NewWalk
<1>10. z \in Query
  BY <1>5, <1>9
<1>11. WalkInv(z, live) /\ ReInv(z, live) /\ Walking(z)
  BY <1>5, <1>9 DEF WalkInv, ReInv, Walking
<1>12. PhaseInv(z)
  <2>1. Len(<<>>) <= 1 /\ kind # "none"
    BY <1>3 DEF AllKinds
  <2> QED BY <1>3, <1>4, <1>5, <2>1 DEF PhaseInv, Walking
<1>13. DropInv(z, live)
  BY <1>5 DEF DropInv
<1>14. ListInv(z, live)
  <2>1. Cardinality({}) <= ListLimit
    BY FS_EmptySet, SeriesMatchAssumption
  <2> QED BY <1>5, <2>1 DEF ListInv
<1>15. PoolInv(z)
  <2> SUFFICES ASSUME kind = "select", m PROVE PoolInv(z)
    BY <1>5 DEF PoolInv
  <2>1. Single(e) \/ Double(e)
    BY <1>1, <1>7
  <2>2. 4 \notin 0..2
    OBVIOUS
  <2>3. Single(e) => ~Double(e)
    BY DEF Single, Double
  <2>4. z.st # "re" /\ Walking(z) /\ z.expr = e
    BY <1>5, <1>11
  <2>5. Single(e) => Ahead(z) # 0
    BY <1>9
  <2>6. Double(e) => Ahead(z) \notin 0..2 /\ Ahead(z) # 0
    BY <1>9, <2>2
  <2> QED BY <2>1, <2>4, <2>5, <2>6 DEF PoolInv
<1>16. SelectInv(z)
  BY <1>5 DEF SelectInv
<1>17. QueryInv(z, live)
  BY <1>9, <1>10, <1>11, <1>12, <1>13, <1>14, <1>15, <1>16 DEF QueryInv
<1>18. QueryInv(qs[i], live)
  BY HereIs
<1>19. \A s \in Series : Held(z, s) = Held(qs[i], s)
  <2>1. /\ qs[i].map = {} /\ qs[i].vec = {} /\ qs[i].tmp = {}
        /\ qs[i].stack = <<>>
    BY <1>2, <1>18 DEF QueryInv, PhaseInv
  <2> QED BY <1>5, <2>1 DEF Held, Saved
<1>20. qs[i].st \notin {"drop", "done"}
  BY <1>2
<1> QED BY <1>2, <1>6, <1>17, <1>19, <1>20, SameRefs

(* Insert keeps the invariant: what was read before is not read again.     *)
LEMMA InsertOK ==
    ASSUME Inv, NEW s \in Series, Insert(s)
    PROVE  Inv'
<1>1. /\ live' = live /\ ref' = ref /\ tagged' = tagged /\ qs' = qs
      /\ ver' = [ver EXCEPT ![s] = @ + 1] /\ ver[s] < MaxInserts
  BY DEF Insert
<1>2. ver \in [Series -> 0..MaxInserts] /\ MaxInserts \in Nat
  BY SeriesMatchAssumption DEF Inv, TypeInv
<1>3. ver[s] + 1 \in 0..MaxInserts
  BY <1>1, <1>2
<1>4. ver' \in [Series -> 0..MaxInserts]
  BY <1>1, <1>2, <1>3
<1>5. TypeInv'
  BY <1>1, <1>4 DEF Inv, TypeInv
<1>6. RefsExact' /\ DroppedInv'
  BY <1>1 DEF Inv, RefsExact, DroppedInv
<1>7. \A i \in Queries : QueryInv(qs'[i], live')
  BY <1>1 DEF Inv
<1> QED BY <1>5, <1>6, <1>7 DEF Inv

(* The initial states satisfy the invariant.                               *)
LEMMA InitOK == Init => Inv
<1> SUFFICES ASSUME Init PROVE Inv
  OBVIOUS
<1>1. /\ live = Series /\ tagged \in SUBSET Series
      /\ ref = [s \in Series |-> 1 + One(Members)[s] + One(tagged)[s]]
      /\ ver = [s \in Series |-> 0] /\ qs = [i \in Queries |-> Idle]
  BY SeriesMatchAssumption DEF Init
<1>2. /\ Idle \in Query /\ Idle.map = {} /\ Idle.stack = <<>> /\ Idle.kind = "none"
      /\ Idle.vec = {} /\ Idle.tmp = {} /\ Idle.st = "idle"
  <2>1. <<>> \in Seq(SavedSet) /\ <<>> \in Seq(Node)
    OBVIOUS
  <2> QED BY <2>1 DEF Idle, Query, Stages
<1>3. PhaseInv(Idle) /\ ~Walking(Idle)
  <2>1. Len(<<>>) <= 1
    OBVIOUS
  <2> QED BY <1>2, <2>1 DEF PhaseInv, Walking
<1>4. QueryInv(Idle, live)
  BY <1>2, <1>3, PlainStage
<1>5. \A s \in Series : One(Members)[s] \in {0, 1} /\ One(tagged)[s] \in {0, 1}
                        /\ One(live)[s] = 1
  BY <1>1 DEF One
<1>6. TypeInv
  <2>1. ref \in [Series -> Int]
    BY <1>1, <1>5
  <2>2. ver \in [Series -> 0..MaxInserts]
    BY <1>1, SeriesMatchAssumption
  <2> QED BY <1>1, <1>2, <2>1, <2>2 DEF TypeInv
<1>7. RefsExact
  <2> SUFFICES ASSUME NEW s \in Series
               PROVE  ref[s] = One(live)[s] + One(Members)[s] + One(tagged)[s]
                               + Holds(qs[1], s) + Holds(qs[2], s)
    BY DEF RefsExact
  <2>1. Holds(Idle, s) = Held(Idle, s)
    BY <1>4, QueryHolds
  <2>2. Held(Idle, s) = 0
    BY <1>2 DEF Held, Saved, Bit
  <2>3. qs[1] = Idle /\ qs[2] = Idle
    BY <1>1 DEF Queries
  <2> QED BY <1>1, <1>5, <2>1, <2>2, <2>3
<1>8. DroppedInv
  BY <1>1 DEF DroppedInv
<1>9. \A i \in Queries : QueryInv(qs[i], live)
  BY <1>1, <1>4
<1> QED BY <1>6, <1>7, <1>8, <1>9 DEF Inv

-----------------------------------------------------------------------------
(* The invariant holds in every state.                                     *)

(* A step of a query, of an insert or of the environment keeps the         *)
(* invariant.                                                              *)
LEMMA InvStep == Inv /\ [Next]_vars => Inv'
<1> SUFFICES ASSUME Inv, [Next]_vars PROVE Inv'
  OBVIOUS
<1>1. ASSUME NEW i \in Queries, Step(i) PROVE Inv'
  <2>1. CASE enter_series_match(i)
    BY <2>1, MatchOK
  <2>2. CASE enter_series_setopr(i)
    BY <2>2, OprOK
  <2>3. CASE enter_series_name(i)
    BY <2>3, NameOK
  <2>4. CASE enter_series_all(i)
    BY <2>4, AllOK
  <2>5. CASE enter_group_tag_match(i)
    BY <2>5, GroupOK
  <2>6. CASE enter_series_re(i)
    BY <2>6, ReOK
  <2>7. CASE async_series_re(i)
    BY <2>7, AsyncReOK
  <2>8. CASE enter_series_parentheses(i)
    BY <2>8, OpenOK
  <2>9. CASE exit_series_parentheses(i)
    BY <2>9, CloseOK
  <2>10. CASE exit_series_match(i)
    BY <2>10, MatchedOK
  <2>11. CASE exit_list_series(i)
    BY <2>11, ListOK
  <2>12. CASE async_list_series(i)
    BY <2>12, AsyncListOK
  <2>13. CASE exit_count_series(i)
    BY <2>13, CountOK
  <2>14. CASE async_count_series(i)
    BY <2>14, AsyncCountOK
  <2>15. CASE Exit(i)
    BY <2>15, ExitOK
  <2>16. CASE async_drop_series(i)
    BY <2>16, DropOK
  <2>17. CASE async_filter_series(i)
    BY <2>17, FilterOK
  <2>18. CASE async_select_aggregate(i)
    BY <2>18, SelectOK
  <2>19. CASE async_no_points_aggregate(i)
    BY <2>19, SkipOK
  <2>20. CASE enter_tag_series(i)
    BY <2>20, TagOK
  <2>21. CASE enter_untag_series(i)
    BY <2>21, UntagOK
  <2>22. CASE exit_tag_series(i)
    BY <2>22, EndOK
  <2>23. CASE TagError(i)
    BY <2>23, TagErrorOK
  <2> QED BY <1>1, <2>1, <2>2, <2>3, <2>4, <2>5, <2>6, <2>7, <2>8, <2>9, <2>10,
             <2>11, <2>12, <2>13, <2>14, <2>15, <2>16, <2>17, <2>18, <2>19,
             <2>20, <2>21, <2>22, <2>23 DEF Step
<1>2. CASE Next
  BY <1>1, <1>2, BeginOK, InsertOK DEF Next
<1>3. CASE UNCHANGED vars
  <2>1. live' = live /\ ref' = ref /\ tagged' = tagged /\ ver' = ver /\ qs' = qs
    BY <1>3 DEF vars
  <2>2. TypeInv' /\ RefsExact' /\ DroppedInv'
    BY <2>1 DEF Inv, TypeInv, RefsExact, DroppedInv
  <2>3. \A i \in Queries : QueryInv(qs'[i], live')
    BY <2>1 DEF Inv
  <2> QED BY <2>2, <2>3 DEF Inv
<1> QED BY <1>2, <1>3

(* What a query holds, where it is in its expression and what its loops    *)
(* have done fit together in every state, whatever two queries do.         *)
THEOREM InvHolds == Spec => []Inv
<1>1. Init => Inv
  BY InitOK
<1>2. Inv /\ [Next]_vars => Inv'
  BY InvStep
<1> QED BY <1>1, <1>2, PTL DEF Spec

(* The reference counter of a series is exact in every state.              *)
THEOREM RefsOKHolds == Spec => []RefsOK
<1>1. Inv => RefsOK
  <2> SUFFICES ASSUME Inv PROVE RefsOK
    OBVIOUS
  <2>1. ASSUME NEW i \in Queries
        PROVE  /\ qs[i].map \subseteq Series /\ qs[i].vec \subseteq Series
               /\ qs[i].nsel \in 0..2
               /\ (qs[i].st = "idle") <=> (qs[i].kind = "none")
    <3>1. QueryInv(qs[i], live) /\ qs[i] \in Query
      BY HereIs
    <3> QED BY <3>1 DEF QueryInv, PhaseInv, Query
  <2>2. ASSUME NEW s \in Series PROVE ref[s] \in Nat
    <3>1. /\ Holds(qs[1], s) \in Nat /\ Holds(qs[2], s) \in Nat
      <4>1. \A i \in Queries : Holds(qs[i], s) \in Nat
        BY QueryHolds DEF Inv
      <4> QED BY <4>1 DEF Queries
    <3>2. One(live)[s] \in Nat /\ One(Members)[s] \in Nat /\ One(tagged)[s] \in Nat
      BY DEF One
    <3>3. ref[s] = One(live)[s] + One(Members)[s] + One(tagged)[s]
                   + Holds(qs[1], s) + Holds(qs[2], s)
      BY DEF Inv, RefsExact
    <3> QED BY <3>1, <3>2, <3>3
  <2>3. /\ ref \in [Series -> Int] /\ ver \in [Series -> 0..MaxInserts]
        /\ live \subseteq Series /\ tagged \subseteq Series
    BY DEF Inv, TypeInv
  <2>4. ref \in [Series -> Nat]
    BY <2>2, <2>3
  <2>5. TypeOK
    BY <2>1, <2>3, <2>4 DEF TypeOK
  <2>6. RefsExact
    BY DEF Inv
  <2> QED BY <2>5, <2>6 DEF RefsOK
<1> QED BY <1>1, InvHolds, PTL

(* All functions of a select see the same points of a series.              *)
THEOREM SameViewHolds == Spec => []SameView
<1>1. Inv => SameView
  BY DEF Inv, QueryInv, SelectInv, SameView
<1> QED BY <1>1, InvHolds, PTL

-----------------------------------------------------------------------------
(* What the walk computes is what the expression denotes.                  *)

(* Membership in the result of an operator.                                *)
LEMMA CombineIs ==
    ASSUME NEW o \in AllOperators, NEW A, NEW B, NEW s \in Series \cup Remote
    PROVE  (s \in SetOpr(o, A, B)) = Combine(o, s \in A, s \in B)
<1>1. CASE o = "union"
  BY <1>1, SetOprIs DEF Combine
<1>2. CASE o = "intersection"
  BY <1>2, SetOprIs DEF Combine
<1>3. CASE o = "difference"
  BY <1>3, SetOprIs DEF Combine
<1>4. CASE o = "symmetric"
  BY <1>4, SetOprIs DEF Combine
<1> QED BY <1>1, <1>2, <1>3, <1>4 DEF AllOperators

(* Closing every parenthesis at the end of the walk makes no difference    *)
(* when no parenthesis closes before an operator.                          *)
LEMMA WalkedIs ==
    ASSUME ~Middle, NEW e, Expr(e), NEW s \in Series \cup Remote
    PROVE  s \in Walked(e) <=> Denotes(e, s)
<1>1. CASE Single(e)
  <2>1. Len(e) = 1
    BY <1>1 DEF Single
  <2> QED BY <2>1 DEF Walked, Denotes
<1>2. CASE Double(e)
  <2>1. Len(e) = 3 /\ e[2].x \in AllOperators
    BY <1>2, KindsOfNodes DEF Double
  <2>2. (s \in SetOpr(e[2].x, e[1].x, e[3].x)) = Combine(e[2].x, s \in e[1].x, s \in e[3].x)
    BY <2>1, CombineIs
  <2> QED BY <2>1, <2>2 DEF Walked, Denotes
<1>3. CASE LeftParen(e)
  <2>1. /\ Len(e) = 7 /\ e[3].x \in AllOperators /\ e[6].x \in AllOperators
        /\ e[1] = Open /\ e[1].t = "("
    BY <1>3, KindsOfNodes, OpenClose DEF LeftParen
  <2> DEFINE I == SetOpr(e[3].x, e[2].x, e[4].x)
  <2>2. (s \in I) = Combine(e[3].x, s \in e[2].x, s \in e[4].x)
    BY <2>1, CombineIs
  <2> HIDE DEF I
  <2>3. (s \in SetOpr(e[6].x, I, e[7].x)) = Combine(e[6].x, s \in I, s \in e[7].x)
    BY <2>1, CombineIs
  <2>4. Walked(e) = SetOpr(e[6].x, I, e[7].x)
    BY <2>1 DEF Walked, I
  <2>5. Denotes(e, s) = Combine(e[6].x, Combine(e[3].x, s \in e[2].x, s \in e[4].x),
                                s \in e[7].x)
    BY <2>1 DEF Denotes
  <2> QED BY <2>2, <2>3, <2>4, <2>5, Zenon
<1>4. CASE RightParen(e)
  <2>1. /\ Len(e) = 7 /\ e[2].x \in AllOperators /\ Opr2(e).x \in AllOperators
        /\ e[1] # Open
    BY <1>4, KindsOfNodes DEF RightParen
  <2>2. e[1].t # "(" /\ e[5].t = "opr"
    BY <1>4, NodeTypes DEF RightParen
  <2>3. Opr2(e) = e[5] /\ Arg3(e) = e[6]
    BY <2>2 DEF Opr2, Arg3
  <2>4. e[5].x \in AllOperators
    BY <2>1, <2>3
  <2> DEFINE I == SetOpr(e[5].x, e[4].x, e[6].x)
  <2>5. (s \in I) = Combine(e[5].x, s \in e[4].x, s \in e[6].x)
    BY <2>4, CombineIs
  <2> HIDE DEF I
  <2>6. (s \in SetOpr(e[2].x, e[1].x, I)) = Combine(e[2].x, s \in e[1].x, s \in I)
    BY <2>1, CombineIs
  <2>7. Walked(e) = SetOpr(e[2].x, e[1].x, I)
    BY <2>1, <2>3 DEF Walked, I
  <2>8. Denotes(e, s) = Combine(e[2].x, s \in e[1].x,
                                Combine(e[5].x, s \in e[4].x, s \in e[6].x))
    BY <2>1, <2>2 DEF Denotes
  <2> QED BY <2>5, <2>6, <2>7, <2>8, Zenon
<1> QED BY <1>1, <1>2, <1>3, <1>4 DEF Expr

(* A query matches, asks for, lists and drops the series that its          *)
(* expression denotes and no others, unless a parenthesis closes before an *)
(* operator.                                                               *)
THEOREM AnswerIsExactHolds == ~Middle => (Spec => []AnswerIsExact)
<1> SUFFICES ASSUME ~Middle PROVE Spec => []AnswerIsExact
  OBVIOUS
<1>1. Inv => AnswerIsExact
  <2> SUFFICES ASSUME Inv PROVE AnswerIsExact
    OBVIOUS
  <2>1. ASSUME NEW i \in Queries, qs[i].kind # "none", NEW s \in Series \cup Remote
        PROVE  s \in Walked(qs[i].expr) <=> Denotes(qs[i].expr, s)
    <3>1. QueryInv(qs[i], live)
      BY HereIs
    <3>2. Expr(qs[i].expr)
      BY <2>1, <3>1 DEF QueryInv, PhaseInv
    <3> QED BY <3>2, WalkedIs
  <2>2. live \subseteq Series
    BY DEF Inv, TypeInv
  <2>3. MatchIsExact
    <3> SUFFICES ASSUME NEW i \in Queries, At(i, "matched"),
                        qs[i].kind \notin {"tag", "untag"}, NEW s \in live
                 PROVE  s \in qs[i].map <=> Denotes(qs[i].expr, s)
      BY DEF MatchIsExact
    <3>1. AtHead(qs[i], live) /\ qs[i].nodes[1].t = "matched" /\ qs[i].st = "walk"
      BY AtIs
    <3>2. MapIs(qs[i], live, Walked(qs[i].expr))
      BY <3>1, MatchedStep DEF IsTag
    <3>3. QueryInv(qs[i], live)
      BY HereIs
    <3>4. qs[i].kind # "none"
      BY <3>1, <3>3 DEF QueryInv, PhaseInv
    <3>5. s \in Walked(qs[i].expr) <=> Denotes(qs[i].expr, s)
      BY <2>1, <2>2, <3>4
    <3> QED BY <3>2, <3>5 DEF MapIs
  <2>4. PoolsAsked
    <3> SUFFICES ASSUME NEW i \in Queries, qs[i].st = "done", qs[i].kind = "select",
                        qs[i].master, NEW r \in Remote, Denotes(qs[i].expr, r)
                 PROVE  r \in qs[i].pmap
      BY DEF PoolsAsked
    <3>1. PoolInv(qs[i]) /\ ~Walking(qs[i])
      BY HereIs DEF QueryInv, Walking
    <3>2. r \in Walked(qs[i].expr)
      BY <2>1
    <3> QED BY <3>1, <3>2 DEF PoolInv
  <2>5. ListIsExact
    <3> SUFFICES ASSUME NEW i \in Queries, qs[i].st = "done", qs[i].kind = "list"
                 PROVE  /\ \A s \in qs[i].n \cap live :
                              /\ Denotes(qs[i].expr, s)
                              /\ qs[i].where => s \in Where
                        /\ Cardinality(qs[i].n) <= ListLimit
                        /\ Cardinality(qs[i].n) < ListLimit =>
                              \A s \in live :
                                 Denotes(qs[i].expr, s) /\ (qs[i].where => s \in Where)
                                 => s \in qs[i].n
      BY DEF ListIsExact
    <3>1. /\ qs[i].n \cap live \subseteq Asked(qs[i])
          /\ Cardinality(qs[i].n) <= ListLimit
          /\ Cardinality(qs[i].n) < ListLimit => live \cap Asked(qs[i]) \subseteq qs[i].n
      BY HereIs DEF QueryInv, ListInv
    <3>2. \A s \in Series : s \in Asked(qs[i]) <=>
             Denotes(qs[i].expr, s) /\ (qs[i].where => s \in Where)
      BY <2>1 DEF Asked
    <3> QED BY <2>2, <3>1, <3>2
  <2>6. OnlyAskedDropped
    <3> SUFFICES ASSUME NEW s \in Series \ live
                 PROVE  \E i \in Queries :
                           /\ qs[i].kind = "drop" /\ Denotes(qs[i].expr, s)
                           /\ qs[i].where => s \in Where
      BY DEF OnlyAskedDropped
    <3>1. PICK i \in Queries : qs[i].kind = "drop" /\ s \in Asked(qs[i])
      BY DEF Inv, DroppedInv
    <3>2. Denotes(qs[i].expr, s) /\ (qs[i].where => s \in Where)
      BY <2>1, <3>1 DEF Asked
    <3> QED BY <3>1, <3>2
  <2> QED BY <2>3, <2>4, <2>5, <2>6 DEF AnswerIsExact
<1> QED BY <1>1, InvHolds, PTL
=============================================================================
