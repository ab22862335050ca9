----------------------------- MODULE FifoProofs -----------------------------
(***************************************************************************)
(* Proofs about the replication fifo: for any sizes of files and packages, *)
(* any number of files and whatever a torn write leaves, it is the         *)
(* crash-safe queue of ReplQueue.                                          *)
(***************************************************************************)
EXTENDS Fifo, FiniteSetTheorems, SequenceTheorems, TLAPS

(* A package fits in a new file: a client sends at most 40 MB              *)
(* (MAX_ALLOWED_PKG_SIZE in stream.c), a file takes 100 MB.                *)
PkgsFit == \A size \in PkgSizes : size + 2 * WORD <= FFILE_DEFAULT_SIZE

-----------------------------------------------------------------------------
(* The inductive invariant.                                                *)

(* The packages in a file lie one below the other, without a gap down to   *)
(* the lowest, the oldest on top.                                          *)
Tiled(f) ==
    /\ f.low <= f.len
    /\ \A e \in f.ents : e.at >= WORD /\ e.at >= f.low /\ End(e) <= f.len
    /\ \A d, e \in f.ents : d # e => End(d) <= e.at \/ End(e) <= d.at
    /\ \A d, e \in f.ents : d.at < e.at => d.no > e.no
    /\ \A e \in f.ents : e.at = f.low \/ \E d \in f.ents : End(d) = e.at
    /\ f.ents # {} => \E e \in f.ents : End(e) = f.len
    /\ f.ents # {} => \E e \in f.ents : e.at = f.low

(* The files on disk, whether the process runs or not: they are in the     *)
(* order of their packages.                                                *)
DiskInv ==
    /\ \A i \in files : Tiled(disk[i])
    /\ \A i \in files : \A e \in disk[i].ents : e.no \in 1 .. next - 1
    /\ \A i, j \in files : i < j =>
          \A d \in disk[i].ents, e \in disk[j].ents : d.no < e.no

(* The list of files in memory.                                            *)
ListInv ==
    /\ \A j, k \in DOMAIN fifos : j < k => fifos[j] < fifos[k]
    /\ \A k \in DOMAIN fifos : out < fifos[k]
    /\ in = IF fifos = <<>> THEN out ELSE fifos[Len(fifos)]
    /\ max_id = in
    /\ files = {out} \cup {fifos[k] : k \in DOMAIN fifos}

(* The package on top of file i is the one that a pop reads.               *)
OnTop(i, e) ==
    /\ e \in disk[i].ents
    /\ End(e) = disk[i].len
    /\ e.size = ffile[i].next_size

(* What is known in memory of the files.                                   *)
SizesInv ==
    /\ \A i \in files : i # in => /\ ffile[i].next_size # 0
                                  /\ ffile[i].size = disk[i].len
    /\ \A i \in files : disk[i].ents # {} => /\ \E e \in disk[i].ents : OnTop(i, e)
                                             /\ ffile[i].size = disk[i].len

(* What is known of the file that is written.                              *)
InInv ==
    /\ ffile[in].free_space >= WORD
    /\ disk[in].ents = {} => ffile[in].next_size = 0
    /\ \/ disk[in] = EmptyFile /\ ffile[in].free_space = ffile[in].size
       \/ /\ disk[in].low = ffile[in].free_space /\ disk[in].len = ffile[in].size
          /\ disk[in].ents = {} => disk[in].low = disk[in].len
    /\ in # out /\ disk[in].ents = {} => ffile[in].free_space = FFILE_DEFAULT_SIZE

(* The package being sent is on top of `out'.                              *)
PoppedInv ==
    /\ ffile[in].open
    /\ \E e \in disk[out].ents : OnTop(out, e) /\ e.no = popped

FifoInv ==
    /\ TypeOK
    /\ DiskInv
    /\ ~up => popped = 0
    /\ up => ListInv /\ SizesInv /\ InInv /\ HandlesOK
    /\ popped # 0 => PoppedInv

-----------------------------------------------------------------------------
(* Facts about files.                                                      *)

USE DEF WORD

(* The sizes of packages are positive.                                     *)
LEMMA SizeFacts == \A size \in PkgSizes : size \in Nat /\ size > 0
<1>1. PkgSizes \subseteq Nat \ {0}
  BY FifoAssumption
<1> QED
  BY <1>1

(* The fields of an entry, and where it ends.                              *)
LEMMA EntryFacts ==
  ASSUME NEW e \in Entry
  PROVE  /\ e.at \in Nat /\ e.size \in PkgSizes /\ e.size \in Nat /\ e.size > 0 /\ e.no \in Nat
         /\ End(e) \in Nat /\ End(e) = e.at + e.size + 4 /\ e.at < End(e)
<1>1. e.at \in Nat /\ e.size \in PkgSizes /\ e.no \in Nat
  BY DEF Entry
<1>2. e.size \in Nat /\ e.size > 0
  BY <1>1, SizeFacts
<1> QED
  BY <1>1, <1>2 DEF End

(* The fields of a file.                                                   *)
LEMMA FileFacts ==
  ASSUME NEW f \in File
  PROVE  f.low \in Nat /\ f.len \in Nat /\ f.ents \subseteq Entry
  BY DEF File

(* A file that nothing was written to.                                     *)
LEMMA EmptyFileFacts ==
  EmptyFile \in File /\ EmptyFile.low = 0 /\ EmptyFile.len = 0 /\ EmptyFile.ents = {} /\ Tiled(EmptyFile)
  BY DEF EmptyFile, File, Tiled

(* Two packages do not end at the same place.                              *)
LEMMA EndUnique ==
  ASSUME NEW f \in File, Tiled(f), NEW d \in f.ents, NEW e \in f.ents, End(d) = End(e)
  PROVE  d = e
<1>1. d \in Entry /\ e \in Entry
  BY FileFacts
<1>2. d # e => End(d) <= e.at \/ End(e) <= d.at
  BY DEF Tiled
<1> QED
  BY <1>1, <1>2, EntryFacts

(* The oldest package is on top.                                           *)
LEMMA TopIsOldest ==
  ASSUME NEW f \in File, Tiled(f), NEW e \in f.ents, End(e) = f.len, NEW d \in f.ents, d # e
  PROVE  d.no > e.no /\ End(d) <= e.at
<1>1. d \in Entry /\ e \in Entry
  BY FileFacts
<1>2. End(d) <= e.at \/ End(e) <= d.at
  BY DEF Tiled
<1>3. End(d) <= f.len
  BY DEF Tiled
<1>4. End(d) <= e.at /\ d.at < e.at
  BY <1>1, <1>2, <1>3, EntryFacts
<1> QED
  BY <1>4 DEF Tiled

(* A package is written below the others, or in a file that is empty.      *)
LEMMA WrittenFacts ==
  ASSUME NEW f \in File, Tiled(f), NEW at \in Nat, NEW size \in PkgSizes, NEW no \in Nat,
         at >= WORD,
         f = EmptyFile \/ (f.low = at + size + WORD /\ (f.ents = {} => f.low = f.len)),
         \A e \in f.ents : e.no < no
  PROVE  LET g == Written(f, at, size, no)
             new == [at |-> at, size |-> size, no |-> no]
         IN  /\ g \in File /\ Tiled(g) /\ new \in Entry
             /\ g.ents = f.ents \cup {new} /\ g.low = at /\ new.no = no /\ new.size = size
             /\ End(new) = at + size + WORD
             /\ g.len = IF f = EmptyFile THEN at + size + WORD ELSE f.len
<1> DEFINE g == Written(f, at, size, no)
           new == [at |-> at, size |-> size, no |-> no]
<1>1. /\ new \in Entry /\ new.at = at /\ new.size = size /\ new.no = no
      /\ End(new) = at + size + WORD
  BY DEF Entry, End
<1>2. size \in Nat /\ size > 0 /\ f.low \in Nat /\ f.len \in Nat /\ f.ents \subseteq Entry
  BY FifoAssumption, FileFacts
<1>3. /\ g.low = at /\ g.ents = f.ents \cup {new}
      /\ g.len = IF f.len < at + size + WORD THEN at + size + WORD ELSE f.len
  BY DEF Written
<1>4. g.len = IF f = EmptyFile THEN at + size + WORD ELSE f.len
  BY <1>2, <1>3, EmptyFileFacts DEF Tiled
<1>5. g \in File
  <2>1. g.low \in Nat /\ g.len \in Nat /\ g.ents \in SUBSET Entry
    BY <1>1, <1>2, <1>3
  <2> QED
    BY <2>1 DEF Written, File
<1> HIDE DEF new
<1>6. Tiled(g)
  <2>1. g.low <= g.len
    BY <1>1, <1>2, <1>3
  <2>2. ASSUME NEW e \in g.ents PROVE e.at >= WORD /\ e.at >= g.low /\ End(e) <= g.len
    <3>1. CASE e = new
      BY <1>1, <1>2, <1>3, <3>1
    <3>2. CASE e \in f.ents
      <4>1. f # EmptyFile /\ e \in Entry
        BY <1>2, <3>2, EmptyFileFacts
      <4>2. e.at >= WORD /\ e.at >= f.low /\ End(e) <= f.len
        BY <3>2 DEF Tiled
      <4> QED
        BY <1>2, <1>3, <1>4, <4>1, <4>2, EntryFacts
    <3> QED
      BY <1>3, <2>2, <3>1, <3>2
  <2>3. ASSUME NEW e \in f.ents PROVE End(new) <= e.at /\ new.at < e.at /\ new.no > e.no /\ ~(e.at < new.at)
    <3>1. f # EmptyFile /\ e \in Entry /\ e.at >= f.low
      BY <1>2, <2>3, EmptyFileFacts DEF Tiled
    <3>2. e.at \in Nat /\ e.no \in Nat /\ e.no < no
      BY <3>1, <2>3, EntryFacts
    <3> QED
      BY <1>1, <1>2, <3>1, <3>2
  <2>4. \A d, e \in g.ents : d # e => End(d) <= e.at \/ End(e) <= d.at
    BY <1>3, <2>3 DEF Tiled
  <2>5. \A d, e \in g.ents : d.at < e.at => d.no > e.no
    <3>1. ~(new.at < new.at)
      BY <1>1
    <3> QED
      BY <1>3, <2>3, <3>1 DEF Tiled
  <2>6. ASSUME NEW e \in g.ents PROVE e.at = g.low \/ \E d \in g.ents : End(d) = e.at
    <3>1. CASE e = new
      BY <1>1, <1>3, <3>1
    <3>2. CASE e \in f.ents
      <4>1. e.at = f.low \/ \E d \in f.ents : End(d) = e.at
        BY <3>2 DEF Tiled
      <4>2. f.low = at + size + WORD
        BY <3>2, EmptyFileFacts
      <4> QED
        BY <1>1, <1>3, <4>1, <4>2
    <3> QED
      BY <1>3, <2>6, <3>1, <3>2
  <2>7. \E e \in g.ents : End(e) = g.len
    <3>1. CASE f.ents = {}
      <4>1. End(new) = g.len
        BY <1>1, <1>4, <3>1
      <4> QED
        BY <1>3, <4>1
    <3>2. CASE f.ents # {}
      BY <1>3, <1>4, <3>2, EmptyFileFacts DEF Tiled
    <3> QED
      BY <3>1, <3>2
  <2>8. \E e \in g.ents : e.at = g.low
    BY <1>1, <1>3
  <2> QED
    BY <2>1, <2>2, <2>4, <2>5, <2>6, <2>7, <2>8 DEF Tiled
<1> QED
  BY <1>1, <1>3, <1>4, <1>5, <1>6 DEF new

(* The package on top is truncated.                                        *)
LEMMA TruncatedFacts ==
  ASSUME NEW f \in File, Tiled(f), NEW e \in f.ents, End(e) = f.len
  PROVE  LET g == Truncated(f, e.at)
         IN  /\ g \in File /\ Tiled(g) /\ g.ents = f.ents \ {e}
             /\ g.low = f.low /\ g.len = e.at /\ e.at >= WORD /\ e.at <= f.len
             /\ g.ents = {} => g.low = g.len
             /\ \A word \in SizeWords(f, e.at) :
                   IF g.ents = {} THEN word = 0
                                  ELSE \E d \in g.ents : End(d) = g.len /\ word = d.size
<1> DEFINE g == Truncated(f, e.at)
<1>1. e \in Entry /\ f.low \in Nat /\ f.len \in Nat /\ f.ents \subseteq Entry
  BY FileFacts
<1>2. e.at \in Nat /\ e.at >= f.low /\ e.at >= WORD /\ e.at <= f.len /\ e.at < End(e)
  BY <1>1, EntryFacts DEF Tiled
<1>3. g.low = f.low /\ g.len = e.at /\ g.ents = {d \in f.ents : End(d) <= e.at}
  <2>1. f.low = e.at \/ f.low < e.at
    BY <1>1, <1>2
  <2> QED
    BY <2>1 DEF Truncated
<1>4. g.ents = f.ents \ {e}
  <2>1. ~(End(e) <= e.at)
    BY <1>1, EntryFacts
  <2>2. \A d \in f.ents \ {e} : End(d) <= e.at
    BY TopIsOldest
  <2> QED
    BY <1>3, <2>1, <2>2
<1>5. g \in File
  BY <1>1, <1>2, <1>3 DEF Truncated, File
<1>6. g.ents = {} => g.low = g.len
  <2> SUFFICES ASSUME g.ents = {} PROVE f.low = e.at
    BY <1>3
  <2>1. e.at = f.low \/ \E d \in f.ents : End(d) = e.at
    BY DEF Tiled
  <2>2. \A d \in f.ents : End(d) # e.at
    BY <1>2, <1>4
  <2> QED
    BY <2>1, <2>2
<1>7. g.ents # {} => \E d \in g.ents : End(d) = g.len
  <2> SUFFICES ASSUME g.ents # {} PROVE \E d \in g.ents : End(d) = e.at
    BY <1>3
  <2>1. PICK c \in g.ents : TRUE
    OBVIOUS
  <2>2. c \in Entry /\ c.at >= f.low /\ End(c) <= e.at
    BY <1>1, <1>3, <1>4 DEF Tiled
  <2>3. e.at # f.low
    BY <1>1, <2>2, EntryFacts
  <2>4. PICK d \in f.ents : End(d) = e.at
    BY <2>3 DEF Tiled
  <2>5. d # e
    BY <1>2, <2>4
  <2> QED
    BY <1>4, <2>4, <2>5
<1>8. Tiled(g)
  <2>1. g.low <= g.len
    BY <1>2, <1>3
  <2>2. \A d \in g.ents : d.at >= WORD /\ d.at >= g.low /\ End(d) <= g.len
    BY <1>3 DEF Tiled
  <2>3. \A c, d \in g.ents : /\ c # d => End(c) <= d.at \/ End(d) <= c.at
                             /\ c.at < d.at => c.no > d.no
    BY <1>4 DEF Tiled
  <2>4. ASSUME NEW d \in g.ents PROVE d.at = g.low \/ \E c \in g.ents : End(c) = d.at
    <3>1. d.at = f.low \/ \E c \in f.ents : End(c) = d.at
      BY <1>4 DEF Tiled
    <3>2. End(e) # d.at
      <4>1. d \in Entry /\ End(d) <= e.at
        BY <1>1, <1>3, <1>4
      <4> QED
        BY <1>1, <4>1, EntryFacts
    <3> QED
      BY <1>3, <1>4, <3>1, <3>2
  <2>5. g.ents # {} => \E d \in g.ents : d.at = g.low
    <3> SUFFICES ASSUME g.ents # {} PROVE \E d \in g.ents : d.at = f.low
      BY <1>3
    <3>1. PICK c \in g.ents : TRUE
      OBVIOUS
    <3>2. PICK d \in f.ents : d.at = f.low
      BY <1>4, <3>1 DEF Tiled
    <3>3. c \in Entry /\ c.at >= f.low /\ End(c) <= e.at
      BY <1>1, <1>3, <1>4 DEF Tiled
    <3>4. e.at # f.low
      BY <1>1, <3>3, EntryFacts
    <3> QED
      BY <1>4, <3>2, <3>4
  <2> QED
    BY <1>7, <2>1, <2>2, <2>3, <2>4, <2>5 DEF Tiled
<1>9. ASSUME NEW word \in SizeWords(f, e.at)
      PROVE  IF g.ents = {} THEN word = 0
                            ELSE \E d \in g.ents : End(d) = g.len /\ word = d.size
  <2>1. CASE \E d \in f.ents : End(d) = e.at
    <3>1. PICK d \in f.ents : End(d) = e.at /\ word = d.size
      BY <1>9, <2>1 DEF SizeWords
    <3>2. d \in g.ents
      BY <1>2, <1>4, <3>1
    <3> QED
      BY <1>3, <3>1, <3>2
  <2>2. CASE ~\E d \in f.ents : End(d) = e.at
    <3>1. e.at = f.low
      BY <2>2 DEF Tiled
    <3>2. word = 0
      BY <1>1, <1>9, <2>2, <3>1 DEF SizeWords
    <3>3. g.ents = {}
      BY <1>3, <1>4, <1>7, <2>2
    <3> QED
      BY <3>2, <3>3
  <2> QED
    BY <2>1, <2>2
<1> QED
  BY <1>2, <1>3, <1>4, <1>5, <1>6, <1>8, <1>9

(* A file without packages that is truncated.                              *)
LEMMA TruncatedEmpty ==
  ASSUME NEW f \in File, f.ents = {}, NEW m \in Nat
  PROVE  /\ Truncated(f, m) \in File /\ Tiled(Truncated(f, m))
         /\ Truncated(f, m).ents = {} /\ Truncated(f, m).len = m
<1>1. f.low \in Nat
  BY FileFacts
<1>2. /\ Truncated(f, m).ents = {} /\ Truncated(f, m).len = m
      /\ Truncated(f, m).low = IF f.low < m THEN f.low ELSE m
  BY DEF Truncated
<1>3. Truncated(f, m).low \in Nat /\ Truncated(f, m).low <= m
  BY <1>1, <1>2
<1>4. Truncated(f, m) \in File
  BY <1>2, <1>3 DEF Truncated, File
<1> QED
  BY <1>2, <1>3, <1>4 DEF Tiled

(* Only the package and not its size word is written.                      *)
LEMMA TornFacts ==
  ASSUME NEW f \in File, Tiled(f), NEW at \in Nat, NEW size \in PkgSizes,
         f = EmptyFile \/ at + size <= f.len
  PROVE  Torn(f, at, size) \in File /\ Tiled(Torn(f, at, size)) /\ Torn(f, at, size).ents = f.ents
<1>1. size \in Nat /\ f.len \in Nat
  BY SizeFacts, FileFacts
<1>2. CASE f.len < at + size
  <2>1. f = EmptyFile
    BY <1>1, <1>2
  <2>2. Torn(f, at, size) = [low |-> at, len |-> at + size, ents |-> {}]
    BY <1>2, <2>1 DEF Torn, EmptyFile
  <2>3. Torn(f, at, size) \in File
    BY <1>1, <2>2 DEF File
  <2>4. at <= at + size
    BY <1>1
  <2> QED
    BY <2>1, <2>2, <2>3, <2>4, EmptyFileFacts DEF Tiled
<1>3. CASE ~(f.len < at + size)
  BY <1>3 DEF Torn
<1> QED
  BY <1>2, <1>3

(* The size word at the end of a file.                                     *)
LEMMA LastWordFacts ==
  ASSUME NEW f \in File, Tiled(f), f.ents # {}, NEW word \in LastWords(f)
  PROVE  \E e \in f.ents : End(e) = f.len /\ word = e.size /\ word # 0
<1>1. PICK e \in f.ents : End(e) = f.len
  BY DEF Tiled
<1>2. e \in Entry
  BY FileFacts
<1>3. ~(f.len < WORD)
  BY <1>1, <1>2, EntryFacts
<1>4. word \in {d.size : d \in {x \in f.ents : End(x) = f.len}}
  BY <1>1, <1>3 DEF LastWords, SizeWords
<1>5. PICK d \in f.ents : End(d) = f.len /\ word = d.size
  BY <1>4
<1>6. d \in Entry
  BY FileFacts
<1> QED
  BY <1>5, <1>6, EntryFacts

-----------------------------------------------------------------------------
(* Facts about the packages in the directory.                              *)

Has(i, e) == i \in files /\ e \in disk[i].ents

(* The pending packages are the ones that some file has.                   *)
LEMMA PendingIff == \A no : no \in Pending <=> \E i, e : Has(i, e) /\ no = e.no
  BY DEF Pending, Has

(* The same for the next state.                                            *)
LEMMA PendingIffNext == \A no : no \in Pending' <=> \E i, e : Has(i, e)' /\ no = e.no
  BY DEF Pending, Has

(* No file gains or loses a package.                                       *)
LEMMA PendingSame ==
  ASSUME \A i, e : Has(i, e)' <=> Has(i, e)
  PROVE  Pending' = Pending
  BY PendingIff, PendingIffNext

(* One file gains one package.                                             *)
LEMMA PendingAdd ==
  ASSUME NEW k, NEW d, \A i, e : Has(i, e)' <=> Has(i, e) \/ (i = k /\ e = d)
  PROVE  Pending' = Pending \cup {d.no}
  BY PendingIff, PendingIffNext

(* A package has a number of its own.                                      *)
LEMMA NumberUnique ==
  ASSUME FifoInv, NEW i, NEW d, NEW j, NEW e, Has(i, d), Has(j, e), d.no = e.no
  PROVE  i = j /\ d = e
<1>1. /\ i \in files /\ j \in files /\ files \subseteq FileIds /\ i \in Int /\ j \in Int
      /\ d \in disk[i].ents /\ e \in disk[j].ents /\ disk[i] \in File /\ disk[j] \in File
      /\ Tiled(disk[i]) /\ Tiled(disk[j])
  <2>1. i \in files /\ j \in files /\ d \in disk[i].ents /\ e \in disk[j].ents
    BY DEF Has
  <2>2. files \subseteq FileIds /\ disk \in [FileIds -> File] /\ \A k \in files : Tiled(disk[k])
    BY DEF FifoInv, TypeOK, DiskInv
  <2>3. \A k \in FileIds : k \in Int /\ disk[k] \in File
    BY <2>2 DEF FileIds
  <2> QED
    BY <2>1, <2>2, <2>3
<1>2. d \in Entry /\ e \in Entry
  BY <1>1, FileFacts
<1>3. d.no \in Nat /\ e.no \in Nat /\ d.at \in Nat /\ e.at \in Nat /\ d.at < End(d) /\ e.at < End(e)
      /\ End(d) \in Nat /\ End(e) \in Nat
  BY <1>2, EntryFacts
<1>4. i = j
  <2>1. i < j => d.no < e.no
    BY <1>1 DEF FifoInv, DiskInv
  <2>2. j < i => e.no < d.no
    BY <1>1 DEF FifoInv, DiskInv
  <2> QED
    BY <1>1, <1>3, <2>1, <2>2
<1>5. d = e
  <2> SUFFICES ASSUME d # e PROVE FALSE
    OBVIOUS
  <2>1. End(d) <= e.at \/ End(e) <= d.at
    BY <1>1, <1>4 DEF Tiled
  <2>2. d.at < e.at \/ e.at < d.at
    BY <1>3, <2>1
  <2>3. d.no > e.no \/ e.no > d.no
    BY <1>1, <1>4, <2>2 DEF Tiled
  <2> QED
    BY <1>3, <2>3
<1> QED
  BY <1>4, <1>5

(* One file loses one package.                                             *)
LEMMA PendingCut ==
  ASSUME FifoInv, NEW k, NEW d, Has(k, d),
         \A i, e : Has(i, e)' <=> Has(i, e) /\ ~(i = k /\ e = d)
  PROVE  Pending' = Pending \ {d.no}
<1>1. ASSUME NEW no, no \in Pending' PROVE no \in Pending /\ no # d.no
  <2>1. PICK i, e : Has(i, e)' /\ no = e.no
    BY <1>1, PendingIffNext
  <2>2. Has(i, e) /\ ~(i = k /\ e = d)
    BY <2>1
  <2>3. no # d.no
    BY <2>1, <2>2, NumberUnique
  <2> QED
    BY <2>1, <2>2, <2>3, PendingIff
<1>2. ASSUME NEW no, no \in Pending, no # d.no PROVE no \in Pending'
  BY <1>2, PendingIff, PendingIffNext
<1> QED
  BY <1>1, <1>2

(* What keeps the order of the packages.                                   *)
LEMMA DiskKeeps ==
  ASSUME TypeOK, TypeOK', DiskInv, next' = next \/ next' = next + 1,
         \A i \in files' : Tiled(disk[i])',
         \A i, e : Has(i, e)' => \/ Has(i, e)
                                 \/ e.no = next /\ next' = next + 1 /\ \A j \in files' : j <= i
  PROVE  DiskInv'
<1>1. next \in Nat \ {0} /\ next' \in Nat /\ next' >= next
  BY DEF TypeOK
<1>2. ASSUME NEW i \in files', NEW e \in disk'[i].ents PROVE e.no \in 1 .. next' - 1
  <2>1. Has(i, e) \/ (e.no = next /\ next' = next + 1)
    BY DEF Has
  <2>2. CASE Has(i, e)
    <3>1. e.no \in 1 .. next - 1
      BY <2>2 DEF Has, DiskInv
    <3> QED
      BY <1>1, <3>1
  <2> QED
    BY <1>1, <2>1, <2>2
<1>3. ASSUME NEW i \in files', NEW j \in files', i < j, NEW d \in disk'[i].ents, NEW e \in disk'[j].ents
      PROVE  d.no < e.no
  <2>1. ~(j <= i)
    BY <1>3 DEF TypeOK, FileIds
  <2>2. Has(i, d)
    BY <2>1 DEF Has
  <2>3. d.no \in 1 .. next - 1
    BY <2>2 DEF Has, DiskInv
  <2>4. CASE Has(j, e)
    BY <1>3, <2>2, <2>4 DEF Has, DiskInv
  <2>5. CASE e.no = next
    BY <1>1, <2>3, <2>5
  <2> QED
    BY <2>4, <2>5 DEF Has
<1> QED
  BY <1>2, <1>3 DEF DiskInv

-----------------------------------------------------------------------------
(* Facts about the list of files.                                          *)

(* `out' is the lowest file and `in' the highest.                          *)
LEMMA ListFacts ==
  ASSUME TypeOK, ListInv
  PROVE  /\ out \in files /\ in \in files /\ \A i \in files : out <= i /\ i <= in
         /\ out = in <=> fifos = <<>>
         /\ fifos = <<>> => files = {out}
<1>1. /\ fifos \in Seq(FileIds) /\ Len(fifos) \in Nat /\ DOMAIN fifos = 1 .. Len(fifos)
      /\ \A k \in DOMAIN fifos : fifos[k] \in Nat
      /\ fifos = <<>> <=> Len(fifos) = 0
      /\ out \in Nat /\ in \in Nat
  <2>1. fifos \in Seq(FileIds) /\ out \in FileIds /\ in \in FileIds
    BY DEF TypeOK
  <2>2. /\ Len(fifos) \in Nat /\ DOMAIN fifos = 1 .. Len(fifos)
        /\ fifos = <<>> <=> Len(fifos) = 0
    BY <2>1, EmptySeq, LenProperties
  <2>3. \A k \in DOMAIN fifos : fifos[k] \in FileIds
    BY <2>1, <2>2, ElementOfSeq
  <2>4. \A i \in FileIds : i \in Nat
    BY FifoAssumption DEF FileIds
  <2> QED
    BY <2>1, <2>2, <2>3, <2>4
<1>2. CASE fifos = <<>>
  <2>1. in = out /\ files = {out}
    BY <1>2 DEF ListInv
  <2> QED
    BY <1>1, <1>2, <2>1
<1>3. CASE fifos # <<>>
  <2>1. Len(fifos) \in DOMAIN fifos
    BY <1>1, <1>3
  <2>2. in = fifos[Len(fifos)] /\ out < in
    BY <1>3, <2>1 DEF ListInv
  <2>3. ASSUME NEW k \in DOMAIN fifos PROVE out <= fifos[k] /\ fifos[k] <= in
    <3>1. k = Len(fifos) \/ k < Len(fifos)
      BY <1>1
    <3>2. k < Len(fifos) => fifos[k] < fifos[Len(fifos)]
      BY <2>1 DEF ListInv
    <3>3. out < fifos[k]
      BY DEF ListInv
    <3> QED
      BY <1>1, <2>2, <3>1, <3>2, <3>3
  <2>4. files = {out} \cup {fifos[k] : k \in DOMAIN fifos}
    BY DEF ListInv
  <2>5. \A i \in files : out <= i /\ i <= in
    BY <1>1, <2>2, <2>3, <2>4
  <2> QED
    BY <1>1, <1>3, <2>1, <2>2, <2>4, <2>5
<1> QED
  BY <1>2, <1>3

(* The list as FilesOK puts it.                                            *)
LEMMA ListInvOK ==
  ASSUME TypeOK, ListInv, up
  PROVE  ListOK
<1> DEFINE all == <<out>> \o fifos
<1>1. /\ fifos \in Seq(FileIds) /\ Len(fifos) \in Nat /\ DOMAIN fifos = 1 .. Len(fifos)
      /\ fifos = <<>> <=> Len(fifos) = 0
      /\ <<out>> \in Seq(FileIds) /\ Len(<<out>>) = 1 /\ <<out>>[1] = out
  BY EmptySeq, LenProperties DEF TypeOK
<1>2. /\ all \in Seq(FileIds) /\ Len(all) = Len(fifos) + 1
      /\ all[1] = out
      /\ \A k \in 2 .. Len(fifos) + 1 : all[k] = fifos[k - 1]
  BY <1>1, ConcatProperties
<1>3. DOMAIN all = 1 .. Len(fifos) + 1
  BY <1>2, LenProperties
<1> HIDE DEF all
<1>4. in = all[Len(all)]
  <2>1. CASE fifos = <<>>
    BY <1>1, <1>2, <2>1 DEF ListInv
  <2>2. CASE fifos # <<>>
    <3>1. Len(fifos) + 1 \in 2 .. Len(fifos) + 1 /\ (Len(fifos) + 1) - 1 = Len(fifos)
      BY <1>1, <2>2
    <3> QED
      BY <1>2, <2>2, <3>1 DEF ListInv
  <2> QED
    BY <2>1, <2>2
<1>5. ASSUME NEW j \in DOMAIN all, NEW k \in DOMAIN all, j < k PROVE all[j] < all[k]
  <2>1. k \in 2 .. Len(fifos) + 1 /\ k - 1 \in DOMAIN fifos /\ all[k] = fifos[k - 1]
    BY <1>1, <1>2, <1>3, <1>5
  <2>2. CASE j = 1
    BY <1>2, <2>1, <2>2 DEF ListInv
  <2>3. CASE j # 1
    <3>1. j \in 2 .. Len(fifos) + 1 /\ j - 1 \in DOMAIN fifos /\ j - 1 < k - 1
      BY <1>1, <1>3, <1>5, <2>3
    <3>2. all[j] = fifos[j - 1]
      BY <1>2, <3>1
    <3> QED
      BY <2>1, <3>1, <3>2 DEF ListInv
  <2> QED
    BY <2>2, <2>3
<1>6. files = {all[k] : k \in DOMAIN all}
  <2>1. files = {out} \cup {fifos[k] : k \in DOMAIN fifos}
    BY DEF ListInv
  <2>2. \A k \in DOMAIN fifos : k + 1 \in DOMAIN all /\ all[k + 1] = fifos[k]
    <3> TAKE k \in DOMAIN fifos
    <3>1. k + 1 \in 2 .. Len(fifos) + 1 /\ (k + 1) - 1 = k
      BY <1>1
    <3> QED
      BY <1>2, <1>3, <3>1
  <2>3. 1 \in DOMAIN all /\ all[1] = out
    BY <1>1, <1>2, <1>3
  <2>4. \A k \in DOMAIN all : k = 1 \/ (k - 1 \in DOMAIN fifos /\ all[k] = fifos[k - 1])
    BY <1>1, <1>2, <1>3
  <2>5. ASSUME NEW i, i \in files PROVE i \in {all[k] : k \in DOMAIN all}
    BY <2>1, <2>2, <2>3, <2>5
  <2>6. ASSUME NEW i, i \in {all[k] : k \in DOMAIN all} PROVE i \in files
    BY <2>1, <2>3, <2>4, <2>6
  <2> QED
    BY <2>5, <2>6
<1> QED
  BY <1>4, <1>5, <1>6 DEF ListOK, ListInv, all

(* A new file behind the others.                                           *)
LEMMA ListAppend ==
  ASSUME TypeOK, ListInv, NEW new \in FileIds, new = in + 1,
         fifos' = Append(fifos, new), files' = files \cup {new},
         in' = new, max_id' = new, out' = out
  PROVE  ListInv' /\ fifos' \in Seq(FileIds)
<1>1. /\ fifos \in Seq(FileIds) /\ Len(fifos) \in Nat /\ DOMAIN fifos = 1 .. Len(fifos)
      /\ out \in Nat /\ in \in Nat /\ files \subseteq Nat
  BY LenProperties DEF TypeOK, FileIds
<1>2. /\ fifos' \in Seq(FileIds) /\ Len(fifos') = Len(fifos) + 1 /\ fifos' # <<>>
      /\ \A k \in 1 .. Len(fifos) : fifos'[k] = fifos[k]
      /\ fifos'[Len(fifos) + 1] = new
      /\ DOMAIN fifos' = 1 .. Len(fifos) + 1
  BY <1>1, AppendProperties, LenProperties, EmptySeq
<1>3. DOMAIN fifos' = DOMAIN fifos \cup {Len(fifos) + 1}
  BY <1>1, <1>2
<1>4. \A k \in DOMAIN fifos : fifos[k] \in files /\ fifos'[k] = fifos[k]
  BY <1>1, <1>2 DEF ListInv
<1>5. \A i \in files : i < new
  BY <1>1, ListFacts
<1>6. \A k \in DOMAIN fifos' : k = Len(fifos) + 1 \/ (k \in DOMAIN fifos /\ k < Len(fifos) + 1)
  BY <1>1, <1>2
<1>7. ASSUME NEW j \in DOMAIN fifos', NEW k \in DOMAIN fifos', j < k PROVE fifos'[j] < fifos'[k]
  <2>1. j \in DOMAIN fifos
    BY <1>1, <1>2, <1>7
  <2>2. CASE k = Len(fifos) + 1
    BY <1>2, <1>4, <1>5, <2>1, <2>2
  <2>3. CASE k \in DOMAIN fifos
    BY <1>4, <1>7, <2>1, <2>3 DEF ListInv
  <2> QED
    BY <1>6, <2>2, <2>3
<1>8. \A k \in DOMAIN fifos' : out < fifos'[k]
  <2>1. out < new
    BY <1>5, ListFacts
  <2> QED
    BY <1>2, <1>4, <1>6, <2>1 DEF ListInv
<1>9. files' = {out} \cup {fifos'[k] : k \in DOMAIN fifos'}
  BY <1>2, <1>3, <1>4 DEF ListInv
<1> QED
  BY <1>2, <1>7, <1>8, <1>9 DEF ListInv

(* The first file of the list takes the place of `out'.                    *)
LEMMA ListTail ==
  ASSUME TypeOK, ListInv, fifos # <<>>,
         fifos' = Tail(fifos), files' = files \ {out},
         in' = in, max_id' = max_id, out' = Head(fifos)
  PROVE  ListInv' /\ fifos' \in Seq(FileIds) /\ Head(fifos) \in files /\ Head(fifos) # out
<1>1. /\ fifos \in Seq(FileIds) /\ Len(fifos) \in Nat \ {0} /\ DOMAIN fifos = 1 .. Len(fifos)
      /\ out \in Nat /\ in \in Nat /\ \A k \in DOMAIN fifos : fifos[k] \in Nat
  <2>1. fifos \in Seq(FileIds) /\ out \in Nat /\ in \in Nat
    BY DEF TypeOK, FileIds
  <2>2. Len(fifos) \in Nat \ {0} /\ DOMAIN fifos = 1 .. Len(fifos)
    BY <2>1, EmptySeq, LenProperties
  <2>3. \A k \in DOMAIN fifos : fifos[k] \in FileIds
    BY <2>1, <2>2, ElementOfSeq
  <2> QED
    BY <2>1, <2>2, <2>3 DEF FileIds
<1>2. /\ fifos' \in Seq(FileIds) /\ Len(fifos') = Len(fifos) - 1 /\ out' = fifos[1]
      /\ \A k \in 1 .. Len(fifos) - 1 : fifos'[k] = fifos[k + 1]
      /\ DOMAIN fifos' = 1 .. Len(fifos) - 1
      /\ fifos' = <<>> <=> Len(fifos') = 0
  BY <1>1, HeadTailProperties, LenProperties, EmptySeq
<1>3. \A k \in DOMAIN fifos' : k + 1 \in DOMAIN fifos /\ 1 < k + 1 /\ fifos'[k] = fifos[k + 1]
  BY <1>1, <1>2
<1>4. 1 \in DOMAIN fifos /\ out < fifos[1]
  BY <1>1 DEF ListInv
<1>5. ASSUME NEW j \in DOMAIN fifos', NEW k \in DOMAIN fifos', j < k PROVE fifos'[j] < fifos'[k]
  <2>1. j + 1 < k + 1
    BY <1>2, <1>5
  <2> QED
    BY <1>3, <2>1 DEF ListInv
<1>6. \A k \in DOMAIN fifos' : out' < fifos'[k]
  BY <1>2, <1>3, <1>4 DEF ListInv
<1>7. in = IF fifos' = <<>> THEN out' ELSE fifos'[Len(fifos')]
  <2>1. in = fifos[Len(fifos)]
    BY DEF ListInv
  <2>2. CASE Len(fifos) = 1
    BY <1>1, <1>2, <2>1, <2>2
  <2>3. CASE Len(fifos) # 1
    <3>1. Len(fifos) - 1 \in 1 .. Len(fifos) - 1 /\ (Len(fifos) - 1) + 1 = Len(fifos)
      BY <1>1, <2>3
    <3>2. fifos'[Len(fifos')] = fifos[Len(fifos)] /\ fifos' # <<>>
      BY <1>2, <3>1
    <3> QED
      BY <2>1, <3>2
  <2> QED
    BY <2>2, <2>3
<1>8. \A k \in DOMAIN fifos : k = 1 \/ (k - 1 \in DOMAIN fifos' /\ fifos'[k - 1] = fifos[k])
  <2> TAKE k \in DOMAIN fifos
  <2>1. k # 1 => k - 1 \in 1 .. Len(fifos) - 1 /\ (k - 1) + 1 = k
    BY <1>1
  <2> QED
    BY <1>2, <2>1
<1>9. \A k \in DOMAIN fifos : fifos[k] # out
  BY <1>1 DEF ListInv
<1>10. files' = {out'} \cup {fifos'[k] : k \in DOMAIN fifos'}
  <2>1. files' = {fifos[k] : k \in DOMAIN fifos}
    BY <1>9 DEF ListInv
  <2>2. ASSUME NEW i, i \in files' PROVE i \in {out'} \cup {fifos'[k] : k \in DOMAIN fifos'}
    <3>1. PICK k \in DOMAIN fifos : i = fifos[k]
      BY <2>1, <2>2
    <3> QED
      BY <1>2, <1>8, <3>1
  <2>3. ASSUME NEW i, i \in {out'} \cup {fifos'[k] : k \in DOMAIN fifos'} PROVE i \in files'
    BY <1>2, <1>3, <1>4, <2>1, <2>3
  <2> QED
    BY <2>2, <2>3
<1> QED
  BY <1>2, <1>4, <1>5, <1>6, <1>7, <1>9, <1>10 DEF ListInv

(* A sequence with one more element.                                       *)
LEMMA AppendFacts ==
  ASSUME NEW S, NEW q \in Seq(S), NEW x \in S
  PROVE  /\ Append(q, x) \in Seq(S) /\ Append(q, x) # <<>>
         /\ Len(Append(q, x)) = Len(q) + 1 /\ DOMAIN Append(q, x) = 1 .. Len(q) + 1
         /\ \A k \in 1 .. Len(q) : Append(q, x)[k] = q[k]
         /\ Append(q, x)[Len(q) + 1] = x
  BY AppendProperties, LenProperties

(* The list that siridb_fifo_new makes.                                    *)
LEMMA ListLoad ==
  ASSUME NEW keep \in SUBSET FileIds, NEW s \in [1 .. Cardinality(keep) -> keep], IsListing(s, keep),
         NEW new \in FileIds, new = IF keep = {} THEN 0 ELSE s[Len(s)] + 1,
         fifos' = Tail(Append(s, new)), files' = keep \cup {new},
         in' = new, max_id' = new, out' = Append(s, new)[1]
  PROVE  ListInv' /\ fifos' \in Seq(FileIds) /\ out' \in FileIds /\ \A i \in keep : i < new
<1>1. IsFiniteSet(keep) /\ Cardinality(keep) \in Nat
  <2>1. IsFiniteSet(FileIds)
    BY FifoAssumption, FS_Interval DEF FileIds
  <2> QED
    BY <2>1, FS_Subset, FS_CardinalityType
<1> DEFINE m == Cardinality(keep)
<1>3. m = 0 <=> keep = {}
  BY <1>1, FS_EmptySet
<1>a. m \in Nat /\ s \in [1 .. m -> keep]
  BY <1>1
<1> HIDE DEF m
<1>2. s \in Seq(FileIds) /\ Len(s) = m /\ DOMAIN s = 1 .. m
  <2>1. s \in [1 .. m -> FileIds]
    BY <1>a
  <2> QED
    BY <1>a, <2>1
<1>4. \A k \in 1 .. m : s[k] \in keep /\ s[k] \in Nat
  <2>1. \A k \in 1 .. m : s[k] \in keep
    BY <1>a
  <2>2. \A i \in FileIds : i \in Nat
    BY FifoAssumption DEF FileIds
  <2> QED
    BY <2>1, <2>2
<1>5. \A i \in keep : i < new
  <2> TAKE i \in keep
  <2>1. PICK k \in 1 .. m : s[k] = i
    BY <1>2 DEF IsListing
  <2>2. m \in 1 .. m /\ (k = m \/ k < m)
    BY <1>1, <2>1 DEF m
  <2>3. s[k] \in Nat /\ s[m] \in Nat
    BY <1>4, <2>1, <2>2
  <2>4. s[k] <= s[m]
    <3>1. k < m => s[k] < s[m]
      BY <1>2, <2>1, <2>2 DEF IsListing
    <3> QED
      BY <2>2, <2>3, <3>1
  <2>5. new = s[m] + 1
    BY <1>2
  <2>6. s[k] < s[m] + 1
    BY <2>3, <2>4
  <2> QED
    BY <2>1, <2>5, <2>6
<1> DEFINE a == Append(s, new)
<1>6. /\ a \in Seq(FileIds) /\ Len(a) = m + 1 /\ a # <<>> /\ DOMAIN a = 1 .. m + 1
      /\ \A k \in 1 .. m : a[k] = s[k]
      /\ a[m + 1] = new
  <2>1. s \in Seq(FileIds) /\ Len(s) = m
    BY <1>2
  <2>2. /\ a \in Seq(FileIds) /\ a # <<>>
        /\ Len(a) = Len(s) + 1 /\ DOMAIN a = 1 .. Len(s) + 1
        /\ \A k \in 1 .. Len(s) : a[k] = s[k]
        /\ a[Len(s) + 1] = new
    BY <2>1, AppendFacts
  <2> HIDE DEF a
  <2> QED
    BY <2>1, <2>2, Zenon
<1>7. m \in Nat
  BY <1>1 DEF m
<1>8. \A j, k \in 1 .. m + 1 : j < k => a[j] < a[k]
  <2> TAKE j, k \in 1 .. m + 1
  <2> HAVE j < k
  <2>1. j \in 1 .. m /\ (k = m + 1 \/ k \in 1 .. m)
    BY <1>7
  <2>2. CASE k = m + 1
    BY <1>4, <1>5, <1>6, <2>1, <2>2
  <2>3. CASE k \in 1 .. m
    BY <1>2, <1>6, <2>1, <2>3 DEF IsListing
  <2> QED
    BY <2>1, <2>2, <2>3
<1>9. files' = {a[k] : k \in 1 .. m + 1}
  <2>1. ASSUME NEW i, i \in files' PROVE i \in {a[k] : k \in 1 .. m + 1}
    <3>1. CASE i = new
      <4>1. m + 1 \in 1 .. m + 1
        BY <1>7
      <4> QED
        BY <1>6, <3>1, <4>1
    <3>2. CASE i \in keep
      <4>1. PICK k \in 1 .. m : s[k] = i
        BY <1>2, <3>2 DEF IsListing
      <4>2. k \in 1 .. m + 1 /\ a[k] = i
        BY <1>6, <1>7, <4>1
      <4> QED
        BY <4>2
    <3> QED
      BY <2>1, <3>1, <3>2
  <2>2. ASSUME NEW k \in 1 .. m + 1 PROVE a[k] \in files'
    <3>1. k = m + 1 \/ k \in 1 .. m
      BY <1>7
    <3> QED
      BY <1>4, <1>6, <3>1
  <2> QED
    BY <2>1, <2>2
<1> HIDE DEF a
<1>10. /\ fifos' \in Seq(FileIds) /\ Len(fifos') = m
       /\ \A k \in 1 .. m : fifos'[k] = a[k + 1]
       /\ DOMAIN fifos' = 1 .. m
       /\ fifos' = <<>> <=> m = 0
       /\ out' = a[1] /\ out' \in FileIds
  <2>1. fifos' = Tail(a) /\ out' = a[1]
    BY DEF a
  <2>2. 1 \in DOMAIN a
    BY <1>6, <1>7
  <2>3. fifos' \in Seq(FileIds) /\ Len(fifos') = (m + 1) - 1 /\ \A k \in 1 .. (m + 1) - 1 : fifos'[k] = a[k + 1]
    <3>1. /\ Tail(a) \in Seq(FileIds) /\ Len(Tail(a)) = Len(a) - 1
          /\ \A k \in 1 .. Len(Tail(a)) : Tail(a)[k] = a[k + 1]
      BY <1>6, HeadTailProperties
    <3> QED
      BY <1>6, <2>1, <3>1
  <2>4. (m + 1) - 1 = m
    BY <1>7
  <2>5. a[1] \in FileIds
    BY <1>6, <2>2, ElementOfSeq
  <2> QED
    BY <2>1, <2>3, <2>4, <2>5, LenProperties, EmptySeq
<1>11. ListInv'
  <2>1. \A j, k \in DOMAIN fifos' : j < k => fifos'[j] < fifos'[k]
    <3> TAKE j, k \in DOMAIN fifos'
    <3> HAVE j < k
    <3>1. j + 1 \in 1 .. m + 1 /\ k + 1 \in 1 .. m + 1 /\ j + 1 < k + 1
      BY <1>7, <1>10
    <3> QED
      BY <1>8, <1>10, <3>1
  <2>2. \A k \in DOMAIN fifos' : out' < fifos'[k]
    <3> TAKE k \in DOMAIN fifos'
    <3>1. 1 \in 1 .. m + 1 /\ k + 1 \in 1 .. m + 1 /\ 1 < k + 1
      BY <1>7, <1>10
    <3> QED
      BY <1>8, <1>10, <3>1
  <2>3. in' = IF fifos' = <<>> THEN out' ELSE fifos'[Len(fifos')]
    <3>1. CASE m = 0
      BY <1>6, <1>10, <3>1
    <3>2. CASE m # 0
      <4>1. m \in 1 .. m
        BY <1>7, <3>2
      <4> QED
        BY <1>6, <1>10, <3>2, <4>1
    <3> QED
      BY <3>1, <3>2
  <2>4. files' = {out'} \cup {fifos'[k] : k \in DOMAIN fifos'}
    <3>1. \A k \in 1 .. m + 1 : k = 1 \/ (k - 1 \in 1 .. m /\ fifos'[k - 1] = a[k])
      <4> TAKE k \in 1 .. m + 1
      <4>1. k # 1 => k - 1 \in 1 .. m /\ (k - 1) + 1 = k
        BY <1>7
      <4> QED
        BY <1>10, <4>1
    <3>2. \A k \in 1 .. m : k + 1 \in 1 .. m + 1 /\ fifos'[k] = a[k + 1]
      BY <1>7, <1>10
    <3>3. 1 \in 1 .. m + 1
      BY <1>7
    <3>4. ASSUME NEW i, i \in files' PROVE i \in {out'} \cup {fifos'[k] : k \in DOMAIN fifos'}
      <4>1. PICK k \in 1 .. m + 1 : i = a[k]
        BY <1>9, <3>4
      <4> QED
        BY <1>10, <3>1, <4>1
    <3>5. ASSUME NEW i, i \in {out'} \cup {fifos'[k] : k \in DOMAIN fifos'} PROVE i \in files'
      <4>1. i = a[1] \/ \E k \in 1 .. m : i = fifos'[k]
        BY <1>10, <3>5
      <4> QED
        BY <1>9, <3>2, <3>3, <4>1
    <3> QED
      BY <3>4, <3>5
  <2> QED
    BY <2>1, <2>2, <2>3, <2>4 DEF ListInv
<1> QED
  BY <1>5, <1>10, <1>11

-----------------------------------------------------------------------------
(* siridb_fifo_append.                                                     *)

(* The fields of a siridb_ffile_t.                                         *)
LEMMA FFileFacts ==
  ASSUME NEW f \in FFile
  PROVE  /\ f.next_size \in Nat /\ f.size \in Nat /\ f.free_space \in Nat /\ f.open \in BOOLEAN
  BY DEF FFile

(* What is known of the file that is written, in one place.                *)
LEMMA InFacts ==
  ASSUME FifoInv, up
  PROVE  /\ in \in files /\ out \in files /\ files \subseteq FileIds /\ in \in Nat
         /\ disk[in] \in File /\ Tiled(disk[in]) /\ ffile[in] \in FFile
         /\ disk \in [FileIds -> File] /\ ffile \in [FileIds -> FFile]
         /\ \A e \in disk[in].ents : e.no < next
         /\ next \in Nat /\ ListInv /\ SizesInv /\ InInv /\ HandlesOK /\ TypeOK /\ DiskInv
         /\ \A i \in files : i <= in /\ out <= i
<1>1. ListInv /\ SizesInv /\ InInv /\ HandlesOK /\ TypeOK /\ DiskInv
  BY DEF FifoInv
<1>2. in \in files /\ out \in files /\ \A i \in files : i <= in /\ out <= i
  BY <1>1, ListFacts
<1>3. /\ files \subseteq FileIds /\ next \in Nat
      /\ disk \in [FileIds -> File] /\ ffile \in [FileIds -> FFile]
  BY <1>1 DEF TypeOK
<1>4. in \in Nat
  BY <1>2, <1>3, FifoAssumption DEF FileIds
<1>5. \A e \in disk[in].ents : e.no < next
  <2> TAKE e \in disk[in].ents
  <2>1. e.no \in 1 .. next - 1
    BY <1>1, <1>2 DEF DiskInv
  <2> QED
    BY <1>3, <2>1
<1> QED
  BY <1>1, <1>2, <1>3, <1>4, <1>5 DEF DiskInv

(* A package is written below the others of `in'.                          *)
LEMMA WriteIn ==
  ASSUME FifoInv, up, NEW size \in PkgSizes, Fits(size)
  PROVE  LET at == ffile[in].free_space - (size + WORD)
             g == Written(disk[in], at, size, next)
             new == [at |-> at, size |-> size, no |-> next]
         IN  /\ at \in Nat /\ at >= WORD /\ g \in File /\ Tiled(g)
             /\ g.ents = disk[in].ents \cup {new} /\ new.no = next /\ new.size = size
             /\ g.low = at /\ g.len = ffile[in].size
             /\ disk[in].ents # {} => g.len = disk[in].len
             /\ disk[in].ents = {} => End(new) = g.len
             /\ disk[in] = EmptyFile \/ at + size <= disk[in].len
<1> DEFINE at == ffile[in].free_space - (size + WORD)
           g == Written(disk[in], at, size, next)
           new == [at |-> at, size |-> size, no |-> next]
<1>1. size \in Nat /\ size > 0
  BY SizeFacts
<1>2. ffile[in].free_space \in Nat /\ ffile[in].size \in Nat
  BY InFacts, FFileFacts
<1>3. at \in Nat /\ at >= WORD /\ at + size + WORD = ffile[in].free_space
  BY <1>1, <1>2 DEF Fits
<1> HIDE DEF at
<1>4. \/ disk[in] = EmptyFile /\ ffile[in].free_space = ffile[in].size
      \/ /\ disk[in].low = ffile[in].free_space /\ disk[in].len = ffile[in].size
         /\ disk[in].ents = {} => disk[in].low = disk[in].len
  BY InFacts DEF InInv
<1>5. /\ disk[in] = EmptyFile \/ (/\ disk[in].low = at + size + WORD
                                  /\ disk[in].ents = {} => disk[in].low = disk[in].len)
      /\ disk[in] \in File /\ Tiled(disk[in]) /\ next \in Nat /\ \A e \in disk[in].ents : e.no < next
  BY <1>3, <1>4, InFacts
<1>6. /\ g \in File /\ Tiled(g) /\ new \in Entry
      /\ g.ents = disk[in].ents \cup {new} /\ g.low = at /\ new.no = next /\ new.size = size
      /\ End(new) = at + size + WORD
      /\ g.len = IF disk[in] = EmptyFile THEN at + size + WORD ELSE disk[in].len
  BY <1>3, <1>5, WrittenFacts
<1> HIDE DEF g, new
<1>7. g.len = ffile[in].size
  <2>1. disk[in] = EmptyFile => ffile[in].free_space = ffile[in].size
    BY <1>1, <1>3, <1>4, EmptyFileFacts
  <2> QED
    BY <1>3, <1>4, <1>6, <2>1
<1>8. disk[in].ents # {} => g.len = disk[in].len
  BY <1>6, EmptyFileFacts
<1>9. disk[in].ents = {} => End(new) = g.len
  BY <1>3, <1>4, <1>6
<1>10. disk[in] = EmptyFile \/ at + size <= disk[in].len
  <2>1. disk[in].low <= disk[in].len /\ disk[in].low \in Nat /\ disk[in].len \in Nat
    BY <1>5, FileFacts DEF Tiled
  <2> QED
    BY <1>1, <1>3, <1>5, <2>1
<1> QED
  BY <1>3, <1>6, <1>7, <1>8, <1>9, <1>10 DEF at, g, new

(* A package is written in a new file.                                     *)
LEMMA WriteNew ==
  ASSUME FifoInv, NEW size \in PkgSizes
  PROVE  LET at == NewSize(size) - (size + WORD)
             g == NewFileWith(size)
             new == [at |-> at, size |-> size, no |-> next]
         IN  /\ at \in Nat /\ at >= WORD /\ g \in File /\ Tiled(g)
             /\ g.ents = {new} /\ new.no = next /\ new.size = size
             /\ g.low = at /\ g.len = NewSize(size) /\ End(new) = g.len
             /\ NewSize(size) \in Nat
<1> DEFINE at == NewSize(size) - (size + WORD)
<1>1. size \in Nat /\ size > 0 /\ FFILE_DEFAULT_SIZE \in Nat
  BY SizeFacts, FifoAssumption
<1>2. NewSize(size) \in Nat /\ NewSize(size) >= size + 2 * WORD
  BY <1>1 DEF NewSize
<1>3. at \in Nat /\ at >= WORD /\ at + size + WORD = NewSize(size)
  BY <1>1, <1>2
<1>4. next \in Nat
  BY DEF FifoInv, TypeOK
<1> HIDE DEF at
<1> DEFINE g == Written(EmptyFile, at, size, next)
           new == [at |-> at, size |-> size, no |-> next]
<1>5. /\ g \in File /\ Tiled(g) /\ new \in Entry
      /\ g.ents = EmptyFile.ents \cup {new} /\ g.low = at /\ new.no = next /\ new.size = size
      /\ End(new) = at + size + WORD
      /\ g.len = IF EmptyFile = EmptyFile THEN at + size + WORD ELSE EmptyFile.len
  BY <1>3, <1>4, EmptyFileFacts, WrittenFacts
<1> HIDE DEF g, new
<1>6. g.ents = {new} /\ g.len = NewSize(size) /\ End(new) = g.len
  BY <1>3, <1>5, EmptyFileFacts
<1>7. NewFileWith(size) = g
  BY DEF NewFileWith, at, g
<1> QED
  BY <1>2, <1>3, <1>5, <1>6, <1>7 DEF at, new

(* siridb_fifo_append with room in `in'.                                   *)
LEMMA AppendHereStep ==
  ASSUME FifoInv, up, NEW size \in PkgSizes, Fits(size), AppendHere(size),
         next' = next + 1, UNCHANGED <<up, popped, errors>>
  PROVE  FifoInv' /\ Pending' = Pending \cup {next}
<1> DEFINE at == ffile[in].free_space - (size + WORD)
           g == Written(disk[in], at, size, next)
           new == [at |-> at, size |-> size, no |-> next]
<1>1. /\ at \in Nat /\ at >= WORD /\ g \in File /\ Tiled(g)
      /\ g.ents = disk[in].ents \cup {new} /\ new.no = next /\ new.size = size
      /\ g.low = at /\ g.len = ffile[in].size
      /\ disk[in].ents # {} => g.len = disk[in].len
      /\ disk[in].ents = {} => End(new) = g.len
  BY WriteIn
<1>2. /\ disk' = [disk EXCEPT ![in] = g]
      /\ UNCHANGED <<files, fifos, in, out, max_id>>
  BY DEF AppendHere
<1>3. /\ ffile' \in [FileIds -> FFile]
      /\ \A i \in FileIds : i # in => ffile'[i] = ffile[i]
      /\ ffile'[in].free_space = at /\ ffile'[in].size = ffile[in].size
      /\ ffile'[in].open = ffile[in].open
      /\ ffile'[in].next_size = IF ffile[in].next_size = 0 THEN size ELSE ffile[in].next_size
  <2>1. ffile' = [ffile EXCEPT ![in] =
                    [[@ EXCEPT !.free_space = at] EXCEPT
                          !.next_size = IF ffile[in].next_size = 0 THEN size ELSE ffile[in].next_size]]
    BY InFacts, FFileFacts DEF AppendHere, FFile
  <2>2. size \in Nat /\ at \in Nat /\ ffile \in [FileIds -> FFile] /\ in \in FileIds
    BY <1>1, SizeFacts, InFacts
  <2> QED
    BY <2>1, <2>2 DEF FFile
<1> HIDE DEF at, g, new
<1>4. /\ disk' \in [FileIds -> File] /\ disk'[in] = g
      /\ \A i \in FileIds : i # in => disk'[i] = disk[i]
  BY <1>1, <1>2, InFacts
<1>5. TypeOK'
  <2>1. next' \in Nat \ {0} /\ TypeOK
    BY InFacts
  <2> QED
    BY <1>2, <1>3, <1>4, <2>1 DEF TypeOK
<1>6. \A i, e : Has(i, e)' <=> Has(i, e) \/ (i = in /\ e = new)
  BY <1>1, <1>2, <1>4, InFacts DEF Has
<1>7. Pending' = Pending \cup {next}
  BY <1>1, <1>6, PendingAdd
<1>8. DiskInv'
  <2>1. \A i \in files' : Tiled(disk[i])'
    BY <1>1, <1>2, <1>4, InFacts DEF DiskInv
  <2>2. \A i, e : Has(i, e)' => \/ Has(i, e)
                                \/ e.no = next /\ next' = next + 1 /\ \A j \in files' : j <= i
    BY <1>1, <1>2, <1>6, InFacts
  <2> QED
    BY <1>5, <2>1, <2>2, InFacts, DiskKeeps
<1>9. ListInv' /\ HandlesOK'
  <2>1. ListInv'
    BY <1>2, InFacts DEF ListInv
  <2>2. \A i \in FileIds : ffile'[i].open = ffile[i].open
    BY <1>3
  <2>3. in \in FileIds /\ out \in FileIds
    BY InFacts
  <2> QED
    BY <1>2, <2>1, <2>2, <2>3, InFacts DEF HandlesOK
(* The package on top stays.                                               *)
<1>10. ASSUME NEW i \in files, NEW e, OnTop(i, e) PROVE OnTop(i, e)'
  <2>1. CASE i # in
    BY <1>3, <1>4, <1>10, <2>1, InFacts DEF OnTop
  <2>2. CASE i = in
    <3>1. e \in disk[in].ents /\ End(e) = disk[in].len /\ e.size = ffile[in].next_size
      BY <1>10, <2>2 DEF OnTop
    <3>2. e.size # 0
      <4>1. e \in Entry
        BY <3>1, InFacts, FileFacts
      <4> QED
        BY <4>1, EntryFacts
    <3>3. e \in g.ents /\ End(e) = g.len /\ ffile'[in].next_size = ffile[in].next_size
      BY <1>1, <1>3, <3>1, <3>2
    <3> QED
      BY <1>4, <2>2, <3>1, <3>3 DEF OnTop
  <2> QED
    BY <2>1, <2>2
<1>11. SizesInv'
  <2>1. ASSUME NEW i \in files, i # in PROVE ffile'[i].next_size # 0 /\ ffile'[i].size = disk'[i].len
    BY <1>3, <1>4, <2>1, InFacts DEF SizesInv
  <2>2. ASSUME NEW i \in files, disk'[i].ents # {}
        PROVE  (\E e \in disk'[i].ents : OnTop(i, e)') /\ ffile'[i].size = disk'[i].len
    <3>1. CASE disk[i].ents # {}
      <4>1. PICK e \in disk[i].ents : OnTop(i, e)
        BY <3>1, InFacts DEF SizesInv
      <4>2. OnTop(i, e)' /\ e \in disk'[i].ents
        BY <1>10, <4>1 DEF OnTop
      <4>3. ffile'[i].size = disk'[i].len
        <5>1. ffile[i].size = disk[i].len
          BY <3>1, InFacts DEF SizesInv
        <5> QED
          BY <1>1, <1>3, <1>4, <3>1, <5>1, InFacts
      <4> QED
        BY <4>2, <4>3
    <3>2. CASE disk[i].ents = {}
      <4>1. i = in
        <5>1. i \in FileIds
          BY InFacts
        <5> QED
          BY <1>4, <2>2, <3>2, <5>1
      <4>2. ffile'[in].next_size = size
        BY <1>3, <3>2, <4>1, InFacts DEF InInv
      <4>3. PICK e : e = new
        OBVIOUS
      <4>5. e \in disk'[i].ents /\ OnTop(i, e)'
        BY <1>1, <1>4, <3>2, <4>1, <4>2, <4>3 DEF OnTop
      <4>4. ffile'[i].size = disk'[i].len
        BY <1>1, <1>3, <1>4, <4>1
      <4> QED
        BY <4>4, <4>5
    <3> QED
      BY <3>1, <3>2
  <2> QED
    BY <1>2, <2>1, <2>2 DEF SizesInv
<1>12. InInv'
  <2>1. disk'[in].ents # {} /\ disk'[in].low = ffile'[in].free_space /\ disk'[in].len = ffile'[in].size
        /\ ffile'[in].free_space >= WORD
    BY <1>1, <1>3, <1>4
  <2> QED
    BY <1>2, <2>1 DEF InInv
<1>13. popped' # 0 => PoppedInv'
  <2> SUFFICES ASSUME popped # 0 PROVE PoppedInv'
    OBVIOUS
  <2>1. PICK e \in disk[out].ents : OnTop(out, e) /\ e.no = popped /\ ffile[in].open
    BY DEF FifoInv, PoppedInv
  <2>2. PICK o : o = out
    OBVIOUS
  <2>3. OnTop(o, e)' /\ e \in disk'[o].ents /\ o = out'
    BY <1>2, <1>10, <2>1, <2>2, InFacts DEF OnTop
  <2> QED
    BY <1>2, <1>3, <2>1, <2>3 DEF PoppedInv, OnTop
<1> QED
  BY <1>5, <1>7, <1>8, <1>9, <1>11, <1>12, <1>13 DEF FifoInv

(* What is left of the state in memory when the process is gone.           *)
LEMMA DownKeeps ==
  ASSUME FifoInv, Down, files' \subseteq FileIds, disk' \in [FileIds -> File],
         next' \in Nat \ {0}, errors' \in 0 .. MaxErrors
  PROVE  TypeOK' /\ (DiskInv' => FifoInv') /\ popped' = 0
<1>1. 0 \in FileIds /\ NoFFile \in FFile
  BY FifoAssumption DEF FileIds, NoFFile, FFile
<1>2. /\ up' = FALSE /\ fifos' = <<>> /\ in' = 0 /\ out' = 0 /\ max_id' = 0 /\ popped' = 0
      /\ ffile' = [i \in FileIds |-> NoFFile]
  BY DEF Down
<1>3. fifos' \in Seq(FileIds) /\ ffile' \in [FileIds -> FFile]
  BY <1>1, <1>2
<1>4. TypeOK'
  BY <1>1, <1>2, <1>3 DEF TypeOK
<1> QED
  BY <1>2, <1>4 DEF FifoInv

(* The package on top is the oldest one of all.                            *)
LEMMA OldestOfAll ==
  ASSUME FifoInv, up, NEW e, OnTop(out, e), NEW j, NEW d, Has(j, d)
  PROVE  /\ e.no \in Nat /\ d.no \in Nat /\ e.no <= d.no /\ Has(out, e)
         /\ e \in Entry /\ d \in Entry
<1>1. /\ e \in disk[out].ents /\ End(e) = disk[out].len /\ j \in files /\ d \in disk[j].ents
      /\ out \in files /\ out <= j /\ j \in FileIds /\ out \in FileIds
      /\ disk[out] \in File /\ Tiled(disk[out]) /\ disk[j] \in File
  BY InFacts DEF OnTop, Has, DiskInv
<1>2. e \in Entry /\ d \in Entry /\ e.no \in Nat /\ d.no \in Nat
  BY <1>1, FileFacts, EntryFacts
<1>3. CASE j = out
  <2>1. d = e \/ d.no > e.no
    BY <1>1, <1>3, TopIsOldest
  <2> QED
    BY <1>1, <1>2, <2>1 DEF Has
<1>4. CASE j # out
  <2>1. out < j
    BY <1>1, <1>4, FifoAssumption DEF FileIds
  <2>2. e.no < d.no
    BY <1>1, <2>1, InFacts DEF DiskInv
  <2> QED
    BY <1>1, <1>2, <2>2 DEF Has
<1> QED
  BY <1>3, <1>4

(* The packages of `out' are the oldest ones, up to a number k.            *)
LEMMA OutIsFront ==
  ASSUME FifoInv, up, \A i, e : Has(i, e)' <=> Has(i, e) /\ i # out
  PROVE  \E k \in Pending \cup {0} : Pending' = {n \in Pending : n > k}
<1>1. /\ out \in files /\ out \in FileIds /\ disk[out] \in File /\ Tiled(disk[out])
      /\ \A i \in files : i \in FileIds /\ disk[i] \in File /\ out <= i
  BY InFacts DEF DiskInv
<1>2. \A i, e : Has(i, e) => e \in Entry /\ e.no \in Nat /\ e.no > 0
  <2> SUFFICES ASSUME NEW i, NEW e, Has(i, e) PROVE e \in Entry /\ e.no \in Nat /\ e.no > 0
    OBVIOUS
  <2>1. e \in Entry
    BY <1>1, FileFacts DEF Has
  <2>2. e.no \in 1 .. next - 1
    BY InFacts DEF Has, DiskInv
  <2> QED
    BY <2>1, <2>2, EntryFacts
<1>3. CASE disk[out].ents = {}
  <2>1. Pending' = Pending
    <3>1. \A i, e : Has(i, e)' <=> Has(i, e)
      BY <1>3 DEF Has
    <3> QED
      BY <3>1, PendingSame
  <2>2. \A n \in Pending : n > 0
    BY <1>2, PendingIff
  <2> QED
    BY <2>1, <2>2
<1>4. CASE disk[out].ents # {}
  <2>1. PICK b \in disk[out].ents : b.at = disk[out].low
    BY <1>1, <1>4 DEF Tiled
  <2>2. Has(out, b) /\ b \in Entry /\ b.no \in Nat
    BY <1>1, <1>2 DEF Has
  <2>3. ASSUME NEW i, NEW e, Has(i, e) PROVE i # out <=> e.no > b.no
    <3>1. CASE i = out
      <4>1. e \in disk[out].ents /\ e \in Entry /\ e.at >= disk[out].low
        BY <1>1, <1>2, <2>3, <3>1 DEF Has, Tiled
      <4>2. e # b => End(b) <= e.at \/ End(e) <= b.at
        BY <1>1, <4>1 DEF Tiled
      <4>3. e # b => b.at < e.at
        BY <2>1, <2>2, <4>1, <4>2, EntryFacts
      <4>4. e # b => b.no > e.no
        BY <1>1, <4>1, <4>3 DEF Tiled
      <4>5. e.no \in Nat
        BY <1>2, <2>3
      <4> QED
        BY <2>2, <3>1, <4>4, <4>5
    <3>2. CASE i # out
      <4>1. out < i
        BY <1>1, <2>3, <3>2, FifoAssumption DEF FileIds, Has
      <4>2. b.no < e.no
        BY <1>1, <2>3, <4>1, InFacts DEF DiskInv, Has
      <4> QED
        BY <1>2, <2>2, <2>3, <3>2, <4>2
    <3> QED
      BY <3>1, <3>2
  <2>4. ASSUME NEW n, n \in Pending' PROVE n \in Pending /\ n > b.no
    BY <2>3, <2>4, PendingIff, PendingIffNext
  <2>5. ASSUME NEW n, n \in Pending, n > b.no PROVE n \in Pending'
    BY <2>3, <2>5, PendingIff, PendingIffNext
  <2>6. b.no \in Pending
    BY <2>2, PendingIff
  <2>7. Pending' = {n \in Pending : n > b.no}
    BY <2>4, <2>5
  <2> QED
    BY <2>6, <2>7
<1> QED
  BY <1>3, <1>4

(* The number of a new file.                                               *)
LEMMA NewFileFacts ==
  ASSUME FifoInv, up, max_id < MaxFileId
  PROVE  /\ max_id + 1 = in + 1 /\ max_id + 1 \in FileIds /\ max_id + 1 \notin files
         /\ \A i \in files : i < max_id + 1
<1>1. max_id = in /\ in \in Nat /\ files \subseteq FileIds /\ \A i \in files : i <= in
  BY InFacts DEF ListInv
<1>2. \A i \in files : i \in Nat
  BY <1>1, FifoAssumption DEF FileIds
<1> QED
  BY <1>1, <1>2, FifoAssumption DEF FileIds

(* A file with an entry has a next size.                                   *)
LEMMA NonEmptyHasSize ==
  ASSUME FifoInv, up, NEW i \in files, disk[i].ents # {}
  PROVE  ffile[i].next_size # 0 /\ ffile[i].size = disk[i].len
<1>1. PICK e \in disk[i].ents : OnTop(i, e) /\ ffile[i].size = disk[i].len
  BY InFacts DEF SizesInv
<1>2. e \in Entry
  <2>1. disk[i] \in File
    BY InFacts
  <2> QED
    BY <2>1, FileFacts
<1> QED
  BY <1>1, <1>2, EntryFacts DEF OnTop

(* A new siridb_ffile_t that holds one package.                            *)
LEMMA NewFFileWithFacts ==
  ASSUME FifoInv, NEW size \in PkgSizes
  PROVE  /\ NewFFileWith(size) \in FFile
         /\ NewFFileWith(size).next_size = size
         /\ NewFFileWith(size).size = NewSize(size)
         /\ NewFFileWith(size).free_space = NewSize(size) - (size + WORD)
         /\ NewFFileWith(size).open = TRUE
<1>1. size \in Nat /\ NewSize(size) \in Nat /\ NewSize(size) - (size + WORD) \in Nat
  BY SizeFacts, WriteNew
<1> QED
  BY <1>1 DEF NewFFileWith, FFile

(* The file is full and `out' still has data: a new file queues behind it. *)
LEMMA AppendRollData ==
  ASSUME FifoInv, PkgsFit, up, siridb_fifo_is_open, siridb_fifo_has_data,
         NEW size \in PkgSizes, ~Fits(size), max_id < MaxFileId, AppendRoll(size),
         next' = next + 1, UNCHANGED <<up, popped, errors>>
  PROVE  FifoInv' /\ Pending' = Pending \cup {next}
<1>1. PICK n \in FileIds : n = max_id + 1
  BY NewFileFacts
<1>2. n = in + 1 /\ n \notin files /\ (\A i \in files : i < n) /\ n # in /\ n # out
  BY <1>1, NewFileFacts, InFacts
<1> DEFINE g == NewFileWith(size)
<1>3. PICK c : c = [at |-> NewSize(size) - (size + WORD), size |-> size, no |-> next]
  OBVIOUS
<1>4. /\ g \in File /\ Tiled(g) /\ g.ents = {c} /\ c.no = next /\ c.size = size
      /\ g.low = NewSize(size) - (size + WORD) /\ g.low >= WORD
      /\ g.len = NewSize(size) /\ End(c) = g.len
  BY <1>3, WriteNew
<1>5. /\ max_id' = n /\ in' = n /\ out' = out
      /\ files' = files \cup {n} /\ disk' = [disk EXCEPT ![n] = g]
      /\ fifos' = Append(fifos, n)
      /\ ffile' = [ffile EXCEPT ![in].free_space = 0, ![in].open = (in = out),
                                ![n] = NewFFileWith(size)]
  BY <1>1 DEF AppendRoll
<1> HIDE DEF g
<1>6. /\ disk' \in [FileIds -> File] /\ disk'[n] = g
      /\ \A i \in FileIds : i # n => disk'[i] = disk[i]
  BY <1>4, <1>5, InFacts
<1>7. /\ ffile' \in [FileIds -> FFile] /\ ffile'[n] = NewFFileWith(size)
      /\ \A i \in FileIds : i # n => /\ ffile'[i].next_size = ffile[i].next_size
                                     /\ ffile'[i].size = ffile[i].size
      /\ \A i \in FileIds : i # n /\ i # in => ffile'[i].open = ffile[i].open
      /\ ffile'[in].open = (in = out)
  <2>1. in \in FileIds /\ ffile \in [FileIds -> FFile] /\ NewFFileWith(size) \in FFile
    BY InFacts, NewFFileWithFacts
  <2>2. ffile' = [[ffile EXCEPT ![in] = [[@ EXCEPT !.free_space = 0] EXCEPT !.open = (in = out)]]
                     EXCEPT ![n] = NewFFileWith(size)]
    BY <1>5, <2>1 DEF FFile
  <2>3. (in = out) \in BOOLEAN
    OBVIOUS
  <2> DEFINE r == [[ffile[in] EXCEPT !.free_space = 0] EXCEPT !.open = (in = out)]
  <2>4. /\ r \in FFile /\ r.next_size = ffile[in].next_size /\ r.size = ffile[in].size
        /\ r.open = (in = out)
    <3>1. ffile[in] \in FFile
      BY <2>1
    <3>2. CASE in = out
      <4>1. r = [[ffile[in] EXCEPT !.free_space = 0] EXCEPT !.open = TRUE]
        BY <3>2
      <4> QED
        BY <3>1, <3>2, <4>1 DEF FFile
    <3>3. CASE in # out
      <4>1. r = [[ffile[in] EXCEPT !.free_space = 0] EXCEPT !.open = FALSE]
        BY <3>3
      <4> QED
        BY <3>1, <3>3, <4>1 DEF FFile
    <3> QED
      BY <3>2, <3>3
  <2>5. ffile' = [[ffile EXCEPT ![in] = r] EXCEPT ![n] = NewFFileWith(size)]
    BY <2>1, <2>2
  <2> HIDE DEF r
  <2>6. /\ ffile' \in [FileIds -> FFile] /\ ffile'[n] = NewFFileWith(size) /\ ffile'[in] = r
        /\ \A i \in FileIds : i # n /\ i # in => ffile'[i] = ffile[i]
    BY <1>2, <2>1, <2>4, <2>5
  <2> QED
    BY <2>4, <2>6
<1>8. ListInv' /\ fifos' \in Seq(FileIds)
  BY <1>2, <1>5, InFacts, ListAppend
<1>9. TypeOK'
  <2>1. next' \in Nat \ {0} /\ TypeOK
    BY InFacts
  <2> QED
    BY <1>5, <1>6, <1>7, <1>8, <2>1 DEF TypeOK
<1>10. \A i, e : Has(i, e)' <=> Has(i, e) \/ (i = n /\ e = c)
  BY <1>2, <1>4, <1>5, <1>6, InFacts DEF Has
<1>11. Pending' = Pending \cup {next}
  BY <1>4, <1>10, PendingAdd
<1>12. DiskInv'
  <2>1. \A i \in files' : Tiled(disk[i])'
    BY <1>2, <1>4, <1>5, <1>6, InFacts DEF DiskInv
  <2>2. \A j \in files' : j <= n
    BY <1>2, <1>5, FifoAssumption, InFacts DEF FileIds
  <2>3. \A i, e : Has(i, e)' => \/ Has(i, e)
                                \/ e.no = next /\ next' = next + 1 /\ \A j \in files' : j <= i
    BY <1>4, <1>10, <2>2
  <2> QED
    BY <1>9, <2>1, <2>3, InFacts, DiskKeeps
<1>13. HandlesOK'
  <2>1. ffile'[n].open = TRUE
    BY <1>7, NewFFileWithFacts
  <2>2. ffile[in].open /\ ffile[out].open = ffile[in].open /\ out \in FileIds /\ in \in FileIds
    BY InFacts DEF siridb_fifo_is_open, HandlesOK
  <2>3. ffile'[out].open = TRUE
    <3>1. CASE in = out
      BY <1>7, <3>1
    <3>2. CASE in # out
      <4>1. ffile'[out].open = ffile[out].open /\ ffile \in [FileIds -> FFile]
        BY <1>2, <1>7, <2>2, <3>2, InFacts
      <4>2. ffile[out].open \in BOOLEAN
        BY <2>2, <4>1, FFileFacts
      <4> QED
        BY <2>2, <4>1, <4>2
    <3> QED
      BY <3>1, <3>2
  <2>4. ASSUME NEW i \in FileIds, i # n, i # out PROVE ~ffile'[i].open
    <3>1. CASE i = in
      BY <1>7, <2>4, <3>1
    <3>2. CASE i # in
      BY <1>7, <2>4, <3>2, InFacts DEF HandlesOK
    <3> QED
      BY <3>1, <3>2
  <2> QED
    BY <1>5, <2>1, <2>3, <2>4 DEF HandlesOK
(* The file that is full has packages: an empty one would have had room.   *)
<1>14. disk[in].ents # {}
  <2> SUFFICES ASSUME disk[in].ents = {} PROVE FALSE
    OBVIOUS
  <2>1. in # out
    BY InFacts DEF InInv, siridb_fifo_has_data
  <2>2. ffile[in].free_space = FFILE_DEFAULT_SIZE
    BY <2>1, InFacts DEF InInv
  <2>3. ffile[in].free_space >= size + 2 * WORD
    BY <2>2, SizeFacts, FifoAssumption DEF PkgsFit
  <2> QED
    BY <2>3 DEF Fits
<1>15. ASSUME NEW i \in files, NEW e, OnTop(i, e) PROVE OnTop(i, e)'
  BY <1>2, <1>6, <1>7, <1>15, InFacts DEF OnTop
<1>16. SizesInv'
  <2>1. ASSUME NEW i \in files PROVE ffile'[i].next_size # 0 /\ ffile'[i].size = disk'[i].len
    <3>1. ffile[i].next_size # 0 /\ ffile[i].size = disk[i].len
      <4>1. CASE i = in
        BY <1>14, <4>1, NonEmptyHasSize
      <4>2. CASE i # in
        BY <4>2, InFacts DEF SizesInv
      <4> QED
        BY <4>1, <4>2
    <3> QED
      BY <1>2, <1>6, <1>7, <3>1, InFacts
  <2>2. ASSUME NEW i \in files, disk'[i].ents # {} PROVE \E e \in disk'[i].ents : OnTop(i, e)'
    <3>1. disk'[i] = disk[i]
      BY <1>2, <1>6, InFacts
    <3>2. PICK e \in disk[i].ents : OnTop(i, e)
      BY <2>2, <3>1, InFacts DEF SizesInv
    <3> QED
      BY <1>15, <3>1, <3>2
  <2>3. c \in disk'[n].ents /\ OnTop(n, c)' /\ ffile'[n].size = disk'[n].len
    <3>1. ffile'[n] = NewFFileWith(size) /\ disk'[n] = g
      BY <1>6, <1>7
    <3> QED
      BY <1>4, <3>1, NewFFileWithFacts DEF OnTop
  <2> QED
    BY <1>5, <2>1, <2>2, <2>3 DEF SizesInv
<1>17. InInv'
  <2>1. disk'[n].ents # {} /\ disk'[n].low = ffile'[n].free_space /\ disk'[n].len = ffile'[n].size
        /\ ffile'[n].free_space >= WORD
    <3>1. ffile'[n] = NewFFileWith(size) /\ disk'[n] = g
      BY <1>6, <1>7
    <3> QED
      BY <1>4, <3>1, NewFFileWithFacts
  <2> QED
    BY <1>5, <2>1 DEF InInv
<1>18. popped' # 0 => PoppedInv'
  <2> SUFFICES ASSUME popped # 0 PROVE PoppedInv'
    OBVIOUS
  <2>1. PICK e \in disk[out].ents : OnTop(out, e) /\ e.no = popped
    BY DEF FifoInv, PoppedInv
  <2>2. PICK o : o = out
    OBVIOUS
  <2>3. OnTop(o, e)' /\ e \in disk'[o].ents /\ o = out'
    BY <1>5, <1>15, <2>1, <2>2, InFacts DEF OnTop
  <2>4. ffile'[n].open = TRUE
    BY <1>7, NewFFileWithFacts
  <2> QED
    BY <1>5, <2>1, <2>3, <2>4 DEF PoppedInv, OnTop
<1> QED
  BY <1>8, <1>9, <1>11, <1>12, <1>13, <1>16, <1>17, <1>18 DEF FifoInv

(* The file is full and everything was sent: a new file takes its place.   *)
LEMMA AppendRollEmpty ==
  ASSUME FifoInv, up, siridb_fifo_is_open, ~siridb_fifo_has_data,
         NEW size \in PkgSizes, max_id < MaxFileId, AppendRoll(size),
         next' = next + 1, UNCHANGED <<up, popped, errors>>
  PROVE  FifoInv' /\ Pending' = Pending \cup {next}
<1>1. PICK n \in FileIds : n = max_id + 1
  BY NewFileFacts
<1>2. n = in + 1 /\ n \notin files /\ n # in /\ n # out
  BY <1>1, NewFileFacts, InFacts
<1> DEFINE g == NewFileWith(size)
<1>3. PICK c : c = [at |-> NewSize(size) - (size + WORD), size |-> size, no |-> next]
  OBVIOUS
<1>4. /\ g \in File /\ Tiled(g) /\ g.ents = {c} /\ c.no = next /\ c.size = size
      /\ g.low = NewSize(size) - (size + WORD) /\ g.low >= WORD
      /\ g.len = NewSize(size) /\ End(c) = g.len
  BY <1>3, WriteNew
<1>5. /\ out = in /\ fifos = <<>> /\ files = {out} /\ disk[out].ents = {}
  <2>1. out = in
    BY InFacts DEF SizesInv, siridb_fifo_has_data
  <2>2. disk[out].ents = {}
    BY NonEmptyHasSize, InFacts DEF siridb_fifo_has_data
  <2> QED
    BY <2>1, <2>2, InFacts, ListFacts
<1>6. popped = 0
  BY <1>5 DEF FifoInv, PoppedInv
<1>7. /\ max_id' = n /\ in' = n /\ out' = n /\ fifos' = <<>> /\ files' = {n}
      /\ disk' = [disk EXCEPT ![out] = EmptyFile, ![n] = g]
      /\ ffile' = [ffile EXCEPT ![in].free_space = 0, ![in].open = FALSE,
                                ![out] = NoFFile, ![n] = NewFFileWith(size)]
  BY <1>1, <1>5 DEF AppendRoll
<1> HIDE DEF g
<1>8. disk' \in [FileIds -> File] /\ disk'[n] = g
  BY <1>2, <1>4, <1>7, InFacts, EmptyFileFacts
<1>9. /\ ffile' \in [FileIds -> FFile] /\ ffile'[n] = NewFFileWith(size)
      /\ \A i \in FileIds : i # n => ffile'[i] = ffile[i] \/ ffile'[i] = NoFFile
      /\ ffile'[in] = NoFFile
  <2>1. in \in FileIds /\ ffile \in [FileIds -> FFile] /\ NewFFileWith(size) \in FFile
    BY InFacts, NewFFileWithFacts
  <2>2. ffile' = [[ffile EXCEPT ![in] = NoFFile] EXCEPT ![n] = NewFFileWith(size)]
    BY <1>5, <1>7, <2>1
  <2>3. NoFFile \in FFile
    BY DEF NoFFile, FFile
  <2> HIDE DEF siridb_fifo_has_data
  <2> QED
    BY <1>2, <2>1, <2>2, <2>3
<1>10. ListInv' /\ fifos' \in Seq(FileIds)
  <2>1. DOMAIN fifos' = {}
    BY <1>7
  <2> QED
    BY <1>7, <2>1 DEF ListInv
<1>11. TypeOK'
  <2>1. next' \in Nat \ {0} /\ TypeOK
    BY InFacts
  <2> QED
    BY <1>7, <1>8, <1>9, <1>10, <2>1 DEF TypeOK
<1>12. \A i, e : Has(i, e)' <=> Has(i, e) \/ (i = n /\ e = c)
  BY <1>2, <1>4, <1>5, <1>7, <1>8 DEF Has
<1>13. Pending' = Pending \cup {next}
  BY <1>4, <1>12, PendingAdd
<1>14. DiskInv'
  <2>1. \A i \in files' : Tiled(disk[i])'
    BY <1>4, <1>7, <1>8
  <2>2. \A j \in files' : j <= n
    BY <1>7, FifoAssumption DEF FileIds
  <2>3. \A i, e : Has(i, e)' => \/ Has(i, e)
                                \/ e.no = next /\ next' = next + 1 /\ \A j \in files' : j <= i
    BY <1>4, <1>12, <2>2
  <2> QED
    BY <1>11, <2>1, <2>3, InFacts, DiskKeeps
<1>15. HandlesOK'
  <2>1. ASSUME NEW i \in FileIds, i # n PROVE ~ffile'[i].open
    <3>1. CASE i = in
      BY <1>9, <3>1 DEF NoFFile
    <3>2. CASE i # in
      <4>1. ~ffile[i].open
        BY <1>5, <3>2, InFacts DEF HandlesOK
      <4> QED
        BY <1>9, <2>1, <4>1 DEF NoFFile
    <3> QED
      BY <3>1, <3>2
  <2> QED
    BY <1>7, <2>1 DEF HandlesOK
<1>16. SizesInv'
  <2>3. c \in disk'[n].ents /\ OnTop(n, c)' /\ ffile'[n].size = disk'[n].len
    BY <1>4, <1>8, <1>9, NewFFileWithFacts DEF OnTop
  <2> QED
    BY <1>7, <2>3 DEF SizesInv
<1>17. InInv'
  <2>1. disk'[n].ents # {} /\ disk'[n].low = ffile'[n].free_space /\ disk'[n].len = ffile'[n].size
        /\ ffile'[n].free_space >= WORD
    BY <1>4, <1>8, <1>9, NewFFileWithFacts
  <2> QED
    BY <1>7, <2>1 DEF InInv
<1> QED
  BY <1>6, <1>10, <1>11, <1>13, <1>14, <1>15, <1>16, <1>17 DEF FifoInv

(* A file that may be new is written and the process is gone.              *)
LEMMA CrashWrite ==
  ASSUME FifoInv, Down, NEW k \in FileIds, NEW g \in File, Tiled(g), NEW c, c.no = next,
         files' = files \cup {k}, disk' = [disk EXCEPT ![k] = g], \A j \in files : j <= k,
         \A e : e \in g.ents <=> Has(k, e) \/ (e = c /\ c \in g.ents),
         next' = next + 1, errors' = errors
  PROVE  /\ FifoInv' /\ popped' = 0
         /\ Pending' = Pending \/ Pending' = Pending \cup {next}
<1>1. TypeOK /\ DiskInv /\ disk \in [FileIds -> File] /\ files \subseteq FileIds
  BY DEF FifoInv, TypeOK
<1>2. /\ disk' \in [FileIds -> File] /\ disk'[k] = g
      /\ \A i \in FileIds : i # k => disk'[i] = disk[i]
  BY <1>1
<1>3. next' \in Nat \ {0} /\ errors' \in 0 .. MaxErrors /\ files' \subseteq FileIds
  BY <1>1 DEF TypeOK
<1>4. TypeOK' /\ (DiskInv' => FifoInv') /\ popped' = 0
  BY <1>2, <1>3, DownKeeps
<1>5. \A i, e : Has(i, e)' <=> Has(i, e) \/ (i = k /\ e = c /\ c \in g.ents)
  BY <1>1, <1>2 DEF Has
<1>6. DiskInv'
  <2>1. \A i \in files' : Tiled(disk[i])'
    BY <1>1, <1>2 DEF DiskInv
  <2>2. \A j \in files' : j <= k
    BY FifoAssumption DEF FileIds
  <2>3. \A i, e : Has(i, e)' => \/ Has(i, e)
                                \/ e.no = next /\ next' = next + 1 /\ \A j \in files' : j <= i
    BY <1>5, <2>2
  <2> QED
    BY <1>1, <1>4, <2>1, <2>3, DiskKeeps
<1>7. CASE c \in g.ents
  <2>1. \A i, e : Has(i, e)' <=> Has(i, e) \/ (i = k /\ e = c)
    BY <1>5, <1>7
  <2>2. Pending' = Pending \cup {next}
    BY <2>1, PendingAdd
  <2> QED
    BY <1>4, <1>6, <2>2
<1>8. CASE c \notin g.ents
  <2>1. \A i, e : Has(i, e)' <=> Has(i, e)
    BY <1>5, <1>8
  <2>2. Pending' = Pending
    BY <2>1, PendingSame
  <2> QED
    BY <1>4, <1>6, <2>2
<1> QED
  BY <1>7, <1>8

(* The package was queued, or it was not.                                  *)
LEMMA CrashInAppendStep ==
  ASSUME FifoInv, NEW size \in PkgSizes, CrashInAppend(size)
  PROVE  /\ FifoInv' /\ popped' = 0 /\ next' = next + 1 /\ errors' = errors
         /\ Pending' = Pending \/ Pending' = Pending \cup {next}
<1>1. up /\ Down /\ next' = next + 1 /\ errors' = errors
  BY DEF CrashInAppend
<1>2. CASE Fits(size)
  <2> DEFINE at == ffile[in].free_space - (size + WORD)
  <2>1. PICK c : c = [at |-> at, size |-> size, no |-> next]
    OBVIOUS
  <2>2. PICK k \in FileIds : k = in
    BY <1>1, InFacts
  <2>3. /\ at \in Nat /\ Written(disk[k], at, size, next) \in File
        /\ Tiled(Written(disk[k], at, size, next))
        /\ Written(disk[k], at, size, next).ents = disk[k].ents \cup {c} /\ c.no = next
        /\ disk[k] = EmptyFile \/ at + size <= disk[k].len
    BY <1>1, <1>2, <2>1, <2>2, WriteIn
  <2>4. /\ disk[k] \in File /\ Tiled(disk[k]) /\ k \in files /\ \A j \in files : j <= k
    BY <1>1, <2>2, InFacts
  <2>5. PICK g \in {disk[k], Torn(disk[k], at, size), Written(disk[k], at, size, next)} :
              disk' = [disk EXCEPT ![k] = g]
    BY <1>2, <2>2 DEF CrashInAppend
  <2>6. files' = files \cup {k}
    BY <1>2, <2>4 DEF CrashInAppend
  <2> HIDE DEF at
  <2>7. Torn(disk[k], at, size) \in File /\ Tiled(Torn(disk[k], at, size)) /\ Torn(disk[k], at, size).ents = disk[k].ents
    BY <2>3, <2>4, TornFacts
  <2>8. /\ g \in File /\ Tiled(g)
        /\ \A e : e \in g.ents <=> Has(k, e) \/ (e = c /\ c \in g.ents)
    BY <2>3, <2>4, <2>5, <2>7 DEF Has
  <2> QED
    BY <1>1, <2>3, <2>4, <2>5, <2>6, <2>8, CrashWrite
<1>3. CASE ~Fits(size)
  <2> DEFINE at == NewSize(size) - (size + WORD)
  <2>1. PICK c : c = [at |-> at, size |-> size, no |-> next]
    OBVIOUS
  <2>2. max_id < MaxFileId
    BY <1>3 DEF CrashInAppend
  <2>3. PICK k \in FileIds : k = max_id + 1
    BY <1>1, <2>2, NewFileFacts
  <2>4. /\ at \in Nat /\ NewFileWith(size) \in File /\ Tiled(NewFileWith(size))
        /\ NewFileWith(size).ents = {c} /\ c.no = next
    BY <2>1, WriteNew
  <2>5. k \notin files /\ \A j \in files : j <= k
    BY <1>1, <2>2, <2>3, NewFileFacts, InFacts, FifoAssumption DEF FileIds
  <2>6. files' = files \cup {k}
    BY <1>3, <2>3 DEF CrashInAppend
  <2>7. PICK g \in {EmptyFile, Torn(EmptyFile, at, size), NewFileWith(size)} :
              disk' = [disk EXCEPT ![k] = g]
    BY <1>3, <2>3 DEF CrashInAppend
  <2> HIDE DEF at
  <2>8. Torn(EmptyFile, at, size) \in File /\ Tiled(Torn(EmptyFile, at, size)) /\ Torn(EmptyFile, at, size).ents = {}
    BY <2>4, EmptyFileFacts, TornFacts
  <2>9. /\ g \in File /\ Tiled(g)
        /\ \A e : e \in g.ents <=> Has(k, e) \/ (e = c /\ c \in g.ents)
    BY <2>4, <2>5, <2>7, <2>8, EmptyFileFacts DEF Has
  <2> QED
    BY <1>1, <2>4, <2>5, <2>6, <2>7, <2>9, CrashWrite
<1> QED
  BY <1>2, <1>3

-----------------------------------------------------------------------------
(* Start and stop.                                                         *)

(* A process that is gone leaves the packages as they are.                 *)
LEMMA StopStep ==
  ASSUME FifoInv, Down, UNCHANGED <<files, disk, next>>, errors' \in 0 .. MaxErrors
  PROVE  FifoInv' /\ Pending' = Pending /\ popped' = 0
<1>1. /\ TypeOK /\ DiskInv /\ files \subseteq FileIds /\ disk \in [FileIds -> File]
      /\ next' \in Nat \ {0}
  BY DEF FifoInv, TypeOK
<1>2. TypeOK' /\ (DiskInv' => FifoInv') /\ popped' = 0
  BY <1>1, DownKeeps
<1>3. DiskInv'
  BY <1>1 DEF DiskInv
<1>4. Pending' = Pending
  BY DEF Pending
<1> QED
  BY <1>2, <1>3, <1>4

(* siridb_fifo_new finds every package again.                              *)
LEMMA LoadStep ==
  ASSUME FifoInv, siridb_fifo_new
  PROVE  FifoInv' /\ Pending' = Pending /\ UNCHANGED <<popped, next, errors>>
<1>1. ~up /\ popped = 0 /\ TypeOK /\ DiskInv
  BY DEF FifoInv, siridb_fifo_new
<1>2. PICK word \in [files -> {0} \cup PkgSizes \cup Garbage] :
         /\ \A i \in files : word[i] \in LastWords(disk[i])
         /\ LET keep == {i \in files : word[i] # 0}
            IN \E s \in [1 .. Cardinality(keep) -> keep] :
                 /\ IsListing(s, keep)
                 /\ \E new \in FileIds :
                      /\ new = IF keep = {} THEN 0 ELSE s[Len(s)] + 1
                      /\ Load(keep, word, s, new)
  BY DEF siridb_fifo_new
<1>3. PICK keep : keep = {i \in files : word[i] # 0}
  OBVIOUS
<1>4. PICK s \in [1 .. Cardinality(keep) -> keep], new \in FileIds :
         /\ IsListing(s, keep)
         /\ new = IF keep = {} THEN 0 ELSE s[Len(s)] + 1
         /\ Load(keep, word, s, new)
  BY <1>2, <1>3
<1>5. /\ files' = keep \cup {new}
      /\ disk' = [i \in FileIds |-> IF i \in keep THEN disk[i] ELSE EmptyFile]
      /\ max_id' = new /\ in' = new /\ out' = Append(s, new)[1] /\ fifos' = Tail(Append(s, new))
      /\ up' = TRUE /\ UNCHANGED <<popped, next, errors>>
      /\ ffile' = [i \in FileIds |->
                   IF i = new THEN NewFFile(FFILE_DEFAULT_SIZE)
                   ELSE IF i \in keep
                     THEN [next_size |-> word[i], size |-> disk[i].len,
                           free_space |-> 0, open |-> i = out']
                     ELSE NoFFile]
  BY <1>4 DEF Load
<1>6. /\ keep \in SUBSET FileIds /\ keep \subseteq files /\ files \subseteq FileIds
      /\ disk \in [FileIds -> File] /\ \A i \in files : Tiled(disk[i]) /\ disk[i] \in File
  BY <1>1, <1>3 DEF TypeOK, DiskInv
<1>7. ListInv' /\ fifos' \in Seq(FileIds) /\ out' \in FileIds /\ \A i \in keep : i < new
  BY <1>4, <1>5, <1>6, ListLoad
<1>8. new \notin keep
  BY <1>6, <1>7, FifoAssumption DEF FileIds
<1>9. /\ disk' \in [FileIds -> File] /\ disk'[new] = EmptyFile
      /\ \A i \in keep : disk'[i] = disk[i]
  BY <1>5, <1>6, <1>8, EmptyFileFacts
(* A file that is removed holds nothing, one that is kept says what is on  *)
(* its top.                                                                *)
<1>10. ASSUME NEW i \in files, disk[i].ents # {}
       PROVE  i \in keep /\ \E e \in disk[i].ents : End(e) = disk[i].len /\ word[i] = e.size
  <2>1. word[i] \in LastWords(disk[i])
    BY <1>2
  <2>2. \E e \in disk[i].ents : End(e) = disk[i].len /\ word[i] = e.size /\ word[i] # 0
    BY <1>6, <1>10, <2>1, LastWordFacts
  <2> QED
    BY <1>3, <2>2
<1>11. \A i, e : Has(i, e)' <=> Has(i, e)
  BY <1>5, <1>6, <1>9, <1>10, EmptyFileFacts DEF Has
<1>12. Pending' = Pending
  BY <1>11, PendingSame
<1>13. /\ ffile'[new].next_size = 0 /\ ffile'[new].size = FFILE_DEFAULT_SIZE
       /\ ffile'[new].free_space = FFILE_DEFAULT_SIZE /\ ffile'[new].open = TRUE
       /\ NewFFile(FFILE_DEFAULT_SIZE) \in FFile
  BY <1>5, FifoAssumption DEF NewFFile, FFile
<1>14. ASSUME NEW i \in keep
       PROVE  /\ ffile'[i].next_size = word[i] /\ ffile'[i].size = disk[i].len
              /\ ffile'[i].open = (i = out')
  <2>1. ffile'[i] = [next_size |-> word[i], size |-> disk[i].len, free_space |-> 0, open |-> i = out']
    BY <1>5, <1>6, <1>8
  <2> QED
    BY <2>1
<1>15. ffile' \in [FileIds -> FFile]
  <2> SUFFICES ASSUME NEW i \in FileIds
               PROVE  (IF i = new THEN NewFFile(FFILE_DEFAULT_SIZE)
                   ELSE IF i \in keep
                     THEN [next_size |-> word[i], size |-> disk[i].len,
                           free_space |-> 0, open |-> i = out']
                     ELSE NoFFile) \in FFile
    BY <1>5
  <2>1. NoFFile \in FFile
    BY DEF NoFFile, FFile
  <2>2. ASSUME i \in keep
        PROVE  [next_size |-> word[i], size |-> disk[i].len, free_space |-> 0, open |-> i = out'] \in FFile
    <3>1. word[i] \in Nat /\ disk[i].len \in Nat
      <4>1. word[i] \in {0} \cup PkgSizes \cup Garbage
        BY <1>6, <2>2
      <4>2. \A w \in {0} \cup PkgSizes \cup Garbage : w \in Nat
        BY FifoAssumption
      <4>3. disk[i] \in File
        BY <1>6
      <4>4. disk[i].len \in Nat
        BY <4>3, FileFacts
      <4> QED
        BY <4>1, <4>2, <4>4
    <3>2. (i = out') \in BOOLEAN
      OBVIOUS
    <3> QED
      BY <3>1, <3>2 DEF FFile
  <2> QED
    BY <1>13, <2>1, <2>2
<1>16. TypeOK'
  BY <1>1, <1>5, <1>6, <1>7, <1>9, <1>15 DEF TypeOK
<1>17. DiskInv'
  <2>1. \A i \in files' : Tiled(disk[i])'
    BY <1>5, <1>6, <1>9, EmptyFileFacts
  <2> QED
    BY <1>1, <1>5, <1>11, <1>16, <2>1, DiskKeeps
<1>18. SizesInv'
  <2>1. ASSUME NEW i \in files', i # new PROVE ffile'[i].next_size # 0 /\ ffile'[i].size = disk'[i].len
    <3>1. i \in keep
      BY <1>5, <2>1
    <3>2. disk'[i] = disk[i] /\ word[i] # 0
      BY <1>3, <1>9, <3>1
    <3> QED
      BY <1>14, <3>1, <3>2
  <2>2. ASSUME NEW i \in files', disk'[i].ents # {}
        PROVE  (\E e \in disk'[i].ents : OnTop(i, e)') /\ ffile'[i].size = disk'[i].len
    <3>1. i \in keep /\ disk'[i] = disk[i]
      BY <1>5, <1>9, <2>2, EmptyFileFacts
    <3>2. PICK e \in disk[i].ents : End(e) = disk[i].len /\ word[i] = e.size
      BY <1>6, <1>10, <2>2, <3>1
    <3> QED
      BY <1>14, <3>1, <3>2 DEF OnTop
  <2> QED
    BY <1>5, <2>1, <2>2 DEF SizesInv
<1>19. InInv'
  BY <1>5, <1>9, <1>13, FifoAssumption DEF InInv
<1>20. HandlesOK'
  <2>1. ffile'[out'].open = TRUE
    <3>1. out' = new \/ out' \in keep
      <4>1. out' \in files'
        BY <1>7 DEF ListInv
      <4> QED
        BY <1>5, <4>1
    <3> QED
      BY <1>13, <1>14, <3>1
  <2>2. ASSUME NEW i \in FileIds, i # new, i # out' PROVE ~ffile'[i].open
    <3>1. CASE i \in keep
      BY <1>14, <2>2, <3>1
    <3>2. CASE i \notin keep
      BY <1>5, <2>2, <3>2 DEF NoFFile
    <3> QED
      BY <3>1, <3>2
  <2> QED
    BY <1>5, <1>13, <2>1, <2>2 DEF HandlesOK
<1> QED
  BY <1>1, <1>5, <1>7, <1>12, <1>16, <1>17, <1>18, <1>19, <1>20 DEF FifoInv

-----------------------------------------------------------------------------
(* siridb_fifo_pop and siridb_fifo_commit.                                 *)

(* siridb_fifo_pop takes the oldest package.                               *)
LEMMA PopStep ==
  ASSUME FifoInv, siridb_fifo_pop
  PROVE  /\ FifoInv' /\ Pending' = Pending /\ popped = 0 /\ UNCHANGED <<next, errors>>
         /\ popped' \in Pending /\ \A m \in Pending : popped' <= m
<1>1. /\ up /\ ffile[in].open /\ popped = 0
      /\ UNCHANGED <<files, disk, up, ffile, fifos, in, out, max_id, next, errors>>
  BY DEF siridb_fifo_pop, CanPop, siridb_fifo_is_open
<1>2. PICK e \in disk[out].ents : OnTop(out, e) /\ popped' = e.no
  BY DEF siridb_fifo_pop, AtTheEnd, OnTop
<1>3. Has(out, e) /\ \A j, d : Has(j, d) => e.no \in Nat /\ e.no <= d.no
  <2>1. Has(out, e)
    BY <1>1, InFacts DEF Has
  <2> QED
    BY <1>1, <1>2, <2>1, OldestOfAll
<1>4. popped' \in Nat /\ popped' \in Pending /\ \A m \in Pending : popped' <= m
  BY <1>2, <1>3, PendingIff
<1>5. Pending' = Pending
  BY <1>1 DEF Pending
<1>6. TypeOK' /\ DiskInv' /\ ListInv' /\ SizesInv' /\ InInv' /\ HandlesOK'
  <2>1. TypeOK'
    BY <1>1, <1>4, InFacts DEF TypeOK
  <2>2. DiskInv /\ ListInv /\ InInv /\ HandlesOK /\ SizesInv
    BY <1>1, InFacts
  <2>3. DiskInv' /\ ListInv'
    BY <1>1, <2>2 DEF DiskInv, ListInv
  <2>4. InInv' /\ HandlesOK'
    BY <1>1, <2>2 DEF InInv, HandlesOK
  <2>5. SizesInv'
    BY <1>1, <2>2 DEF SizesInv, OnTop
  <2> QED
    BY <2>1, <2>3, <2>4, <2>5
<1>7. PoppedInv'
  BY <1>1, <1>2 DEF PoppedInv, OnTop
<1> QED
  BY <1>1, <1>4, <1>5, <1>6, <1>7 DEF FifoInv

(* What pop_commit computes when a package is on top.                      *)
LEMMA CommitTop ==
  ASSUME FifoInv, up, NEW e, OnTop(out, e)
  PROVE  SizeAfterPop = e.at /\ CanPopCommit /\ e \in disk[out].ents /\ End(e) = disk[out].len
<1>1. e \in disk[out].ents /\ End(e) = disk[out].len /\ e.size = ffile[out].next_size
  BY DEF OnTop
<1>2. disk[out] \in File /\ Tiled(disk[out]) /\ out \in files
  BY InFacts DEF DiskInv
<1>3. ffile[out].size = disk[out].len
  BY <1>1, <1>2, NonEmptyHasSize
<1>4. e \in Entry
  BY <1>1, <1>2, FileFacts
<1>5. SizeAfterPop = e.at
  BY <1>1, <1>3, <1>4, EntryFacts DEF SizeAfterPop
<1>6. e.at >= WORD /\ e.at <= disk[out].len
  BY <1>1, <1>2, TruncatedFacts
<1> QED
  BY <1>1, <1>5, <1>6 DEF CanPopCommit

(* `out' is removed with all it holds.                                     *)
LEMMA DropOutStep ==
  ASSUME FifoInv, up, ffile[in].open, out # in, DropOut, errors' \in 0 .. MaxErrors
  PROVE  /\ FifoInv' /\ popped' = 0 /\ next' = next
         /\ \A i, e : Has(i, e)' <=> Has(i, e) /\ i # out
<1>1. fifos # <<>>
  BY InFacts, ListFacts
<1>2. PICK h : h = Head(fifos)
  OBVIOUS
<1>3. /\ files' = files \ {out} /\ disk' = [disk EXCEPT ![out] = EmptyFile]
      /\ ffile' = [ffile EXCEPT ![out] = NoFFile, ![h].open = TRUE]
      /\ out' = h /\ fifos' = Tail(fifos) /\ popped' = 0
      /\ UNCHANGED <<up, in, max_id, next>>
  BY <1>2 DEF DropOut
<1>4. ListInv' /\ fifos' \in Seq(FileIds) /\ h \in files /\ h # out
  BY <1>1, <1>2, <1>3, InFacts, ListTail
<1>5. h \in FileIds /\ out \in FileIds /\ in \in FileIds
  BY <1>4, InFacts
<1>6. /\ disk' \in [FileIds -> File]
      /\ \A i \in FileIds : i # out => disk'[i] = disk[i]
  BY <1>3, <1>5, InFacts, EmptyFileFacts
<1>7. /\ ffile' \in [FileIds -> FFile]
      /\ \A i \in FileIds : i # out => /\ ffile'[i].next_size = ffile[i].next_size
                                       /\ ffile'[i].size = ffile[i].size
                                       /\ ffile'[i].free_space = ffile[i].free_space
      /\ \A i \in FileIds : i # out /\ i # h => ffile'[i].open = ffile[i].open
      /\ ffile'[h].open = TRUE /\ ffile'[out] = NoFFile
  <2>1. ffile \in [FileIds -> FFile] /\ NoFFile \in FFile /\ ffile[h] \in FFile
    BY <1>5, InFacts DEF NoFFile, FFile
  <2>2. ffile' = [[ffile EXCEPT ![out] = NoFFile] EXCEPT ![h] = [ffile[h] EXCEPT !.open = TRUE]]
    BY <1>3, <1>4, <1>5, <2>1
  <2> DEFINE r == [ffile[h] EXCEPT !.open = TRUE]
  <2>3. /\ r \in FFile /\ r.next_size = ffile[h].next_size /\ r.size = ffile[h].size
        /\ r.free_space = ffile[h].free_space /\ r.open = TRUE
    BY <2>1 DEF FFile
  <2> HIDE DEF r
  <2>4. ffile' = [[ffile EXCEPT ![out] = NoFFile] EXCEPT ![h] = r]
    BY <2>2 DEF r
  <2>5. /\ ffile' \in [FileIds -> FFile] /\ ffile'[h] = r /\ ffile'[out] = NoFFile
        /\ \A i \in FileIds : i # out /\ i # h => ffile'[i] = ffile[i]
    BY <1>4, <1>5, <2>1, <2>3, <2>4
  <2> QED
    BY <2>3, <2>5
<1>8. TypeOK'
  <2>1. TypeOK
    BY InFacts
  <2> QED
    BY <1>3, <1>4, <1>5, <1>6, <1>7, <2>1 DEF TypeOK
<1>9. \A i, e : Has(i, e)' <=> Has(i, e) /\ i # out
  BY <1>3, <1>6, InFacts DEF Has
<1>10. DiskInv'
  <2>1. \A i \in files' : Tiled(disk[i])'
    BY <1>3, <1>6, InFacts DEF DiskInv
  <2> QED
    BY <1>3, <1>8, <1>9, <2>1, InFacts, DiskKeeps
<1>11. HandlesOK'
  <2>1. ffile'[in].open
    BY <1>5, <1>7
  <2>2. ASSUME NEW i \in FileIds, i # in, i # h PROVE ~ffile'[i].open
    <3>1. CASE i = out
      BY <1>7, <3>1 DEF NoFFile
    <3>2. CASE i # out
      BY <1>7, <2>2, <3>2, InFacts DEF HandlesOK
    <3> QED
      BY <3>1, <3>2
  <2>3. ffile'[h].open = ffile'[in].open
    <3>1. ffile'[in].open \in BOOLEAN
      BY <1>5, <1>7, FFileFacts
    <3> QED
      BY <1>7, <2>1, <3>1
  <2> QED
    BY <1>3, <2>2, <2>3 DEF HandlesOK
<1>12. SizesInv'
  <2>1. ASSUME NEW i \in files', i # in PROVE ffile'[i].next_size # 0 /\ ffile'[i].size = disk'[i].len
    BY <1>3, <1>6, <1>7, <2>1, InFacts DEF SizesInv
  <2>2. ASSUME NEW i \in files', disk'[i].ents # {}
        PROVE  (\E e \in disk'[i].ents : OnTop(i, e)') /\ ffile'[i].size = disk'[i].len
    <3>1. i \in files /\ i \in FileIds /\ i # out /\ disk'[i] = disk[i]
      BY <1>3, <1>6, InFacts
    <3>2. PICK e \in disk[i].ents : OnTop(i, e) /\ ffile[i].size = disk[i].len
      BY <2>2, <3>1, InFacts DEF SizesInv
    <3> QED
      BY <1>7, <3>1, <3>2 DEF OnTop
  <2> QED
    BY <1>3, <2>1, <2>2 DEF SizesInv
<1>13. InInv'
  <2>1. /\ disk'[in] = disk[in] /\ ffile'[in].free_space = ffile[in].free_space
        /\ ffile'[in].next_size = ffile[in].next_size /\ ffile'[in].size = ffile[in].size
    BY <1>5, <1>6, <1>7
  <2> QED
    BY <1>3, <2>1, InFacts DEF InInv
<1> QED
  BY <1>3, <1>4, <1>8, <1>9, <1>10, <1>11, <1>12, <1>13 DEF FifoInv

(* `out' is truncated and stays.                                           *)
LEMMA TruncateStep ==
  ASSUME FifoInv, up, NEW m \in Nat, NEW word \in Nat, NEW g \in File, Tiled(g),
         g.ents \subseteq disk[out].ents, g.len = m,
         disk' = [disk EXCEPT ![out] = g],
         ffile' = [ffile EXCEPT ![out].next_size = word, ![out].size = m],
         popped' = 0, UNCHANGED <<files, up, fifos, in, out, max_id, next>>,
         errors' \in 0 .. MaxErrors,
         g.ents # {} => \E d \in g.ents : End(d) = g.len /\ word = d.size,
         out # in => word # 0,
         out = in => g.low = ffile[in].free_space /\ (g.ents = {} => word = 0 /\ g.low = g.len)
  PROVE  FifoInv' /\ \A i, e : Has(i, e)' <=> Has(i, e) /\ (i = out => e \in g.ents)
<1>1. PICK o \in FileIds : o = out
  BY InFacts
<1>2. o' = out' /\ o \in files
  BY <1>1, InFacts
<1>3. /\ disk' \in [FileIds -> File] /\ disk'[o] = g
      /\ \A i \in FileIds : i # o => disk'[i] = disk[i]
  BY <1>1, InFacts
<1>4. /\ ffile' \in [FileIds -> FFile] /\ ffile'[o].next_size = word /\ ffile'[o].size = m
      /\ \A i \in FileIds : /\ ffile'[i].open = ffile[i].open
                            /\ ffile'[i].free_space = ffile[i].free_space
      /\ \A i \in FileIds : i # o => ffile'[i] = ffile[i]
  <2>1. ffile \in [FileIds -> FFile] /\ ffile[o] \in FFile
    BY InFacts
  <2> DEFINE r == [[ffile[o] EXCEPT !.next_size = word] EXCEPT !.size = m]
  <2>2. ffile' = [ffile EXCEPT ![o] = r]
    BY <1>1, <2>1
  <2>3. /\ r \in FFile /\ r.next_size = word /\ r.size = m /\ r.open = ffile[o].open
        /\ r.free_space = ffile[o].free_space
    BY <2>1 DEF FFile
  <2> HIDE DEF r
  <2> QED
    BY <2>1, <2>2, <2>3
<1>5. TypeOK'
  <2>1. TypeOK
    BY InFacts
  <2> QED
    BY <1>3, <1>4, <2>1 DEF TypeOK
<1>6. \A i, e : Has(i, e)' <=> Has(i, e) /\ (i = out => e \in g.ents)
  BY <1>1, <1>3, InFacts DEF Has
<1>7. DiskInv'
  <2>1. \A i \in files' : Tiled(disk[i])'
    BY <1>3, InFacts DEF DiskInv
  <2> QED
    BY <1>5, <1>6, <2>1, InFacts, DiskKeeps
<1>8. ListInv' /\ HandlesOK'
  <2>1. in \in FileIds /\ out \in FileIds /\ ListInv /\ HandlesOK
    BY InFacts
  <2>2. ListInv'
    BY <2>1 DEF ListInv
  <2> QED
    BY <1>4, <2>1, <2>2 DEF HandlesOK
<1>9. SizesInv'
  <2>1. ASSUME NEW i \in files, i # in PROVE ffile'[i].next_size # 0 /\ ffile'[i].size = disk'[i].len
    <3>1. CASE i = o
      BY <1>1, <1>3, <1>4, <2>1, <3>1
    <3>2. CASE i # o
      BY <1>3, <1>4, <2>1, <3>2, InFacts DEF SizesInv
    <3> QED
      BY <3>1, <3>2
  <2>2. ASSUME NEW i \in files, disk'[i].ents # {}
        PROVE  (\E e \in disk'[i].ents : OnTop(i, e)') /\ ffile'[i].size = disk'[i].len
    <3>1. CASE i = o
      <4>1. PICK d \in g.ents : End(d) = g.len /\ word = d.size
        BY <1>3, <2>2, <3>1
      <4> QED
        BY <1>3, <1>4, <3>1, <4>1 DEF OnTop
    <3>2. CASE i # o
      <4>1. disk'[i] = disk[i] /\ ffile'[i] = ffile[i]
        BY <1>3, <1>4, <3>2, InFacts
      <4>2. PICK e \in disk[i].ents : OnTop(i, e) /\ ffile[i].size = disk[i].len
        BY <2>2, <4>1, InFacts DEF SizesInv
      <4> QED
        BY <4>1, <4>2 DEF OnTop
    <3> QED
      BY <3>1, <3>2
  <2> QED
    BY <2>1, <2>2 DEF SizesInv
<1>10. InInv'
  <2>1. ffile'[in].free_space = ffile[in].free_space /\ in \in FileIds /\ InInv
    BY <1>4, InFacts
  <2>2. CASE in = out
    BY <1>1, <1>3, <1>4, <2>1, <2>2 DEF InInv
  <2>3. CASE in # out
    <3>1. disk'[in] = disk[in] /\ ffile'[in] = ffile[in]
      BY <1>1, <1>3, <1>4, <2>1, <2>3
    <3> QED
      BY <2>1, <3>1 DEF InInv
  <2> QED
    BY <2>2, <2>3
<1> QED
  BY <1>5, <1>6, <1>7, <1>8, <1>9, <1>10 DEF FifoInv

(* The package on top is committed.                                        *)
LEMMA CommitStep ==
  ASSUME FifoInv, up, ffile[in].open, NEW e, OnTop(out, e), FifoCommit(CanPopCommit),
         errors' \in 0 .. MaxErrors
  PROVE  FifoInv' /\ popped' = 0 /\ next' = next /\ Pending' = Pending \ {e.no}
<1>1. SizeAfterPop = e.at /\ CanPopCommit /\ e \in disk[out].ents /\ End(e) = disk[out].len
  BY CommitTop
<1>2. PICK word \in SizeWords(disk[out], e.at) : PopCommit(word)
  BY <1>1 DEF FifoCommit
<1>3. PICK g : g = Truncated(disk[out], e.at)
  OBVIOUS
<1>4. /\ out \in files /\ disk[out] \in File /\ Tiled(disk[out]) /\ e.at \in Nat
  <2>1. out \in files /\ disk[out] \in File /\ Tiled(disk[out])
    BY InFacts DEF DiskInv
  <2>2. e \in Entry
    BY <1>1, <2>1, FileFacts
  <2> QED
    BY <2>1, <2>2, EntryFacts
<1>5. /\ g \in File /\ Tiled(g) /\ g.ents = disk[out].ents \ {e}
      /\ g.low = disk[out].low /\ g.len = e.at
      /\ g.ents = {} => g.low = g.len /\ word = 0
      /\ g.ents # {} => \E d \in g.ents : End(d) = g.len /\ word = d.size
  BY <1>1, <1>2, <1>3, <1>4, TruncatedFacts
<1>6. word \in Nat
  <2>1. CASE g.ents = {}
    BY <1>5, <2>1
  <2>2. CASE g.ents # {}
    BY <1>5, <2>2, FileFacts, EntryFacts
  <2> QED
    BY <2>1, <2>2
<1>7. Has(out, e)
  BY <1>1, <1>4 DEF Has
<1>8. CASE word = 0 /\ out # in
  <2>1. DropOut
    BY <1>2, <1>8 DEF PopCommit
  <2>2. g.ents = {}
    <3> SUFFICES ASSUME g.ents # {} PROVE FALSE
      OBVIOUS
    <3>1. PICK d \in g.ents : word = d.size
      BY <1>5
    <3>2. d \in Entry
      BY <1>5, FileFacts
    <3> QED
      BY <1>8, <3>1, <3>2, EntryFacts
  <2>3. FifoInv' /\ popped' = 0 /\ next' = next /\ \A i, d : Has(i, d)' <=> Has(i, d) /\ i # out
    BY <1>8, <2>1, DropOutStep
  <2>4. \A i, d : Has(i, d)' <=> Has(i, d) /\ ~(i = out /\ d = e)
    BY <1>5, <2>2, <2>3 DEF Has
  <2>5. Pending' = Pending \ {e.no}
    BY <1>7, <2>4, PendingCut
  <2> QED
    BY <2>3, <2>5
<1>9. CASE ~(word = 0 /\ out # in)
  <2>1. /\ disk' = [disk EXCEPT ![out] = g]
        /\ ffile' = [ffile EXCEPT ![out].next_size = word, ![out].size = e.at]
        /\ popped' = 0 /\ UNCHANGED <<files, up, fifos, in, out, max_id, next>>
    BY <1>1, <1>2, <1>3, <1>4, <1>9, InFacts DEF PopCommit
  <2>2. out = in => g.low = ffile[in].free_space
    BY <1>1, <1>5, InFacts, EmptyFileFacts DEF InInv
  <2>3. FifoInv' /\ \A i, d : Has(i, d)' <=> Has(i, d) /\ (i = out => d \in g.ents)
    BY <1>4, <1>5, <1>6, <1>9, <2>1, <2>2, TruncateStep
  <2>4. \A i, d : Has(i, d)' <=> Has(i, d) /\ ~(i = out /\ d = e)
    BY <1>5, <2>3 DEF Has
  <2>5. Pending' = Pending \ {e.no}
    BY <1>7, <2>4, PendingCut
  <2> QED
    BY <2>1, <2>3, <2>5
<1> QED
  BY <1>8, <1>9

(* The commit of a pop that found nothing valid: `out' holds no package.   *)
LEMMA EmptyCommitStep ==
  ASSUME FifoInv, up, ffile[in].open, siridb_fifo_has_data, disk[out].ents = {},
         FifoCommit(CanPopCommit), errors' \in 0 .. MaxErrors
  PROVE  FifoInv' /\ popped' = 0 /\ next' = next /\ Pending' = Pending
<1>1. out # in
  BY InFacts DEF siridb_fifo_has_data, InInv
<1>2. CASE DropOut
  <2>1. FifoInv' /\ popped' = 0 /\ next' = next /\ \A i, d : Has(i, d)' <=> Has(i, d) /\ i # out
    BY <1>1, <1>2, DropOutStep
  <2>2. \A i, d : Has(i, d)' <=> Has(i, d)
    BY <2>1 DEF Has
  <2> QED
    BY <2>1, <2>2, PendingSame
<1>3. CASE ~DropOut
  <2>1. CanPopCommit
    BY <1>1, <1>3 DEF FifoCommit
  <2>2. PICK word \in SizeWords(disk[out], SizeAfterPop) : PopCommit(word)
    BY <2>1 DEF FifoCommit
  <2>3. PICK m : m = SizeAfterPop
    OBVIOUS
  <2>4. out \in FileIds /\ disk[out] \in File /\ ffile[out] \in FFile
    BY InFacts
  <2>5. m \in Nat
    <3>1. ffile[out].size \in Nat /\ ffile[out].next_size \in Nat
      BY <2>4, FFileFacts
    <3> QED
      BY <2>1, <2>3, <3>1 DEF CanPopCommit, SizeAfterPop
  <2>6. word \in Nat
    <3>1. word \in Garbage \cup {0}
      <4>1. ~\E e \in disk[out].ents : End(e) = SizeAfterPop
        OBVIOUS
      <4> QED
        BY <2>2, <4>1 DEF SizeWords
    <3> QED
      BY <3>1, FifoAssumption
  <2>7. PICK g : g = Truncated(disk[out], m)
    OBVIOUS
  <2>8. g \in File /\ Tiled(g) /\ g.ents = {} /\ g.len = m
    BY <2>4, <2>5, <2>7, TruncatedEmpty
  <2>9. /\ disk' = [disk EXCEPT ![out] = g] /\ word # 0
        /\ ffile' = [ffile EXCEPT ![out].next_size = word, ![out].size = m]
        /\ popped' = 0 /\ UNCHANGED <<files, up, fifos, in, out, max_id, next>>
    BY <1>1, <1>3, <2>2, <2>3, <2>4, <2>7, InFacts DEF PopCommit
  <2>10. FifoInv' /\ \A i, d : Has(i, d)' <=> Has(i, d) /\ (i = out => d \in g.ents)
    BY <1>1, <2>5, <2>6, <2>8, <2>9, TruncateStep
  <2>11. \A i, d : Has(i, d)' <=> Has(i, d)
    BY <2>8, <2>10 DEF Has
  <2> QED
    BY <2>9, <2>10, <2>11, PendingSame
<1> QED
  BY <1>2, <1>3

(* The file cannot be truncated.                                           *)
LEMMA ErrorCommitStep ==
  ASSUME FifoInv, up, ffile[in].open, FifoCommit(FALSE), errors' \in 0 .. MaxErrors
  PROVE  /\ FifoInv' /\ popped' = 0 /\ next' = next
         /\ \E k \in Pending \cup {0} : Pending' = {n \in Pending : n > k}
<1>1. CASE out # in
  <2>1. DropOut
    BY <1>1 DEF FifoCommit
  <2>2. FifoInv' /\ popped' = 0 /\ next' = next /\ \A i, d : Has(i, d)' <=> Has(i, d) /\ i # out
    BY <1>1, <2>1, DropOutStep
  <2> QED
    BY <2>2, OutIsFront
<1>2. CASE out = in
  <2>1. Down /\ UNCHANGED <<files, disk, next>>
    BY <1>2 DEF FifoCommit
  <2>2. FifoInv' /\ Pending' = Pending /\ popped' = 0
    BY <2>1, StopStep
  <2>3. \A n \in Pending : n > 0
    <3> SUFFICES ASSUME NEW i, NEW d, Has(i, d) PROVE d.no > 0
      BY PendingIff
    <3>1. d.no \in 1 .. next - 1 /\ next \in Nat
      BY InFacts DEF DiskInv, Has
    <3> QED
      BY <3>1
  <2>4. Pending' = {n \in Pending : n > 0}
    BY <2>2, <2>3
  <2> QED
    BY <2>1, <2>2, <2>4
<1> QED
  BY <1>1, <1>2

(* The package being sent.                                                 *)
LEMMA PoppedFacts ==
  ASSUME FifoInv, popped # 0
  PROVE  up /\ ffile[in].open /\ \E e : OnTop(out, e) /\ e.no = popped
  BY DEF FifoInv, PoppedInv

(* After the truncation the package is gone for good.                      *)
LEMMA CrashInCommitStep ==
  ASSUME FifoInv, CrashInCommit
  PROVE  FifoInv' /\ popped # 0 /\ popped' = 0 /\ UNCHANGED <<next, errors>> /\ Pending' = Pending \ {popped}
<1>1. /\ up /\ popped # 0 /\ Down /\ UNCHANGED <<files, next, errors>>
      /\ disk' = [disk EXCEPT ![out] = Truncated(disk[out], SizeAfterPop)]
  <2>1. out \in FileIds /\ disk \in [FileIds -> File]
    BY DEF FifoInv, TypeOK
  <2> QED
    BY <2>1 DEF CrashInCommit
<1>2. PICK e : OnTop(out, e) /\ e.no = popped
  BY <1>1, PoppedFacts
<1>3. SizeAfterPop = e.at /\ e \in disk[out].ents /\ End(e) = disk[out].len
  BY <1>1, <1>2, CommitTop
<1>4. /\ out \in files /\ out \in FileIds /\ disk[out] \in File /\ Tiled(disk[out])
      /\ TypeOK /\ DiskInv /\ disk \in [FileIds -> File] /\ files \subseteq FileIds
  BY <1>1, InFacts DEF DiskInv
<1>5. PICK g : g = Truncated(disk[out], e.at)
  OBVIOUS
<1>6. g \in File /\ Tiled(g) /\ g.ents = disk[out].ents \ {e}
  BY <1>3, <1>4, <1>5, TruncatedFacts
<1>7. disk' = [disk EXCEPT ![out] = g]
  BY <1>1, <1>3, <1>5
<1>8. disk' \in [FileIds -> File] /\ disk'[out] = g /\ \A i \in FileIds : i # out => disk'[i] = disk[i]
  BY <1>4, <1>6, <1>7
<1>9. TypeOK' /\ (DiskInv' => FifoInv') /\ popped' = 0
  <2>1. next' \in Nat \ {0} /\ errors' \in 0 .. MaxErrors
    BY <1>1, <1>4 DEF TypeOK
  <2> QED
    BY <1>1, <1>4, <1>8, <2>1, DownKeeps
<1>10. \A i, d : Has(i, d)' <=> Has(i, d) /\ ~(i = out /\ d = e)
  BY <1>1, <1>4, <1>6, <1>8 DEF Has
<1>11. DiskInv'
  <2>1. \A i \in files' : Tiled(disk[i])'
    BY <1>1, <1>4, <1>6, <1>8 DEF DiskInv
  <2> QED
    BY <1>1, <1>4, <1>9, <1>10, <2>1, DiskKeeps
<1>12. Pending' = Pending \ {popped}
  <2>1. Has(out, e)
    BY <1>3, <1>4 DEF Has
  <2> QED
    BY <1>2, <1>10, <2>1, PendingCut
<1> QED
  BY <1>1, <1>9, <1>11, <1>12

(* A committed package is the oldest: the rest is what is above it.        *)
LEMMA CutIsFront ==
  ASSUME FifoInv, up, NEW e, OnTop(out, e), Pending' = Pending \ {e.no}
  PROVE  \E k \in Pending \cup {0} : Pending' = {n \in Pending : n > k}
<1>1. Has(out, e)
  BY InFacts DEF Has, OnTop
<1>2. \A n \in Pending : n \in Nat /\ e.no \in Nat /\ e.no <= n
  BY OldestOfAll, PendingIff
<1>3. e.no \in Pending
  BY <1>1, PendingIff
<1>4. Pending' = {n \in Pending : n > e.no}
  BY <1>2, <1>3
<1> QED
  BY <1>3, <1>4

(* The pending packages have positive numbers.                             *)
LEMMA NothingIsFront ==
  ASSUME FifoInv, up, Pending' = Pending
  PROVE  \E k \in Pending \cup {0} : Pending' = {n \in Pending : n > k}
<1>1. \A n \in Pending : n > 0
  <2> SUFFICES ASSUME NEW i, NEW d, Has(i, d) PROVE d.no > 0
    BY PendingIff
  <2>1. d.no \in 1 .. next - 1 /\ next \in Nat
    BY InFacts DEF DiskInv, Has
  <2> QED
    BY <2>1
<1>2. Pending' = {n \in Pending : n > 0}
  BY <1>1
<1> QED
  BY <1>2

(* What a disk error may cost.                                             *)
LEMMA IOErrorStep ==
  ASSUME FifoInv, up, ffile[in].open, siridb_fifo_has_data, IOError,
         FifoCommit(CanPopCommit) \/ FifoCommit(FALSE)
  PROVE  /\ FifoInv' /\ popped' = 0 /\ next' = next /\ errors' = errors + 1
         /\ \E k \in Pending \cup {0} : Pending' = {n \in Pending : n > k}
<1>1. errors' = errors + 1 /\ errors' \in 0 .. MaxErrors
  BY InFacts, FifoAssumption DEF IOError, TypeOK
<1>2. CASE FifoCommit(FALSE)
  BY <1>1, <1>2, ErrorCommitStep
<1>3. CASE FifoCommit(CanPopCommit) /\ disk[out].ents = {}
  <2>1. FifoInv' /\ popped' = 0 /\ next' = next /\ Pending' = Pending
    BY <1>1, <1>3, EmptyCommitStep
  <2> QED
    BY <1>1, <2>1, NothingIsFront
<1>4. CASE FifoCommit(CanPopCommit) /\ disk[out].ents # {}
  <2>1. PICK e \in disk[out].ents : OnTop(out, e)
    BY <1>4, InFacts DEF SizesInv
  <2>2. FifoInv' /\ popped' = 0 /\ next' = next /\ Pending' = Pending \ {e.no}
    BY <1>1, <1>4, <2>1, CommitStep
  <2> QED
    BY <1>1, <2>1, <2>2, CutIsFront
<1> QED
  BY <1>2, <1>3, <1>4

(* Backup mode changes nothing but the handles.                            *)
LEMMA CloseOpenStep ==
  ASSUME FifoInv, siridb_fifo_close \/ siridb_fifo_open
  PROVE  FifoInv' /\ Pending' = Pending /\ UNCHANGED <<popped, next, errors>>
<1>1. /\ up /\ popped = 0
      /\ UNCHANGED <<files, disk, up, fifos, in, out, max_id, popped, next, errors>>
      /\ \E b \in BOOLEAN : ffile' = [ffile EXCEPT ![in].open = b, ![out].open = b]
  <2>1. CASE siridb_fifo_close
    BY <2>1 DEF siridb_fifo_close
  <2>2. CASE siridb_fifo_open
    <3>1. popped = 0
      BY <2>2, PoppedFacts DEF siridb_fifo_open, siridb_fifo_is_open
    <3> QED
      BY <2>2, <3>1 DEF siridb_fifo_open
  <2> QED
    BY <2>1, <2>2
<1>2. PICK b \in BOOLEAN : ffile' = [ffile EXCEPT ![in].open = b, ![out].open = b]
  BY <1>1
<1>3. in \in FileIds /\ out \in FileIds /\ ffile \in [FileIds -> FFile]
  BY <1>1, InFacts
<1>4. /\ ffile' \in [FileIds -> FFile]
      /\ \A i \in FileIds : /\ ffile'[i].next_size = ffile[i].next_size
                            /\ ffile'[i].size = ffile[i].size
                            /\ ffile'[i].free_space = ffile[i].free_space
                            /\ i # in /\ i # out => ffile'[i].open = ffile[i].open
      /\ ffile'[in].open = b /\ ffile'[out].open = b
  <2> DEFINE r(i) == [ffile[i] EXCEPT !.open = b]
  <2>1. \A i \in FileIds : /\ r(i) \in FFile /\ r(i).next_size = ffile[i].next_size /\ r(i).size = ffile[i].size
                           /\ r(i).free_space = ffile[i].free_space /\ r(i).open = b
    <3> TAKE i \in FileIds
    <3>1. ffile[i] \in FFile
      BY <1>3
    <3>2. CASE b = TRUE
      BY <3>1, <3>2 DEF FFile
    <3>3. CASE b = FALSE
      BY <3>1, <3>3 DEF FFile
    <3> QED
      BY <3>2, <3>3
  <2>2. ffile' = [[ffile EXCEPT ![in] = r(in)] EXCEPT ![out] = r(out)]
    <3>1. CASE in = out
      BY <1>2, <1>3, <3>1 DEF FFile
    <3>2. CASE in # out
      BY <1>2, <1>3, <3>2 DEF FFile
    <3> QED
      BY <3>1, <3>2
  <2> HIDE DEF r
  <2>3. /\ ffile' \in [FileIds -> FFile] /\ ffile'[in] = r(in) /\ ffile'[out] = r(out)
        /\ \A i \in FileIds : i # in /\ i # out => ffile'[i] = ffile[i]
    BY <1>3, <2>1, <2>2
  <2> QED
    BY <1>3, <2>1, <2>3
<1>5. Pending' = Pending
  BY <1>1 DEF Pending
<1>6. TypeOK' /\ DiskInv' /\ ListInv'
  <2>1. TypeOK /\ DiskInv /\ ListInv
    BY <1>1, InFacts
  <2>2. TypeOK'
    BY <1>1, <1>4, <2>1 DEF TypeOK
  <2> QED
    BY <1>1, <2>1, <2>2 DEF DiskInv, ListInv
<1>7. HandlesOK'
  <2>1. HandlesOK
    BY <1>1, InFacts
  <2> QED
    BY <1>1, <1>4, <2>1 DEF HandlesOK
<1>8. SizesInv'
  <2>1. ASSUME NEW i \in files, NEW e, OnTop(i, e) PROVE OnTop(i, e)'
    <3>1. i \in FileIds
      BY <1>1, InFacts
    <3> QED
      BY <1>1, <1>4, <2>1, <3>1 DEF OnTop
  <2>2. files \subseteq FileIds /\ SizesInv
    BY <1>1, InFacts
  <2> QED
    BY <1>1, <1>4, <2>1, <2>2 DEF SizesInv
<1>9. InInv'
  <2>1. InInv
    BY <1>1, InFacts
  <2> QED
    BY <1>1, <1>3, <1>4, <2>1 DEF InInv
<1> QED
  BY <1>1, <1>5, <1>6, <1>7, <1>8, <1>9 DEF FifoInv

-----------------------------------------------------------------------------
(* The theorems.                                                           *)

(* The fifo of a new database.                                             *)
LEMMA FifoInit ==
  ASSUME Init
  PROVE  FifoInv /\ Pending = {}
<1>1. /\ files = {0} /\ disk = [i \in FileIds |-> EmptyFile] /\ up = TRUE /\ fifos = <<>>
      /\ in = 0 /\ out = 0 /\ max_id = 0 /\ popped = 0 /\ next = 1 /\ errors = 0
      /\ ffile = [i \in FileIds |-> IF i = 0 THEN NewFFile(FFILE_DEFAULT_SIZE) ELSE NoFFile]
  BY DEF Init
<1>2. /\ 0 \in FileIds /\ NoFFile \in FFile /\ NewFFile(FFILE_DEFAULT_SIZE) \in FFile
      /\ NewFFile(FFILE_DEFAULT_SIZE).next_size = 0
      /\ NewFFile(FFILE_DEFAULT_SIZE).free_space = FFILE_DEFAULT_SIZE
      /\ NewFFile(FFILE_DEFAULT_SIZE).size = FFILE_DEFAULT_SIZE
      /\ NewFFile(FFILE_DEFAULT_SIZE).open = TRUE
      /\ NoFFile.open = FALSE
  BY FifoAssumption DEF FileIds, NoFFile, NewFFile, FFile
<1>3. /\ disk \in [FileIds -> File] /\ ffile \in [FileIds -> FFile] /\ disk[0] = EmptyFile
      /\ ffile[0] = NewFFile(FFILE_DEFAULT_SIZE) /\ \A i \in FileIds : i # 0 => ffile[i] = NoFFile
  BY <1>1, <1>2, EmptyFileFacts
<1>4. TypeOK
  <2>1. fifos \in Seq(FileIds)
    BY <1>1
  <2> QED
    BY <1>1, <1>2, <1>3, <2>1, FifoAssumption DEF TypeOK
<1>5. DiskInv
  BY <1>1, <1>3, EmptyFileFacts DEF DiskInv
<1>6. ListInv /\ SizesInv /\ InInv /\ HandlesOK
  <2>1. ListInv
    BY <1>1 DEF ListInv
  <2>2. SizesInv
    BY <1>1, <1>3, EmptyFileFacts DEF SizesInv
  <2>3. InInv
    BY <1>1, <1>2, <1>3, EmptyFileFacts, FifoAssumption DEF InInv
  <2>4. HandlesOK
    BY <1>1, <1>2, <1>3 DEF HandlesOK
  <2> QED
    BY <2>1, <2>2, <2>3, <2>4
<1>7. Pending = {}
  BY <1>1, <1>3, EmptyFileFacts DEF Pending
<1> QED
  BY <1>1, <1>4, <1>5, <1>6, <1>7 DEF FifoInv

(* Every step keeps the invariant and is a step of the queue.              *)
LEMMA FifoStep ==
  ASSUME PkgsFit, FifoInv, [Next]_vars
  PROVE  FifoInv' /\ [Queue!QNext]_(Queue!qvars)
<1>1. CASE UNCHANGED vars
  <2>1. FifoInv'
    BY <1>1 DEF vars, FifoInv, TypeOK, DiskInv, Tiled, ListInv, SizesInv, OnTop, InInv, HandlesOK, PoppedInv
  <2>2. Pending' = Pending
    BY <1>1 DEF vars, Pending
  <2> QED
    BY <1>1, <2>1, <2>2 DEF vars, Queue!qvars
<1>2. CASE siridb_fifo_new
  <2>1. FifoInv' /\ Pending' = Pending /\ UNCHANGED <<popped, next, errors>>
    BY <1>2, LoadStep
  <2> QED
    BY <2>1 DEF Queue!qvars
<1>3. CASE Stop
  <2>1. Down /\ UNCHANGED <<files, disk, next>> /\ errors' = errors /\ errors' \in 0 .. MaxErrors
    BY <1>3 DEF Stop, FifoInv, TypeOK
  <2>2. FifoInv' /\ Pending' = Pending /\ popped' = 0
    BY <2>1, StopStep
  <2> QED
    BY <2>1, <2>2 DEF Queue!QNext, Queue!Forget
<1>4. ASSUME NEW size \in PkgSizes, siridb_fifo_append(size)
      PROVE  FifoInv' /\ [Queue!QNext]_(Queue!qvars)
  <2>1. up /\ siridb_fifo_is_open /\ next' = next + 1 /\ UNCHANGED <<up, popped, errors>>
    BY <1>4 DEF siridb_fifo_append
  <2>2. FifoInv' /\ Pending' = Pending \cup {next}
    <3>1. CASE Fits(size) /\ AppendHere(size)
      BY <2>1, <3>1, AppendHereStep
    <3>2. CASE ~Fits(size) /\ max_id < MaxFileId /\ AppendRoll(size)
      <4>1. CASE siridb_fifo_has_data
        BY <2>1, <3>2, <4>1, AppendRollData
      <4>2. CASE ~siridb_fifo_has_data
        BY <2>1, <3>2, <4>2, AppendRollEmpty
      <4> QED
        BY <4>1, <4>2
    <3> QED
      BY <1>4, <3>1, <3>2 DEF siridb_fifo_append
  <2> QED
    BY <2>1, <2>2 DEF Queue!QNext, Queue!Enqueue
<1>5. ASSUME NEW size \in PkgSizes, CrashInAppend(size)
      PROVE  FifoInv' /\ [Queue!QNext]_(Queue!qvars)
  <2>1. /\ FifoInv' /\ popped' = 0 /\ next' = next + 1 /\ errors' = errors
        /\ Pending' = Pending \/ Pending' = Pending \cup {next}
    BY <1>5, CrashInAppendStep
  <2> QED
    BY <2>1 DEF Queue!QNext, Queue!Enqueue, Queue!Refuse
<1>6. CASE siridb_fifo_pop
  <2>1. /\ FifoInv' /\ Pending' = Pending /\ popped = 0 /\ UNCHANGED <<next, errors>>
        /\ popped' \in Pending /\ \A m \in Pending : popped' <= m
    BY <1>6, PopStep
  <2> QED
    BY <2>1 DEF Queue!QNext, Queue!Fetch, Queue!IsOldest
<1>7. CASE PopFails
  <2>1. up /\ ffile[in].open /\ siridb_fifo_has_data /\ popped = 0
    BY <1>7 DEF PopFails, CanPop, siridb_fifo_is_open
  <2>2. CASE AtTheEnd = {} /\ FifoCommit(CanPopCommit) /\ UNCHANGED errors
    <3>1. disk[out].ents = {}
      BY <2>1, <2>2, InFacts DEF SizesInv, OnTop, AtTheEnd
    <3>2. errors' \in 0 .. MaxErrors
      BY <2>2 DEF FifoInv, TypeOK
    <3>3. FifoInv' /\ popped' = 0 /\ next' = next /\ Pending' = Pending
      BY <2>1, <2>2, <3>1, <3>2, EmptyCommitStep
    <3> QED
      BY <2>1, <2>2, <3>3 DEF Queue!qvars
  <2>3. CASE IOError /\ (FifoCommit(CanPopCommit) \/ FifoCommit(FALSE))
    <3>1. /\ FifoInv' /\ popped' = 0 /\ next' = next /\ errors' = errors + 1
          /\ \E k \in Pending \cup {0} : Pending' = {n \in Pending : n > k}
      BY <2>1, <2>3, IOErrorStep
    <3> QED
      BY <3>1 DEF Queue!QNext, Queue!Lose
  <2> QED
    BY <1>7, <2>2, <2>3 DEF PopFails
<1>8. CASE siridb_fifo_commit
  <2>1. popped # 0 /\ up
    BY <1>8 DEF siridb_fifo_commit
  <2>2. PICK e : OnTop(out, e) /\ e.no = popped /\ ffile[in].open
    BY <2>1, PoppedFacts
  <2>3. siridb_fifo_has_data
    BY <2>1, <2>2, InFacts, NonEmptyHasSize DEF OnTop, siridb_fifo_has_data
  <2>4. CASE FifoCommit(CanPopCommit) /\ UNCHANGED errors
    <3>1. errors' \in 0 .. MaxErrors
      BY <2>4 DEF FifoInv, TypeOK
    <3>2. FifoInv' /\ popped' = 0 /\ next' = next /\ Pending' = Pending \ {popped}
      BY <2>1, <2>2, <2>4, <3>1, CommitStep
    <3> QED
      BY <2>1, <2>4, <3>2 DEF Queue!QNext, Queue!Acknowledge
  <2>5. CASE IOError /\ FifoCommit(FALSE)
    <3>1. /\ FifoInv' /\ popped' = 0 /\ next' = next /\ errors' = errors + 1
          /\ \E k \in Pending \cup {0} : Pending' = {n \in Pending : n > k}
      BY <2>1, <2>2, <2>3, <2>5, IOErrorStep
    <3> QED
      BY <3>1 DEF Queue!QNext, Queue!Lose
  <2> QED
    BY <1>8, <2>4, <2>5 DEF siridb_fifo_commit
<1>9. CASE CrashInCommit
  <2>1. FifoInv' /\ popped # 0 /\ popped' = 0 /\ UNCHANGED <<next, errors>> /\ Pending' = Pending \ {popped}
    BY <1>9, CrashInCommitStep
  <2> QED
    BY <2>1 DEF Queue!QNext, Queue!Acknowledge
<1>10. CASE siridb_fifo_close \/ siridb_fifo_open
  <2>1. FifoInv' /\ Pending' = Pending /\ UNCHANGED <<popped, next, errors>>
    BY <1>10, CloseOpenStep
  <2> QED
    BY <2>1 DEF Queue!qvars
<1> QED
  BY <1>1, <1>2, <1>3, <1>4, <1>5, <1>6, <1>7, <1>8, <1>9, <1>10 DEF Next

(* The invariant holds in every state.                                     *)
LEMMA FifoInvHolds ==
  ASSUME PkgsFit
  PROVE  Spec => []FifoInv
<1>1. Init => FifoInv
  BY FifoInit
<1>2. FifoInv /\ [Next]_vars => FifoInv'
  BY FifoStep
<1> QED
  BY <1>1, <1>2, PTL DEF Spec

(* The files, the list of files in memory and the handles agree in every   *)
(* state of siridb_fifo, whatever the sizes of files and packages, the     *)
(* number of files, the moment of a crash and what a torn write leaves.    *)
THEOREM FilesOKHolds ==
  ASSUME PkgsFit
  PROVE  Spec => []FilesOK
<1>1. FifoInv => FilesOK
  <2> SUFFICES ASSUME FifoInv PROVE FilesOK
    OBVIOUS
  <2>1. TypeOK /\ HandlesOK
    BY DEF FifoInv, HandlesOK
  <2>2. GuardWord
    BY DEF FifoInv, DiskInv, Tiled, GuardWord
  <2>3. ListOK
    <3>1. CASE up
      BY <3>1, ListInvOK DEF FifoInv
    <3>2. CASE ~up
      BY <3>2 DEF ListOK
    <3> QED
      BY <3>1, <3>2
  <2> QED
    BY <2>1, <2>2, <2>3 DEF FilesOK
<1> QED
  BY <1>1, FifoInvHolds, PTL

(* siridb_fifo_has_data says that the fifo is empty only when no file has  *)
(* a package left.                                                         *)
THEOREM NothingStrandedHolds ==
  ASSUME PkgsFit
  PROVE  Spec => []NothingStranded
<1>1. FifoInv => NothingStranded
  <2> SUFFICES ASSUME FifoInv, up, ~siridb_fifo_has_data PROVE Pending = {}
    BY DEF NothingStranded
  <2>1. out = in
    BY InFacts DEF SizesInv, siridb_fifo_has_data
  <2>2. disk[out].ents = {}
    BY NonEmptyHasSize, InFacts DEF siridb_fifo_has_data
  <2>3. files = {out}
    BY <2>1, InFacts, ListFacts
  <2> QED
    BY <2>2, <2>3 DEF Pending
<1> QED
  BY <1>1, FifoInvHolds, PTL

(* The files of the fifo implement the queue of ReplQueue: packages leave  *)
(* in the order in which they were appended, none is lost or skipped by a  *)
(* crash, a restart, a change of file or backup mode, and a disk error     *)
(* costs nothing but the front of the queue.                               *)
THEOREM IsQueueHolds ==
  ASSUME PkgsFit
  PROVE  Spec => IsQueue
<1>1. Init => Queue!QInit
  BY FifoInit DEF Init, Queue!QInit
<1>2. FifoInv /\ [Next]_vars => [Queue!QNext]_(Queue!qvars)
  BY FifoStep
<1> QED
  BY <1>1, <1>2, FifoInvHolds, PTL DEF Spec, IsQueue, Queue!QSpec
=============================================================================
