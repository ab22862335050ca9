-------------------------------- MODULE Fifo --------------------------------
(***************************************************************************)
(* The replication fifo of src/siri/db/fifo.c and src/siri/db/ffile.c: a   *)
(* directory of numbered files that holds the packages a server still has  *)
(* to send to its replica.                                                 *)
(*                                                                         *)
(* A file is filled BACKWARDS.  A package is written below the previous    *)
(* one and is followed by a word with its size, so the last word of a file *)
(* is the size of its oldest package and a pop only truncates the file.    *)
(* The unwritten bytes below the data read as zero; at least one such word *)
(* stays at the start of a file and ends the chain of sizes.               *)
(*                                                                         *)
(*   offset 0      low                               len                   *)
(*      | zeros .... | pkg 3 | size | pkg 2 | size | (popped: truncated)   *)
(*                                                                         *)
(* The contents of a package are abstracted to its number `no' (the order  *)
(* of arrival) and its size in bytes.                                      *)
(***************************************************************************)
EXTENDS Integers, Sequences, FiniteSets

CONSTANTS
    FFILE_DEFAULT_SIZE,   \* room in a new file, in bytes
    PkgSizes,             \* sizes of packages, header included
    Garbage,              \* what a torn write may leave where a size is read
    MaxFileId,            \* bound: highest number of a file
    MaxPkgs,              \* bound: packages offered in a behaviour
    MaxErrors             \* bound: times that reading or truncating fails

WORD == 4                 \* sizeof(uint32_t)

ASSUME FifoAssumption ==
    /\ FFILE_DEFAULT_SIZE \in Nat /\ FFILE_DEFAULT_SIZE >= WORD
    /\ PkgSizes \subseteq Nat \ {0}
    /\ Garbage \subseteq Nat \ {0}
    /\ MaxFileId \in Nat
    /\ MaxPkgs \in Nat
    /\ MaxErrors \in Nat

VARIABLES
    files,    \* the files in the directory
    disk,     \* what each of them contains
    up,       \* is the process running, with the fifo loaded?
    ffile,    \* the siridb_ffile_t objects in memory
    fifos,    \* fifo->fifos: the files waiting behind `out'
    in,       \* fifo->in: the file that is written
    out,      \* fifo->out: the file that is read
    max_id,   \* fifo->max_id
    popped,   \* the package popped and not committed yet, 0 when none
    next,     \* number of the next package
    errors    \* errors of the disk so far

dvars == <<files, disk>>
mvars == <<ffile, fifos, in, out, max_id>>
vars == <<files, disk, up, ffile, fifos, in, out, max_id, popped, next,
          errors>>

FileIds == 0 .. MaxFileId

Entry == [at : Nat, size : PkgSizes, no : Nat]
File == [low : Nat, len : Nat, ents : SUBSET Entry]
FFile == [next_size : Nat, size : Nat, free_space : Nat, open : BOOLEAN]

EmptyFile == [low |-> 0, len |-> 0, ents |-> {}]
NoFFile == [next_size |-> 0, size |-> 0, free_space |-> 0, open |-> FALSE]

-----------------------------------------------------------------------------
(* Files.                                                                  *)

\* First offset after a package and its size word.
End(e) == e.at + e.size + WORD

(* The values the word that ends at offset `end' can have: the size of the *)
(* package stored there, whatever a torn write left, or zero.              *)
SizeWords(f, end) ==
    IF \E e \in f.ents : End(e) = end
      THEN {e.size : e \in {x \in f.ents : End(x) = end}}
      ELSE IF end > f.low THEN Garbage \cup {0} ELSE {0}

LastWords(f) == IF f.len < WORD THEN {0} ELSE SizeWords(f, f.len)

Written(f, at, size, no) ==
    [low  |-> at,
     len  |-> IF f.len < at + size + WORD THEN at + size + WORD ELSE f.len,
     ents |-> f.ents \cup {[at |-> at, size |-> size, no |-> no]}]

(* Only the package and not its size word reached the file.  Where the     *)
(* file already extends past the size word, that word still reads as zero  *)
(* and the package is as good as not written.                              *)
Torn(f, at, size) ==
    IF f.len < at + size
      THEN [low |-> at, len |-> at + size, ents |-> f.ents]
      ELSE f

Truncated(f, n) ==
    [low  |-> IF f.low < n THEN f.low ELSE n,
     len  |-> n,
     ents |-> {e \in f.ents : End(e) <= n}]

\* Every package in the directory.
Pending == UNION {{e.no : e \in disk[i].ents} : i \in files}

-----------------------------------------------------------------------------
(* The macros of fifo.h.                                                   *)

siridb_fifo_has_data == ffile[out].next_size # 0
siridb_fifo_is_open == ffile[in].open

Fits(size) == ffile[in].free_space >= size + 2 * WORD

-----------------------------------------------------------------------------
(* Start and stop.                                                         *)

(* The process is gone; only the directory is left.                        *)
Down ==
    /\ up' = FALSE
    /\ ffile' = [i \in FileIds |-> NoFFile]
    /\ fifos' = <<>>
    /\ in' = 0
    /\ out' = 0
    /\ max_id' = 0
    /\ popped' = 0

\* Mutant: the directory is read in any order.
IsListing_Unsorted(s, S) == \A i \in S : \E k \in DOMAIN s : s[k] = i

\* scandir(..., alphasort): the files of S in ascending order.
IsListing(s, S) ==
    /\ \A i \in S : \E k \in DOMAIN s : s[k] = i
    /\ \A j, k \in DOMAIN s : j < k => s[j] < s[k]

NewFFile(size) ==
    [next_size |-> 0, size |-> size, free_space |-> size, open |-> TRUE]

(* siridb_fifo_new: files that end in a zero word are removed, the others  *)
(* are listed in order of their number and are never written again, and a  *)
(* new file is made behind them.                                           *)
Load(keep, word, s, new) ==
    /\ files' = keep \cup {new}
    /\ disk' = [i \in FileIds |-> IF i \in keep THEN disk[i] ELSE EmptyFile]
    /\ max_id' = new
    /\ in' = new
    /\ out' = Append(s, new)[1]
    /\ fifos' = Tail(Append(s, new))
    /\ ffile' = [i \in FileIds |->
                   IF i = new THEN NewFFile(FFILE_DEFAULT_SIZE)
                   ELSE IF i \in keep
                     THEN [next_size |-> word[i], size |-> disk[i].len,
                           free_space |-> 0, open |-> i = out']
                     ELSE NoFFile]
    /\ up' = TRUE
    /\ UNCHANGED <<popped, next, errors>>

siridb_fifo_new ==
    /\ ~up
    /\ \E word \in [files -> {0} \cup PkgSizes \cup Garbage] :
         /\ \A i \in files : word[i] \in LastWords(disk[i])
         /\ LET keep == {i \in files : word[i] # 0}
            IN \E s \in [1 .. Cardinality(keep) -> keep] :
                 /\ IsListing(s, keep)
                 /\ \E new \in FileIds :
                      /\ new = IF keep = {} THEN 0 ELSE s[Len(s)] + 1
                      /\ Load(keep, word, s, new)

(* The process stops between two operations, orderly or not.               *)
Stop ==
    /\ up
    /\ Down
    /\ UNCHANGED <<files, disk, next, errors>>

-----------------------------------------------------------------------------
(* siridb_fifo_append.                                                     *)

\* Mutant: next_size becomes the size of the newest package.
AppendHere_Newest(size) ==
    LET at == ffile[in].free_space - (size + WORD)
    IN  /\ disk' = [disk EXCEPT ![in] = Written(@, at, size, next)]
        /\ ffile' = [ffile EXCEPT ![in].free_space = at,
                                  ![in].next_size = size]
        /\ UNCHANGED <<files, fifos, in, out, max_id>>

AppendHere(size) ==
    LET at == ffile[in].free_space - (size + WORD)
    IN  /\ disk' = [disk EXCEPT ![in] = Written(@, at, size, next)]
        /\ ffile' = [ffile EXCEPT
                       ![in].free_space = at,
                       ![in].next_size = IF @ = 0 THEN size ELSE @]
        /\ UNCHANGED <<files, fifos, in, out, max_id>>

\* siridb_ffile_new makes the file large enough for the package.
NewSize(size) ==
    IF size + 2 * WORD > FFILE_DEFAULT_SIZE
      THEN size + 2 * WORD ELSE FFILE_DEFAULT_SIZE

NewFFileWith(size) ==
    [next_size |-> size, size |-> NewSize(size),
     free_space |-> NewSize(size) - (size + WORD), open |-> TRUE]

NewFileWith(size) ==
    Written(EmptyFile, NewSize(size) - (size + WORD), size, next)

(* The file is full: it takes no package any more, the next one becomes    *)
(* `in'.  An `out' with nothing in it is removed, otherwise the new file   *)
(* queues behind it.                                                       *)
AppendRoll(size) ==
    LET new == max_id + 1
    IN  /\ max_id' = new
        /\ in' = new
        /\ IF siridb_fifo_has_data
             THEN /\ files' = files \cup {new}
                  /\ disk' = [disk EXCEPT ![new] = NewFileWith(size)]
                  /\ ffile' = [ffile EXCEPT
                                 ![in].free_space = 0,
                                 ![in].open = (in = out),
                                 ![new] = NewFFileWith(size)]
                  /\ fifos' = Append(fifos, new)
                  /\ UNCHANGED out
             ELSE /\ files' = (files \ {out}) \cup {new}
                  /\ disk' = [disk EXCEPT ![out] = EmptyFile,
                                          ![new] = NewFileWith(size)]
                  /\ ffile' = [ffile EXCEPT
                                 ![in].free_space = 0,
                                 ![in].open = FALSE,
                                 ![out] = NoFFile,
                                 ![new] = NewFFileWith(size)]
                  /\ out' = new
                  /\ UNCHANGED fifos

siridb_fifo_append(size) ==
    /\ up
    /\ siridb_fifo_is_open
    /\ next <= MaxPkgs
    /\ next' = next + 1
    /\ \/ Fits(size) /\ AppendHere(size)
       \/ ~Fits(size) /\ max_id < MaxFileId /\ AppendRoll(size)
    /\ UNCHANGED <<up, popped, errors>>

(* The process stops inside siridb_fifo_append, or a write fails (which    *)
(* sets siri_err and stops the server): the package is on disk, not on     *)
(* disk, or without its size word, and a full file that is to be removed   *)
(* is still there.                                                         *)
CrashInAppend(size) ==
    /\ up
    /\ siridb_fifo_is_open
    /\ next <= MaxPkgs
    /\ next' = next + 1
    /\ \/ /\ Fits(size)
          /\ LET at == ffile[in].free_space - (size + WORD)
             IN \E f \in {disk[in], Torn(disk[in], at, size),
                          Written(disk[in], at, size, next)} :
                  disk' = [disk EXCEPT ![in] = f]
          /\ UNCHANGED files
       \/ /\ ~Fits(size)
          /\ max_id < MaxFileId
          /\ files' = files \cup {max_id + 1}
          /\ LET at == NewSize(size) - (size + WORD)
             IN \E f \in {EmptyFile, Torn(EmptyFile, at, size),
                          NewFileWith(size)} :
                  disk' = [disk EXCEPT ![max_id + 1] = f]
    /\ Down
    /\ UNCHANGED errors

-----------------------------------------------------------------------------
(* siridb_fifo_commit.                                                     *)

\* siridb_ffile_pop_commit: the size of the file without the last package.
SizeAfterPop == ffile[out].size - (ffile[out].next_size + WORD)

CanPopCommit == SizeAfterPop >= WORD /\ SizeAfterPop <= disk[out].len

\* `out' is removed and the next file of the list takes its place.
DropOut ==
    /\ files' = files \ {out}
    /\ disk' = [disk EXCEPT ![out] = EmptyFile]
    /\ ffile' = [ffile EXCEPT ![out] = NoFFile, ![Head(fifos)].open = TRUE]
    /\ out' = Head(fifos)
    /\ fifos' = Tail(fifos)
    /\ popped' = 0
    /\ UNCHANGED <<up, in, max_id, next>>

\* Mutant: an emptied file is kept.
PopCommit_Keeps(word) ==
    /\ disk' = [disk EXCEPT ![out] = Truncated(@, SizeAfterPop)]
    /\ ffile' = [ffile EXCEPT ![out].next_size = word,
                              ![out].size = SizeAfterPop]
    /\ popped' = 0
    /\ UNCHANGED <<files, up, fifos, in, out, max_id, next>>

PopCommit(word) ==
    IF word = 0 /\ out # in
      THEN DropOut
      ELSE /\ disk' = [disk EXCEPT ![out] = Truncated(@, SizeAfterPop)]
           /\ ffile' = [ffile EXCEPT ![out].next_size = word,
                                     ![out].size = SizeAfterPop]
           /\ popped' = 0
           /\ UNCHANGED <<files, up, fifos, in, out, max_id, next>>

(* siridb_fifo_commit.  When the file cannot be truncated, a file that is  *)
(* no longer written is removed with all it holds; for the file that is    *)
(* still written the error is fatal (ERR_FILE stops the server).           *)
FifoCommit(ok) ==
    \/ /\ ok
       /\ \E word \in SizeWords(disk[out], SizeAfterPop) : PopCommit(word)
    \/ /\ ~ok
       /\ out # in
       /\ DropOut
    \/ /\ ~ok
       /\ out = in
       /\ Down
       /\ UNCHANGED <<files, disk, next>>

IOError == errors < MaxErrors /\ errors' = errors + 1

siridb_fifo_commit ==
    /\ up
    /\ popped # 0
    /\ \/ FifoCommit(CanPopCommit) /\ UNCHANGED errors
       \/ IOError /\ FifoCommit(FALSE)

(* The process stops after the truncation, before an emptied file that has *)
(* to be removed is unlinked.                                              *)
CrashInCommit ==
    /\ up
    /\ popped # 0
    /\ CanPopCommit
    /\ disk' = [disk EXCEPT ![out] = Truncated(@, SizeAfterPop)]
    /\ Down
    /\ UNCHANGED <<files, next, errors>>

-----------------------------------------------------------------------------
(* siridb_fifo_pop.                                                        *)

\* The packages that lie where siridb_ffile_pop reads.
AtTheEnd ==
    {e \in disk[out].ents : /\ e.size = ffile[out].next_size
                            /\ End(e) = disk[out].len}

(* The caller checks siridb_fifo_has_data and sends one package at a time. *)
CanPop == up /\ siridb_fifo_is_open /\ siridb_fifo_has_data /\ popped = 0

siridb_fifo_pop ==
    /\ CanPop
    /\ \E e \in AtTheEnd : popped' = e.no
    /\ UNCHANGED <<files, disk, up, ffile, fifos, in, out, max_id, next,
                   errors>>

(* Nothing valid can be read there, or the read fails: the pop is          *)
(* committed all the same.                                                 *)
PopFails ==
    /\ CanPop
    /\ \/ /\ AtTheEnd = {}
          /\ FifoCommit(CanPopCommit)
          /\ UNCHANGED errors
       \/ /\ IOError
          /\ FifoCommit(CanPopCommit) \/ FifoCommit(FALSE)

-----------------------------------------------------------------------------
(* Backup mode closes the files, but only when no package is being sent.   *)

siridb_fifo_close ==
    /\ up
    /\ siridb_fifo_is_open
    /\ popped = 0
    /\ ffile' = [ffile EXCEPT ![in].open = FALSE, ![out].open = FALSE]
    /\ UNCHANGED <<files, disk, up, fifos, in, out, max_id, popped, next,
                   errors>>

siridb_fifo_open ==
    /\ up
    /\ ~siridb_fifo_is_open
    /\ ffile' = [ffile EXCEPT ![in].open = TRUE, ![out].open = TRUE]
    /\ UNCHANGED <<files, disk, up, fifos, in, out, max_id, popped, next,
                   errors>>

-----------------------------------------------------------------------------

Init ==
    /\ files = {0}
    /\ disk = [i \in FileIds |-> EmptyFile]
    /\ up = TRUE
    /\ ffile = [i \in FileIds |->
                  IF i = 0 THEN NewFFile(FFILE_DEFAULT_SIZE) ELSE NoFFile]
    /\ fifos = <<>>
    /\ in = 0
    /\ out = 0
    /\ max_id = 0
    /\ popped = 0
    /\ next = 1
    /\ errors = 0

Next ==
    \/ siridb_fifo_new
    \/ Stop
    \/ \E size \in PkgSizes : siridb_fifo_append(size)
    \/ \E size \in PkgSizes : CrashInAppend(size)
    \/ siridb_fifo_pop
    \/ PopFails
    \/ siridb_fifo_commit
    \/ CrashInCommit
    \/ siridb_fifo_close
    \/ siridb_fifo_open

Spec == Init /\ [][Next]_vars

-----------------------------------------------------------------------------
(* Properties.                                                             *)

(* The type of every variable.                                             *)
TypeOK ==
    /\ files \subseteq FileIds
    /\ disk \in [FileIds -> File]
    /\ up \in BOOLEAN
    /\ ffile \in [FileIds -> FFile]
    /\ fifos \in Seq(FileIds)
    /\ in \in FileIds
    /\ out \in FileIds
    /\ max_id \in FileIds
    /\ popped \in Nat
    /\ next \in Nat \ {0}
    /\ errors \in 0 .. MaxErrors

(* siridb_fifo_has_data says "empty" only when nothing is waiting in any   *)
(* file: a package behind an exhausted `out' would never be sent.          *)
NothingStranded ==
    up /\ ~siridb_fifo_has_data => Pending = {}

(* siridb_ffile_append leaves a zero word at the start of every file, so   *)
(* that the last pop_commit of a file finds the end of the chain and never *)
(* seeks before the start.                                                 *)
GuardWord ==
    \A i \in files : \A e \in disk[i].ents : e.at >= WORD

(* The file handles: `in' and `out' are open together, so the assertions   *)
(* on fp in ffile.c hold, and no file in the list keeps a handle.          *)
HandlesOK ==
    up => /\ ffile[out].open = ffile[in].open
          /\ \A i \in FileIds \ {in, out} : ~ffile[i].open

(* The comment in siridb_fifo_free: `in' is either in the list or the same *)
(* as `out', and `out' is never in the list.  The list is in the order of  *)
(* the file numbers, and it names exactly the files in the directory.      *)
ListOK ==
    up => LET all == <<out>> \o fifos
          IN  /\ in = all[Len(all)]
              /\ max_id = in
              /\ \A j, k \in DOMAIN all : j < k => all[j] < all[k]
              /\ files = {all[k] : k \in DOMAIN all}

(* The files, the list of them and the handles agree in every state, so    *)
(* that the assertions of fifo.c and ffile.c hold, and a crash or a stop at*)
(* any moment leaves a directory from which siridb_fifo_new makes the same *)
(* list.                                                                   *)
FilesOK == TypeOK /\ GuardWord /\ HandlesOK /\ ListOK

-----------------------------------------------------------------------------
(* What the fifo promises.                                                 *)

Queue == INSTANCE ReplQueue WITH pending <- Pending, head <- popped

(* The fifo is the crash-safe queue of ReplQueue: packages leave in the    *)
(* order in which they were appended, over file changes, crashes, restarts *)
(* and backup mode, and a disk error costs at most the oldest ones.        *)
IsQueue == Queue!QSpec
=============================================================================
