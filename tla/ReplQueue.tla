----------------------------- MODULE ReplQueue -----------------------------
(***************************************************************************)
(* What the replication fifo of a server promises to the replication task: *)
(* a first-in first-out queue of packages that survives a crash.  Packages *)
(* are numbered in the order in which they are offered, so the queue is    *)
(* the set of numbers that are still waiting and its head is the smallest. *)
(*                                                                         *)
(* A package may be fetched more than once (it stays queued until it is    *)
(* acknowledged), it is never skipped, and nothing but the front of the    *)
(* queue is ever given up, and that only in a step in which the disk fails. *)
(***************************************************************************)
EXTENDS Integers

VARIABLES
    pending,            \* numbers of the packages waiting in the queue
    head,               \* the package that is being sent, 0 when none is
    next,               \* the number the next package gets
    errors              \* disk errors so far

qvars == <<pending, head, next, errors>>

IsOldest(n) == n \in pending /\ \A m \in pending : n <= m

QInit == pending = {} /\ head = 0 /\ next = 1 /\ errors = 0

(* A package is queued; the server may stop at that moment (head' = 0).    *)
Enqueue ==
    /\ next' = next + 1
    /\ pending' = pending \cup {next}
    /\ head' \in {head, 0}
    /\ UNCHANGED errors

(* The server stops before the offered package has reached the disk.       *)
Refuse ==
    /\ next' = next + 1
    /\ head' = 0
    /\ UNCHANGED <<pending, errors>>

Fetch ==
    /\ head = 0
    /\ \E n \in pending : IsOldest(n) /\ head' = n
    /\ UNCHANGED <<pending, next, errors>>

Acknowledge ==
    /\ head # 0
    /\ pending' = pending \ {head}
    /\ head' = 0
    /\ UNCHANGED <<next, errors>>

(* The process stops or crashes: the fetched package is still queued.      *)
Forget ==
    /\ head' = 0
    /\ UNCHANGED <<pending, next, errors>>

(* A disk error costs the oldest packages, up to some k, or none.          *)
Lose ==
    /\ errors' = errors + 1
    /\ \E k \in pending \cup {0} : pending' = {n \in pending : n > k}
    /\ head' = 0
    /\ UNCHANGED next

QNext == Enqueue \/ Refuse \/ Fetch \/ Acknowledge \/ Forget \/ Lose

QSpec == QInit /\ [][QNext]_qvars
=============================================================================
