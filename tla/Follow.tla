------------------------------- MODULE Follow -------------------------------
(***************************************************************************)
(* `hblog logs --follow`: another process asks the events table once a     *)
(* second for the rows from a timestamp on, prints at most Limit of them   *)
(* in the order of their timestamps, and moves the timestamp just past the *)
(* last one printed.  Meanwhile the daemon commits batches, whose rows     *)
(* need not be younger than those before: the unit monitor stamps its      *)
(* events with the time of the poll, entries of the journal wait in the    *)
(* queue, and after a restart a backlog is read.                           *)
(***************************************************************************)
EXTENDS Naturals, Sequences, FiniteSets, SequencesExt

CONSTANTS
    MaxTime,  \* bound: timestamps
    MaxRows,  \* bound: rows stored
    MaxBatch, \* Config.batch_size
    Limit     \* the 500 rows of a query

ASSUME FollowAssumption ==
    /\ MaxTime \in Nat /\ MaxRows \in Nat
    /\ MaxBatch \in Nat \ {0} /\ Limit \in Nat \ {0}

VARIABLES
    rows,      \* the events table: the timestamp of each row
    seenSince, \* seen_since
    start,     \* its first value: --since, or a minute ago
    printed    \* the rows printed, in order

vars == <<rows, seenSince, start, printed>>

Times == 0..MaxTime

Init ==
    /\ rows \in UNION {[1..n -> Times] : n \in 0..1}
    /\ start \in Times
    /\ seenSince = start
    /\ printed = <<>>

\* The daemon commits a batch.
Commit ==
    /\ \E n \in 1..MaxBatch :
          /\ Len(rows) + n <= MaxRows
          /\ \E batch \in [1..n -> Times] : rows' = rows \o batch
    /\ UNCHANGED <<seenSince, start, printed>>

\* query_events, ascending from since: ties come in the order of insertion.
Matching(since) == {i \in DOMAIN rows : rows[i] >= since}

\* Wrong variant of AtMostLimit: the newest.
NewestLimit(s) ==
    IF Len(s) <= Limit THEN s ELSE SubSeq(s, Len(s) - Limit + 1, Len(s))

AtMostLimit(s) == IF Len(s) <= Limit THEN s ELSE SubSeq(s, 1, Limit)

\* How many of some rows come before row i.
Rank(i, some) ==
    Cardinality({j \in some : \/ rows[j] < rows[i]
                              \/ rows[j] = rows[i] /\ j < i})

Sorted(some) ==
    [n \in 1..Cardinality(some) |-> CHOOSE i \in some : Rank(i, some) = n - 1]

Answer(since) == AtMostLimit(Sorted(Matching(since)))

\* Wrong variant of JustPast: the same timestamp again.
From(i) == rows[i]

\* Timestamps a microsecond apart are successive here.
JustPast(i) == rows[i] + 1

\* One round of the loop.
Follow ==
    LET answer == Answer(seenSince)
    IN  /\ answer # <<>>
        /\ printed' = printed \o answer
        /\ seenSince' = JustPast(Last(answer))
        /\ UNCHANGED <<rows, start>>

Next == Commit \/ Follow

Spec == Init /\ [][Next]_vars

\* The loop goes on until it is interrupted.
FairSpec == Spec /\ WF_vars(Follow)

----------------------------------------------------------------------------
(* Properties. *)

\* No row is printed twice and none out of the order of timestamps, however
\* commits fall between the queries.
PrintedOnceInOrder ==
    \A i, j \in DOMAIN printed :
        i < j => /\ printed[i] # printed[j]
                 /\ rows[printed[i]] <= rows[printed[j]]

\* Rows arrive in the order of distinct timestamps.
Ordered(s) == \A i, j \in DOMAIN s : i < j => s[i] < s[j]

\* Every row that is not older than the start is printed, of a backlog longer
\* than the limit too, as long as rows arrive in order.
OrderedRowsShown ==
    \A i \in 1..MaxRows :
        i \in DOMAIN rows /\ rows[i] >= start
            ~> i \in Range(printed) \/ ~Ordered(rows)
============================================================================
