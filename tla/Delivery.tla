------------------------------ MODULE Delivery ------------------------------
(***************************************************************************)
(* What the collector promises of the journal: a log that resumes.  Of the *)
(* watched entries each run of the daemon stores an increasing sequence    *)
(* without a gap that starts just after the mark, which is what survives   *)
(* the process; entries it passed over are named.  Threads, queue, buffer  *)
(* and transactions do not appear.  The name 0 stands for events that are  *)
(* no journal entries.                                                     *)
(***************************************************************************)
EXTENDS Naturals, Sequences, SequencesExt

CONSTANT Watched

VARIABLES
    journal,  \* the unit of each entry
    passed,   \* entries the daemon may never store
    rows,     \* the stored events
    mark,     \* where the next start resumes
    pos       \* how far this start has stored

vars == <<journal, passed, rows, mark, pos>>

Wanted(i) == i \in 1..Len(journal) /\ journal[i] \in Watched
From(s, i) == SubSeq(s, i, Len(s))

Init == journal = <<>> /\ passed = {} /\ rows = <<>> /\ mark = 0 /\ pos = 0

\* The journal grows, or entries go out of reach.
Write ==
    /\ Front(journal') = journal
    /\ UNCHANGED <<passed, rows, mark, pos>>

Pass ==
    /\ passed \subseteq passed'
    /\ UNCHANGED <<journal, rows, mark, pos>>

\* The entries of batch are those wanted after pos up to pos', in order.
Continues(batch) ==
    /\ \A i, j \in DOMAIN batch :
          i < j /\ batch[i] # 0 /\ batch[j] # 0 => batch[i] < batch[j]
    /\ \A i \in DOMAIN batch : batch[i] # 0 => batch[i] \in pos + 1 .. pos'
    /\ \A e \in pos + 1 .. pos' :
          Wanted(e) => e \in Range(batch) \cup passed

\* A batch is stored, after what a failed attempt has left of it.
Store ==
    /\ IsPrefix(rows, rows')
    /\ \E n \in Len(rows) + 1 .. Len(rows') :
          LET batch == From(rows', n)
          IN  /\ IsPrefix(SubSeq(rows', Len(rows) + 1, n - 1), batch)
              /\ Continues(batch)
    /\ pos' >= pos
    /\ mark' \in {mark, pos'}
    /\ UNCHANGED <<journal, passed>>

\* The mark follows.
Advance ==
    /\ mark' = pos
    /\ UNCHANGED <<journal, passed, rows, pos>>

\* The process ends, or gives a batch up: the next one starts at the mark.
Forget ==
    /\ pos' = mark
    /\ UNCHANGED <<journal, passed, rows, mark>>

\* Power loss brings an older state back, with a mark that fits its rows.
PowerLoss ==
    /\ IsPrefix(rows', rows)
    /\ mark' <= mark
    /\ \A e \in 1..mark' : Wanted(e) => e \in Range(rows') \cup passed
    /\ pos' = mark'
    /\ UNCHANGED <<journal, passed>>

Next == Write \/ Pass \/ Store \/ Advance \/ Forget \/ PowerLoss
Spec == Init /\ [][Next]_vars
============================================================================
