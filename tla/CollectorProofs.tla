-------------------------- MODULE CollectorProofs --------------------------
(***************************************************************************)
(* What holds of the collector for any number of units, entries and        *)
(* disturbances and any sizes of batch and queue: the types of its         *)
(* variables; that the persisted cursor never claims an entry that is not  *)
(* stored; that entries keep the order of the journal all the way to the   *)
(* rows, where the cursor only moves forward; that it implements Delivery; *)
(* and how often an entry is stored and how much is in memory only.        *)
(***************************************************************************)
EXTENDS Collector, SequenceTheorems, FiniteSetTheorems, FunctionTheorems,
        TLAPS

USE DEF elsewhere, memory

----------------------------------------------------------------------------
(* Types. *)

LEMMA EntryTypes ==
    ASSUME JournalType
    PROVE  /\ Len(journal) \in Cursors
           /\ Entries \subseteq 1..MaxEntries
           /\ 1..MaxEntries \subseteq Cursors
           /\ 0 \in Cursors
  BY BoundAssumption DEF JournalType, Entries, Cursors

LEMMA EmptyTypes == (\A S : <<>> \in Seq(S)) /\ NoTxn \in Images
<1>1. \A S : <<>> \in Seq(S)
  OBVIOUS
<1>2. 0 \in Cursors
  BY BoundAssumption DEF Cursors
<1> QED
  BY <1>1, <1>2 DEF NoTxn, Images

LEMMA ImageType ==
    ASSUME NEW r \in Seq(Cursors), NEW c \in Cursors
    PROVE  Image(r, c) \in Images
  BY DEF Image, Images

LEMMA QueueType ==
    ASSUME WorkerType, queue # <<>>
    PROVE  Head(queue) \in 1..MaxEntries /\ Tail(queue) \in Seq(1..MaxEntries)
  BY HeadTailProperties DEF WorkerType

LEMMA VanishType ==
    ASSUME Vanish
    PROVE  /\ MainType' /\ WorkerType' /\ txn' \in Images
           /\ stop' \in BOOLEAN /\ due' \in BOOLEAN
<1> USE BoundAssumption, EmptyTypes DEF Vanish
<1>1. MainType'
  BY DEF MainType, Cursors
<1>2. WorkerType'
  BY DEF WorkerType, Cursors
<1> QED
  BY <1>1, <1>2

LEMMA SubmitType ==
    ASSUME MainType, NEW e \in Cursors, NEW pc \in {"more", "report"},
           Submit(e, pc), toReport' \in Nat
    PROVE  MainType'
<1>1. Append(buffer, e) \in Seq(Cursors)
  BY AppendProperties DEF MainType
<1> QED
  BY <1>1 DEF MainType, Submit, SubmitUpTo

LEMMA RaiseType ==
    ASSUME TypeOK, NEW open \in Images, Raise(open)
    PROVE  MainType' /\ WorkerType' /\ txn' \in Images /\ stop' \in BOOLEAN
           /\ due' \in BOOLEAN
<1>1. CASE back # "closing"
  <2>1. txn' \in Images
    BY <1>1, EmptyTypes DEF Raise
  <2>2. MainType' /\ WorkerType'
    BY <1>1 DEF Raise, TypeOK, MainType, WorkerType, workerVars
  <2>3. stop' \in BOOLEAN /\ due' \in BOOLEAN
    BY <1>1 DEF Raise, TypeOK, FlagType
  <2> QED
    BY <2>1, <2>2, <2>3
<1>2. CASE back = "closing"
  BY <1>2, VanishType DEF Raise
<1> QED
  BY <1>1, <1>2

LEMMA TypeInit == Init => TypeOK
<1> SUFFICES ASSUME Init PROVE TypeOK
  OBVIOUS
<1> USE BoundAssumption, EmptyTypes DEF Init
<1>1. JournalType
  BY DEF JournalType
<1>2. MainType /\ WorkerType
  BY DEF MainType, WorkerType, Cursors
<1>3. StoreType
  BY DEF StoreType, Cursors
<1>4. HistoryType /\ FlagType
  BY DEF HistoryType, FlagType
<1> QED
  BY <1>1, <1>2, <1>3, <1>4 DEF TypeOK

LEMMA MainStepType == TypeOK /\ MainStep => TypeOK'
<1> SUFFICES ASSUME TypeOK, MainStep PROVE TypeOK'
  OBVIOUS
<1> USE DEF TypeOK
<1>1. JournalType'
  BY DEF JournalType, MainStep, StartDaemon, StartWith, CheckStop, Drain,
     EndDrain,
     PollNothing, PollEvents, ReportEvent, EndReport, MaybeFlush,
     WriteBatch, MarkCursor, MarkWith, FinalFlush, Close
<1>2. CASE StartDaemon
  <2>1. MainType' /\ HistoryType'
    BY <1>2 DEF StartDaemon, StartWith, MainType, historyVars, HistoryType
  <2>2. WorkerType' /\ StoreType'
    BY <1>2 DEF StartDaemon, StartWith, WorkerType, StoreType, dbVars
  <2>3. FlagType'
    BY <1>2 DEF StartDaemon, StartWith, FlagType, historyVars
  <2> QED
    BY <1>1, <2>1, <2>2, <2>3
<1>3. CASE CheckStop \/ EndDrain \/ PollNothing \/ EndReport
           \/ MaybeFlush \/ FinalFlush
  <2> USE <1>3 DEF CheckStop, EndDrain, PollNothing, EndReport,
          MaybeFlush, FinalFlush, Flush
  <2>1. MainType'
    BY DEF MainType
  <2>2. WorkerType' /\ StoreType'
    BY DEF WorkerType, StoreType, workerVars, dbVars
  <2>3. HistoryType' /\ FlagType'
    BY DEF HistoryType, FlagType, historyVars
  <2> QED
    BY <1>1, <2>1, <2>2, <2>3
<1>4. CASE Drain
  <2>1. MainType'
    BY <1>4, SubmitType, QueueType, EntryTypes DEF Drain, MainType
  <2>2. WorkerType'
    BY <1>4, QueueType DEF Drain, WorkerType, workerVars
  <2>3. StoreType' /\ HistoryType' /\ FlagType'
    BY <1>4 DEF Drain, StoreType, dbVars, HistoryType, FlagType, historyVars
  <2> QED
    BY <1>1, <2>1, <2>2, <2>3
<1>5. CASE PollEvents
  <2>1. MainType'
    BY <1>5 DEF PollEvents, MainType
  <2>2. HistoryType'
    BY <1>5 DEF PollEvents, HistoryType
  <2>3. WorkerType' /\ StoreType' /\ FlagType'
    BY <1>5 DEF PollEvents, WorkerType, workerVars, StoreType, dbVars,
       FlagType
  <2> QED
    BY <1>1, <2>1, <2>2, <2>3
<1>6. CASE ReportEvent
  <2>1. toReport' \in Nat
    BY <1>6 DEF ReportEvent, MainType
  <2>2. MainType'
    BY <1>6, <2>1, SubmitType, EntryTypes DEF ReportEvent
  <2>3. WorkerType' /\ StoreType'
    BY <1>6 DEF ReportEvent, WorkerType, workerVars, StoreType, dbVars
  <2>4. HistoryType' /\ FlagType'
    BY <1>6 DEF ReportEvent, HistoryType, FlagType, historyVars
  <2> QED
    BY <1>1, <2>2, <2>3, <2>4
<1>7. CASE WriteBatch
  <2>1. rows' \in Seq(Cursors) /\ cursor' \in Cursors
    BY <1>7 DEF WriteBatch, Commit, StoreType, MainType, Images, Larger
  <2>2. StoreType'
    BY <1>7, <2>1, ImageType, EmptyTypes DEF WriteBatch, Commit, StoreType
  <2>3. MainType' /\ WorkerType'
    BY <1>7, EmptyTypes DEF WriteBatch, ClearBuffer, MainType, WorkerType,
       workerVars
  <2>4. HistoryType' /\ FlagType'
    BY <1>7 DEF WriteBatch, ClearBuffer, HistoryType, FlagType, historyVars
  <2> QED
    BY <1>1, <2>2, <2>3, <2>4
<1>8. CASE MarkCursor
  <2>1. rows' \in Seq(Cursors) /\ cursor' \in Cursors
    BY <1>8 DEF MarkCursor, MarkWith, Commit, StoreType, MainType
  <2>2. StoreType'
    BY <1>8, <2>1, ImageType, EmptyTypes DEF MarkCursor, MarkWith, Commit,
       StoreType
  <2>3. MainType' /\ WorkerType'
    BY <1>8, EmptyTypes, EntryTypes DEF MarkCursor, MarkWith, ClearBuffer,
       MainType,
       WorkerType, workerVars
  <2>4. HistoryType' /\ FlagType'
    BY <1>8 DEF MarkCursor, MarkWith, ClearBuffer, HistoryType, FlagType,
       historyVars
  <2> QED
    BY <1>1, <2>2, <2>3, <2>4
<1>9. CASE Close
  <2>1. StoreType'
    BY <1>9, VanishType, ImageType DEF Close, StoreType
  <2>2. HistoryType' /\ FlagType'
    BY <1>9, VanishType DEF Close, HistoryType, FlagType, historyVars
  <2> QED
    BY <1>1, <1>9, <2>1, <2>2, VanishType DEF Close
<1> QED
  BY <1>2, <1>3, <1>4, <1>5, <1>6, <1>7, <1>8, <1>9 DEF MainStep

LEMMA WorkerStepType == TypeOK /\ WorkerStep => TypeOK'
<1> SUFFICES ASSUME TypeOK, WorkerStep PROVE TypeOK'
  OBVIOUS
<1> USE DEF TypeOK
<1>1. readerUnchanged
  BY DEF WorkerStep, OpenAtCursor, OpenAtTail, ReadNext, PutEvent,
     PutRemembering,
     EndBackoff, ReaderStops, WorkerGoes, StartAfter, StartReading
<1>2. JournalType' /\ MainType' /\ StoreType'
  BY <1>1 DEF readerUnchanged, JournalType, MainType, mainVars, StoreType,
     dbVars
<1>3. stop' \in BOOLEAN /\ due' \in BOOLEAN
  BY <1>1 DEF readerUnchanged, mainVars, FlagType
<1>4. SUFFICES /\ WorkerType'
               /\ atTail' \subseteq 1..MaxEntries
               /\ rotated' \subseteq 1..MaxEntries
  <2>1. HistoryType'
    BY <1>1, <1>4 DEF HistoryType, readerUnchanged
  <2> QED
    BY <1>2, <1>3, <1>4, <2>1 DEF FlagType
<1>5. CASE EndBackoff \/ ReaderStops
  BY <1>5 DEF EndBackoff, ReaderStops, WorkerGoes, WorkerType, HistoryType,
     FlagType
<1>6. CASE OpenAtCursor
  <2>1. Smaller(horizon, Len(journal)) \in Cursors
    BY EntryTypes, BoundAssumption DEF JournalType, Cursors, Smaller
  <2>2. rpos' \in Cursors /\ worker' = "read"
    BY <1>6, <2>1 DEF OpenAtCursor, StartAfter, StartReading, WorkerType
  <2>3. WorkerType'
    BY <1>6, <2>2 DEF OpenAtCursor, StartAfter, StartReading, WorkerType
  <2>4. {e \in Entries : wcursor < e /\ e <= horizon} \subseteq 1..MaxEntries
    BY EntryTypes
  <2>5. rotated' \subseteq 1..MaxEntries /\ atTail' \subseteq 1..MaxEntries
    BY <1>6, <2>4 DEF OpenAtCursor, StartAfter, StartReading, HistoryType
  <2> QED
    BY <1>6, <2>3, <2>5 DEF OpenAtCursor, StartAfter, StartReading
<1>7. CASE OpenAtTail
  <2>1. WorkerType'
    BY <1>7, EntryTypes DEF OpenAtTail, StartAfter, StartReading, WorkerType
  <2>2. rotated' \subseteq 1..MaxEntries /\ atTail' \subseteq 1..MaxEntries
    BY <1>7, EntryTypes DEF OpenAtTail, HistoryType
  <2> QED
    BY <1>7, <2>1, <2>2 DEF OpenAtTail, StartAfter, StartReading
<1>8. CASE ReadNext
  <2> DEFINE e == Larger(rpos + 1, horizon)
  <2>1. e \in 1..MaxEntries /\ rpos + 1 \in 1..MaxEntries + 1
    BY <1>8, BoundAssumption DEF ReadNext, Larger, WorkerType, JournalType,
       Cursors
  <2>2. rpos' = e /\ rotated' = rotated \cup (rpos + 1 .. e - 1)
    BY <1>8 DEF ReadNext
  <2>3. rotated' \subseteq 1..MaxEntries /\ atTail' \subseteq 1..MaxEntries
    <3> HIDE DEF e
    <3>1. rpos + 1 .. e - 1 \subseteq 1..MaxEntries
      BY <2>1, BoundAssumption
    <3> QED
      BY <1>8, <3>1, <2>2 DEF ReadNext, HistoryType
  <2>4. \/ worker' = "off" /\ hand' = hand
        \/ worker' = "put" /\ hand' = e
    BY <1>8 DEF ReadNext
  <2>5. WorkerType'
    <3> HIDE DEF e
    <3> QED
      BY <1>8, <2>1, <2>2, <2>4, EntryTypes DEF ReadNext, WorkerType, Cursors
  <2> QED
    BY <1>8, <2>3, <2>5 DEF ReadNext, FlagType
<1>9. CASE PutEvent
  <2>1. hand \in 1..MaxEntries
    BY <1>9, BoundAssumption DEF PutEvent, PutRemembering, WorkerType, Cursors
  <2>2. Append(queue, hand) \in Seq(1..MaxEntries)
    BY <2>1, AppendProperties DEF WorkerType
  <2>3. WorkerType'
    BY <1>9, <2>1, <2>2, EntryTypes DEF PutEvent, PutRemembering, WorkerType
  <2> QED
    BY <1>9, <2>3 DEF PutEvent, PutRemembering, HistoryType, FlagType
<1> QED
  BY <1>5, <1>6, <1>7, <1>8, <1>9 DEF WorkerStep

LEMMA OutsideType ==
    TypeOK /\ (Tick \/ Checkpoint \/ \E u \in Units : Log(u)) => TypeOK'
<1> SUFFICES ASSUME TypeOK, Tick \/ Checkpoint \/ \E u \in Units : Log(u)
             PROVE  TypeOK'
  OBVIOUS
<1> USE DEF TypeOK
<1>1. CASE Tick
  <2>1. JournalType' /\ MainType' /\ WorkerType'
    BY <1>1 DEF Tick, JournalType, MainType, WorkerType, workerVars
  <2>2. StoreType' /\ HistoryType' /\ FlagType'
    BY <1>1 DEF Tick, StoreType, dbVars, HistoryType, historyVars, FlagType
  <2> QED
    BY <2>1, <2>2
<1>2. CASE Checkpoint
  <2>1. JournalType' /\ MainType' /\ WorkerType'
    BY <1>2 DEF Checkpoint, JournalType, MainType, mainVars, WorkerType,
       workerVars
  <2>2. StoreType'
    BY <1>2, ImageType DEF Checkpoint, StoreType
  <2>3. HistoryType' /\ FlagType'
    BY <1>2 DEF Checkpoint, HistoryType, historyVars, FlagType, mainVars
  <2> QED
    BY <2>1, <2>2, <2>3
<1>3. CASE \E u \in Units : Log(u)
  <2> PICK u \in Units : Log(u)
    BY <1>3
  <2>1. JournalType'
    BY BoundAssumption, AppendProperties DEF Log, JournalType
  <2>2. MainType' /\ WorkerType'
    BY DEF Log, MainType, mainVars, WorkerType, workerVars
  <2>3. StoreType' /\ HistoryType' /\ FlagType'
    BY DEF Log, StoreType, dbVars, HistoryType, historyVars, FlagType,
       mainVars
  <2> QED
    BY <2>1, <2>2, <2>3
<1> QED
  BY <1>1, <1>2, <1>3

LEMMA DisturbanceType == TypeOK /\ Disturbance => TypeOK'
<1> SUFFICES ASSUME TypeOK, Disturbance PROVE TypeOK'
  OBVIOUS
<1> USE DEF TypeOK
<1>1. disturbed' \in Nat /\ alerts' \in Nat
  BY DEF Disturbance, Stop, Kill, PowerLoss, Reboot, VacuumJournal,
     ReaderFails, SeekFails, WriteFails, MarkFails, PollFails, Disturb,
     HistoryType, FlagType
<1>2. torn' \in Nat
  BY DEF Disturbance, Stop, Kill, PowerLoss, Reboot, VacuumJournal,
     ReaderFails, SeekFails, WriteFails, MarkFails, PollFails, HistoryType
<1>3. CASE Stop \/ PollFails
  <2>1. JournalType' /\ MainType' /\ WorkerType' /\ StoreType'
    BY <1>3 DEF Stop, PollFails, JournalType, MainType, WorkerType,
       workerVars, StoreType, dbVars
  <2>2. HistoryType'
    BY <1>1, <1>2, <1>3 DEF Stop, PollFails, HistoryType
  <2>3. FlagType'
    BY <1>1, <1>3 DEF Stop, PollFails, FlagType
  <2> QED
    BY <2>1, <2>2, <2>3
<1>4. CASE Kill
  BY <1>1, <1>2, <1>4, VanishType DEF Kill, JournalType, StoreType,
     HistoryType, FlagType
<1>5. CASE PowerLoss
  <2>1. JournalType'
    BY <1>5, BoundAssumption DEF PowerLoss, JournalType
  <2>2. StoreType'
    BY <1>5, VanishType DEF PowerLoss, StoreType, Images
  <2> QED
    BY <1>1, <1>2, <1>5, <2>1, <2>2, VanishType DEF PowerLoss, HistoryType,
       FlagType
<1>6. CASE Reboot
  <2>1. JournalType' /\ MainType' /\ WorkerType'
    BY <1>6, BoundAssumption DEF Reboot, JournalType, MainType, mainVars,
       WorkerType, workerVars
  <2>2. StoreType'
    BY <1>6, ImageType DEF Reboot, StoreType
  <2>3. HistoryType' /\ FlagType'
    BY <1>1, <1>2, <1>6 DEF Reboot, HistoryType, FlagType, mainVars
  <2> QED
    BY <2>1, <2>2, <2>3
<1>7. CASE VacuumJournal
  <2>1. JournalType'
    BY <1>7, EntryTypes, BoundAssumption DEF VacuumJournal, JournalType
  <2>2. MainType' /\ WorkerType' /\ StoreType'
    BY <1>7 DEF VacuumJournal, MainType, mainVars, WorkerType, workerVars,
       StoreType, dbVars
  <2>3. HistoryType' /\ FlagType'
    BY <1>1, <1>2, <1>7 DEF VacuumJournal, HistoryType, FlagType, mainVars
  <2> QED
    BY <2>1, <2>2, <2>3
<1>8. CASE ReaderFails \/ SeekFails
  <2>1. JournalType' /\ MainType' /\ StoreType'
    BY <1>8 DEF ReaderFails, SeekFails, JournalType, MainType, mainVars,
       StoreType, dbVars
  <2>2. WorkerType'
    BY <1>8, EntryTypes DEF ReaderFails, SeekFails, WorkerType
  <2>3. HistoryType' /\ FlagType'
    BY <1>1, <1>2, <1>8, EntryTypes DEF ReaderFails, SeekFails, HistoryType,
       FlagType, mainVars
  <2> QED
    BY <2>1, <2>2, <2>3
<1>9. CASE WriteFails
  <2>1. PICK k \in 0..Len(buffer) :
             Raise(Image(txn.rows \o SubSeq(buffer, 1, k), txn.cursor))
    BY <1>9 DEF WriteFails
  <2>2. SubSeq(buffer, 1, k) \in Seq(Cursors)
    BY SubSeqProperties DEF MainType
  <2>3. txn.rows \o SubSeq(buffer, 1, k) \in Seq(Cursors)
        /\ txn.cursor \in Cursors
    BY <2>2, ConcatProperties DEF StoreType, Images
  <2>4. MainType' /\ WorkerType' /\ txn' \in Images /\ stop' \in BOOLEAN
        /\ due' \in BOOLEAN
    BY <2>1, <2>3, ImageType, RaiseType
  <2> QED
    BY <1>1, <1>2, <1>9, <2>4 DEF WriteFails, JournalType, StoreType,
       HistoryType, FlagType
<1>10. CASE MarkFails
  <2>1. Image(<<>>, pending) \in Images
    BY EmptyTypes, ImageType DEF MainType
  <2>2. MainType' /\ WorkerType' /\ txn' \in Images /\ stop' \in BOOLEAN
        /\ due' \in BOOLEAN
    BY <1>10, <2>1, EmptyTypes, RaiseType DEF MarkFails
  <2> QED
    BY <1>1, <1>2, <1>10, <2>2 DEF MarkFails, JournalType, StoreType,
       HistoryType, FlagType
<1> QED
  BY <1>3, <1>4, <1>5, <1>6, <1>7, <1>8, <1>9, <1>10 DEF Disturbance

LEMMA StutterType == TypeOK /\ UNCHANGED vars => TypeOK'
<1> SUFFICES ASSUME TypeOK, UNCHANGED vars PROVE TypeOK'
  OBVIOUS
<1> USE DEF TypeOK, vars, mainVars, workerVars, dbVars, historyVars
<1>1. JournalType' /\ MainType' /\ WorkerType'
  BY DEF JournalType, MainType, WorkerType
<1>2. StoreType' /\ HistoryType' /\ FlagType'
  BY DEF StoreType, HistoryType, FlagType
<1> QED
  BY <1>1, <1>2

\* The values the threads, the queue and the database hold are always of their
\* types: no interleaving or disturbance puts, say, an empty hand on the queue.
THEOREM TypeCorrect == Spec => []TypeOK
<1>1. TypeOK /\ [Next]_vars => TypeOK'
  BY MainStepType, WorkerStepType, OutsideType, DisturbanceType, StutterType
     DEF Next
<1> QED
  BY TypeInit, <1>1, PTL DEF Spec

----------------------------------------------------------------------------
(***************************************************************************)
(* The persisted cursor never claims an entry that is not stored, for any  *)
(* number of units, entries and disturbances and any sizes of batch and    *)
(* queue.  The inductive invariant is CursorInv: it follows an entry from  *)
(* the reader's hand through the queue and the buffer to the rows.         *)
(***************************************************************************)

LEMMA RangeAppend ==
    ASSUME NEW S, NEW s \in Seq(S), NEW x \in S
    PROVE  Range(Append(s, x)) = Range(s) \cup {x}
<1>1. Append(s, x) \in Seq(S) /\ Len(Append(s, x)) = Len(s) + 1
  BY AppendProperties
<1>2. /\ \A i \in 1..Len(s) : Append(s, x)[i] = s[i]
      /\ Append(s, x)[Len(s) + 1] = x
  BY AppendProperties
<1>3. /\ Range(Append(s, x)) = {Append(s, x)[i] : i \in 1..Len(s) + 1}
      /\ Range(s) = {s[i] : i \in 1..Len(s)}
  BY <1>1, RangeEquality
<1>4. Len(s) \in Nat
  OBVIOUS
<1>5. 1..Len(s) + 1 = (1..Len(s)) \cup {Len(s) + 1}
  BY <1>4
<1> QED
  BY <1>2, <1>3, <1>5

LEMMA RangeTail ==
    ASSUME NEW S, NEW s \in Seq(S), s # <<>>
    PROVE  /\ Range(s) \subseteq {Head(s)} \cup Range(Tail(s))
           /\ Range(Tail(s)) \subseteq Range(s)
<1>1. /\ Tail(s) \in Seq(S) /\ Len(Tail(s)) = Len(s) - 1
      /\ \A i \in 1..Len(s) - 1 : Tail(s)[i] = s[i + 1]
      /\ Head(s) = s[1] /\ Len(s) \in Nat \ {0}
  BY HeadTailProperties
<1>2. /\ Range(Tail(s)) = {Tail(s)[i] : i \in 1..Len(s) - 1}
      /\ Range(s) = {s[i] : i \in 1..Len(s)}
  BY <1>1, RangeEquality
<1>3. \A i \in 1..Len(s) : i = 1 \/ i - 1 \in 1..Len(s) - 1
  BY <1>1
<1>4. \A i \in 1..Len(s) : s[i] = Head(s) \/ s[i] \in Range(Tail(s))
  <2> SUFFICES ASSUME NEW i \in 1..Len(s), i # 1
               PROVE  s[i] \in Range(Tail(s))
    BY <1>1
  <2>1. i - 1 \in 1..Len(s) - 1 /\ (i - 1) + 1 = i
    BY <1>3
  <2>2. Tail(s)[i - 1] = s[i]
    BY <1>1, <2>1
  <2> QED
    BY <1>2, <2>1, <2>2
<1>5. \A i \in 1..Len(s) - 1 : i + 1 \in 1..Len(s)
  BY <1>1
<1>6. Range(Tail(s)) \subseteq Range(s)
  BY <1>1, <1>2, <1>5
<1>7. Range(s) \subseteq {Head(s)} \cup Range(Tail(s))
  BY <1>2, <1>4
<1> QED
  BY <1>6, <1>7

Inv == TypeOK /\ CursorInv

\* Threads move, the disk forgets old images: nothing CursorInv speaks of.
LEMMA QuietStep ==
    ASSUME Inv,
           UNCHANGED <<journal, rows, cursor, txn, pending, buffer, queue,
                       wcursor, rpos, hand, atTail, rotated>>,
           disk' \subseteq disk \cup {Image(rows, cursor)},
           main' = "mark" => main = "mark",
           worker' \in {"read", "put"} => worker' = worker
    PROVE  CursorInv'
<1> USE DEF Inv, CursorInv, InFlight
<1>1. WithinJournal'
  BY DEF WithinJournal, Image
<1>2. CursorCovered'
  BY DEF CursorCovered, Covers, Accounted, Logged, Entries, Skipped, Image
<1>3. /\ Accounted(Range(rows), txn.cursor)'
      /\ Accounted(Held, pending)'
      /\ (main = "mark" => Range(buffer) \subseteq Range(rows))'
  BY DEF Accounted, Logged, Entries, Skipped, Held
<1>4. (\A p \in DOMAIN queue : Accounted(Held \cup Ahead(p), queue[p] - 1))'
  BY DEF Accounted, Logged, Entries, Skipped, Held, Ahead
<1>5. Accounted(Held \cup Range(queue), wcursor)'
  BY DEF Accounted, Logged, Entries, Skipped, Held
<1>6. (worker = "read" => Accounted(Held \cup Range(queue), rpos))'
  BY DEF Accounted, Logged, Entries, Skipped, Held
<1>7. (worker = "put" => /\ hand = rpos
                         /\ Accounted(Held \cup Range(queue), hand - 1))'
  BY DEF Accounted, Logged, Entries, Skipped, Held
<1> QED
  BY <1>1, <1>2, <1>3, <1>4, <1>5, <1>6, <1>7

\* The process ends and the database is one of the images it had.
LEMMA VanishStep ==
    ASSUME Inv, Vanish, UNCHANGED <<journal, atTail, rotated>>,
           disk' \subseteq disk \cup {Image(rows, cursor)},
           Image(rows', cursor') \in disk \cup {Image(rows, cursor)}
    PROVE  CursorInv'
<1> USE DEF Inv, CursorInv, InFlight, Vanish
<1>1. /\ Range(<<>>) = {} /\ Len(journal) \in Nat /\ DOMAIN <<>> = {}
  BY DEF TypeOK, JournalType, Range
<1>2. WithinJournal'
  BY <1>1 DEF WithinJournal, Image, NoTxn
<1>3. CursorCovered'
  BY DEF CursorCovered, Covers, Accounted, Logged, Entries, Skipped, Image
<1>4. 1..0 = {}
  OBVIOUS
<1> QED
  BY <1>1, <1>2, <1>3, <1>4 DEF Accounted, NoTxn

LEMMA CursorInit == Init => CursorInv
<1> SUFFICES ASSUME Init PROVE CursorInv
  OBVIOUS
<1>1. Range(<<>>) = {} /\ 1..0 = {} /\ DOMAIN <<>> = {} /\ Len(journal) = 0
  BY DEF Range, Init
<1>2. WithinJournal
  BY <1>1 DEF Init, WithinJournal, NoTxn
<1>3. CursorCovered
  BY <1>1 DEF Init, CursorCovered, Covers, Accounted, NoTxn, Image
<1> QED
  BY <1>1, <1>2, <1>3 DEF Init, CursorInv, InFlight, Accounted, NoTxn

\* Pipeline.submit takes over an event e below which everything is accounted
\* for; rows, cursor and disk stay.
LEMMA SubmitStep ==
    ASSUME TypeOK, NEW e \in Cursors, NEW pc, Submit(e, pc), pc # "mark",
           UNCHANGED <<journal, rows, atTail, rotated>>,
           Accounted(Held, pending), e <= Len(journal), pending <= Len(journal),
           e # 0 => Accounted(Held, e - 1)
    PROVE  /\ Held \subseteq Held'
           /\ Logged(e) => e \in Held'
           /\ pending' <= Len(journal)'
           /\ Accounted(Held, pending)'
           /\ main' # "mark"
<1>1. CASE ~IsWatched(e)
  BY <1>1 DEF Submit, SubmitUpTo, Held, Accounted, Logged, Entries, Skipped,
     IsWatched
<1>2. CASE IsWatched(e)
  <2>1. Range(buffer)' = Range(buffer) \cup {e}
    <3>1. buffer \in Seq(Cursors) /\ buffer' = Append(buffer, e)
      BY <1>2 DEF Submit, SubmitUpTo, TypeOK, MainType
    <3>2. Range(Append(buffer, e)) = Range(buffer) \cup {e}
      BY <3>1, RangeAppend
    <3> QED
      BY <3>1, <3>2
  <2>2. Held' = Held \cup {e}
    BY <2>1 DEF Held
  <2>3. pending' = IF e = 0 THEN pending ELSE e
    BY <1>2 DEF Submit, SubmitUpTo
  <2>4. \A i \in 1..pending' : i = e \/ i \in 1..pending \/ (e # 0 /\ i \in 1..e - 1)
    BY <2>3, BoundAssumption DEF Cursors, TypeOK, MainType
  <2>5. Accounted(Held, pending)'
    BY <2>2, <2>4 DEF Accounted, Logged, Entries, Skipped
  <2>6. main' # "mark" /\ pending' <= Len(journal)'
    BY <1>2, <2>3 DEF Submit, SubmitUpTo
  <2> QED
    BY <2>2, <2>5, <2>6
<1> QED
  BY <1>1, <1>2

\* What the rest of CursorInv says is kept while rows, cursor and disk stay
\* and the places an entry may be in only grow.
LEMMA StoreKept ==
    ASSUME Inv, UNCHANGED <<journal, rows, cursor, txn, disk>>,
           Skipped \subseteq Skipped'
    PROVE  CursorCovered' /\ Accounted(Range(rows), txn.cursor)'
  BY DEF Inv, CursorInv, CursorCovered, Covers, Accounted, Logged, Entries,
     Image

LEMMA DrainStep == Inv /\ Drain => CursorInv'
<1> SUFFICES ASSUME Inv, Drain PROVE CursorInv'
  OBVIOUS
<1> DEFINE e == Head(queue)
<1>1. /\ queue \in Seq(1..MaxEntries) /\ queue # <<>>
      /\ Tail(queue) \in Seq(1..MaxEntries)
      /\ Len(Tail(queue)) = Len(queue) - 1
      /\ \A p \in 1..Len(queue) - 1 : Tail(queue)[p] = queue[p + 1]
      /\ e = queue[1] /\ e \in 1..MaxEntries /\ Len(queue) \in Nat \ {0}
  <2>1. queue \in Seq(1..MaxEntries) /\ queue # <<>>
    BY DEF Drain, Inv, TypeOK, WorkerType
  <2>2. Head(queue) \in 1..MaxEntries
    BY <2>1, HeadTailProperties
  <2>3. Len(queue) \in Nat \ {0} /\ Head(queue) = queue[1]
    BY <2>1
  <2> QED
    BY <2>1, <2>2, <2>3, HeadTailProperties
<1>2. queue' = Tail(queue)
  BY DEF Drain
<1>3. Submit(e, "more") /\ UNCHANGED <<journal, rows, atTail, rotated>>
  BY DEF Drain, dbVars, historyVars
<1>4. Accounted(Held, e - 1) /\ e \in Range(queue)
  <2>1. 1 \in DOMAIN queue /\ 1..0 = {} /\ 1 - 1 = 0
    BY <1>1
  <2>2. Ahead(1) = {}
    BY <2>1 DEF Ahead
  <2> QED
    BY <1>1, <2>1, <2>2 DEF Inv, CursorInv, InFlight, Range
<1>5. e \in Cursors /\ e # 0 /\ e <= Len(journal) /\ pending <= Len(journal)
  BY <1>1, <1>4, BoundAssumption DEF Cursors, Inv, CursorInv, WithinJournal
<1>6. /\ Held \subseteq Held' /\ (Logged(e) => e \in Held')
      /\ pending' <= Len(journal)'
      /\ Accounted(Held, pending)' /\ main' # "mark"
  <2> HIDE DEF e
  <2> QED
    BY <1>3, <1>4, <1>5, SubmitStep DEF Inv, CursorInv
<1>7. Range(queue) \subseteq {e} \cup Range(queue)'
      /\ Range(queue)' \subseteq Range(queue)
  BY <1>1, <1>2, RangeTail
<1>8. UNCHANGED <<cursor, txn, disk, worker, wcursor, rpos, hand>>
      /\ Skipped' = Skipped
      /\ \A i : Logged(i)' <=> Logged(i)
  BY <1>3 DEF Drain, dbVars, workerVars, Skipped, Logged, Entries
<1>9. \A c : Accounted(Held \cup Range(queue), c)
                 => Accounted(Held \cup Range(queue), c)'
  <2> HIDE DEF e
  <2> QED
    BY <1>6, <1>7, <1>8 DEF Accounted
<1>10. (\A p \in DOMAIN queue : Accounted(Held \cup Ahead(p), queue[p] - 1))'
  <2> SUFFICES ASSUME NEW p \in 1..Len(queue) - 1
               PROVE  Accounted(Held \cup Ahead(p), queue[p] - 1)'
    BY <1>1, <1>2
  <2>1. p + 1 \in 1..Len(queue) /\ p \in Nat \ {0}
    BY <1>1
  <2>2. queue'[p] = queue[p + 1]
    BY <1>1, <1>2
  <2>3. Accounted(Held \cup Ahead(p + 1), queue[p + 1] - 1)
    BY <1>1, <2>1 DEF Inv, CursorInv, InFlight
  <2>4. Ahead(p + 1) \subseteq {e} \cup Ahead(p)'
    <3> SUFFICES ASSUME NEW q \in 1..(p + 1) - 1, q # 1
                 PROVE  queue[q] \in Ahead(p)'
      BY <1>1 DEF Ahead
    <3>1. q - 1 \in 1..p - 1 /\ q - 1 \in 1..Len(queue) - 1 /\ (q - 1) + 1 = q
      BY <1>1, <2>1
    <3>2. queue'[q - 1] = queue[q]
      BY <1>1, <1>2, <3>1
    <3> QED
      BY <3>1, <3>2 DEF Ahead
  <2> HIDE DEF e
  <2> QED
    BY <1>6, <1>8, <2>2, <2>3, <2>4 DEF Accounted
<1>11. WithinJournal'
  BY <1>3, <1>6, <1>7, <1>8 DEF Inv, CursorInv, WithinJournal
<1>12. CursorCovered' /\ Accounted(Range(rows), txn.cursor)'
  BY <1>3, <1>8, StoreKept
<1> QED
  BY <1>6, <1>8, <1>9, <1>10, <1>11, <1>12 DEF Inv, CursorInv, InFlight

\* An entry on its way stays accounted for while the threads' cursors and the
\* queue stay and the rows and the buffer together only grow.
LEMMA InFlightKept ==
    ASSUME Inv, UNCHANGED <<journal, queue, worker, wcursor, rpos, hand>>,
           Held \subseteq Held', Skipped \subseteq Skipped'
    PROVE  InFlight'
<1> USE DEF Inv, CursorInv, InFlight, Accounted, Logged, Entries
<1>1. (\A p \in DOMAIN queue : Accounted(Held \cup Ahead(p), queue[p] - 1))'
  BY DEF Ahead
<1>2. Accounted(Held \cup Range(queue), wcursor)'
  OBVIOUS
<1>3. (worker = "read" => Accounted(Held \cup Range(queue), rpos))'
  OBVIOUS
<1>4. (worker = "put" => /\ hand = rpos
                         /\ Accounted(Held \cup Range(queue), hand - 1))'
  OBVIOUS
<1> QED
  BY <1>1, <1>2, <1>3, <1>4

LEMMA ReportStep == Inv /\ ReportEvent => CursorInv'
<1> SUFFICES ASSUME Inv, ReportEvent PROVE CursorInv'
  OBVIOUS
<1>1. /\ Submit(0, "report")
      /\ UNCHANGED <<journal, rows, cursor, txn, disk, atTail, rotated>>
      /\ UNCHANGED <<queue, worker, wcursor, rpos, hand>>
  BY DEF ReportEvent, dbVars, historyVars, workerVars
<1>2. 0 \in Cursors /\ 0 <= Len(journal)
  BY BoundAssumption DEF Cursors, Inv, TypeOK, JournalType
<1>3. /\ Held \subseteq Held' /\ pending' <= Len(journal)'
      /\ Accounted(Held, pending)' /\ main' # "mark"
  BY <1>1, <1>2, SubmitStep DEF Inv, CursorInv, WithinJournal
<1>4. Skipped' = Skipped
  BY <1>1 DEF Skipped
<1>5. WithinJournal'
  BY <1>1, <1>3 DEF Inv, CursorInv, WithinJournal
<1> QED
  BY <1>1, <1>3, <1>4, <1>5, StoreKept, InFlightKept DEF CursorInv

LEMMA WriteStep == Inv /\ WriteBatch => CursorInv'
<1> SUFFICES ASSUME Inv, WriteBatch PROVE CursorInv'
  OBVIOUS
<1>1. /\ rows' = rows \o txn.rows \o buffer
      /\ cursor' = Larger(cursor, txn.cursor)
      /\ txn' = NoTxn
      /\ disk' = disk \cup {Image(rows', cursor')}
  BY DEF WriteBatch, Commit
<1>2. /\ UNCHANGED <<journal, queue, worker, wcursor, rpos, hand, pending>>
      /\ UNCHANGED <<atTail, rotated>>
  BY DEF WriteBatch, historyVars, workerVars
<1>3. Range(rows) \subseteq Range(rows)' /\ Range(buffer) \subseteq Range(rows)'
  <2>1. /\ rows \in Seq(Cursors) /\ txn.rows \in Seq(Cursors)
        /\ buffer \in Seq(Cursors) /\ rows \o txn.rows \in Seq(Cursors)
    BY DEF Inv, TypeOK, StoreType, MainType, Images
  <2>2. Range(rows \o txn.rows) = Range(rows) \cup Range(txn.rows)
    BY <2>1, RangeConcatenation
  <2>3. Range(rows \o txn.rows \o buffer)
          = Range(rows \o txn.rows) \cup Range(buffer)
    BY <2>1, RangeConcatenation
  <2> QED
    BY <1>1, <2>2, <2>3
<1>4. Skipped' = Skipped /\ \A i : Logged(i)' <=> Logged(i)
  BY <1>2 DEF Skipped, Logged, Entries
<1>5. Held \subseteq Range(rows)'
  BY <1>3 DEF Held
<1>6. Accounted(Range(rows), cursor)'
  BY <1>1, <1>3, <1>4
     DEF Larger, Inv, CursorInv, CursorCovered, Covers, Image, Accounted
<1>7. CursorCovered'
  <2>1. \A image \in disk : Covers(image)'
    BY <1>4 DEF Inv, CursorInv, CursorCovered, Covers, Accounted
  <2>2. Covers(Image(rows, cursor))'
    BY <1>6 DEF Covers, Image
  <2>3. disk' = disk \cup {Image(rows', cursor')}
    BY <1>1
  <2> QED
    BY <2>1, <2>2, <2>3 DEF CursorCovered
<1>8. Accounted(Held, pending)'
  BY <1>2, <1>4, <1>5 DEF Held, Accounted, Inv, CursorInv
<1>9. main' = "mark" => buffer' = buffer
  BY DEF WriteBatch, ClearBuffer, Inv, TypeOK, MainType
<1>10. WithinJournal'
  <2>1. cursor' <= Len(journal)
    BY <1>1 DEF Larger, Inv, CursorInv, WithinJournal
  <2>2. txn'.cursor <= Len(journal)
    BY <1>1 DEF NoTxn, Inv, TypeOK, JournalType
  <2>3. \A image \in disk' : image.cursor <= Len(journal)
    <3>1. Image(rows', cursor').cursor = cursor'
      BY DEF Image
    <3>2. \A image \in disk : image.cursor <= Len(journal)
      BY DEF Inv, CursorInv, WithinJournal
    <3>3. disk' = disk \cup {Image(rows', cursor')}
      BY <1>1
    <3> QED
      BY <2>1, <3>1, <3>2, <3>3
  <2> QED
    BY <1>2, <2>1, <2>2, <2>3 DEF Inv, CursorInv, WithinJournal
<1>11. Accounted(Range(rows), txn.cursor)'
  BY <1>1 DEF NoTxn, Accounted
<1>12. InFlight'
  BY <1>2, <1>4, <1>5, InFlightKept DEF Held
<1> QED
  BY <1>3, <1>7, <1>8, <1>9, <1>10, <1>11, <1>12 DEF CursorInv

LEMMA MarkStep == Inv /\ MarkCursor => CursorInv'
<1> SUFFICES ASSUME Inv, MarkCursor PROVE CursorInv'
  OBVIOUS
<1>1. /\ rows' = rows /\ cursor' = pending /\ txn' = NoTxn /\ pending' = 0
      /\ disk' = disk \cup {Image(rows', cursor')}
      /\ main = "mark" /\ main' = back
  BY DEF MarkCursor, MarkWith, Commit, ClearBuffer
<1>2. /\ UNCHANGED <<journal, queue, worker, wcursor, rpos, hand>>
      /\ UNCHANGED <<atTail, rotated>>
  BY DEF MarkCursor, MarkWith, historyVars, workerVars
<1>3. Skipped' = Skipped /\ \A i : Logged(i)' <=> Logged(i)
  BY <1>2 DEF Skipped, Logged, Entries
<1>4. Held = Range(rows)
  BY <1>1 DEF Held, Inv, CursorInv
<1>5. Accounted(Range(rows), cursor)'
  BY <1>1, <1>3, <1>4 DEF Inv, CursorInv, Accounted
<1>6. CursorCovered'
  <2>1. \A image \in disk : Covers(image)'
    BY <1>3 DEF Inv, CursorInv, CursorCovered, Covers, Accounted
  <2> QED
    BY <1>1, <1>5, <2>1 DEF CursorCovered, Covers, Image
<1>7. main' # "mark"
  BY <1>1 DEF Inv, TypeOK, MainType
<1>8. WithinJournal'
  <2>1. pending <= Len(journal) /\ 0 <= Len(journal)
    BY DEF Inv, CursorInv, WithinJournal, TypeOK, JournalType
  <2> QED
    BY <1>1, <1>2, <2>1 DEF Inv, CursorInv, WithinJournal, Image, NoTxn
<1>9. Accounted(Range(rows), txn.cursor)' /\ Accounted(Held, pending)'
  BY <1>1 DEF NoTxn, Accounted
<1>10. InFlight'
  BY <1>1, <1>2, <1>3, <1>4, InFlightKept DEF Held
<1> QED
  BY <1>6, <1>7, <1>8, <1>9, <1>10 DEF CursorInv

LEMMA StartStep == Inv /\ StartDaemon => CursorInv'
<1> SUFFICES ASSUME Inv, StartDaemon PROVE CursorInv'
  OBVIOUS
<1>1. /\ UNCHANGED <<journal, rows, cursor, txn, disk, buffer, queue>>
      /\ UNCHANGED <<pending, rpos, hand, atTail, rotated>>
      /\ wcursor' = cursor /\ worker' = "open" /\ main' = "loop"
  BY DEF StartDaemon, StartWith, dbVars, historyVars
<1>2. Skipped' = Skipped /\ Held' = Held /\ \A i : Logged(i)' <=> Logged(i)
  BY <1>1 DEF Skipped, Logged, Entries, Held
<1>3. WithinJournal'
  BY <1>1 DEF Inv, CursorInv, WithinJournal
<1>4. CursorCovered' /\ Accounted(Range(rows), txn.cursor)'
  BY <1>1, <1>2, StoreKept
<1>5. Accounted(Held, pending)'
  BY <1>1, <1>2 DEF Accounted, Inv, CursorInv
<1>6. Accounted(Held \cup Range(queue), wcursor)'
  BY <1>1, <1>2
     DEF Inv, CursorInv, CursorCovered, Covers, Image, Accounted, Held
<1>7. (\A p \in DOMAIN queue : Accounted(Held \cup Ahead(p), queue[p] - 1))'
  BY <1>1, <1>2 DEF Inv, CursorInv, InFlight, Accounted, Ahead
<1>8. InFlight'
  BY <1>1, <1>6, <1>7 DEF InFlight
<1> QED
  BY <1>1, <1>3, <1>4, <1>5, <1>8 DEF CursorInv

\* What holds after any step of the reader that leaves the queue alone, but
\* for the position it takes.
LEMMA ReaderKept ==
    ASSUME Inv, UNCHANGED <<journal, mainVars, dbVars, queue, wcursor>>,
           Skipped \subseteq Skipped', rpos' <= Len(journal),
           hand' <= Len(journal)
    PROVE  /\ WithinJournal'
           /\ CursorCovered' /\ Accounted(Range(rows), txn.cursor)'
           /\ Accounted(Held, pending)'
           /\ (main = "mark" => Range(buffer) \subseteq Range(rows))'
           /\ (\A p \in DOMAIN queue :
                 Accounted(Held \cup Ahead(p), queue[p] - 1))'
           /\ Accounted(Held \cup Range(queue), wcursor)'
<1>1. UNCHANGED <<journal, main, buffer, pending, rows, cursor, txn, disk>>
  BY DEF mainVars, dbVars
<1>2. Held' = Held /\ \A i : Logged(i)' <=> Logged(i)
  BY <1>1 DEF Logged, Entries, Held
<1>3. WithinJournal'
  BY <1>1 DEF Inv, CursorInv, WithinJournal
<1>4. CursorCovered' /\ Accounted(Range(rows), txn.cursor)'
  BY <1>1, StoreKept
<1>5. Accounted(Held, pending)'
  BY <1>1, <1>2 DEF Accounted, Inv, CursorInv
<1>6. (\A p \in DOMAIN queue : Accounted(Held \cup Ahead(p), queue[p] - 1))'
  BY <1>2 DEF Inv, CursorInv, InFlight, Accounted, Ahead
<1>7. Accounted(Held \cup Range(queue), wcursor)'
  BY <1>2 DEF Inv, CursorInv, InFlight, Accounted
<1> QED
  BY <1>1, <1>3, <1>4, <1>5, <1>6, <1>7 DEF Inv, CursorInv

LEMMA OpenStep == Inv /\ (OpenAtCursor \/ OpenAtTail) => CursorInv'
<1> SUFFICES ASSUME Inv, OpenAtCursor \/ OpenAtTail PROVE CursorInv'
  OBVIOUS
<1>1. /\ readerUnchanged /\ UNCHANGED <<wcursor, hand, queue>>
      /\ worker' = "read" /\ Skipped \subseteq Skipped'
  BY DEF OpenAtCursor, OpenAtTail, StartAfter, StartReading, Skipped
<1>2. wcursor <= Len(journal) /\ hand <= Len(journal) /\ Len(journal) \in Nat
  BY DEF Inv, CursorInv, WithinJournal, TypeOK, JournalType
<1>3. UNCHANGED <<journal, rows, buffer>> /\ Held' = Held
      /\ \A i : Logged(i)' <=> Logged(i)
  BY <1>1 DEF readerUnchanged, mainVars, dbVars, Held, Logged, Entries
<1> wcursor \in Nat /\ horizon \in Nat
  BY BoundAssumption DEF Inv, TypeOK, JournalType, WorkerType, Cursors
<1>4. /\ rpos' <= Len(journal)
      /\ \A i \in Entries : i <= rpos' => i <= wcursor \/ i \in Skipped'
  <2>1. CASE OpenAtTail
    BY <2>1, <1>2 DEF OpenAtTail, StartAfter, StartReading, Skipped
  <2>2. CASE OpenAtCursor /\ wcursor >= horizon
    BY <2>2, <1>2 DEF OpenAtCursor, StartAfter, StartReading
  <2>3. CASE OpenAtCursor /\ wcursor < horizon
    <3>1. /\ rpos' = Smaller(horizon, Len(journal))
          /\ rotated' = rotated \cup
                        {e \in Entries : wcursor < e /\ e <= horizon}
      BY <2>3 DEF OpenAtCursor, StartAfter, StartReading, Inv, TypeOK,
         JournalType,
         WorkerType, Cursors
    <3>2. rpos' <= Len(journal) /\ rpos' <= horizon /\ horizon \in Nat
          /\ wcursor \in Nat
      BY <1>2, <3>1, BoundAssumption DEF Smaller, Inv, TypeOK, JournalType,
         WorkerType, Cursors
    <3>3. \A i \in Entries : i <= rpos' => i <= wcursor \/ i \in rotated'
      BY <1>2, <3>1, <3>2, EntryTypes DEF Entries, Smaller
    <3> QED
      BY <3>2, <3>3 DEF Skipped
  <2> QED
    BY <2>1, <2>2, <2>3 DEF OpenAtCursor
<1>5. Accounted(Held \cup Range(queue), wcursor)
  BY DEF Inv, CursorInv, InFlight
<1>6. Accounted(Held \cup Range(queue), rpos)'
  <2> SUFFICES ASSUME NEW i \in 1..rpos', Logged(i)
               PROVE  i \in Held \cup Range(queue) \cup Skipped'
    BY <1>1, <1>3 DEF Accounted
  <2>1. i \in Entries /\ i <= rpos'
    BY DEF Logged
  <2>2. i <= wcursor => i \in 1..wcursor
    BY <1>2, <2>1 DEF Entries, Inv, TypeOK, WorkerType, Cursors
  <2> QED
    BY <1>1, <1>4, <1>5, <2>1, <2>2 DEF Accounted
<1> QED
  BY <1>1, <1>2, <1>4, <1>6, ReaderKept
     DEF CursorInv, InFlight, readerUnchanged

LEMMA SeekFailsStep == Inv /\ SeekFails => CursorInv'
<1> SUFFICES ASSUME Inv, SeekFails PROVE CursorInv'
  OBVIOUS
<1>1. /\ UNCHANGED <<journal, mainVars, dbVars, queue, wcursor, hand>>
      /\ worker' = "read" /\ Skipped \subseteq Skipped'
      /\ rpos' = Len(journal)
      /\ {e \in Entries : e > wcursor} \subseteq Skipped'
  BY DEF SeekFails, Skipped
<1>2. /\ hand <= Len(journal) /\ Len(journal) \in Nat /\ wcursor \in Nat
      /\ Accounted(Held \cup Range(queue), wcursor)
  BY BoundAssumption DEF Inv, CursorInv, InFlight, WithinJournal, TypeOK,
     JournalType, WorkerType, Cursors
<1>3. Held' = Held /\ \A i : Logged(i)' <=> Logged(i)
  BY <1>1 DEF mainVars, dbVars, Held, Logged, Entries
<1>4. Accounted(Held \cup Range(queue), rpos)'
  <2> SUFFICES ASSUME NEW i \in 1..rpos', Logged(i)
               PROVE  i \in Held \cup Range(queue) \cup Skipped'
    BY <1>1, <1>3 DEF Accounted
  <2>1. i \in Entries /\ (i > wcursor \/ i \in 1..wcursor)
    BY <1>2 DEF Logged, Entries
  <2> QED
    BY <1>1, <1>2, <2>1 DEF Accounted
<1> QED
  BY <1>1, <1>2, <1>4, ReaderKept DEF CursorInv, InFlight

LEMMA ReadStep == Inv /\ ReadNext => CursorInv'
<1> SUFFICES ASSUME Inv, ReadNext PROVE CursorInv'
  OBVIOUS
<1> DEFINE e == Larger(rpos + 1, horizon)
<1>1. /\ UNCHANGED <<journal, mainVars, dbVars, queue, wcursor>>
      /\ Skipped' = Skipped \cup (rpos + 1 .. e - 1)
      /\ rpos' = e /\ e <= Len(journal)
      /\ worker' \in {"off", "put"}
      /\ worker' = "put" => hand' = e
      /\ hand' \in {hand, e}
  BY DEF ReadNext, Skipped, readerUnchanged
<1>2. /\ rpos \in Nat /\ e \in Nat \ {0}
      /\ hand <= Len(journal)
      /\ Accounted(Held \cup Range(queue), rpos)
  BY BoundAssumption DEF Inv, CursorInv, InFlight, WithinJournal, TypeOK,
     WorkerType, JournalType, Cursors, Larger, ReadNext
<1> HIDE DEF e
<1>3. Held' = Held /\ \A i : Logged(i)' <=> Logged(i)
  BY <1>1 DEF mainVars, dbVars, Held, Logged, Entries
<1>4. Accounted(Held \cup Range(queue), rpos - 1)'
  <2> SUFFICES ASSUME NEW i \in 1..e - 1, Logged(i)
               PROVE  i \in Held \cup Range(queue) \cup Skipped'
    BY <1>1, <1>3 DEF Accounted
  <2>1. i \in 1..rpos \/ i \in rpos + 1 .. e - 1
    BY <1>2
  <2> QED
    BY <1>1, <1>2, <2>1 DEF Accounted
<1>5. /\ WithinJournal'
      /\ CursorCovered' /\ Accounted(Range(rows), txn.cursor)'
      /\ Accounted(Held, pending)'
      /\ (main = "mark" => Range(buffer) \subseteq Range(rows))'
      /\ (\A p \in DOMAIN queue :
            Accounted(Held \cup Ahead(p), queue[p] - 1))'
      /\ Accounted(Held \cup Range(queue), wcursor)'
  <2>1. hand' <= Len(journal) /\ rpos' <= Len(journal)
    BY <1>1, <1>2
  <2> QED
    BY <1>1, <2>1, ReaderKept
<1>6. worker' = "put" => hand' = rpos' /\ Accounted(Held \cup Range(queue), hand - 1)'
  BY <1>1, <1>4 DEF Accounted
<1> QED
  BY <1>1, <1>5, <1>6 DEF CursorInv, InFlight

LEMMA PutStep == Inv /\ PutEvent => CursorInv'
<1> SUFFICES ASSUME Inv, PutEvent PROVE CursorInv'
  OBVIOUS
<1>1. /\ UNCHANGED <<journal, mainVars, dbVars, rpos, atTail, rotated>>
      /\ queue' = Append(queue, hand) /\ wcursor' = hand /\ hand' = 0
      /\ worker = "put" /\ worker' = "read"
  BY DEF PutEvent, PutRemembering, readerUnchanged
<1>2. /\ queue \in Seq(1..MaxEntries) /\ hand \in 1..MaxEntries
      /\ Len(queue) \in Nat /\ rpos = hand /\ hand <= Len(journal)
      /\ Accounted(Held \cup Range(queue), hand - 1)
  BY <1>1, BoundAssumption DEF Inv, TypeOK, WorkerType, Cursors, CursorInv,
     InFlight, WithinJournal
<1>3. /\ Range(queue)' = Range(queue) \cup {hand}
      /\ Len(queue') = Len(queue) + 1 /\ DOMAIN queue' = 1..Len(queue) + 1
      /\ \A i \in 1..Len(queue) : queue'[i] = queue[i]
      /\ queue'[Len(queue) + 1] = hand
  <2>1. queue \in Seq(1..MaxEntries) /\ hand \in 1..MaxEntries
    BY <1>2
  <2>2. Range(Append(queue, hand)) = Range(queue) \cup {hand}
    <3> DEFINE S == 1..MaxEntries
    <3>1. queue \in Seq(S) /\ hand \in S
      BY <2>1
    <3> HIDE DEF S
    <3> QED
      BY <3>1, RangeAppend
  <2>3. /\ Append(queue, hand) \in Seq(1..MaxEntries)
        /\ Len(Append(queue, hand)) = Len(queue) + 1
        /\ \A i \in 1..Len(queue) : Append(queue, hand)[i] = queue[i]
        /\ Append(queue, hand)[Len(queue) + 1] = hand
    BY <2>1, AppendProperties
  <2>4. DOMAIN Append(queue, hand) = 1..Len(queue) + 1
    BY <2>3
  <2> QED
    BY <1>1, <2>2, <2>3, <2>4
<1>4. /\ Held' = Held /\ Skipped' = Skipped
      /\ \A i : Logged(i)' <=> Logged(i)
  BY <1>1 DEF mainVars, dbVars, Held, Logged, Entries, Skipped
<1>5. UNCHANGED <<journal, main, buffer, pending, rows, cursor, txn, disk>>
  BY <1>1 DEF mainVars, dbVars
<1>6. WithinJournal'
  <2>1. 0 <= Len(journal)
    BY DEF Inv, TypeOK, JournalType
  <2> QED
    BY <1>1, <1>2, <1>3, <1>5, <2>1 DEF Inv, CursorInv, WithinJournal
<1>7. CursorCovered' /\ Accounted(Range(rows), txn.cursor)'
  BY <1>4, <1>5, StoreKept
<1>8. Accounted(Held, pending)'
  BY <1>4, <1>5 DEF Accounted, Inv, CursorInv
<1>9. Accounted(Held \cup Range(queue), wcursor)'
  <2>1. \A i \in 1..hand : i = hand \/ i \in 1..hand - 1
    BY <1>2
  <2> QED
    BY <1>1, <1>2, <1>3, <1>4, <2>1 DEF Accounted
<1>10. Accounted(Held \cup Range(queue), rpos)'
  BY <1>1, <1>2, <1>9 DEF Accounted
<1>11. (\A p \in DOMAIN queue : Accounted(Held \cup Ahead(p), queue[p] - 1))'
  <2> SUFFICES ASSUME NEW p \in 1..Len(queue) + 1
               PROVE  Accounted(Held \cup Ahead(p), queue[p] - 1)'
    BY <1>3
  <2>1. CASE p \in 1..Len(queue)
    <3>1. Ahead(p)' = Ahead(p)
      BY <1>2, <1>3, <2>1 DEF Ahead
    <3>2. Accounted(Held \cup Ahead(p), queue[p] - 1)
      BY <1>2, <2>1 DEF Inv, CursorInv, InFlight
    <3> QED
      BY <1>3, <1>4, <2>1, <3>1, <3>2 DEF Accounted
  <2>2. CASE p = Len(queue) + 1
    <3>1. Range(queue) = {queue[i] : i \in 1..Len(queue)}
      BY <1>2, RangeEquality
    <3>2. p - 1 = Len(queue)
      BY <1>2, <2>2
    <3>3. Range(queue) \subseteq Ahead(p)'
      BY <1>3, <3>1, <3>2 DEF Ahead
    <3> QED
      BY <1>2, <1>3, <1>4, <2>2, <3>3 DEF Accounted
  <2> QED
    BY <2>1, <2>2
<1> QED
  BY <1>1, <1>5, <1>6, <1>7, <1>8, <1>9, <1>10, <1>11
     DEF Inv, CursorInv, InFlight

LEMMA LogStep == ASSUME Inv, NEW u \in Units, Log(u) PROVE CursorInv'
<1>1. /\ journal' = Append(journal, u)
      /\ UNCHANGED <<main, buffer, pending, worker, wcursor, rpos, hand>>
      /\ UNCHANGED <<queue, rows, cursor, txn, disk, atTail, rotated>>
  BY DEF Log, mainVars, workerVars, dbVars, historyVars
<1>2. /\ Len(journal) \in Nat /\ Len(journal') = Len(journal) + 1
      /\ \A i \in 1..Len(journal) : journal'[i] = journal[i]
  <2>1. journal \in Seq(Units)
    BY DEF Inv, TypeOK, JournalType
  <2> QED
    BY <1>1, <2>1, AppendProperties
<1>3. Held' = Held /\ Skipped' = Skipped
  BY <1>1 DEF Held, Skipped
<1>4. \A i \in 1..Len(journal) : Logged(i)' => Logged(i)
  BY <1>2 DEF Logged, Entries
<1>5. ASSUME NEW S, NEW c \in Int, c <= Len(journal), Accounted(S, c)
      PROVE  \A i \in 1..c : Logged(i)' => i \in S \cup Skipped'
  <2>1. \A i \in 1..c : i \in 1..Len(journal)
    BY <1>2, <1>5
  <2> QED
    BY <1>3, <1>4, <1>5, <2>1 DEF Accounted
<1>6. /\ \A c \in {cursor, txn.cursor, pending, wcursor, rpos, hand} :
            c \in Int /\ c <= Len(journal)
      /\ \A p \in DOMAIN queue : queue[p] \in Int /\ queue[p] <= Len(journal)
      /\ \A image \in disk : image.cursor \in Int /\ image.cursor <= Len(journal)
  BY BoundAssumption DEF Inv, CursorInv, WithinJournal, TypeOK, StoreType,
     MainType, WorkerType, Images, Cursors, Range
<1>7. WithinJournal'
  BY <1>1, <1>2, <1>6 DEF WithinJournal, Range
<1>8. CursorCovered'
  BY <1>1, <1>5, <1>6 DEF Inv, CursorInv, CursorCovered, Covers, Image,
     Accounted
<1>9. Accounted(Range(rows), txn.cursor)' /\ Accounted(Held, pending)'
  BY <1>1, <1>3, <1>5, <1>6 DEF Inv, CursorInv, Accounted
<1>10. (\A p \in DOMAIN queue : Accounted(Held \cup Ahead(p), queue[p] - 1))'
  <2> SUFFICES ASSUME NEW p \in DOMAIN queue
               PROVE  Accounted(Held \cup Ahead(p), queue[p] - 1)'
    BY <1>1
  <2>1. Accounted(Held \cup Ahead(p), queue[p] - 1)
    BY DEF Inv, CursorInv, InFlight
  <2>2. queue[p] - 1 \in Int /\ queue[p] - 1 <= Len(journal)
    BY <1>2, <1>6
  <2>3. \A i \in 1..queue[p] - 1 :
           Logged(i)' => i \in Held \cup Ahead(p) \cup Skipped'
    BY <1>5, <2>1, <2>2
  <2> QED
    BY <1>1, <1>3, <2>3 DEF Accounted, Ahead
<1>11. Accounted(Held \cup Range(queue), wcursor)'
  BY <1>1, <1>3, <1>5, <1>6 DEF Inv, CursorInv, InFlight, Accounted
<1>12. (worker = "read" => Accounted(Held \cup Range(queue), rpos))'
  BY <1>1, <1>3, <1>5, <1>6 DEF Inv, CursorInv, InFlight, Accounted
<1>13. (worker = "put" => /\ hand = rpos
                          /\ Accounted(Held \cup Range(queue), hand - 1))'
  <2> SUFFICES ASSUME worker = "put"
               PROVE  hand = rpos /\ Accounted(Held \cup Range(queue), hand - 1)'
    BY <1>1
  <2>1. hand = rpos /\ Accounted(Held \cup Range(queue), hand - 1)
    BY DEF Inv, CursorInv, InFlight
  <2>2. hand - 1 \in Int /\ hand - 1 <= Len(journal)
    BY <1>2, <1>6
  <2>3. \A i \in 1..hand - 1 :
           Logged(i)' => i \in Held \cup Range(queue) \cup Skipped'
    BY <1>5, <2>1, <2>2
  <2> QED
    BY <1>1, <1>3, <2>1, <2>3 DEF Accounted
<1> QED
  BY <1>1, <1>7, <1>8, <1>9, <1>10, <1>11, <1>12, <1>13
     DEF Inv, CursorInv, InFlight

\* An exception in a flush that does not end the process: only the open
\* transaction changes, and what it would commit as a cursor is accounted for.
LEMMA RaiseStep ==
    ASSUME Inv, main' = "exit", UNCHANGED <<journal, rows, cursor, disk>>,
           UNCHANGED <<pending, buffer, queue, worker, wcursor, rpos, hand>>,
           UNCHANGED <<atTail, rotated>>,
           Accounted(Range(rows), txn'.cursor), txn'.cursor <= Len(journal)
    PROVE  CursorInv'
<1>1. Skipped' = Skipped /\ Held' = Held /\ \A i : Logged(i)' <=> Logged(i)
  BY DEF Skipped, Held, Logged, Entries
<1>2. WithinJournal'
  BY DEF Inv, CursorInv, WithinJournal
<1>3. CursorCovered'
  BY <1>1 DEF Inv, CursorInv, CursorCovered, Covers, Image, Accounted
<1>4. Accounted(Range(rows), txn.cursor)'
  BY <1>1 DEF Accounted
<1>5. Accounted(Held, pending)'
  BY <1>1 DEF Accounted, Inv, CursorInv
<1>6. InFlight'
  BY <1>1, InFlightKept
<1> QED
  BY <1>2, <1>3, <1>4, <1>5, <1>6 DEF CursorInv

LEMMA WriteFailsStep == Inv /\ WriteFails => CursorInv'
<1> SUFFICES ASSUME Inv, WriteFails PROVE CursorInv'
  OBVIOUS
<1>1. UNCHANGED <<journal, rows, cursor, disk, atTail, rotated>>
  BY DEF WriteFails
<1>2. PICK k \in 0..Len(buffer) :
           Raise(Image(txn.rows \o SubSeq(buffer, 1, k), txn.cursor))
  BY DEF WriteFails
<1>3. CASE back = "closing"
  BY <1>1, <1>2, <1>3, VanishStep DEF Raise
<1>4. CASE back # "closing"
  <2>1. \A r : Image(r, txn.cursor).cursor = txn.cursor
    BY DEF Image
  <2>2. txn'.cursor \in {0, txn.cursor}
    BY <1>2, <1>4, <2>1 DEF Raise, NoTxn
  <2>3. \A c \in {0, txn.cursor} : Accounted(Range(rows), c) /\ c <= Len(journal)
    BY DEF Inv, CursorInv, WithinJournal, Accounted, TypeOK, JournalType
  <2>4. /\ main' = "exit" /\ UNCHANGED <<pending, buffer, queue>>
        /\ UNCHANGED <<worker, wcursor, rpos, hand>>
    BY <1>2, <1>4 DEF Raise, workerVars
  <2> QED
    BY <1>1, <2>2, <2>3, <2>4, RaiseStep
<1> QED
  BY <1>3, <1>4

LEMMA MarkFailsStep == Inv /\ MarkFails => CursorInv'
<1> SUFFICES ASSUME Inv, MarkFails PROVE CursorInv'
  OBVIOUS
<1>1. /\ UNCHANGED <<journal, rows, cursor, disk, atTail, rotated>>
      /\ main = "mark"
  BY DEF MarkFails
<1>2. CASE back = "closing"
  BY <1>1, <1>2, VanishStep DEF MarkFails, Raise
<1>3. CASE back # "closing"
  <2>1. txn'.cursor \in {0, pending}
    BY <1>3 DEF MarkFails, Raise, NoTxn, Image
  <2>2. Held = Range(rows)
    BY <1>1 DEF Inv, CursorInv, Held
  <2>3. \A c \in {0, pending} : Accounted(Range(rows), c) /\ c <= Len(journal)
    BY <2>2 DEF Inv, CursorInv, WithinJournal, Accounted, TypeOK, JournalType
  <2>4. /\ main' = "exit" /\ UNCHANGED <<pending, buffer, queue>>
        /\ UNCHANGED <<worker, wcursor, rpos, hand>>
    BY <1>3 DEF MarkFails, Raise, workerVars
  <2> QED
    BY <1>1, <2>1, <2>3, <2>4, RaiseStep
<1> QED
  BY <1>2, <1>3

\* The steps that only move a thread or the disk.
LEMMA QuietSteps ==
    ASSUME Inv,
           \/ CheckStop \/ EndDrain \/ PollNothing \/ PollEvents \/ EndReport
           \/ MaybeFlush \/ FinalFlush \/ EndBackoff
           \/ ReaderStops \/ Tick \/ Checkpoint \/ Stop \/ Reboot
           \/ VacuumJournal \/ ReaderFails \/ PollFails \/ UNCHANGED vars
    PROVE  CursorInv'
<1>1. CASE \/ CheckStop \/ EndDrain \/ PollNothing \/ EndReport
           \/ MaybeFlush \/ FinalFlush
  BY <1>1, QuietStep DEF CheckStop, EndDrain, PollNothing, EndReport,
     MaybeFlush, FinalFlush, Flush, workerVars, dbVars, historyVars
<1>2. CASE PollEvents \/ PollFails
  BY <1>2, QuietStep DEF PollEvents, PollFails, workerVars, dbVars
<1>3. CASE EndBackoff \/ ReaderStops
  BY <1>3, QuietStep DEF EndBackoff, ReaderStops, WorkerGoes,
     readerUnchanged, mainVars, dbVars
<1>4. CASE Tick \/ Checkpoint
  BY <1>4, QuietStep DEF Tick, Checkpoint, mainVars, workerVars, dbVars,
     historyVars
<1>5. CASE Stop
  BY <1>5, QuietStep DEF Stop, workerVars, dbVars
<1>6. CASE Reboot \/ VacuumJournal \/ ReaderFails
  BY <1>6, QuietStep DEF Reboot, VacuumJournal, ReaderFails, mainVars,
     workerVars, dbVars
<1>7. CASE UNCHANGED vars
  BY <1>7, QuietStep DEF vars, mainVars, workerVars, dbVars, historyVars
<1> QED
  BY <1>1, <1>2, <1>3, <1>4, <1>5, <1>6, <1>7

\* The steps that end the process.
LEMMA VanishSteps == Inv /\ (Close \/ Kill \/ PowerLoss) => CursorInv'
<1> SUFFICES ASSUME Inv, Close \/ Kill \/ PowerLoss PROVE CursorInv'
  OBVIOUS
<1>1. CASE Close \/ Kill
  BY <1>1, VanishStep DEF Close, Kill, historyVars
<1>2. CASE PowerLoss
  <2>1. PICK image \in disk : rows' = image.rows /\ cursor' = image.cursor
                              /\ disk' = {image}
    BY <1>2 DEF PowerLoss
  <2>2. image = Image(image.rows, image.cursor)
    BY <2>1 DEF Inv, TypeOK, StoreType, Images, Image
  <2> QED
    BY <1>2, <2>1, <2>2, VanishStep DEF PowerLoss
<1> QED
  BY <1>1, <1>2

LEMMA InvInit == Init => Inv
  BY TypeInit, CursorInit DEF Inv

LEMMA InvNext == Inv /\ [Next]_vars => Inv'
<1> SUFFICES ASSUME Inv, [Next]_vars PROVE Inv'
  OBVIOUS
<1>1. TypeOK'
  BY MainStepType, WorkerStepType, OutsideType, DisturbanceType,
     StutterType DEF Inv, Next
<1>2. CursorInv'
  BY StartStep, DrainStep, ReportStep, WriteStep, MarkStep, OpenStep,
     ReadStep, PutStep, LogStep, SeekFailsStep, WriteFailsStep,
     MarkFailsStep, QuietSteps, VanishSteps
     DEF Next, MainStep, WorkerStep, Disturbance
<1> QED
  BY <1>1, <1>2 DEF Inv

\* Whatever the interleaving of the two threads and whatever happens to the
\* process, the disk or the journal, every watched entry up to the persisted
\* cursor is stored or was out of the reader's sight: a restart from the
\* cursor (Pipeline.flush, JournalSource._open) loses nothing.
THEOREM CursorSafe == Spec => []CursorCovered
<1>1. Inv => CursorCovered
  BY DEF Inv, CursorInv
<1> QED
  BY <1>1, InvInit, InvNext, PTL DEF Spec

\* The way of an entry from the journal to the cursor, which is what makes a
\* restart safe: behind each position of the pipeline, every watched entry is
\* stored or is in the memory behind it.
THEOREM EntriesOnTheirWay == Spec => []CursorInv
<1>1. Inv => CursorInv
  BY DEF Inv
<1> QED
  BY <1>1, InvInit, InvNext, PTL DEF Spec

----------------------------------------------------------------------------
(***************************************************************************)
(* Entries keep the order of the journal all the way to the rows, and the  *)
(* cursor only moves forward, for any number of units, entries and         *)
(* disturbances and any sizes of batch and queue.                          *)
(*                                                                         *)
(* The positions of the pipeline are ordered: what is stored is at most    *)
(* the cursor, the cursor at most the pending one, that one below          *)
(* everything in the queue, which is at most the thread's cursor, which is *)
(* below what the thread holds.  A torn flush breaks only what this says   *)
(* of the rows.                                                            *)
(***************************************************************************)

\* The entries of s increase; they are at most c; they are beyond c.
Rising(s) ==
    \A i, j \in DOMAIN s : i < j /\ s[i] # 0 /\ s[j] # 0 => s[i] < s[j]
UpTo(s, c) == \A i \in DOMAIN s : s[i] <= c
Beyond(s, c) == \A i \in DOMAIN s : s[i] # 0 => c < s[i]

NothingWhenDown ==
    main = "down" =>
        /\ queue = <<>> /\ buffer = <<>> /\ pending = 0
        /\ worker = "off" /\ txn = NoTxn

Marks ==
    /\ pending = 0 \/ cursor <= pending
    /\ txn.cursor <= pending
    /\ main = "mark" => pending # 0
    /\ main = "closing" => buffer = <<>>

Reader ==
    /\ main # "down" => cursor <= wcursor
    /\ pending <= wcursor
    /\ worker = "read" => wcursor <= rpos
    /\ worker = "put" => wcursor < hand

QueueOrder ==
    /\ Rising(queue) /\ UpTo(queue, wcursor)
    /\ Beyond(queue, cursor) /\ Beyond(queue, pending)

RowOrder ==
    torn = 0 =>
        /\ Rising(rows) /\ Rising(buffer) /\ UpTo(buffer, pending)
        /\ txn = NoTxn
        /\ IF main = "mark" THEN UpTo(rows, pending)
           ELSE UpTo(rows, cursor) /\ Beyond(buffer, cursor)
        /\ \A image \in disk : Rising(image.rows)

OrderInv == NothingWhenDown /\ Marks /\ Reader /\ QueueOrder /\ RowOrder
Good == Inv /\ OrderInv

----------------------------------------------------------------------------
(* Sequences. *)

LEMMA EmptyOrder ==
    /\ Rising(<<>>)
    /\ \A c : UpTo(<<>>, c) /\ Beyond(<<>>, c)
  BY DEF Rising, UpTo, Beyond

LEMMA Elements ==
    ASSUME NEW S, NEW s \in Seq(S)
    PROVE  /\ DOMAIN s = 1..Len(s) /\ Len(s) \in Nat
           /\ \A i \in 1..Len(s) : s[i] \in S
  BY ElementOfSeq

LEMMA AppendOrder ==
    ASSUME NEW S \in SUBSET Nat, NEW s \in Seq(S), NEW e \in S,
           NEW c \in Nat, Rising(s), UpTo(s, c), e = 0 \/ c < e
    PROVE  Rising(Append(s, e))
<1>1. /\ DOMAIN Append(s, e) = 1..Len(s) + 1 /\ DOMAIN s = 1..Len(s)
      /\ Len(s) \in Nat
      /\ \A i \in 1..Len(s) : Append(s, e)[i] = s[i]
      /\ Append(s, e)[Len(s) + 1] = e
  <2>1. Append(s, e) \in Seq(S) /\ Len(Append(s, e)) = Len(s) + 1
    BY AppendProperties
  <2> QED
    BY <2>1, AppendProperties
<1>2. \A i \in 1..Len(s) : s[i] \in Nat
  BY Elements
<1> SUFFICES ASSUME NEW i \in 1..Len(s) + 1, NEW j \in 1..Len(s) + 1,
                    i < j, Append(s, e)[i] # 0, Append(s, e)[j] # 0
             PROVE  Append(s, e)[i] < Append(s, e)[j]
  BY <1>1 DEF Rising
<1>3. i \in 1..Len(s)
  BY <1>1
<1>4. CASE j \in 1..Len(s)
  BY <1>1, <1>3, <1>4 DEF Rising
<1>5. CASE j = Len(s) + 1
  BY <1>1, <1>2, <1>3, <1>5 DEF UpTo
<1> QED
  BY <1>1, <1>4, <1>5

LEMMA AppendBounds ==
    ASSUME NEW S \in SUBSET Nat, NEW s \in Seq(S), NEW e \in S, NEW c \in Nat
    PROVE  /\ UpTo(s, c) /\ e <= c => UpTo(Append(s, e), c)
           /\ Beyond(s, c) /\ (e = 0 \/ c < e) => Beyond(Append(s, e), c)
<1>1. /\ DOMAIN Append(s, e) = 1..Len(s) + 1 /\ DOMAIN s = 1..Len(s)
      /\ Len(s) \in Nat
      /\ \A i \in 1..Len(s) : Append(s, e)[i] = s[i]
      /\ Append(s, e)[Len(s) + 1] = e
  <2>1. Append(s, e) \in Seq(S) /\ Len(Append(s, e)) = Len(s) + 1
    BY AppendProperties
  <2> QED
    BY <2>1, AppendProperties
<1> QED
  BY <1>1 DEF UpTo, Beyond

LEMMA ConcatOrder ==
    ASSUME NEW S \in SUBSET Nat, NEW s \in Seq(S), NEW t \in Seq(S),
           NEW c \in Nat, Rising(s), Rising(t), UpTo(s, c), Beyond(t, c)
    PROVE  Rising(s \o t)
<1>1. /\ DOMAIN (s \o t) = 1..Len(s) + Len(t)
      /\ DOMAIN s = 1..Len(s) /\ DOMAIN t = 1..Len(t)
      /\ Len(s) \in Nat /\ Len(t) \in Nat
      /\ \A i \in 1..Len(s) + Len(t) :
            (s \o t)[i] = IF i <= Len(s) THEN s[i] ELSE t[i - Len(s)]
  BY ConcatProperties
<1>2. /\ \A i \in 1..Len(s) : s[i] \in Nat
      /\ \A i \in 1..Len(t) : t[i] \in Nat
  BY Elements
<1> SUFFICES ASSUME NEW i \in 1..Len(s) + Len(t),
                    NEW j \in 1..Len(s) + Len(t),
                    i < j, (s \o t)[i] # 0, (s \o t)[j] # 0
             PROVE  (s \o t)[i] < (s \o t)[j]
  BY <1>1 DEF Rising
<1>3. CASE j <= Len(s)
  <2>1. i \in 1..Len(s) /\ j \in 1..Len(s)
    BY <1>1, <1>3
  <2>2. (s \o t)[i] = s[i] /\ (s \o t)[j] = s[j]
    BY <1>1, <2>1
  <2> QED
    BY <1>1, <2>1, <2>2 DEF Rising
<1>4. CASE Len(s) < i
  <2>1. i - Len(s) \in 1..Len(t) /\ j - Len(s) \in 1..Len(t)
        /\ i - Len(s) < j - Len(s)
    BY <1>1, <1>4
  <2>2. (s \o t)[i] = t[i - Len(s)] /\ (s \o t)[j] = t[j - Len(s)]
    BY <1>1, <1>4
  <2> QED
    BY <1>1, <2>1, <2>2 DEF Rising
<1>5. CASE i <= Len(s) /\ Len(s) < j
  <2>1. i \in 1..Len(s) /\ j - Len(s) \in 1..Len(t)
    BY <1>1, <1>5
  <2>2. (s \o t)[i] = s[i] /\ (s \o t)[j] = t[j - Len(s)]
    BY <1>1, <1>5
  <2>3. s[i] <= c /\ c < t[j - Len(s)]
    BY <1>1, <2>1, <2>2 DEF UpTo, Beyond
  <2> QED
    BY <1>2, <2>1, <2>2, <2>3
<1> QED
  BY <1>1, <1>3, <1>4, <1>5

LEMMA ConcatUpTo ==
    ASSUME NEW S \in SUBSET Nat, NEW s \in Seq(S), NEW t \in Seq(S),
           NEW c \in Nat, UpTo(s, c), UpTo(t, c)
    PROVE  UpTo(s \o t, c)
<1>1. /\ DOMAIN (s \o t) = 1..Len(s) + Len(t)
      /\ DOMAIN s = 1..Len(s) /\ DOMAIN t = 1..Len(t)
      /\ Len(s) \in Nat /\ Len(t) \in Nat
      /\ \A i \in 1..Len(s) + Len(t) :
            (s \o t)[i] = IF i <= Len(s) THEN s[i] ELSE t[i - Len(s)]
  BY ConcatProperties
<1> SUFFICES ASSUME NEW i \in 1..Len(s) + Len(t)
             PROVE  (s \o t)[i] <= c
  BY <1>1 DEF UpTo
<1>2. CASE i <= Len(s)
  BY <1>1, <1>2 DEF UpTo
<1>3. CASE Len(s) < i
  <2>1. i - Len(s) \in 1..Len(t)
    BY <1>1, <1>3
  <2> QED
    BY <1>1, <1>3, <2>1 DEF UpTo
<1> QED
  BY <1>1, <1>2, <1>3

\* A longer reach.
LEMMA UpToMore ==
    ASSUME NEW S \in SUBSET Nat, NEW s \in Seq(S), NEW c \in Nat,
           NEW d \in Nat, c <= d
    PROVE  /\ UpTo(s, c) => UpTo(s, d)
           /\ Beyond(s, d) => Beyond(s, c)
<1>1. \A i \in DOMAIN s : s[i] \in Nat
  BY Elements
<1> QED
  BY <1>1 DEF UpTo, Beyond

\* What is left of a queue is beyond its head.
LEMMA TailOrder ==
    ASSUME NEW S \in SUBSET (Nat \ {0}), NEW s \in Seq(S), s # <<>>,
           Rising(s)
    PROVE  /\ Rising(Tail(s)) /\ Beyond(Tail(s), Head(s))
           /\ \A c : UpTo(s, c) => UpTo(Tail(s), c) /\ Head(s) <= c
           /\ \A c : Beyond(s, c) => Beyond(Tail(s), c) /\ c < Head(s)
<1>1. /\ Tail(s) \in Seq(S) /\ Len(Tail(s)) = Len(s) - 1
      /\ \A i \in 1..Len(s) - 1 : Tail(s)[i] = s[i + 1]
      /\ Head(s) = s[1] /\ Len(s) \in Nat \ {0}
  BY HeadTailProperties
<1>2. /\ DOMAIN Tail(s) = 1..Len(s) - 1 /\ DOMAIN s = 1..Len(s)
      /\ \A i \in 1..Len(s) - 1 : i + 1 \in 1..Len(s) /\ 1 < i + 1
      /\ 1 \in 1..Len(s)
  BY <1>1
<1>3. \A i \in 1..Len(s) : s[i] \in Nat /\ s[i] # 0
  BY Elements
<1>4. Rising(Tail(s))
  <2> SUFFICES ASSUME NEW i \in 1..Len(s) - 1, NEW j \in 1..Len(s) - 1, i < j
               PROVE  s[i + 1] < s[j + 1]
    BY <1>1, <1>2 DEF Rising
  <2>1. i + 1 < j + 1
    BY <1>1
  <2> QED
    BY <1>2, <1>3, <2>1 DEF Rising
<1>5. Beyond(Tail(s), Head(s))
  BY <1>1, <1>2, <1>3 DEF Rising, Beyond
<1>6. \A c : UpTo(s, c) => UpTo(Tail(s), c) /\ Head(s) <= c
  BY <1>1, <1>2 DEF UpTo
<1>7. \A c : Beyond(s, c) => Beyond(Tail(s), c) /\ c < Head(s)
  BY <1>1, <1>2, <1>3 DEF Beyond
<1> QED
  BY <1>4, <1>5, <1>6, <1>7

----------------------------------------------------------------------------
(* Steps. *)

LEMMA Numbers ==
    ASSUME TypeOK
    PROVE  /\ cursor \in Nat /\ pending \in Nat /\ wcursor \in Nat
           /\ rpos \in Nat /\ hand \in Nat /\ txn.cursor \in Nat
           /\ torn \in Nat /\ Cursors \in SUBSET Nat
           /\ rows \in Seq(Cursors) /\ buffer \in Seq(Cursors)
           /\ queue \in Seq(1..MaxEntries)
           /\ 1..MaxEntries \in SUBSET (Nat \ {0})
<1>1. Cursors \in SUBSET Nat /\ 1..MaxEntries \in SUBSET (Nat \ {0})
  BY BoundAssumption DEF Cursors
<1> QED
  BY <1>1 DEF TypeOK, StoreType, MainType, WorkerType, HistoryType, Images

\* Threads move, the journal grows, the disk forgets old images.
LEMMA QuietOrder ==
    ASSUME Good,
           UNCHANGED <<rows, cursor, txn, pending, buffer, queue, wcursor>>,
           UNCHANGED <<rpos, hand, torn>>,
           disk' \subseteq disk \cup {Image(rows, cursor)},
           main' = "mark" <=> main = "mark",
           main' = "down" <=> main = "down",
           main' = "closing" => main = "closing" \/ buffer = <<>>,
           worker' \in {"read", "put"} => worker' = worker,
           worker = "off" => worker' = "off"
    PROVE  OrderInv'
<1> USE DEF Good, OrderInv
<1>1. NothingWhenDown'
  BY DEF NothingWhenDown
<1>2. Marks'
  BY DEF Marks
<1>3. Reader'
  BY DEF Reader
<1>4. QueueOrder'
  BY DEF QueueOrder, Rising, UpTo, Beyond
<1>5. RowOrder'
  <2>1. Image(rows, cursor).rows = rows
    BY DEF Image
  <2>2. torn = 0 => \A image \in disk' : Rising(image.rows)
    BY <2>1 DEF RowOrder
  <2>3. /\ Rising(rows)' <=> Rising(rows)
        /\ Rising(buffer)' <=> Rising(buffer)
        /\ UpTo(buffer, pending)' <=> UpTo(buffer, pending)
        /\ UpTo(rows, pending)' <=> UpTo(rows, pending)
        /\ UpTo(rows, cursor)' <=> UpTo(rows, cursor)
        /\ Beyond(buffer, cursor)' <=> Beyond(buffer, cursor)
    BY DEF Rising, UpTo, Beyond
  <2>4. (\A image \in disk : Rising(image.rows))'
           <=> \A image \in disk' : Rising(image.rows)
    BY DEF Rising
  <2> QED
    BY <2>2, <2>3, <2>4 DEF RowOrder
<1> QED
  BY <1>1, <1>2, <1>3, <1>4, <1>5

\* The process ends, and what is stored is in order unless a flush was torn.
LEMMA VanishOrder ==
    ASSUME Vanish, cursor' \in Nat,
           torn' = 0 => /\ Rising(rows') /\ UpTo(rows', cursor')
                        /\ \A image \in disk' : Rising(image.rows)
    PROVE  OrderInv'
<1> USE DEF Vanish
<1>1. NothingWhenDown' /\ Marks' /\ Reader'
  BY DEF NothingWhenDown, Marks, Reader, NoTxn
<1>2. QueueOrder'
  BY EmptyOrder DEF QueueOrder
<1>3. RowOrder'
  BY EmptyOrder DEF RowOrder
<1> QED
  BY <1>1, <1>2, <1>3 DEF OrderInv

\* Pipeline.submit of an event beyond everything submitted before.
LEMMA SubmitOrder ==
    ASSUME Good, NEW e \in Cursors, NEW pc \in {"more", "report"},
           Submit(e, pc), main \in {"drain", "more", "report"},
           UNCHANGED <<rows, cursor, txn, disk, torn, wcursor, rpos, hand>>,
           worker' = worker,
           e # 0 => cursor < e /\ pending < e /\ e <= wcursor,
           Rising(queue'), UpTo(queue', wcursor), Beyond(queue', cursor),
           Beyond(queue', pending), e # 0 => Beyond(queue', e)
    PROVE  OrderInv'
<1> USE DEF Good, OrderInv, Inv
<1>1. /\ main' \in {"write", "more", "report"}
      /\ \/ UNCHANGED <<buffer, pending>>
         \/ /\ buffer' = Append(buffer, e)
            /\ pending' = IF e = 0 THEN pending ELSE e
  BY DEF Submit, SubmitUpTo
<1>2. pending' = pending \/ (pending' = e /\ e # 0)
  BY <1>1
<1>3. /\ cursor \in Nat /\ pending \in Nat /\ wcursor \in Nat /\ e \in Nat
      /\ Cursors \in SUBSET Nat /\ buffer \in Seq(Cursors)
      /\ txn.cursor \in Nat
  BY Numbers
<1>4. NothingWhenDown'
  BY <1>1 DEF NothingWhenDown
<1>5. Marks'
  BY <1>1, <1>2, <1>3 DEF Marks
<1>6. Reader'
  BY <1>1, <1>2, <1>3 DEF Reader
<1>7. QueueOrder'
  <2>1. Beyond(queue', pending')
    BY <1>2
  <2> QED
    BY <2>1 DEF QueueOrder, Rising, UpTo, Beyond
<1>8. RowOrder'
  <2> SUFFICES ASSUME torn = 0
               PROVE  /\ Rising(buffer') /\ UpTo(buffer', pending')
                      /\ Beyond(buffer', cursor)
    BY <1>1 DEF RowOrder, Rising, UpTo, Beyond
  <2>1. Rising(buffer) /\ UpTo(buffer, pending) /\ Beyond(buffer, cursor)
    BY DEF RowOrder
  <2>2. CASE UNCHANGED <<buffer, pending>>
    BY <2>1, <2>2 DEF Rising, UpTo, Beyond
  <2>3. CASE /\ buffer' = Append(buffer, e)
             /\ pending' = IF e = 0 THEN pending ELSE e
    <3>1. Rising(buffer')
      BY <1>3, <2>1, <2>3, AppendOrder
    <3>2. UpTo(buffer, pending') /\ e <= pending' /\ pending' \in Nat
      BY <1>3, <2>1, <2>3, UpToMore
    <3>3. UpTo(buffer', pending')
      BY <1>3, <2>3, <3>2, AppendBounds
    <3>4. Beyond(buffer', cursor)
      BY <1>3, <2>1, <2>3, AppendBounds
    <3> QED
      BY <3>1, <3>3, <3>4
  <2> QED
    BY <1>1, <2>2, <2>3
<1> QED
  BY <1>4, <1>5, <1>6, <1>7, <1>8

LEMMA DrainOrder == Good /\ Drain => OrderInv'
<1> SUFFICES ASSUME Good, Drain PROVE OrderInv'
  OBVIOUS
<1> DEFINE e == Head(queue)
<1>1. /\ UNCHANGED <<rows, cursor, txn, disk, torn, wcursor, rpos, hand>>
      /\ worker' = worker /\ main \in {"drain", "more"}
      /\ queue # <<>> /\ queue' = Tail(queue) /\ Submit(e, "more")
  BY DEF Drain, workerVars, dbVars, historyVars
<1>2. /\ queue \in Seq(1..MaxEntries)
      /\ 1..MaxEntries \in SUBSET (Nat \ {0})
  BY Numbers DEF Good, Inv
<1>3. e \in Cursors
  BY <1>1, <1>2, HeadTailProperties, BoundAssumption DEF Cursors
<1>4. /\ Rising(queue) /\ UpTo(queue, wcursor)
      /\ Beyond(queue, cursor) /\ Beyond(queue, pending)
  BY DEF Good, OrderInv, QueueOrder
<1>5. /\ Rising(queue') /\ Beyond(queue', e)
      /\ UpTo(queue', wcursor) /\ e <= wcursor
      /\ Beyond(queue', cursor) /\ cursor < e
      /\ Beyond(queue', pending) /\ pending < e
  BY <1>1, <1>2, <1>4, TailOrder
<1> HIDE DEF e
<1> QED
  BY <1>1, <1>3, <1>5, SubmitOrder

LEMMA ReportOrder == Good /\ ReportEvent => OrderInv'
<1> SUFFICES ASSUME Good, ReportEvent PROVE OrderInv'
  OBVIOUS
<1>1. /\ UNCHANGED <<rows, cursor, txn, disk, torn, wcursor, rpos, hand>>
      /\ worker' = worker /\ main = "report"
      /\ queue' = queue /\ Submit(0, "report")
  BY DEF ReportEvent, workerVars, dbVars, historyVars
<1>2. 0 \in Cursors
  BY BoundAssumption DEF Cursors
<1>3. /\ Rising(queue) /\ UpTo(queue, wcursor)
      /\ Beyond(queue, cursor) /\ Beyond(queue, pending)
  BY DEF Good, OrderInv, QueueOrder
<1> QED
  BY <1>1, <1>2, <1>3, SubmitOrder

LEMMA WriteOrder == Good /\ WriteBatch => OrderInv'
<1> SUFFICES ASSUME Good, WriteBatch PROVE OrderInv'
  OBVIOUS
<1> USE DEF Good, OrderInv, Inv
<1>1. /\ rows' = rows \o txn.rows \o buffer
      /\ cursor' = Larger(cursor, txn.cursor) /\ txn' = NoTxn
      /\ disk' = disk \cup {Image(rows', cursor')}
      /\ UNCHANGED <<pending, queue, worker, wcursor, rpos, hand, torn>>
      /\ main = "write"
      /\ \/ pending # 0 /\ main' = "mark" /\ buffer' = buffer
         \/ pending = 0 /\ buffer' = <<>> /\ main' = back
  BY DEF WriteBatch, Commit, ClearBuffer, workerVars, historyVars
<1>2. main' # "down" /\ (main' = "mark" <=> pending # 0)
  BY <1>1 DEF TypeOK, MainType
<1>3. /\ cursor \in Nat /\ pending \in Nat /\ wcursor \in Nat
      /\ Cursors \in SUBSET Nat /\ buffer \in Seq(Cursors)
      /\ rows \in Seq(Cursors) /\ txn.cursor \in Nat
      /\ queue \in Seq(1..MaxEntries)
      /\ 1..MaxEntries \in SUBSET (Nat \ {0})
  BY Numbers
<1>4. /\ cursor' \in Nat
      /\ cursor' = cursor \/ cursor' <= pending
      /\ pending = 0 => cursor' = cursor
      /\ pending # 0 => cursor' <= pending
      /\ cursor' <= wcursor
  <2>1. cursor' \in {cursor, txn.cursor} /\ cursor <= wcursor
    BY <1>1, <1>3 DEF Larger, Reader
  <2>2. pending = 0 => cursor' = cursor
    BY <1>1, <1>3 DEF Larger, Marks
  <2> QED
    BY <1>3, <2>1, <2>2 DEF Marks, Reader
<1>5. NothingWhenDown'
  BY <1>2 DEF NothingWhenDown
<1>6. Marks'
  BY <1>1, <1>2, <1>3, <1>4 DEF Marks, NoTxn
<1>7. Reader'
  BY <1>1, <1>3, <1>4 DEF Reader
<1>8. QueueOrder'
  <2>1. Beyond(queue, cursor')
    BY <1>3, <1>4, UpToMore DEF QueueOrder
  <2> QED
    BY <1>1, <2>1 DEF QueueOrder, Rising, UpTo, Beyond
<1>9. RowOrder'
  <2> SUFFICES ASSUME torn = 0 PROVE RowOrder'
    BY <1>1 DEF RowOrder
  <2>1. /\ Rising(rows) /\ Rising(buffer) /\ UpTo(buffer, pending)
        /\ UpTo(rows, cursor) /\ Beyond(buffer, cursor) /\ txn = NoTxn
        /\ \A image \in disk : Rising(image.rows)
    BY <1>1 DEF RowOrder
  <2>2. rows' = rows \o buffer /\ cursor' = cursor
    <3>1. txn.rows = <<>> /\ txn.cursor = 0
      BY <2>1 DEF NoTxn
    <3>2. rows \o <<>> = rows
      BY <1>3, ConcatEmptySeq
    <3> QED
      BY <1>1, <1>3, <3>1, <3>2 DEF Larger
  <2>3. Rising(rows')
    BY <1>3, <2>1, <2>2, ConcatOrder
  <2>4. \A image \in disk' : Rising(image.rows)
    <3>1. Image(rows', cursor').rows = rows'
      BY DEF Image
    <3>2. Rising(Image(rows', cursor').rows)
      BY <2>3, <3>1
    <3>3. disk' = disk \cup {Image(rows', cursor')}
      BY <1>1
    <3> QED
      BY <2>1, <3>2, <3>3
  <2>5. CASE pending # 0
    <3>1. UpTo(rows, pending)
      BY <1>3, <2>1, <2>5, UpToMore DEF Marks
    <3>2. UpTo(rows', pending)
      BY <1>3, <2>1, <2>2, <3>1, ConcatUpTo
    <3> QED
      BY <1>1, <1>2, <2>1, <2>3, <2>4, <2>5, <3>2
         DEF RowOrder, Rising, UpTo, Beyond
  <2>6. CASE pending = 0
    <3>1. UpTo(buffer, cursor)
      BY <1>3, <2>1, <2>6, UpToMore
    <3>2. UpTo(rows', cursor')
      BY <1>3, <2>1, <2>2, <3>1, ConcatUpTo
    <3>3. buffer' = <<>> /\ main' # "mark"
      BY <1>1, <1>2, <2>6
    <3> QED
      BY <1>1, <2>3, <2>4, <3>2, <3>3, EmptyOrder DEF RowOrder
  <2> QED
    BY <2>5, <2>6
<1> QED
  BY <1>5, <1>6, <1>7, <1>8, <1>9

LEMMA MarkOrder == Good /\ MarkCursor => OrderInv'
<1> SUFFICES ASSUME Good, MarkCursor PROVE OrderInv'
  OBVIOUS
<1> USE DEF Good, OrderInv, Inv
<1>1. /\ rows' = rows /\ cursor' = pending /\ txn' = NoTxn /\ pending' = 0
      /\ disk' = disk \cup {Image(rows', cursor')} /\ buffer' = <<>>
      /\ main = "mark" /\ main' = back
      /\ UNCHANGED <<queue, worker, wcursor, rpos, hand, torn>>
  BY DEF MarkCursor, MarkWith, Commit, ClearBuffer, workerVars, historyVars
<1>2. main' # "mark" /\ main' # "down"
  BY <1>1 DEF TypeOK, MainType
<1>3. pending \in Nat /\ wcursor \in Nat
  BY Numbers
<1>4. NothingWhenDown' /\ Marks' /\ Reader'
  BY <1>1, <1>2, <1>3 DEF NothingWhenDown, Marks, Reader, NoTxn
<1>5. QueueOrder'
  <2>1. Beyond(queue, 0)
    <3>1. queue \in Seq(1..MaxEntries) /\ 1..MaxEntries \in SUBSET Nat
      BY Numbers
    <3>2. Beyond(queue, pending) /\ 0 <= pending
      BY <1>3 DEF QueueOrder
    <3> QED
      BY <1>3, <3>1, <3>2, UpToMore
  <2> QED
    BY <1>1, <2>1 DEF QueueOrder, Rising, UpTo, Beyond
<1>6. RowOrder'
  <2> SUFFICES ASSUME torn = 0 PROVE RowOrder'
    BY <1>1 DEF RowOrder
  <2>1. Rising(rows') /\ UpTo(rows', cursor')
        /\ \A image \in disk' : Rising(image.rows)
    BY <1>1 DEF RowOrder, Image
  <2> QED
    BY <1>1, <1>2, <2>1, EmptyOrder DEF RowOrder
<1> QED
  BY <1>4, <1>5, <1>6

LEMMA StartOrder == Good /\ StartDaemon => OrderInv'
<1> SUFFICES ASSUME Good, StartDaemon PROVE OrderInv'
  OBVIOUS
<1> USE DEF Good, OrderInv, Inv
<1>1. /\ UNCHANGED <<rows, cursor, txn, disk, buffer, queue, pending, torn>>
      /\ wcursor' = cursor /\ worker' = "open" /\ main' = "loop"
      /\ main = "down"
  BY DEF StartDaemon, StartWith, dbVars, historyVars
<1>2. queue = <<>> /\ buffer = <<>> /\ pending = 0 /\ txn = NoTxn
  BY <1>1 DEF NothingWhenDown
<1>3. cursor \in Nat
  BY Numbers
<1>4. NothingWhenDown' /\ Marks' /\ Reader'
  BY <1>1, <1>2, <1>3 DEF NothingWhenDown, Marks, Reader, NoTxn
<1>5. QueueOrder'
  BY <1>1, <1>2, EmptyOrder DEF QueueOrder
<1>6. RowOrder'
  BY <1>1 DEF RowOrder, Rising, UpTo, Beyond
<1> QED
  BY <1>4, <1>5, <1>6

\* The reader takes a position at or beyond the thread's cursor.
LEMMA PositionOrder ==
    ASSUME Good, UNCHANGED <<mainVars, dbVars, queue, wcursor, torn>>,
           worker # "off", hand' \in Nat,
           worker' \in {"off", "read", "put"},
           worker' = "read" => wcursor <= rpos',
           worker' = "put" => wcursor < hand'
    PROVE  OrderInv'
<1> USE DEF Good, OrderInv, mainVars, dbVars
<1>1. NothingWhenDown' /\ Marks'
  BY DEF NothingWhenDown, Marks
<1>2. Reader'
  BY DEF Reader
<1>3. QueueOrder'
  BY DEF QueueOrder, Rising, UpTo, Beyond
<1>4. RowOrder'
  BY DEF RowOrder, Rising, UpTo, Beyond
<1> QED
  BY <1>1, <1>2, <1>3, <1>4

LEMMA OpenOrder == Good /\ (OpenAtCursor \/ OpenAtTail \/ SeekFails) => OrderInv'
<1> SUFFICES ASSUME Good, OpenAtCursor \/ OpenAtTail \/ SeekFails
             PROVE  OrderInv'
  OBVIOUS
<1>1. /\ UNCHANGED <<mainVars, dbVars, queue, wcursor, hand, torn>>
      /\ worker = "open" /\ worker' = "read"
  BY DEF OpenAtCursor, OpenAtTail, SeekFails, StartAfter, StartReading,
     readerUnchanged
<1>2. /\ wcursor \in Nat /\ hand \in Nat /\ wcursor <= Len(journal)
      /\ Len(journal) \in Nat /\ horizon \in Nat
  BY Numbers DEF Good, Inv, CursorInv, WithinJournal, TypeOK, JournalType
<1>3. wcursor <= rpos'
  <2>1. CASE OpenAtCursor
    BY <1>2, <2>1 DEF OpenAtCursor, StartAfter, StartReading, Smaller
  <2>2. CASE OpenAtTail
    BY <1>2, <2>2 DEF OpenAtTail, StartAfter, StartReading
  <2>3. CASE SeekFails
    BY <1>2, <2>3 DEF SeekFails
  <2> QED
    BY <2>1, <2>2, <2>3
<1> QED
  BY <1>1, <1>2, <1>3, PositionOrder

LEMMA ReadOrder == Good /\ ReadNext => OrderInv'
<1> SUFFICES ASSUME Good, ReadNext PROVE OrderInv'
  OBVIOUS
<1> DEFINE e == Larger(rpos + 1, horizon)
<1>1. /\ UNCHANGED <<mainVars, dbVars, queue, wcursor, torn>>
      /\ worker = "read"
      /\ \/ worker' = "off" /\ hand' = hand
         \/ worker' = "put" /\ hand' = e
  BY DEF ReadNext, readerUnchanged
<1>2. /\ rpos \in Nat /\ horizon \in Nat /\ wcursor \in Nat /\ hand \in Nat
      /\ wcursor <= rpos
  BY <1>1, Numbers DEF Good, Inv, TypeOK, JournalType, OrderInv, Reader
<1>3. e \in Nat /\ wcursor < e
  BY <1>2 DEF Larger
<1> HIDE DEF e
<1>4. hand' \in Nat /\ (worker' = "put" => wcursor < hand')
      /\ worker' \in {"off", "put"}
  BY <1>1, <1>2, <1>3
<1> QED
  BY <1>1, <1>4, PositionOrder

LEMMA PutOrder == Good /\ PutEvent => OrderInv'
<1> SUFFICES ASSUME Good, PutEvent PROVE OrderInv'
  OBVIOUS
<1>1. /\ UNCHANGED <<mainVars, dbVars, rpos, torn>>
      /\ queue' = Append(queue, hand) /\ wcursor' = hand
      /\ worker = "put" /\ worker' = "read"
  BY DEF PutEvent, PutRemembering, readerUnchanged
<1>2. /\ queue \in Seq(1..MaxEntries) /\ 1..MaxEntries \in SUBSET Nat
      /\ hand \in 1..MaxEntries
      /\ wcursor \in Nat /\ cursor \in Nat /\ pending \in Nat
  BY <1>1, Numbers, BoundAssumption
     DEF Good, Inv, TypeOK, WorkerType, Cursors
<1>3. /\ main # "down" => cursor <= wcursor
      /\ pending <= wcursor /\ wcursor < hand
      /\ Rising(queue) /\ UpTo(queue, wcursor)
      /\ Beyond(queue, cursor) /\ Beyond(queue, pending)
  BY <1>1 DEF Good, OrderInv, Reader, QueueOrder
<1>4. main # "down"
  BY <1>1 DEF Good, OrderInv, NothingWhenDown
<1>5. hand \in Nat /\ hand <= hand /\ wcursor <= hand /\ cursor < hand
      /\ pending < hand
  BY <1>2, <1>3, <1>4
<1>6. /\ UNCHANGED <<main, pending, buffer, rows, cursor, txn, disk>>
  BY <1>1 DEF mainVars, dbVars
<1>7. NothingWhenDown' /\ Marks' /\ Reader'
  <2>1. rpos = hand
    BY <1>1 DEF Good, Inv, CursorInv, InFlight
  <2>2. NothingWhenDown' /\ Marks'
    BY <1>4, <1>6 DEF Good, OrderInv, NothingWhenDown, Marks
  <2> QED
    BY <1>1, <1>2, <1>5, <1>6, <2>1, <2>2 DEF Reader
<1>8. QueueOrder'
  <2> DEFINE S == 1..MaxEntries
  <2>1. queue \in Seq(S) /\ S \in SUBSET Nat /\ hand \in S
    BY <1>2
  <2> HIDE DEF S
  <2>2. Rising(queue')
    BY <1>1, <1>2, <1>3, <2>1, AppendOrder
  <2>3. UpTo(queue', hand)
    <3>1. UpTo(queue, hand)
      BY <1>2, <1>3, <1>5, <2>1, UpToMore
    <3> QED
      BY <1>1, <1>5, <2>1, <3>1, AppendBounds
  <2>4. Beyond(queue', cursor)
    BY <1>1, <1>2, <1>3, <1>5, <2>1, AppendBounds
  <2>5. Beyond(queue', pending)
    BY <1>1, <1>2, <1>3, <1>5, <2>1, AppendBounds
  <2> QED
    BY <1>1, <1>6, <2>2, <2>3, <2>4, <2>5 DEF QueueOrder
<1>9. RowOrder'
  BY <1>1, <1>6 DEF Good, OrderInv, RowOrder, Rising, UpTo, Beyond
<1> QED
  BY <1>7, <1>8, <1>9 DEF OrderInv

\* An exception that is not the end of the process keeps the rows and what
\* is buffered; a torn flush is counted.
LEMMA RaiseOrder ==
    ASSUME Good, main' = "exit", main # "down", torn' \in Nat,
           UNCHANGED <<rows, cursor, disk, pending, buffer, queue, worker>>,
           UNCHANGED <<wcursor, rpos, hand>>,
           txn'.cursor <= pending,
           torn' = 0 => torn = 0 /\ main # "mark" /\ txn' = NoTxn
    PROVE  OrderInv'
<1> USE DEF Good, OrderInv
<1>1. NothingWhenDown' /\ Marks' /\ Reader'
  BY DEF NothingWhenDown, Marks, Reader
<1>2. QueueOrder'
  BY DEF QueueOrder, Rising, UpTo, Beyond
<1>3. RowOrder'
  BY DEF RowOrder, Rising, UpTo, Beyond
<1> QED
  BY <1>1, <1>2, <1>3

LEMMA WriteFailsOrder == Good /\ WriteFails => OrderInv'
<1> SUFFICES ASSUME Good, WriteFails PROVE OrderInv'
  OBVIOUS
<1> USE DEF Good, OrderInv
<1>1. UNCHANGED <<rows, cursor, disk>> /\ main = "write"
      /\ torn' = IF txn'.rows = <<>> THEN torn ELSE torn + 1
  BY DEF WriteFails
<1>2. torn \in Nat /\ pending \in Nat /\ cursor \in Nat
      /\ txn.cursor \in Nat
  BY Numbers DEF Inv
<1>3. torn' = 0 => torn = 0 /\ txn'.rows = <<>>
  BY <1>1, <1>2
<1>4. PICK k \in 0..Len(buffer) :
           Raise(Image(txn.rows \o SubSeq(buffer, 1, k), txn.cursor))
  BY DEF WriteFails
<1>5. CASE back = "closing"
  <2>1. Vanish
    BY <1>4, <1>5 DEF Raise
  <2>2. torn' = 0 => Rising(rows) /\ UpTo(rows, cursor)
                     /\ \A image \in disk : Rising(image.rows)
    BY <1>1, <1>3 DEF RowOrder
  <2> QED
    BY <1>1, <1>2, <2>1, <2>2, VanishOrder
<1>6. CASE back # "closing"
  <2>1. \A r, c : Image(r, c).cursor = c /\ Image(r, c).rows = r
    BY DEF Image
  <2>2. txn'.cursor \in {0, txn.cursor}
    BY <1>4, <1>6, <2>1 DEF Raise, NoTxn
  <2>3. txn'.cursor <= pending
    BY <1>2, <2>2 DEF Marks
  <2>4. torn' = 0 => txn' = NoTxn
    <3> SUFFICES ASSUME torn' = 0
                 PROVE  txn' = NoTxn
      OBVIOUS
    <3>1. txn = NoTxn /\ txn'.rows = <<>>
      BY <1>3 DEF RowOrder
    <3>2. txn.cursor = 0
      BY <3>1 DEF NoTxn
    <3>3. CASE txn' = NoTxn
      BY <3>3
    <3>4. CASE txn' = Image(txn.rows \o SubSeq(buffer, 1, k), txn.cursor)
      <4>1. txn' = Image(txn'.rows, txn.cursor)
        BY <2>1, <3>4
      <4> QED
        BY <3>1, <3>2, <4>1 DEF Image, NoTxn
    <3> QED
      BY <1>4, <1>6, <3>3, <3>4 DEF Raise
  <2>5. /\ main' = "exit" /\ UNCHANGED <<pending, buffer, queue>>
        /\ UNCHANGED <<worker, wcursor, rpos, hand>>
    BY <1>4, <1>6 DEF Raise, workerVars
  <2> QED
    BY <1>1, <1>2, <1>3, <2>3, <2>4, <2>5, RaiseOrder
<1> QED
  BY <1>5, <1>6

LEMMA MarkFailsOrder == Good /\ MarkFails => OrderInv'
<1> SUFFICES ASSUME Good, MarkFails PROVE OrderInv'
  OBVIOUS
<1> USE DEF Good, OrderInv
<1>1. UNCHANGED <<rows, cursor, disk>> /\ main = "mark" /\ torn' = torn + 1
  BY DEF MarkFails
<1>2. torn \in Nat /\ pending \in Nat /\ cursor \in Nat
  BY Numbers DEF Inv
<1>3. torn' \in Nat /\ torn' # 0
  BY <1>1, <1>2
<1>4. CASE back = "closing"
  BY <1>1, <1>2, <1>3, <1>4, VanishOrder DEF MarkFails, Raise
<1>5. CASE back # "closing"
  <2>1. txn'.cursor \in {0, pending}
    BY <1>5 DEF MarkFails, Raise, NoTxn, Image
  <2>2. txn'.cursor <= pending
    BY <1>2, <2>1
  <2>3. /\ main' = "exit" /\ UNCHANGED <<pending, buffer, queue>>
        /\ UNCHANGED <<worker, wcursor, rpos, hand>>
    BY <1>5 DEF MarkFails, Raise, workerVars
  <2> QED
    BY <1>1, <1>3, <2>2, <2>3, RaiseOrder
<1> QED
  BY <1>4, <1>5

LEMMA EndOrder == Good /\ (Close \/ Kill \/ PowerLoss) => OrderInv'
<1> SUFFICES ASSUME Good, Close \/ Kill \/ PowerLoss PROVE OrderInv'
  OBVIOUS
<1> USE DEF Good, OrderInv
<1>1. torn \in Nat /\ cursor \in Nat
  BY Numbers DEF Inv
<1>2. Image(rows, cursor).rows = rows
  BY DEF Image
<1>3. CASE Close
  <2>1. torn' = 0 => /\ Rising(rows) /\ UpTo(rows, cursor)
                     /\ \A image \in disk' : Rising(image.rows)
    BY <1>2, <1>3 DEF Close, RowOrder, historyVars
  <2> QED
    BY <1>1, <1>3, <2>1, VanishOrder DEF Close
<1>4. CASE Kill
  <2>1. torn' = 0 => /\ Rising(rows) /\ UpTo(rows, cursor)
                     /\ \A image \in disk : Rising(image.rows)
    BY <1>1, <1>4 DEF Kill, RowOrder
  <2> QED
    BY <1>1, <1>4, <2>1, VanishOrder DEF Kill
<1>5. CASE PowerLoss
  <2>1. PICK image \in disk :
           /\ rows' = image.rows /\ cursor' = image.cursor /\ disk' = {image}
           /\ torn' = IF Half(image) THEN torn + 1 ELSE torn
    BY <1>5 DEF PowerLoss
  <2>2. /\ image.cursor \in Nat /\ image.rows \in Seq(Cursors)
        /\ Cursors \in SUBSET Nat
    BY Numbers DEF Inv, TypeOK, StoreType, Images
  <2>3. torn' = 0 => torn = 0 /\ ~Half(image)
    BY <1>1, <2>1
  <2>4. ~Half(image) => UpTo(image.rows, image.cursor)
    <3> SUFFICES ASSUME ~Half(image), NEW i \in DOMAIN image.rows
                 PROVE  image.rows[i] <= image.cursor
      BY DEF UpTo
    <3>1. image.rows[i] \in Nat
      BY <2>2, Elements
    <3>2. image.rows[i] \in Range(image.rows)
      BY DEF Range
    <3>3. ~(image.rows[i] > image.cursor)
      BY <3>2 DEF Half
    <3> QED
      BY <2>2, <3>1, <3>3
  <2>5. torn = 0 => Rising(image.rows)
    BY DEF RowOrder
  <2> QED
    BY <1>5, <2>1, <2>2, <2>3, <2>4, <2>5, VanishOrder DEF PowerLoss
<1> QED
  BY <1>3, <1>4, <1>5

\* The steps that only move a thread, the journal or the disk.
LEMMA QuietOrders ==
    ASSUME Good,
           \/ CheckStop \/ EndDrain \/ PollNothing \/ PollEvents \/ EndReport
           \/ MaybeFlush \/ FinalFlush \/ EndBackoff
           \/ ReaderStops \/ Tick \/ Checkpoint \/ Stop \/ Reboot
           \/ VacuumJournal \/ ReaderFails \/ PollFails \/ UNCHANGED vars
           \/ \E u \in Units : Log(u)
    PROVE  OrderInv'
<1>1. CASE \/ CheckStop \/ EndDrain \/ PollNothing \/ EndReport
           \/ MaybeFlush \/ FinalFlush
  BY <1>1, QuietOrder DEF CheckStop, EndDrain, PollNothing, EndReport,
     MaybeFlush, FinalFlush, Flush, workerVars, dbVars, historyVars
<1>2. CASE PollEvents \/ PollFails
  BY <1>2, QuietOrder DEF PollEvents, PollFails, workerVars, dbVars
<1>3. CASE EndBackoff \/ ReaderStops
  BY <1>3, QuietOrder DEF EndBackoff, ReaderStops, WorkerGoes,
     readerUnchanged, mainVars, dbVars
<1>4. CASE Tick \/ Checkpoint
  BY <1>4, QuietOrder DEF Tick, Checkpoint, mainVars, workerVars, dbVars,
     historyVars
<1>5. CASE Stop
  BY <1>5, QuietOrder DEF Stop, workerVars, dbVars
<1>6. CASE Reboot \/ VacuumJournal \/ ReaderFails
  BY <1>6, QuietOrder DEF Reboot, VacuumJournal, ReaderFails, mainVars,
     workerVars, dbVars
<1>7. CASE UNCHANGED vars
  BY <1>7, QuietOrder DEF vars, mainVars, workerVars, dbVars, historyVars
<1>8. CASE \E u \in Units : Log(u)
  BY <1>8, QuietOrder DEF Log, mainVars, workerVars, dbVars, historyVars
<1> QED
  BY <1>1, <1>2, <1>3, <1>4, <1>5, <1>6, <1>7, <1>8

LEMMA GoodInit == Init => Good
<1> SUFFICES ASSUME Init PROVE Good
  OBVIOUS
<1>1. Inv
  BY TypeInit, CursorInit DEF Inv
<1>2. NothingWhenDown /\ Marks /\ Reader
  BY DEF Init, NothingWhenDown, Marks, Reader, NoTxn
<1>3. QueueOrder
  BY EmptyOrder DEF Init, QueueOrder
<1>4. RowOrder
  <2>1. \A image \in disk : image.rows = <<>>
    BY DEF Init, NoTxn
  <2>2. \A image \in disk : Rising(image.rows)
    BY <2>1, EmptyOrder
  <2> QED
    BY <2>2, EmptyOrder DEF Init, RowOrder
<1> QED
  BY <1>1, <1>2, <1>3, <1>4 DEF Good, OrderInv

LEMMA GoodNext == Good /\ [Next]_vars => Good'
<1> SUFFICES ASSUME Good, [Next]_vars PROVE Good'
  OBVIOUS
<1>1. Inv'
  BY InvNext DEF Good
<1>2. OrderInv'
  BY StartOrder, DrainOrder, ReportOrder, WriteOrder, MarkOrder, OpenOrder,
     ReadOrder, PutOrder, WriteFailsOrder, MarkFailsOrder, EndOrder,
     QuietOrders
     DEF Next, MainStep, WorkerStep, Disturbance
<1> QED
  BY <1>1, <1>2 DEF Good

----------------------------------------------------------------------------
(* What follows. *)

\* Unless a flush was torn, the events of the journal are stored once each
\* and in journal order, across restarts and reconnects (Pipeline.flush,
\* JournalSource._open).
THEOREM StoredInOrder == Spec => []InOrderOnce
<1>1. Good => InOrderOnce
  BY DEF Good, OrderInv, RowOrder, Rising, InOrderOnce
<1> QED
  BY <1>1, GoodInit, GoodNext, PTL DEF Spec

\* When the process ends after a stop nothing is left in the buffer and the
\* cursor is at the last event stored (the finally clause of Daemon.run).
THEOREM StopsExactly == Spec => []StopIsExact
<1>1. Good => StopIsExact
  <2> SUFFICES ASSUME Good, main = "closing"
               PROVE  /\ buffer = <<>>
                      /\ torn = 0 => \A e \in Range(rows) : e <= cursor
    BY DEF StopIsExact
  <2>1. buffer = <<>> /\ (torn = 0 => UpTo(rows, cursor))
    BY DEF Good, OrderInv, Marks, RowOrder
  <2> QED
    BY <2>1 DEF UpTo, Range
<1> QED
  BY <1>1, GoodInit, GoodNext, PTL DEF Spec

\* The persisted cursor never moves back but by a power loss.
THEOREM CursorForward == Spec => CursorMonotone
<1>1. Good /\ [Next]_vars => [cursor' >= cursor \/ PowerLoss]_vars
  <2> SUFFICES ASSUME Good, Next, ~PowerLoss PROVE cursor' >= cursor
    BY DEF vars, dbVars
  <2>1. cursor \in Nat /\ pending \in Nat /\ txn.cursor \in Nat
    BY Numbers DEF Good, Inv
  <2>2. CASE WriteBatch
    BY <2>1, <2>2 DEF WriteBatch, Commit, Larger
  <2>3. CASE MarkCursor
    BY <2>1, <2>3 DEF MarkCursor, MarkWith, Commit, Good, OrderInv, Marks
  <2>4. CASE ~WriteBatch /\ ~MarkCursor
    <3>1. cursor' = cursor
      <4>1. CASE MainStep
        BY <2>4, <4>1 DEF MainStep, StartDaemon, StartWith, CheckStop, Drain,
           EndDrain, PollNothing, PollEvents, ReportEvent, EndReport,
           MaybeFlush, FinalFlush, Close, dbVars
      <4>2. CASE WorkerStep
        BY <4>2 DEF WorkerStep, OpenAtCursor, OpenAtTail, ReadNext, PutEvent,
           PutRemembering, EndBackoff, ReaderStops, WorkerGoes, StartAfter,
           StartReading, readerUnchanged, dbVars
      <4>3. CASE Tick \/ Checkpoint \/ \E u \in Units : Log(u)
        BY <4>3 DEF Tick, Checkpoint, Log, dbVars
      <4>4. CASE Disturbance
        BY <4>4 DEF Disturbance, Stop, Kill, Reboot, VacuumJournal,
           ReaderFails, SeekFails, WriteFails, MarkFails, PollFails, dbVars
      <4> QED
        BY <4>1, <4>2, <4>3, <4>4 DEF Next
    <3> QED
      BY <2>1, <3>1
  <2> QED
    BY <2>2, <2>3, <2>4
<1> QED
  BY <1>1, GoodInit, GoodNext, PTL DEF Spec, CursorMonotone

\* A start from the tail passes over entries only while no journal event is
\* stored, or when the journal cannot find the cursor (JournalSource._open).
THEOREM TailOnlyAtFirst == Spec => TailOnlyBeforeFirstEvent
<1>1. ASSUME Good, [Next]_vars, atTail' # atTail
      PROVE  SeekFails \/ torn > 0 \/ \A e \in Range(rows) : e = 0
  <2>1. torn \in Nat /\ cursor \in Nat /\ wcursor \in Nat
        /\ rows \in Seq(Cursors) /\ Cursors \in SUBSET Nat
        /\ pending \in Nat
    BY <1>1, Numbers DEF Good, Inv
  <2>2. OpenAtTail \/ SeekFails
    <3>1. CASE MainStep
      BY <1>1, <3>1 DEF MainStep, StartDaemon, StartWith, CheckStop, Drain,
         EndDrain, PollNothing, PollEvents, ReportEvent, EndReport,
         MaybeFlush, WriteBatch, MarkCursor, MarkWith, FinalFlush, Close,
         historyVars
    <3>2. CASE WorkerStep
      BY <1>1, <3>2 DEF WorkerStep, OpenAtCursor, ReadNext, PutEvent,
         PutRemembering, EndBackoff, ReaderStops, WorkerGoes
    <3>3. CASE Tick \/ Checkpoint \/ \E u \in Units : Log(u)
      BY <1>1, <3>3 DEF Tick, Checkpoint, Log, historyVars
    <3>4. CASE Disturbance
      BY <1>1, <3>4 DEF Disturbance, Stop, Kill, PowerLoss, Reboot,
         VacuumJournal, ReaderFails, WriteFails, MarkFails, PollFails
    <3>5. CASE UNCHANGED vars
      BY <1>1, <3>5 DEF vars, historyVars
    <3> QED
      BY <1>1, <3>1, <3>2, <3>3, <3>4, <3>5 DEF Next
  <2>3. ASSUME OpenAtTail, torn = 0 PROVE \A e \in Range(rows) : e = 0
    <3>1. wcursor = 0 /\ main # "down"
      BY <1>1, <2>3 DEF OpenAtTail, Good, OrderInv, NothingWhenDown
    <3>2. cursor = 0 /\ pending = 0
      BY <1>1, <2>1, <3>1 DEF Good, OrderInv, Reader
    <3>3. UpTo(rows, 0)
      BY <1>1, <2>3, <3>2 DEF Good, OrderInv, RowOrder
    <3>4. \A i \in DOMAIN rows : rows[i] \in Nat
      BY <2>1, Elements
    <3> QED
      BY <3>3, <3>4 DEF UpTo, Range
  <2> QED
    BY <2>1, <2>2, <2>3
<1>2. Good /\ [Next]_vars =>
        [atTail' # atTail =>
           SeekFails \/ torn > 0 \/ \A e \in Range(rows) : e = 0]_vars
  BY <1>1
<1> QED
  BY <1>2, GoodInit, GoodNext, PTL DEF Spec, TailOnlyBeforeFirstEvent

----------------------------------------------------------------------------
(***************************************************************************)
(* The collector implements Delivery, for any number of units, entries and *)
(* disturbances and any sizes of batch and queue.                          *)
(*                                                                         *)
(* To be stored without a gap the batch must hold, in order, every watched *)
(* entry between the persisted and the pending cursor; the invariant       *)
(* follows these entries back to the reader's hand.  What a failed flush   *)
(* leaves in the open transaction is the beginning of the batch that the   *)
(* finally clause stores again, and what the disk may come back with after *)
(* a power loss is a beginning of the rows.                                *)
(*                                                                         *)
(* The last part bounds how often an entry is stored, and how much is in   *)
(* memory only.                                                            *)
(***************************************************************************)


\* s is the beginning of t.
Begins(s, t) == Len(s) <= Len(t) /\ \A i \in 1..Len(s) : s[i] = t[i]

\* Every watched entry after a up to c is in S, or was out of reach.
Between(S, a, c) == \A i \in a + 1 .. c : Logged(i) => i \in S \cup Skipped

Flushing ==
    /\ main \in {"write", "mark"} => buffer # <<>>
    /\ \/ txn = NoTxn
       \/ main \in {"exit", "closing"}
       \/ main = "write" /\ back = "closing"
    /\ txn.cursor \in {0, pending}
    /\ Begins(txn.rows, buffer)

BufferOrder ==
    /\ Rising(buffer) /\ UpTo(buffer, pending)
    /\ \/ Beyond(buffer, cursor)
       \/ main = "mark" /\ back = "closing"

Older ==
    \A image \in disk : Begins(image.rows, rows) /\ image.cursor <= cursor

OnTheWay ==
    /\ \A p \in DOMAIN queue :
          Between(Range(buffer) \cup Ahead(p), cursor, queue[p] - 1)
    /\ Between(Range(buffer) \cup Range(queue), cursor, wcursor)
    /\ worker = "read" =>
          Between(Range(buffer) \cup Range(queue), cursor, rpos)
    /\ worker = "put" =>
          Between(Range(buffer) \cup Range(queue), cursor, hand - 1)

NoGap == Between(Range(buffer), cursor, pending)

BatchInv == Flushing /\ BufferOrder /\ Older /\ OnTheWay /\ NoGap
Sound == Good /\ BatchInv

----------------------------------------------------------------------------
(* Sequences. *)

LEMMA BeginsSelf == ASSUME NEW S, NEW s \in Seq(S) PROVE Begins(s, s)
  BY DEF Begins

LEMMA BeginsEmpty == ASSUME NEW S, NEW s \in Seq(S) PROVE Begins(<<>>, s)
  BY DEF Begins

LEMMA BeginsConcat ==
    ASSUME NEW S, NEW r \in Seq(S), NEW s \in Seq(S), NEW t \in Seq(S),
           Begins(r, s)
    PROVE  Begins(r, s \o t)
<1>1. /\ Len(s \o t) = Len(s) + Len(t)
      /\ \A i \in 1..Len(s) : (s \o t)[i] = s[i]
      /\ Len(r) \in Nat /\ Len(s) \in Nat /\ Len(t) \in Nat
  BY ConcatProperties
<1> QED
  BY <1>1 DEF Begins

LEMMA BeginsAppend ==
    ASSUME NEW S, NEW r \in Seq(S), NEW s \in Seq(S), NEW e \in S,
           Begins(r, s)
    PROVE  Begins(r, Append(s, e))
<1>1. /\ Len(Append(s, e)) = Len(s) + 1
      /\ \A i \in 1..Len(s) : Append(s, e)[i] = s[i]
      /\ Len(r) \in Nat /\ Len(s) \in Nat
  BY AppendProperties
<1> QED
  BY <1>1 DEF Begins

\* Begins is what Delivery calls IsPrefix.
LEMMA BeginsIsPrefix ==
    ASSUME NEW S, NEW s \in Seq(S), NEW t \in Seq(S), Begins(s, t)
    PROVE  Promise!IsPrefix(s, t)
<1>1. Len(s) \in Nat /\ Len(t) \in Nat /\ Len(s) <= Len(t)
  BY DEF Begins
<1>2. SubSeq(s, 1, Len(s)) = s
  BY SubSeqFull
<1>3. \A i \in 1..Len(s) : t[i] \in S
  BY <1>1, Elements
<1>4. /\ SubSeq(t, 1, Len(s)) \in Seq(S)
      /\ Len(SubSeq(t, 1, Len(s))) = Len(s)
      /\ \A i \in 1..Len(s) : SubSeq(t, 1, Len(s))[i] = t[i]
  <2>1. 1 \in Int /\ Len(s) \in Int /\ Len(s) - 1 + 1 = Len(s)
        /\ (1 > Len(s) => Len(s) = 0)
        /\ \A i \in 1..Len(s) : 1 + i - 1 = i
    BY <1>1
  <2> QED
    BY <1>3, <2>1, SubSeqProperties
<1>5. s = SubSeq(t, 1, Len(s))
  BY <1>4, SeqEqual DEF Begins
<1> QED
  BY <1>1, <1>2, <1>5 DEF Promise!IsPrefix

\* A concatenation taken apart.
LEMMA PartsOfConcat ==
    ASSUME NEW S, NEW r \in Seq(S), NEW s \in Seq(S), NEW t \in Seq(S),
           t # <<>>
    PROVE  /\ Promise!From(r \o s \o t, Len(r) + Len(s) + 1) = t
           /\ SubSeq(r \o s \o t, Len(r) + 1, Len(r) + Len(s)) = s
           /\ Len(r) + Len(s) + 1 \in Len(r) + 1 .. Len(r \o s \o t)
<1>1. /\ Len(r) \in Nat /\ Len(s) \in Nat /\ Len(t) \in Nat \ {0}
      /\ r \o s \in Seq(S) /\ Len(r \o s) = Len(r) + Len(s)
      /\ r \o s \o t \in Seq(S)
      /\ Len(r \o s \o t) = Len(r) + Len(s) + Len(t)
  BY ConcatProperties, EmptySeq
<1>2. Promise!From(r \o s \o t, Len(r) + Len(s) + 1) = t
  <2> DEFINE a == Len(r) + Len(s) + 1
             b == Len(r) + Len(s) + Len(t)
  <2>1. a \in Len(r \o s) + 1 .. Len(r \o s) + Len(t)
        /\ b \in Len(r \o s) + 1 .. Len(r \o s) + Len(t)
        /\ a - Len(r \o s) = 1 /\ b - Len(r \o s) = Len(t)
    BY <1>1
  <2>2. SubSeq(r \o s \o t, a, b)
          = SubSeq(t, a - Len(r \o s), b - Len(r \o s))
    BY <1>1, <2>1, SubSeqOfConcat2
  <2>3. SubSeq(t, 1, Len(t)) = t
    BY SubSeqFull
  <2> QED
    BY <1>1, <2>1, <2>2, <2>3 DEF Promise!From
<1>3. SubSeq(r \o s \o t, Len(r) + 1, Len(r) + Len(s)) = s
  <2> DEFINE u == SubSeq(r \o s \o t, Len(r) + 1, Len(r) + Len(s))
  <2>1. r \o s \o t = r \o (s \o t) /\ s \o t \in Seq(S)
        /\ Len(s \o t) = Len(s) + Len(t)
    BY ConcatAssociative, ConcatProperties
  <2>2. CASE s = <<>>
    <3>1. Len(s) = 0
      BY <2>2
    <3>2. Len(r) + Len(s) < Len(r) + 1
      BY <1>1, <3>1
    <3> QED
      BY <1>1, <2>2, <3>2, SubSeqEmpty
  <2>3. CASE s # <<>>
    <3>1. Len(s) \in Nat \ {0}
      BY <2>3, EmptySeq
    <3>2. /\ Len(r) + 1 \in Len(r) + 1 .. Len(r) + Len(s \o t)
          /\ Len(r) + Len(s) \in Len(r) + 1 .. Len(r) + Len(s \o t)
          /\ (Len(r) + 1) - Len(r) = 1 /\ (Len(r) + Len(s)) - Len(r) = Len(s)
      BY <1>1, <2>1, <3>1
    <3>3. u = SubSeq(s \o t, 1, Len(s))
      BY <2>1, <3>2, SubSeqOfConcat2
    <3>4. 1 \in 1..Len(s) /\ Len(s) \in 1..Len(s)
      BY <3>1
    <3>5. SubSeq(s \o t, 1, Len(s)) = SubSeq(s, 1, Len(s))
      BY <3>4, SubSeqOfConcat1
    <3> QED
      BY <3>3, <3>5, SubSeqFull
  <2> QED
    BY <2>2, <2>3
<1> QED
  BY <1>1, <1>2, <1>3

----------------------------------------------------------------------------
(* Steps. *)

LEMMA Ranges ==
    /\ \A c \in Nat : c + 1 .. 0 = {}
    /\ \A a, b \in Nat, c \in Int :
          a <= b => \A i \in b + 1 .. c : i \in a + 1 .. c /\ i > b
  OBVIOUS

\* What is on its way is not disturbed by a move of the cursor, nor by what
\* leaves the buffer up to there.
LEMMA OnTheWayKept ==
    ASSUME Sound, UNCHANGED <<journal, queue, worker, wcursor, rpos, hand>>,
           Skipped \subseteq Skipped', cursor' \in Nat, cursor <= cursor',
           \A e \in Range(buffer) : e \in Range(buffer') \/ ~(e > cursor')
    PROVE  OnTheWay'
<1> USE DEF Sound, BatchInv
<1>1. cursor \in Nat
  BY Numbers DEF Good, Inv
<1>2. \A c \in Int :
         \A i \in cursor' + 1 .. c : i \in cursor + 1 .. c /\ i > cursor'
  BY <1>1, Ranges
<1>3. \A i : Logged(i)' <=> Logged(i)
  BY DEF Logged, Entries
<1>4. ASSUME NEW T, NEW c \in Int, Between(Range(buffer) \cup T, cursor, c)
      PROVE  \A i \in cursor' + 1 .. c :
                Logged(i)' => i \in Range(buffer') \cup T \cup Skipped'
  BY <1>2, <1>3, <1>4 DEF Between
<1>5. ASSUME NEW p \in DOMAIN queue
      PROVE  Between(Range(buffer) \cup Ahead(p), cursor, queue[p] - 1)'
  <2>1. queue[p] - 1 \in Int
    <3>1. queue \in Seq(1..MaxEntries)
      BY Numbers DEF Good, Inv
    <3>2. queue[p] \in 1..MaxEntries
      BY <1>5, <3>1, Elements
    <3> QED
      BY <3>2
  <2>2. queue' = queue /\ Ahead(p)' = Ahead(p)
    BY DEF Ahead
  <2>3. Between(Range(buffer) \cup Ahead(p), cursor, queue[p] - 1)
    BY DEF OnTheWay
  <2> QED
    BY <1>4, <2>1, <2>2, <2>3 DEF Between
<1>6. wcursor \in Int /\ rpos \in Int /\ hand - 1 \in Int
  BY Numbers DEF Good, Inv
<1>7. Between(Range(buffer) \cup Range(queue), cursor, wcursor)'
  BY <1>4, <1>6 DEF OnTheWay, Between
<1>8. (worker = "read" =>
          Between(Range(buffer) \cup Range(queue), cursor, rpos))'
  BY <1>4, <1>6 DEF OnTheWay, Between
<1>9. (worker = "put" =>
          Between(Range(buffer) \cup Range(queue), cursor, hand - 1))'
  BY <1>4, <1>6 DEF OnTheWay, Between
<1> QED
  BY <1>5, <1>7, <1>8, <1>9 DEF OnTheWay

\* Buffer, rows and cursor stay, and the disk at most forgets.
LEMMA StoreUntouched ==
    ASSUME Sound, UNCHANGED <<journal, rows, cursor, pending, buffer>>,
           Skipped \subseteq Skipped',
           disk' \subseteq disk \cup {Image(rows, cursor)},
           main = "mark" => main' = "mark" /\ back' = back
    PROVE  BufferOrder' /\ Older' /\ NoGap'
<1> USE DEF Sound, BatchInv
<1>1. BufferOrder'
  BY DEF BufferOrder, Rising, UpTo, Beyond
<1>2. Older'
  <2>1. rows \in Seq(Cursors) /\ cursor \in Nat
    BY Numbers DEF Good, Inv
  <2>2. /\ Image(rows, cursor).rows = rows
        /\ Image(rows, cursor).cursor = cursor
    BY DEF Image
  <2>3. \A image \in disk' : Begins(image.rows, rows) /\ image.cursor <= cursor
    BY <2>1, <2>2, BeginsSelf DEF Older
  <2> QED
    BY <2>3 DEF Older, Begins
<1>3. NoGap'
  BY DEF NoGap, Between, Logged, Entries
<1> QED
  BY <1>1, <1>2, <1>3

\* The main thread goes on outside of a flush, into one or within its end.
Proceeds ==
    \/ UNCHANGED <<main, back>>
    \/ /\ main \notin {"write", "mark", "exit", "closing"}
       /\ main' # "mark" /\ (main' = "write" => buffer # <<>>)
    \/ /\ main = "exit"
       /\ \/ main' = "closing"
          \/ main' = "write" /\ back' = "closing" /\ buffer # <<>>

LEMMA QuietBatch ==
    ASSUME Sound, Proceeds, Skipped' = Skipped,
           UNCHANGED <<journal, rows, cursor, txn, pending, buffer, queue>>,
           UNCHANGED <<wcursor, rpos, hand>>,
           disk' \subseteq disk \cup {Image(rows, cursor)},
           worker' \in {"read", "put"} => worker' = worker
    PROVE  BatchInv'
<1> USE DEF Sound, BatchInv
<1>1. cursor \in Nat
  BY Numbers DEF Good, Inv
<1>2. Flushing'
  BY DEF Flushing, Proceeds, Begins
<1>3. BufferOrder' /\ Older' /\ NoGap'
  BY StoreUntouched DEF Proceeds
<1>4. OnTheWay'
  BY DEF OnTheWay, Between, Ahead, Logged, Entries
<1> QED
  BY <1>2, <1>3, <1>4

LEMMA VanishBatch ==
    ASSUME Vanish, cursor' \in Nat,
           \A image \in disk' : /\ Begins(image.rows, rows')
                                /\ image.cursor <= cursor'
    PROVE  BatchInv'
<1> USE DEF Vanish
<1>1. Flushing'
  BY DEF Flushing, NoTxn, Begins
<1>2. BufferOrder'
  BY EmptyOrder DEF BufferOrder
<1>3. Older'
  BY DEF Older, Begins
<1>4. cursor' + 1 .. 0 = {}
  BY Ranges
<1>5. DOMAIN <<>> = {}
  OBVIOUS
<1>6. NoGap'
  BY <1>4 DEF NoGap, Between
<1>7. OnTheWay'
  BY <1>4, <1>5 DEF OnTheWay, Between
<1> QED
  BY <1>1, <1>2, <1>3, <1>6, <1>7 DEF BatchInv

\* What Pipeline.submit does to the buffer; e is next.
LEMMA SubmitBatch ==
    ASSUME Sound, NEW e \in Cursors, NEW pc \in {"more", "report"},
           Submit(e, pc), main \in {"drain", "more", "report"},
           UNCHANGED <<journal, rows, cursor, txn, disk, atTail, rotated>>,
           e # 0 => cursor < e /\ pending < e
                    /\ Between(Range(buffer), cursor, e - 1)
    PROVE  /\ Flushing' /\ BufferOrder' /\ Older' /\ NoGap'
           /\ Range(buffer) \subseteq Range(buffer')
           /\ Logged(e) => e \in Range(buffer')
<1> USE DEF Sound, BatchInv
<1>1. /\ cursor \in Nat /\ pending \in Nat /\ e \in Nat
      /\ Cursors \in SUBSET Nat /\ buffer \in Seq(Cursors)
  BY Numbers DEF Good, Inv
<1>2. txn = NoTxn
  BY DEF Flushing
<1>3. Skipped' = Skipped /\ \A i : Logged(i)' <=> Logged(i)
  BY DEF Skipped, Logged, Entries
<1>4. CASE ~IsWatched(e)
  <2>1. main' = pc /\ UNCHANGED <<buffer, pending, back>>
    BY <1>4 DEF Submit, SubmitUpTo
  <2>2. Flushing'
    BY <1>2, <2>1 DEF Flushing, Begins
  <2>3. BufferOrder' /\ Older' /\ NoGap'
    BY <1>3, <2>1, StoreUntouched
  <2>4. ~Logged(e)
    BY <1>4 DEF IsWatched, Logged
  <2> QED
    BY <2>1, <2>2, <2>3, <2>4
<1>5. CASE IsWatched(e)
  <2>1. /\ buffer' = Append(buffer, e)
        /\ pending' = IF e = 0 THEN pending ELSE e
        /\ main' \in {"write", "more", "report"}
    BY <1>5 DEF Submit, SubmitUpTo
  <2>2. /\ buffer' # <<>>
        /\ Range(buffer') = Range(buffer) \cup {e}
    BY <1>1, <2>1, RangeAppend, AppendProperties
  <2>3. Flushing'
    <3>1. txn'.rows = <<>> /\ txn'.cursor = 0
      BY <1>2 DEF NoTxn
    <3>2. Begins(<<>>, buffer')
      BY <1>1, <2>1, AppendProperties, BeginsEmpty
    <3> QED
      BY <1>2, <2>1, <2>2, <3>1, <3>2 DEF Flushing, Begins
  <2>4. BufferOrder'
    <3>1. Rising(buffer) /\ UpTo(buffer, pending) /\ Beyond(buffer, cursor)
      BY DEF BufferOrder
    <3>2. Rising(buffer')
      BY <1>1, <2>1, <3>1, AppendOrder
    <3>3. UpTo(buffer, pending') /\ e <= pending' /\ pending' \in Nat
      BY <1>1, <2>1, <3>1, UpToMore
    <3>4. UpTo(buffer', pending')
      BY <1>1, <2>1, <3>3, AppendBounds
    <3>5. Beyond(buffer', cursor)
      BY <1>1, <2>1, <3>1, AppendBounds
    <3> QED
      BY <3>2, <3>4, <3>5 DEF BufferOrder, Rising, UpTo, Beyond
  <2>5. Older'
    BY DEF Older, Begins
  <2>6. NoGap'
    <3> SUFFICES ASSUME NEW i \in cursor + 1 .. pending', Logged(i)
                 PROVE  i \in Range(buffer') \cup Skipped
      BY <1>3 DEF NoGap, Between
    <3>1. CASE pending' = pending
      BY <2>2, <3>1 DEF NoGap, Between
    <3>2. CASE pending' = e /\ e # 0
      <4>1. i = e \/ i \in cursor + 1 .. e - 1
        BY <1>1, <3>2
      <4> QED
        BY <2>2, <3>2, <4>1 DEF Between
    <3> QED
      BY <2>1, <3>1, <3>2
  <2> QED
    BY <2>2, <2>3, <2>4, <2>5, <2>6
<1> QED
  BY <1>4, <1>5

LEMMA ReportBatch == Sound /\ ReportEvent => BatchInv'
<1> SUFFICES ASSUME Sound, ReportEvent PROVE BatchInv'
  OBVIOUS
<1>1. /\ UNCHANGED <<journal, rows, cursor, txn, disk, atTail, rotated>>
      /\ UNCHANGED <<queue, worker, wcursor, rpos, hand>>
      /\ main = "report" /\ Submit(0, "report")
  BY DEF ReportEvent, workerVars, dbVars, historyVars
<1>2. 0 \in Cursors
  BY BoundAssumption DEF Cursors
<1>3. /\ Flushing' /\ BufferOrder' /\ Older' /\ NoGap'
      /\ Range(buffer) \subseteq Range(buffer')
  BY <1>1, <1>2, SubmitBatch
<1>4. cursor \in Nat /\ cursor' = cursor /\ Skipped' = Skipped
  BY <1>1, Numbers DEF Sound, Good, Inv, Skipped
<1>5. OnTheWay'
  BY <1>1, <1>3, <1>4, OnTheWayKept
<1> QED
  BY <1>3, <1>5 DEF BatchInv

LEMMA DrainBatch == Sound /\ Drain => BatchInv'
<1> SUFFICES ASSUME Sound, Drain PROVE BatchInv'
  OBVIOUS
<1> DEFINE e == Head(queue)
<1>1. /\ UNCHANGED <<journal, rows, cursor, txn, disk, atTail, rotated>>
      /\ UNCHANGED <<worker, wcursor, rpos, hand>>
      /\ main \in {"drain", "more"} /\ queue # <<>>
      /\ queue' = Tail(queue) /\ Submit(e, "more")
  BY DEF Drain, workerVars, dbVars, historyVars
<1>2. /\ queue \in Seq(1..MaxEntries)
      /\ 1..MaxEntries \in SUBSET (Nat \ {0})
  BY Numbers DEF Sound, Good, Inv
<1>3. /\ Tail(queue) \in Seq(1..MaxEntries)
      /\ Len(Tail(queue)) = Len(queue) - 1
      /\ \A p \in 1..Len(queue) - 1 : Tail(queue)[p] = queue[p + 1]
      /\ e = queue[1] /\ e \in 1..MaxEntries /\ Len(queue) \in Nat \ {0}
  <2>1. Head(queue) \in 1..MaxEntries
    BY <1>1, <1>2, HeadTailProperties
  <2>2. Len(queue) \in Nat \ {0} /\ Head(queue) = queue[1]
    BY <1>1, <1>2
  <2> QED
    BY <1>1, <1>2, <2>1, <2>2, HeadTailProperties
<1>4. e \in Cursors /\ e # 0
  BY <1>3, BoundAssumption DEF Cursors
<1>5. cursor < e /\ pending < e
  BY <1>1, <1>2, TailOrder DEF Sound, Good, OrderInv, QueueOrder
<1>6. Between(Range(buffer), cursor, e - 1)
  <2>1. 1 \in DOMAIN queue /\ 1..1 - 1 = {}
    BY <1>2, <1>3
  <2>2. Ahead(1) = {}
    BY <2>1 DEF Ahead
  <2>3. Between(Range(buffer) \cup Ahead(1), cursor, queue[1] - 1)
    BY <2>1 DEF Sound, BatchInv, OnTheWay
  <2> QED
    BY <1>3, <2>2, <2>3 DEF Between
<1>7. /\ Flushing' /\ BufferOrder' /\ Older' /\ NoGap'
      /\ Range(buffer) \subseteq Range(buffer')
      /\ Logged(e) => e \in Range(buffer')
  <2> HIDE DEF e
  <2> QED
    BY <1>1, <1>4, <1>5, <1>6, SubmitBatch
<1>8. /\ Skipped' = Skipped /\ cursor' = cursor
      /\ \A i : Logged(i)' <=> Logged(i)
  BY <1>1 DEF Skipped, Logged, Entries
<1>9. Range(queue) \subseteq {e} \cup Range(queue')
  BY <1>1, <1>2, RangeTail
<1>10. ASSUME NEW c, Between(Range(buffer) \cup Range(queue), cursor, c)
       PROVE  \A i \in cursor' + 1 .. c :
                 Logged(i)' => i \in Range(buffer') \cup Range(queue') \cup Skipped'
  <2> HIDE DEF e
  <2> QED
    BY <1>7, <1>8, <1>9, <1>10 DEF Between
<1>11. ASSUME NEW p \in 1..Len(queue) - 1
       PROVE  Between(Range(buffer) \cup Ahead(p), cursor, queue[p] - 1)'
  <2>1. p + 1 \in 1..Len(queue) /\ p \in Nat \ {0} /\ DOMAIN queue = 1..Len(queue)
    BY <1>2, <1>3
  <2>2. queue'[p] = queue[p + 1]
    BY <1>1, <1>3
  <2>3. Between(Range(buffer) \cup Ahead(p + 1), cursor, queue[p + 1] - 1)
    BY <2>1 DEF Sound, BatchInv, OnTheWay
  <2>4. Ahead(p + 1) \subseteq {e} \cup Ahead(p)'
    <3> SUFFICES ASSUME NEW q \in 1..(p + 1) - 1, q # 1
                 PROVE  queue[q] \in Ahead(p)'
      BY <1>3 DEF Ahead
    <3>1. q - 1 \in 1..p - 1 /\ q - 1 \in 1..Len(queue) - 1 /\ (q - 1) + 1 = q
      BY <1>3, <2>1
    <3>2. queue'[q - 1] = queue[q]
      BY <1>1, <1>3, <3>1
    <3> QED
      BY <3>1, <3>2 DEF Ahead
  <2> HIDE DEF e
  <2> QED
    BY <1>7, <1>8, <2>2, <2>3, <2>4 DEF Between
<1>12. OnTheWay'
  <2> HIDE DEF e
  <2>1. DOMAIN queue' = 1..Len(queue) - 1
    BY <1>1, <1>3
  <2>2. (\A p \in DOMAIN queue :
           Between(Range(buffer) \cup Ahead(p), cursor, queue[p] - 1))'
    BY <1>11, <2>1
  <2>3. Between(Range(buffer) \cup Range(queue), cursor, wcursor)'
    BY <1>1, <1>10 DEF Sound, BatchInv, OnTheWay, Between
  <2>4. (worker = "read" =>
           Between(Range(buffer) \cup Range(queue), cursor, rpos))'
    BY <1>1, <1>10 DEF Sound, BatchInv, OnTheWay, Between
  <2>5. (worker = "put" =>
           Between(Range(buffer) \cup Range(queue), cursor, hand - 1))'
    BY <1>1, <1>10 DEF Sound, BatchInv, OnTheWay, Between
  <2> QED
    BY <2>2, <2>3, <2>4, <2>5 DEF OnTheWay
<1> QED
  BY <1>7, <1>12 DEF BatchInv

LEMMA WriteBatchStep == Sound /\ WriteBatch => BatchInv'
<1> SUFFICES ASSUME Sound, WriteBatch PROVE BatchInv'
  OBVIOUS
<1> USE DEF Sound, BatchInv
<1>1. /\ rows' = rows \o txn.rows \o buffer
      /\ cursor' = Larger(cursor, txn.cursor) /\ txn' = NoTxn
      /\ disk' = disk \cup {Image(rows', cursor')}
      /\ UNCHANGED <<journal, back, pending, queue, worker, wcursor, rpos>>
      /\ UNCHANGED <<hand, atTail, rotated>> /\ main = "write"
      /\ \/ pending # 0 /\ main' = "mark" /\ buffer' = buffer
         \/ pending = 0 /\ buffer' = <<>> /\ main' = back
  BY DEF WriteBatch, Commit, ClearBuffer, workerVars, historyVars
<1>2. main' \notin {"write", "mark"} \/ (main' = "mark" /\ pending # 0)
  BY <1>1 DEF Good, Inv, TypeOK, MainType
<1>3. /\ cursor \in Nat /\ pending \in Nat /\ txn.cursor \in Nat
      /\ Cursors \in SUBSET Nat /\ buffer \in Seq(Cursors)
      /\ rows \in Seq(Cursors) /\ txn.rows \in Seq(Cursors)
  BY Numbers DEF Good, Inv, TypeOK, StoreType, Images
<1>4. /\ cursor' \in Nat /\ cursor <= cursor'
      /\ cursor' \in {cursor, pending}
      /\ pending = 0 => cursor' = cursor
  <2>1. txn.cursor \in {0, pending}
    BY DEF Flushing
  <2> QED
    BY <1>1, <1>3, <2>1 DEF Larger
<1>5. Flushing'
  <2>1. txn'.rows = <<>> /\ txn'.cursor = 0
    BY <1>1 DEF NoTxn
  <2>2. Begins(<<>>, buffer) /\ Begins(<<>>, <<>>)
    BY <1>3, BeginsEmpty, EmptySeq
  <2> QED
    BY <1>1, <1>2, <2>1, <2>2 DEF Flushing
<1>6. BufferOrder'
  <2>1. CASE pending = 0
    BY <1>1, <1>2, <2>1, EmptyOrder DEF BufferOrder
  <2>2. CASE pending # 0
    <3>1. Rising(buffer) /\ UpTo(buffer, pending) /\ Beyond(buffer, cursor)
      BY <1>1 DEF BufferOrder
    <3>2. back = "closing" \/ cursor' = cursor
      <4> SUFFICES ASSUME txn = NoTxn PROVE cursor' = cursor
        BY <1>1 DEF Flushing
      <4>1. txn.cursor = 0
        BY DEF NoTxn
      <4> QED
        BY <1>1, <1>3, <4>1 DEF Larger
    <3> QED
      BY <1>1, <2>2, <3>1, <3>2 DEF BufferOrder, Rising, UpTo, Beyond
  <2> QED
    BY <2>1, <2>2
<1>7. Older'
  <2>1. txn.rows \o buffer \in Seq(Cursors)
    BY <1>3, ConcatProperties
  <2>2. rows \o (txn.rows \o buffer) \in Seq(Cursors)
    BY <1>3, <2>1, ConcatProperties
  <2>3. rows \o txn.rows \o buffer = rows \o (txn.rows \o buffer)
    <3> DEFINE t == txn.rows
    <3>1. rows \in Seq(Cursors) /\ t \in Seq(Cursors) /\ buffer \in Seq(Cursors)
      BY <1>3
    <3> HIDE DEF t
    <3>2. rows \o t \o buffer = rows \o (t \o buffer)
      BY <3>1, ConcatAssociative
    <3> QED
      BY <3>2 DEF t
  <2>4. rows' = rows \o (txn.rows \o buffer) /\ rows' \in Seq(Cursors)
    BY <1>1, <2>2, <2>3
  <2>5. \A image \in disk : Begins(image.rows, rows') /\ image.cursor <= cursor'
    <3> SUFFICES ASSUME NEW image \in disk
                 PROVE  Begins(image.rows, rows') /\ image.cursor <= cursor'
      OBVIOUS
    <3>1. image.rows \in Seq(Cursors) /\ image.cursor \in Nat
      BY <1>3 DEF Good, Inv, TypeOK, StoreType, Images
    <3>2. Begins(image.rows, rows) /\ image.cursor <= cursor
      BY DEF Older
    <3>3. Begins(image.rows, rows \o (txn.rows \o buffer))
      BY <1>3, <2>1, <3>1, <3>2, BeginsConcat
    <3>4. image.cursor <= cursor'
      BY <1>3, <1>4, <3>1, <3>2
    <3> QED
      BY <2>4, <3>3, <3>4
  <2>6. Begins(rows', rows') /\ cursor' <= cursor'
    <3>1. Begins(rows', rows')
      BY <2>4, BeginsSelf
    <3> QED
      BY <1>4, <3>1
  <2>7. Image(rows', cursor').rows = rows'
        /\ Image(rows', cursor').cursor = cursor'
    BY DEF Image
  <2>8. \A image \in disk' : Begins(image.rows, rows') /\ image.cursor <= cursor'
    <3>1. disk' = disk \cup {Image(rows', cursor')}
      BY <1>1
    <3> QED
      BY <2>5, <2>6, <2>7, <3>1
  <2> QED
    BY <2>8 DEF Older, Begins
<1>8. /\ Skipped' = Skipped /\ \A i : Logged(i)' <=> Logged(i)
  BY <1>1 DEF Skipped, Logged, Entries
<1>9. NoGap'
  <2>1. CASE pending = 0
    <3>1. cursor' + 1 .. 0 = {}
      BY <1>4, Ranges
    <3> QED
      BY <1>1, <2>1, <3>1 DEF NoGap, Between
  <2>2. CASE pending # 0
    <3>1. \A i \in cursor' + 1 .. pending : i \in cursor + 1 .. pending
      <4>1. pending \in Int
        BY <1>3
      <4> QED
        BY <1>3, <1>4, <4>1, Ranges
    <3> QED
      BY <1>1, <1>8, <2>2, <3>1 DEF NoGap, Between
  <2> QED
    BY <2>1, <2>2
<1>10. \A e \in Range(buffer) : e \in Range(buffer') \/ ~(e > cursor')
  <2>1. CASE pending # 0
    BY <1>1, <2>1
  <2>2. CASE pending = 0
    <3> SUFFICES ASSUME NEW i \in DOMAIN buffer
                 PROVE  ~(buffer[i] > cursor')
      BY DEF Range
    <3>1. buffer[i] \in Nat /\ buffer[i] <= 0
      BY <1>3, <2>2, Elements DEF BufferOrder, UpTo
    <3> QED
      BY <1>4, <3>1
  <2> QED
    BY <2>1, <2>2
<1>11. OnTheWay'
  BY <1>1, <1>4, <1>8, <1>10, OnTheWayKept
<1> QED
  BY <1>5, <1>6, <1>7, <1>9, <1>11

LEMMA MarkBatch == Sound /\ MarkCursor => BatchInv'
<1> SUFFICES ASSUME Sound, MarkCursor PROVE BatchInv'
  OBVIOUS
<1> USE DEF Sound, BatchInv
<1>1. /\ rows' = rows /\ cursor' = pending /\ txn' = NoTxn /\ pending' = 0
      /\ disk' = disk \cup {Image(rows', cursor')} /\ buffer' = <<>>
      /\ main = "mark" /\ main' = back
      /\ UNCHANGED <<journal, queue, worker, wcursor, rpos, hand>>
      /\ UNCHANGED <<atTail, rotated>>
  BY DEF MarkCursor, MarkWith, Commit, ClearBuffer, workerVars, historyVars
<1>2. main' \notin {"write", "mark"}
  BY <1>1 DEF Good, Inv, TypeOK, MainType
<1>3. /\ cursor \in Nat /\ pending \in Nat /\ rows \in Seq(Cursors)
      /\ buffer \in Seq(Cursors) /\ Cursors \in SUBSET Nat
  BY Numbers DEF Good, Inv
<1>4. cursor <= pending
  BY <1>1 DEF Good, OrderInv, Marks
<1>5. Flushing'
  <2>1. txn'.rows = <<>> /\ txn'.cursor = 0
    BY <1>1 DEF NoTxn
  <2>2. Begins(<<>>, <<>>)
    BY BeginsEmpty, EmptySeq
  <2> QED
    BY <1>1, <1>2, <2>1, <2>2 DEF Flushing
<1>6. BufferOrder'
  BY <1>1, EmptyOrder DEF BufferOrder
<1>7. Older'
  <2>1. \A image \in disk : Begins(image.rows, rows) /\ image.cursor <= pending
    <3> SUFFICES ASSUME NEW image \in disk
                 PROVE  Begins(image.rows, rows) /\ image.cursor <= pending
      OBVIOUS
    <3>1. image.cursor \in Nat
      BY <1>3 DEF Good, Inv, TypeOK, StoreType, Images
    <3>2. Begins(image.rows, rows) /\ image.cursor <= cursor
      BY DEF Older
    <3> QED
      BY <1>3, <1>4, <3>1, <3>2
  <2>2. Image(rows', cursor').rows = rows /\ Image(rows', cursor').cursor = pending
    BY <1>1 DEF Image
  <2>3. \A image \in disk' : Begins(image.rows, rows) /\ image.cursor <= pending
    <3>1. disk' = disk \cup {Image(rows', cursor')}
      BY <1>1
    <3> QED
      BY <1>3, <2>1, <2>2, <3>1, BeginsSelf
  <2> QED
    BY <1>1, <2>3 DEF Older, Begins
<1>8. NoGap'
  <2>1. cursor' + 1 .. 0 = {}
    BY <1>1, <1>3, Ranges
  <2> QED
    BY <1>1, <2>1 DEF NoGap, Between
<1>9. \A e \in Range(buffer) : ~(e > cursor')
  <2> SUFFICES ASSUME NEW i \in DOMAIN buffer
               PROVE  ~(buffer[i] > pending)
    BY <1>1 DEF Range
  <2>1. buffer[i] \in Nat /\ buffer[i] <= pending
    BY <1>3, Elements DEF BufferOrder, UpTo
  <2> QED
    BY <1>3, <2>1
<1>10. Skipped' = Skipped
  BY <1>1 DEF Skipped
<1>11. OnTheWay'
  BY <1>1, <1>3, <1>4, <1>9, <1>10, OnTheWayKept
<1> QED
  BY <1>5, <1>6, <1>7, <1>8, <1>11

LEMMA StartBatch == Sound /\ StartDaemon => BatchInv'
<1> SUFFICES ASSUME Sound, StartDaemon PROVE BatchInv'
  OBVIOUS
<1> USE DEF Sound, BatchInv
<1>1. /\ UNCHANGED <<journal, rows, cursor, txn, disk, buffer, queue>>
      /\ UNCHANGED <<pending, atTail, rotated>>
      /\ wcursor' = cursor /\ worker' = "open" /\ main' = "loop"
      /\ main = "down"
  BY DEF StartDaemon, StartWith, dbVars, historyVars
<1>2. queue = <<>> /\ txn = NoTxn
  BY <1>1 DEF Good, OrderInv, NothingWhenDown
<1>3. Skipped' = Skipped /\ cursor \in Nat
  BY <1>1, Numbers DEF Skipped, Good, Inv
<1>4. BufferOrder' /\ Older' /\ NoGap'
  <2>1. disk' \subseteq disk \cup {Image(rows, cursor)} /\ main # "mark"
    BY <1>1
  <2> QED
    BY <1>1, <1>3, <2>1, StoreUntouched
<1>5. Flushing'
  BY <1>1, <1>2 DEF Flushing, Begins
<1>6. OnTheWay'
  <2>1. cursor' + 1 .. wcursor' = {}
    BY <1>1, <1>3
  <2>2. DOMAIN queue' = {}
    BY <1>1, <1>2
  <2> QED
    BY <1>1, <2>1, <2>2 DEF OnTheWay, Between
<1> QED
  BY <1>4, <1>5, <1>6

\* The reader takes a position; what it passes over is recorded.
LEMMA PositionBatch ==
    ASSUME Sound, UNCHANGED <<journal, mainVars, dbVars, queue, wcursor>>,
           Skipped \subseteq Skipped', worker' \in {"off", "read", "put"},
           worker' = "read" =>
              \A i \in Entries : i <= rpos' => i <= wcursor \/ i \in Skipped',
           worker' = "read" => rpos' <= Len(journal),
           worker' = "put" =>
              Between(Range(buffer) \cup Range(queue), cursor, hand - 1)'
    PROVE  BatchInv'
<1> USE DEF Sound, BatchInv
<1>1. UNCHANGED <<main, back, buffer, pending, rows, cursor, txn, disk>>
  BY DEF mainVars, dbVars
<1>2. \A i : Logged(i)' <=> Logged(i)
  BY DEF Logged, Entries
<1>3. Flushing'
  BY <1>1 DEF Flushing, Begins
<1>4. BufferOrder' /\ Older' /\ NoGap'
  BY <1>1, StoreUntouched
<1>5. (\A p \in DOMAIN queue :
         Between(Range(buffer) \cup Ahead(p), cursor, queue[p] - 1))'
  BY <1>1, <1>2 DEF OnTheWay, Between, Ahead
<1>6. Between(Range(buffer) \cup Range(queue), cursor, wcursor)'
  BY <1>1, <1>2 DEF OnTheWay, Between
<1>7. (worker = "read" =>
         Between(Range(buffer) \cup Range(queue), cursor, rpos))'
  <2> SUFFICES ASSUME worker' = "read", NEW i \in cursor + 1 .. rpos',
                      Logged(i)
               PROVE  i \in Range(buffer) \cup Range(queue) \cup Skipped'
    BY <1>1, <1>2 DEF Between
  <2>1. i \in Entries /\ i <= rpos'
    BY DEF Logged
  <2>2. i <= wcursor => i \in cursor + 1 .. wcursor
    BY Numbers DEF Good, Inv
  <2> QED
    BY <1>2, <2>1, <2>2 DEF OnTheWay, Between
<1> QED
  BY <1>3, <1>4, <1>5, <1>6, <1>7 DEF OnTheWay

LEMMA OpenBatch == Sound /\ (OpenAtCursor \/ OpenAtTail) => BatchInv'
<1> SUFFICES ASSUME Sound, OpenAtCursor \/ OpenAtTail PROVE BatchInv'
  OBVIOUS
<1>1. /\ UNCHANGED <<journal, mainVars, dbVars, queue, wcursor>>
      /\ worker' = "read" /\ Skipped \subseteq Skipped'
  BY DEF OpenAtCursor, OpenAtTail, StartAfter, StartReading, Skipped,
     readerUnchanged
<1>2. \A i \in Entries : i <= rpos' => i <= wcursor \/ i \in Skipped'
  <2>1. CASE OpenAtTail
    BY <2>1 DEF OpenAtTail, Skipped
  <2>2. CASE OpenAtCursor /\ wcursor >= horizon
    BY <2>2, Numbers
       DEF OpenAtCursor, StartAfter, StartReading, Sound, Good, Inv, TypeOK,
           JournalType
  <2>3. CASE OpenAtCursor /\ wcursor < horizon
    <3>1. /\ wcursor \in Nat /\ horizon \in Nat /\ Len(journal) \in Nat
      BY Numbers DEF Sound, Good, Inv, TypeOK, JournalType
    <3>2. /\ rpos' = Smaller(horizon, Len(journal))
          /\ rotated' = rotated \cup
                        {e \in Entries : wcursor < e /\ e <= horizon}
      BY <2>3, <3>1 DEF OpenAtCursor, StartAfter, StartReading
    <3>3. rpos' <= horizon /\ rpos' \in Nat
      BY <3>1, <3>2 DEF Smaller
    <3>4. \A i \in Entries : i \in Nat
      BY DEF Entries
    <3>5. \A i \in Entries : i <= rpos' => i <= wcursor \/ i \in rotated'
      BY <3>1, <3>2, <3>3, <3>4
    <3> QED
      BY <3>5 DEF Skipped
  <2> QED
    BY <2>1, <2>2, <2>3, Numbers
       DEF OpenAtCursor, Sound, Good, Inv, TypeOK, JournalType
<1>3. rpos' <= Len(journal)
  <2>1. wcursor <= Len(journal) /\ Len(journal) \in Nat /\ horizon \in Nat
    BY DEF Sound, Good, Inv, CursorInv, WithinJournal, TypeOK, JournalType
  <2> QED
    BY <2>1 DEF OpenAtCursor, OpenAtTail, StartAfter, StartReading, Smaller
<1> QED
  BY <1>1, <1>2, <1>3, PositionBatch

LEMMA SeekFailsBatch == Sound /\ SeekFails => BatchInv'
<1> SUFFICES ASSUME Sound, SeekFails PROVE BatchInv'
  OBVIOUS
<1>1. /\ UNCHANGED <<journal, mainVars, dbVars, queue, wcursor>>
      /\ worker' = "read" /\ Skipped \subseteq Skipped'
      /\ rpos' = Len(journal)
      /\ {e \in Entries : e > wcursor} \subseteq Skipped'
  BY DEF SeekFails, Skipped
<1>2. wcursor \in Nat /\ Len(journal) \in Nat
  BY Numbers DEF Sound, Good, Inv, TypeOK, JournalType
<1>3. \A i \in Entries : i \in Nat
  BY DEF Entries
<1>4. \A i \in Entries : i <= rpos' => i <= wcursor \/ i \in Skipped'
  BY <1>1, <1>2, <1>3
<1>5. rpos' <= Len(journal)
  BY <1>1, <1>2
<1> QED
  BY <1>1, <1>4, <1>5, PositionBatch

LEMMA ReadBatch == Sound /\ ReadNext => BatchInv'
<1> SUFFICES ASSUME Sound, ReadNext PROVE BatchInv'
  OBVIOUS
<1> DEFINE e == Larger(rpos + 1, horizon)
<1>1. /\ UNCHANGED <<journal, mainVars, dbVars, queue, wcursor>>
      /\ Skipped' = Skipped \cup (rpos + 1 .. e - 1)
      /\ worker' \in {"off", "put"} /\ worker = "read"
      /\ worker' = "put" => hand' = e
  BY DEF ReadNext, Skipped, readerUnchanged
<1>2. rpos \in Nat /\ e \in Nat /\ cursor \in Nat
  BY Numbers DEF Sound, Good, Inv, TypeOK, JournalType, Larger
<1> HIDE DEF e
<1>3. UNCHANGED <<buffer, cursor>> /\ \A i : Logged(i)' <=> Logged(i)
  BY <1>1 DEF mainVars, dbVars, Logged, Entries
<1>4. Between(Range(buffer) \cup Range(queue), cursor, rpos)
  BY <1>1 DEF Sound, BatchInv, OnTheWay
<1>5. ASSUME worker' = "put"
      PROVE  Between(Range(buffer) \cup Range(queue), cursor, hand - 1)'
  <2> SUFFICES ASSUME NEW i \in cursor + 1 .. e - 1, Logged(i)
               PROVE  i \in Range(buffer) \cup Range(queue) \cup Skipped'
    BY <1>1, <1>3, <1>5 DEF Between
  <2>1. i \in cursor + 1 .. rpos \/ i \in rpos + 1 .. e - 1
    BY <1>2
  <2> QED
    BY <1>1, <1>4, <2>1 DEF Between
<1> QED
  BY <1>1, <1>5, PositionBatch

LEMMA PutBatch == Sound /\ PutEvent => BatchInv'
<1> SUFFICES ASSUME Sound, PutEvent PROVE BatchInv'
  OBVIOUS
<1> USE DEF Sound, BatchInv
<1>1. /\ UNCHANGED <<journal, mainVars, dbVars, rpos, atTail, rotated>>
      /\ queue' = Append(queue, hand) /\ wcursor' = hand
      /\ worker = "put" /\ worker' = "read"
  BY DEF PutEvent, PutRemembering, readerUnchanged
<1>2. /\ queue \in Seq(1..MaxEntries) /\ hand \in 1..MaxEntries
      /\ Len(queue) \in Nat /\ cursor \in Nat /\ rpos = hand
      /\ Between(Range(buffer) \cup Range(queue), cursor, hand - 1)
  BY <1>1, Numbers, BoundAssumption
     DEF Good, Inv, TypeOK, WorkerType, Cursors, CursorInv, InFlight, OnTheWay
<1>3. /\ DOMAIN queue' = 1..Len(queue) + 1
      /\ \A i \in 1..Len(queue) : queue'[i] = queue[i]
      /\ queue'[Len(queue) + 1] = hand
      /\ Range(queue') = Range(queue) \cup {hand}
  <2> DEFINE S == 1..MaxEntries
  <2>1. queue \in Seq(S) /\ hand \in S
    BY <1>2
  <2> HIDE DEF S
  <2>2. /\ Append(queue, hand) \in Seq(S)
        /\ Len(Append(queue, hand)) = Len(queue) + 1
        /\ \A i \in 1..Len(queue) : Append(queue, hand)[i] = queue[i]
        /\ Append(queue, hand)[Len(queue) + 1] = hand
    BY <2>1, AppendProperties
  <2>3. Range(Append(queue, hand)) = Range(queue) \cup {hand}
    BY <2>1, RangeAppend
  <2>4. DOMAIN Append(queue, hand) = 1..Len(queue) + 1
    BY <2>2
  <2> QED
    BY <1>1, <2>2, <2>3, <2>4
<1>4. /\ UNCHANGED <<main, back, buffer, pending, rows, cursor, txn, disk>>
      /\ Skipped' = Skipped /\ \A i : Logged(i)' <=> Logged(i)
  BY <1>1 DEF mainVars, dbVars, Skipped, Logged, Entries
<1>5. Flushing'
  BY <1>4 DEF Flushing, Begins
<1>6. BufferOrder' /\ Older' /\ NoGap'
  BY <1>1, <1>4, StoreUntouched
<1>7. Between(Range(buffer) \cup Range(queue), cursor, wcursor)'
  <2> SUFFICES ASSUME NEW i \in cursor + 1 .. hand, Logged(i)
               PROVE  i \in Range(buffer) \cup Range(queue') \cup Skipped
    BY <1>1, <1>4 DEF Between
  <2>1. i = hand \/ i \in cursor + 1 .. hand - 1
    BY <1>2
  <2> QED
    BY <1>2, <1>3, <2>1 DEF Between
<1>8. Between(Range(buffer) \cup Range(queue), cursor, rpos)'
  BY <1>1, <1>2, <1>7 DEF Between
<1>9. (\A p \in DOMAIN queue :
         Between(Range(buffer) \cup Ahead(p), cursor, queue[p] - 1))'
  <2> SUFFICES ASSUME NEW p \in 1..Len(queue) + 1
               PROVE  Between(Range(buffer) \cup Ahead(p), cursor, queue[p] - 1)'
    BY <1>3
  <2>1. CASE p \in 1..Len(queue)
    <3>1. Ahead(p)' = Ahead(p)
      <4>1. \A q \in 1..p - 1 : q \in 1..Len(queue)
        BY <1>2, <2>1
      <4> QED
        BY <1>3, <4>1 DEF Ahead
    <3>2. Between(Range(buffer) \cup Ahead(p), cursor, queue[p] - 1)
      BY <1>2, <2>1 DEF OnTheWay
    <3> QED
      BY <1>3, <1>4, <2>1, <3>1, <3>2 DEF Between
  <2>2. CASE p = Len(queue) + 1
    <3>1. Range(queue) = {queue[i] : i \in 1..Len(queue)}
      BY <1>2, RangeEquality
    <3>2. p - 1 = Len(queue)
      BY <1>2, <2>2
    <3>3. Range(queue) \subseteq Ahead(p)'
      BY <1>3, <3>1, <3>2 DEF Ahead
    <3> QED
      BY <1>2, <1>3, <1>4, <2>2, <3>3 DEF Between
  <2> QED
    BY <2>1, <2>2
<1> QED
  BY <1>1, <1>5, <1>6, <1>7, <1>8, <1>9 DEF OnTheWay

LEMMA LogBatch == ASSUME Sound, NEW u \in Units, Log(u) PROVE BatchInv'
<1> USE DEF Sound, BatchInv
<1>1. /\ journal' = Append(journal, u)
      /\ UNCHANGED <<main, back, buffer, pending, worker, wcursor, rpos>>
      /\ UNCHANGED <<hand, queue, rows, cursor, txn, disk, atTail, rotated>>
  BY DEF Log, mainVars, workerVars, dbVars, historyVars
<1>2. /\ Len(journal) \in Nat
      /\ \A i \in 1..Len(journal) : journal'[i] = journal[i]
  <2>1. journal \in Seq(Units)
    BY DEF Good, Inv, TypeOK, JournalType
  <2> QED
    BY <1>1, <2>1, AppendProperties
<1>3. Skipped' = Skipped
  BY <1>1 DEF Skipped
<1>4. \A i \in 1..Len(journal) : Logged(i)' => Logged(i)
  BY <1>2 DEF Logged, Entries
<1>5. cursor \in Nat
  BY Numbers DEF Good, Inv
<1>6. ASSUME NEW S, NEW c \in Int, c <= Len(journal), Between(S, cursor, c)
      PROVE  \A i \in cursor + 1 .. c : Logged(i)' => i \in S \cup Skipped'
  <2>1. \A i \in cursor + 1 .. c : i \in 1..Len(journal)
    BY <1>2, <1>5, <1>6
  <2> QED
    BY <1>3, <1>4, <1>6, <2>1 DEF Between
<1>7. /\ \A c \in {pending, wcursor, rpos, hand - 1} :
            c \in Int /\ c <= Len(journal)
      /\ \A p \in DOMAIN queue :
            queue[p] - 1 \in Int /\ queue[p] - 1 <= Len(journal)
  <2>1. /\ \A c \in {pending, wcursor, rpos, hand} :
              c \in Int /\ c <= Len(journal)
        /\ \A p \in DOMAIN queue : queue[p] \in Int /\ queue[p] <= Len(journal)
    BY BoundAssumption DEF Good, Inv, CursorInv, WithinJournal, TypeOK,
       MainType, WorkerType, Cursors, Range
  <2> QED
    BY <1>2, <2>1
<1>8. Flushing' /\ BufferOrder' /\ Older'
  BY <1>1 DEF Flushing, BufferOrder, Older, Begins, Rising, UpTo, Beyond
<1>9. NoGap'
  BY <1>1, <1>6, <1>7 DEF NoGap, Between
<1>10. (\A p \in DOMAIN queue :
          Between(Range(buffer) \cup Ahead(p), cursor, queue[p] - 1))'
  <2> SUFFICES ASSUME NEW p \in DOMAIN queue
               PROVE  Between(Range(buffer) \cup Ahead(p), cursor, queue[p] - 1)'
    BY <1>1
  <2>1. Between(Range(buffer) \cup Ahead(p), cursor, queue[p] - 1)
    BY DEF OnTheWay
  <2>2. \A i \in cursor + 1 .. queue[p] - 1 :
           Logged(i)' => i \in Range(buffer) \cup Ahead(p) \cup Skipped'
    BY <1>6, <1>7, <2>1
  <2> QED
    BY <1>1, <2>2 DEF Between, Ahead
<1>11. Between(Range(buffer) \cup Range(queue), cursor, wcursor)'
  BY <1>1, <1>6, <1>7 DEF OnTheWay, Between
<1>12. (worker = "read" =>
          Between(Range(buffer) \cup Range(queue), cursor, rpos))'
  BY <1>1, <1>6, <1>7 DEF OnTheWay, Between
<1>13. (worker = "put" =>
          Between(Range(buffer) \cup Range(queue), cursor, hand - 1))'
  BY <1>1, <1>6, <1>7 DEF OnTheWay, Between
<1> QED
  BY <1>8, <1>9, <1>10, <1>11, <1>12, <1>13 DEF OnTheWay

\* An exception that does not end the process: only the open transaction
\* changes, to a beginning of what is buffered.
LEMMA RaiseBatch ==
    ASSUME Sound, main \in {"write", "mark"}, back # "closing",
           main' = "exit", UNCHANGED <<journal, rows, cursor, disk, back>>,
           UNCHANGED <<pending, buffer, queue, worker, wcursor, rpos, hand>>,
           UNCHANGED <<atTail, rotated>>,
           txn'.cursor \in {0, pending}, Begins(txn'.rows, buffer)
    PROVE  BatchInv'
<1> USE DEF Sound, BatchInv
<1>1. Flushing'
  BY DEF Flushing, Begins
<1>2. BufferOrder'
  BY DEF BufferOrder, Rising, UpTo, Beyond
<1>3. Older'
  BY DEF Older, Begins
<1>4. Skipped' = Skipped /\ cursor \in Nat
  BY Numbers DEF Skipped, Good, Inv
<1>5. NoGap'
  BY <1>4 DEF NoGap, Between, Logged, Entries
<1>6. OnTheWay'
  BY <1>4, OnTheWayKept
<1> QED
  BY <1>1, <1>2, <1>3, <1>5, <1>6

LEMMA WriteFailsBatch == Sound /\ WriteFails => BatchInv'
<1> SUFFICES ASSUME Sound, WriteFails PROVE BatchInv'
  OBVIOUS
<1>1. /\ UNCHANGED <<journal, rows, cursor, disk, atTail, rotated>>
      /\ main = "write"
  BY DEF WriteFails
<1>2. PICK k \in 0..Len(buffer) :
           Raise(Image(txn.rows \o SubSeq(buffer, 1, k), txn.cursor))
  BY DEF WriteFails
<1>3. /\ cursor \in Nat /\ buffer \in Seq(Cursors)
      /\ \A image \in disk : Begins(image.rows, rows) /\ image.cursor <= cursor
  BY Numbers DEF Sound, Good, Inv, BatchInv, Older
<1>4. CASE back = "closing"
  <2>1. Vanish
    BY <1>2, <1>4 DEF Raise
  <2> QED
    BY <1>1, <1>3, <2>1, VanishBatch
<1>5. CASE back # "closing"
  <2>1. txn.rows = <<>> /\ txn.cursor = 0
    BY <1>1, <1>5 DEF Sound, BatchInv, Flushing, NoTxn
  <2>2. Begins(SubSeq(buffer, 1, k), buffer)
        /\ SubSeq(buffer, 1, k) \in Seq(Cursors)
    <3>1. 1 \in Int /\ k \in Int /\ (1 > k => k = 0) /\ Len(buffer) \in Nat
          /\ k <= Len(buffer) /\ k - 1 + 1 = k
          /\ \A i \in 1..k : 1 + i - 1 = i /\ i \in 1..Len(buffer)
      BY <1>3
    <3>2. \A i \in 1..k : buffer[i] \in Cursors
      BY <1>3, <3>1, Elements
    <3>3. /\ SubSeq(buffer, 1, k) \in Seq(Cursors)
          /\ Len(SubSeq(buffer, 1, k)) = k
          /\ \A i \in 1..k : SubSeq(buffer, 1, k)[i] = buffer[i]
      BY <3>1, <3>2, SubSeqProperties
    <3> QED
      BY <3>1, <3>3 DEF Begins
  <2>3. <<>> \o SubSeq(buffer, 1, k) = SubSeq(buffer, 1, k)
    BY <2>2, ConcatEmptySeq
  <2>4. /\ main' = "exit" /\ UNCHANGED <<pending, buffer, queue, back>>
        /\ UNCHANGED <<worker, wcursor, rpos, hand>>
        /\ txn' \in {Image(SubSeq(buffer, 1, k), 0), NoTxn}
    BY <1>2, <1>5, <2>1, <2>3 DEF Raise, workerVars
  <2>5. Begins(<<>>, buffer)
    BY <1>3, BeginsEmpty
  <2>6. txn'.cursor = 0 /\ Begins(txn'.rows, buffer)
    <3>1. /\ Image(SubSeq(buffer, 1, k), 0).rows = SubSeq(buffer, 1, k)
          /\ Image(SubSeq(buffer, 1, k), 0).cursor = 0
          /\ NoTxn.rows = <<>> /\ NoTxn.cursor = 0
      BY DEF Image, NoTxn
    <3> QED
      BY <2>2, <2>4, <2>5, <3>1
  <2> QED
    BY <1>1, <1>5, <2>4, <2>6, RaiseBatch
<1> QED
  BY <1>4, <1>5

LEMMA MarkFailsBatch == Sound /\ MarkFails => BatchInv'
<1> SUFFICES ASSUME Sound, MarkFails PROVE BatchInv'
  OBVIOUS
<1>1. /\ UNCHANGED <<journal, rows, cursor, disk, atTail, rotated>>
      /\ main = "mark"
  BY DEF MarkFails
<1>2. /\ cursor \in Nat /\ buffer \in Seq(Cursors)
      /\ \A image \in disk : Begins(image.rows, rows) /\ image.cursor <= cursor
  BY Numbers DEF Sound, Good, Inv, BatchInv, Older
<1>3. CASE back = "closing"
  <2>1. Vanish
    BY <1>3 DEF MarkFails, Raise
  <2> QED
    BY <1>1, <1>2, <2>1, VanishBatch
<1>4. CASE back # "closing"
  <2>1. /\ main' = "exit" /\ UNCHANGED <<pending, buffer, queue, back>>
        /\ UNCHANGED <<worker, wcursor, rpos, hand>>
        /\ txn' \in {Image(<<>>, pending), NoTxn}
    BY <1>4 DEF MarkFails, Raise, workerVars
  <2>2. Begins(<<>>, buffer)
    BY <1>2, BeginsEmpty
  <2>3. txn'.cursor \in {0, pending} /\ Begins(txn'.rows, buffer)
    BY <2>1, <2>2 DEF Image, NoTxn
  <2> QED
    BY <1>1, <1>4, <2>1, <2>3, RaiseBatch
<1> QED
  BY <1>3, <1>4

\* The steps that end the process.
LEMMA EndBatch == Sound /\ (Close \/ Kill \/ PowerLoss) => BatchInv'
<1> SUFFICES ASSUME Sound, Close \/ Kill \/ PowerLoss PROVE BatchInv'
  OBVIOUS
<1>1. /\ cursor \in Nat /\ rows \in Seq(Cursors)
      /\ \A image \in disk : Begins(image.rows, rows) /\ image.cursor <= cursor
  BY Numbers DEF Sound, Good, Inv, BatchInv, Older
<1>2. CASE Close
  <2>1. /\ Vanish /\ rows' = rows /\ cursor' = cursor
        /\ disk' \in {disk, {Image(rows, cursor)}}
    BY <1>2 DEF Close
  <2>2. Begins(rows, rows) /\ cursor <= cursor
    BY <1>1, BeginsSelf
  <2>3. \A image \in disk' : Begins(image.rows, rows) /\ image.cursor <= cursor
    BY <1>1, <2>1, <2>2 DEF Image
  <2> QED
    BY <1>1, <2>1, <2>3, VanishBatch
<1>3. CASE Kill
  <2>1. Vanish /\ rows' = rows /\ cursor' = cursor /\ disk' = disk
    BY <1>3 DEF Kill
  <2> QED
    BY <1>1, <2>1, VanishBatch
<1>4. CASE PowerLoss
  <2>1. PICK image \in disk :
           /\ rows' = image.rows /\ cursor' = image.cursor /\ disk' = {image}
    BY <1>4 DEF PowerLoss
  <2>2. image.cursor \in Nat /\ image.rows \in Seq(Cursors)
    BY Numbers DEF Sound, Good, Inv, TypeOK, StoreType, Images
  <2>3. Begins(image.rows, image.rows) /\ image.cursor <= image.cursor
    BY <2>2, BeginsSelf
  <2>4. Vanish
    BY <1>4 DEF PowerLoss
  <2>5. \A other \in disk' : /\ Begins(other.rows, rows')
                             /\ other.cursor <= cursor'
    BY <2>1, <2>3
  <2> QED
    BY <2>1, <2>2, <2>4, <2>5, VanishBatch
<1> QED
  BY <1>2, <1>3, <1>4

\* The steps that only move a thread or the disk.
LEMMA QuietBatches ==
    ASSUME Sound,
           \/ CheckStop \/ EndDrain \/ PollNothing \/ PollEvents \/ EndReport
           \/ MaybeFlush \/ FinalFlush \/ EndBackoff
           \/ ReaderStops \/ Tick \/ Checkpoint \/ Stop \/ Reboot
           \/ VacuumJournal \/ ReaderFails \/ PollFails \/ UNCHANGED vars
    PROVE  BatchInv'
<1> USE DEF Proceeds, Skipped
<1>1. CASE \/ CheckStop \/ EndDrain \/ PollNothing \/ EndReport \/ MaybeFlush
  BY <1>1, QuietBatch DEF CheckStop, EndDrain, PollNothing, EndReport,
     MaybeFlush, Flush, workerVars, dbVars, historyVars
<1>2. CASE FinalFlush
  BY <1>2, QuietBatch DEF FinalFlush, Flush, workerVars, dbVars, historyVars
<1>3. CASE PollEvents \/ PollFails
  BY <1>3, QuietBatch DEF PollEvents, PollFails, workerVars, dbVars
<1>4. CASE EndBackoff \/ ReaderStops
  BY <1>4, QuietBatch DEF EndBackoff, ReaderStops, WorkerGoes,
     readerUnchanged, mainVars, dbVars
<1>5. CASE Tick \/ Checkpoint
  BY <1>5, QuietBatch DEF Tick, Checkpoint, mainVars, workerVars, dbVars,
     historyVars
<1>6. CASE Stop
  BY <1>6, QuietBatch DEF Stop, workerVars, dbVars
<1>7. CASE Reboot \/ VacuumJournal \/ ReaderFails
  BY <1>7, QuietBatch DEF Reboot, VacuumJournal, ReaderFails, mainVars,
     workerVars, dbVars
<1>8. CASE UNCHANGED vars
  BY <1>8, QuietBatch DEF vars, mainVars, workerVars, dbVars, historyVars
<1> QED
  BY <1>1, <1>2, <1>3, <1>4, <1>5, <1>6, <1>7, <1>8

LEMMA SoundInit == Init => Sound
<1> SUFFICES ASSUME Init PROVE Sound
  OBVIOUS
<1>1. Good
  BY GoodInit
<1>2. Flushing
  BY DEF Init, Flushing, NoTxn, Begins
<1>3. BufferOrder
  BY EmptyOrder DEF Init, BufferOrder
<1>4. Older
  BY DEF Init, Older, NoTxn, Begins
<1>5. 0 + 1 .. 0 = {} /\ DOMAIN <<>> = {}
  OBVIOUS
<1>6. OnTheWay /\ NoGap
  BY <1>5 DEF Init, OnTheWay, NoGap, Between
<1> QED
  BY <1>1, <1>2, <1>3, <1>4, <1>6 DEF Sound, BatchInv

LEMMA SoundNext == Sound /\ [Next]_vars => Sound'
<1> SUFFICES ASSUME Sound, [Next]_vars PROVE Sound'
  OBVIOUS
<1>1. Good'
  BY GoodNext DEF Sound
<1>2. BatchInv'
  BY StartBatch, DrainBatch, ReportBatch, WriteBatchStep, MarkBatch,
     OpenBatch, SeekFailsBatch, ReadBatch, PutBatch, LogBatch,
     WriteFailsBatch, MarkFailsBatch, EndBatch, QuietBatches
     DEF Next, MainStep, WorkerStep, Disturbance
<1> QED
  BY <1>1, <1>2 DEF Sound

----------------------------------------------------------------------------
(* Every step of the collector is one of Delivery, or hidden from it. *)

LEMMA HiddenStep ==
    ASSUME UNCHANGED <<journal, atTail, rotated, rows, cursor>>,
           main' = "mark" <=> main = "mark",
           main = "mark" => pending' = pending
    PROVE  UNCHANGED Promise!vars
  BY DEF Promise!vars, Skipped

LEMMA HiddenSteps ==
    ASSUME Sound,
           \/ StartDaemon \/ CheckStop \/ Drain \/ EndDrain
           \/ PollNothing \/ PollEvents \/ ReportEvent \/ EndReport
           \/ MaybeFlush \/ FinalFlush \/ Close \/ PutEvent \/ EndBackoff
           \/ ReaderStops \/ Tick \/ Checkpoint \/ Stop \/ Reboot
           \/ VacuumJournal \/ ReaderFails \/ PollFails \/ WriteFails
           \/ UNCHANGED vars
    PROVE  UNCHANGED Promise!vars
<1>1. CASE \/ StartDaemon \/ CheckStop \/ EndDrain \/ PollNothing
           \/ PollEvents \/ EndReport \/ MaybeFlush \/ FinalFlush \/ PollFails
  BY <1>1, HiddenStep DEF StartDaemon, StartWith, CheckStop, EndDrain,
     PollNothing, PollEvents, EndReport, MaybeFlush, FinalFlush, PollFails,
     Flush, dbVars, historyVars
<1>2. CASE Drain \/ ReportEvent
  BY <1>2, HiddenStep DEF Drain, ReportEvent, Submit, SubmitUpTo, dbVars,
     historyVars
<1>3. CASE Close \/ WriteFails
  BY <1>3, HiddenStep DEF Close, WriteFails, Raise, Vanish, historyVars
<1>4. CASE PutEvent \/ EndBackoff \/ ReaderStops
  BY <1>4, HiddenStep DEF PutEvent, PutRemembering, EndBackoff, ReaderStops,
     WorkerGoes, readerUnchanged, mainVars, dbVars
<1>5. CASE Tick \/ Checkpoint \/ Stop \/ UNCHANGED vars
  BY <1>5, HiddenStep DEF Tick, Checkpoint, Stop, vars, mainVars, dbVars,
     historyVars
<1>6. CASE Reboot \/ VacuumJournal \/ ReaderFails
  BY <1>6, HiddenStep DEF Reboot, VacuumJournal, ReaderFails, mainVars,
     dbVars
<1> QED
  BY <1>1, <1>2, <1>3, <1>4, <1>5, <1>6

LEMMA PassSteps ==
    ASSUME OpenAtCursor \/ OpenAtTail \/ ReadNext \/ SeekFails
    PROVE  Promise!Pass
<1>1. /\ UNCHANGED <<journal, mainVars, dbVars>>
      /\ Skipped \subseteq Skipped'
  BY DEF OpenAtCursor, OpenAtTail, ReadNext, SeekFails, StartAfter,
     StartReading, readerUnchanged, Skipped
<1> QED
  BY <1>1 DEF Promise!Pass, mainVars, dbVars

LEMMA JournalStep == ASSUME Sound, NEW u \in Units, Log(u) PROVE Promise!Write
<1>1. /\ journal' = Append(journal, u)
      /\ UNCHANGED <<main, pending, rows, cursor, atTail, rotated>>
  BY DEF Log, mainVars, dbVars, historyVars
<1>2. journal \in Seq(Units)
  BY DEF Sound, Good, Inv, TypeOK, JournalType
<1>3. Promise!Front(Append(journal, u)) = journal
  <2>1. /\ Append(journal, u) \in Seq(Units)
        /\ Len(Append(journal, u)) = Len(journal) + 1
        /\ \A i \in 1..Len(journal) : Append(journal, u)[i] = journal[i]
    BY <1>2, AppendProperties
  <2>2. /\ 1 \in Int /\ Len(journal) \in Int /\ Len(journal) + 1 - 1 = Len(journal)
        /\ (1 > Len(journal) => Len(journal) = 0)
        /\ Len(journal) - 1 + 1 = Len(journal)
        /\ \A i \in 1..Len(journal) : 1 + i - 1 = i
    BY <1>2
  <2>3. \A i \in 1..Len(journal) : Append(journal, u)[i] \in Units
    BY <1>2, <2>1, Elements
  <2>4. /\ SubSeq(Append(journal, u), 1, Len(journal)) \in Seq(Units)
        /\ Len(SubSeq(Append(journal, u), 1, Len(journal))) = Len(journal)
        /\ \A i \in 1..Len(journal) :
              SubSeq(Append(journal, u), 1, Len(journal))[i] = journal[i]
    BY <2>1, <2>2, <2>3, SubSeqProperties
  <2>5. SubSeq(Append(journal, u), 1, Len(journal)) = journal
    BY <1>2, <2>4, SeqEqual
  <2> QED
    BY <2>1, <2>2, <2>5 DEF Promise!Front
<1> QED
  BY <1>1, <1>3 DEF Promise!Write, Skipped

LEMMA AdvanceStep == Sound /\ MarkCursor => Promise!Advance
<1> SUFFICES ASSUME Sound, MarkCursor PROVE Promise!Advance
  OBVIOUS
<1>1. /\ rows' = rows /\ cursor' = pending /\ main = "mark" /\ main' = back
      /\ UNCHANGED <<journal, atTail, rotated>>
  BY DEF MarkCursor, MarkWith, Commit, ClearBuffer, historyVars
<1>2. main' # "mark"
  BY <1>1 DEF Sound, Good, Inv, TypeOK, MainType
<1> QED
  BY <1>1, <1>2 DEF Promise!Advance, Skipped

LEMMA ForgetSteps == Kill \/ MarkFails => Promise!Forget
<1>1. ASSUME Kill \/ MarkFails
      PROVE  /\ UNCHANGED <<journal, rows, cursor, atTail, rotated>>
             /\ main' # "mark"
  BY <1>1 DEF Kill, MarkFails, Raise, Vanish
<1> QED
  BY <1>1 DEF Promise!Forget, Skipped

LEMMA PowerLossStep == Sound /\ PowerLoss => Promise!PowerLoss
<1> SUFFICES ASSUME Sound, PowerLoss PROVE Promise!PowerLoss
  OBVIOUS
<1>1. PICK image \in disk : rows' = image.rows /\ cursor' = image.cursor
  BY DEF PowerLoss
<1>2. UNCHANGED <<journal, atTail, rotated>> /\ main' # "mark"
  BY DEF PowerLoss, Vanish
<1>3. /\ Begins(image.rows, rows) /\ image.cursor <= cursor
      /\ Covers(image)
  BY DEF Sound, BatchInv, Older, Good, Inv, CursorInv, CursorCovered
<1>4. Promise!IsPrefix(image.rows, rows)
  <2>1. image.rows \in Seq(Cursors) /\ rows \in Seq(Cursors)
    BY Numbers DEF Sound, Good, Inv, TypeOK, StoreType, Images
  <2> QED
    BY <1>3, <2>1, BeginsIsPrefix
<1>5. \A e \in 1..image.cursor :
         Promise!Wanted(e) => e \in Range(image.rows) \cup Skipped
  BY <1>3 DEF Covers, Accounted, Promise!Wanted, Logged, Entries
<1>6. Skipped' = Skipped
  BY <1>2 DEF Skipped
<1>7. Promise!IsPrefix(rows', rows) /\ cursor' <= cursor
  BY <1>1, <1>3, <1>4
<1>8. \A e \in 1..cursor' :
         Promise!Wanted(e) => e \in Range(rows') \cup Skipped
  BY <1>1, <1>5
<1> QED
  BY <1>2, <1>6, <1>7, <1>8 DEF Promise!PowerLoss, Promise!Range, Range

\* The batch of a flush, in Delivery's terms.
LEMMA BatchContinues == Sound /\ WriteBatch => Promise!Continues(buffer)
<1> SUFFICES ASSUME Sound, WriteBatch PROVE Promise!Continues(buffer)
  OBVIOUS
<1>1. /\ cursor' = Larger(cursor, txn.cursor) /\ main = "write"
      /\ pending' = pending
      /\ pending # 0 => main' = "mark"
      /\ pending = 0 => main' = back
  BY DEF WriteBatch, Commit, ClearBuffer
<1>2. /\ cursor \in Nat /\ pending \in Nat /\ txn.cursor \in {0, pending}
      /\ buffer \in Seq(Cursors) /\ Cursors \in SUBSET Nat
      /\ back # "mark"
  BY Numbers DEF Sound, Good, Inv, TypeOK, MainType, BatchInv, Flushing
<1>3. Rising(buffer) /\ UpTo(buffer, pending) /\ Beyond(buffer, cursor)
  BY <1>1 DEF Sound, BatchInv, BufferOrder
<1>4. \A i \in DOMAIN buffer : buffer[i] \in Nat
  BY <1>2, Elements
<1> DEFINE reach == IF main' = "mark" THEN pending' ELSE cursor'
<1>5. reach = IF pending # 0 THEN pending ELSE cursor
  <2>1. pending = 0 => cursor' = cursor
    BY <1>1, <1>2 DEF Larger
  <2> QED
    BY <1>1, <1>2, <2>1
<1>6. \A i \in DOMAIN buffer : buffer[i] # 0 => buffer[i] \in cursor + 1 .. reach
  <2> SUFFICES ASSUME NEW i \in DOMAIN buffer, buffer[i] # 0
               PROVE  buffer[i] \in cursor + 1 .. reach
    OBVIOUS
  <2>1. cursor < buffer[i] /\ buffer[i] <= pending /\ buffer[i] \in Nat
    BY <1>3, <1>4 DEF UpTo, Beyond
  <2>2. pending # 0 /\ reach = pending
    BY <1>2, <1>5, <2>1
  <2> QED
    BY <1>2, <2>1, <2>2
<1>7. \A e \in cursor + 1 .. reach :
         Promise!Wanted(e) => e \in Range(buffer) \cup Skipped
  <2>1. CASE pending # 0
    <3>1. Between(Range(buffer), cursor, pending)
      BY DEF Sound, BatchInv, NoGap
    <3> HIDE DEF reach
    <3> QED
      BY <1>5, <2>1, <3>1 DEF Between, Promise!Wanted, Logged, Entries
  <2>2. CASE pending = 0
    <3>1. cursor + 1 .. reach = {}
      BY <1>2, <1>5, <2>2
    <3> QED
      BY <3>1
  <2> QED
    BY <2>1, <2>2
<1>8. \A i, j \in DOMAIN buffer :
         i < j /\ buffer[i] # 0 /\ buffer[j] # 0 => buffer[i] < buffer[j]
  BY <1>3 DEF Rising
<1>9. \A b : Promise!Continues(b) <=>
         /\ \A i, j \in DOMAIN b :
               i < j /\ b[i] # 0 /\ b[j] # 0 => b[i] < b[j]
         /\ \A i \in DOMAIN b : b[i] # 0 => b[i] \in cursor + 1 .. reach
         /\ \A e \in cursor + 1 .. reach :
               Promise!Wanted(e) => e \in Range(b) \cup Skipped
  BY <1>1 DEF Promise!Continues, Promise!Range, Range
<1> HIDE DEF reach
<1> QED
  BY <1>6, <1>7, <1>8, <1>9

LEMMA StoreStep == Sound /\ WriteBatch => Promise!Store
<1> SUFFICES ASSUME Sound, WriteBatch PROVE Promise!Store
  OBVIOUS
<1> DEFINE t == txn.rows
           n == Len(rows) + Len(t) + 1
<1>1. /\ rows' = rows \o t \o buffer /\ main = "write"
      /\ cursor' = Larger(cursor, txn.cursor) /\ pending' = pending
      /\ pending # 0 => main' = "mark"
      /\ pending = 0 => main' = back
      /\ UNCHANGED <<journal, atTail, rotated>>
  BY DEF WriteBatch, Commit, ClearBuffer, historyVars
<1>2. /\ cursor \in Nat /\ pending \in Nat /\ txn.cursor \in {0, pending}
      /\ rows \in Seq(Cursors) /\ t \in Seq(Cursors)
      /\ buffer \in Seq(Cursors) /\ buffer # <<>> /\ back # "mark"
      /\ pending # 0 => cursor <= pending
      /\ Begins(t, buffer)
  BY <1>1, Numbers DEF Sound, Good, Inv, TypeOK, MainType, StoreType, Images,
     BatchInv, Flushing, OrderInv, Marks
<1>3. Promise!Continues(buffer)
  BY BatchContinues
<1>4. Len(rows) \in Nat /\ Len(t) \in Nat /\ n - 1 = Len(rows) + Len(t)
  BY <1>2
<1> HIDE DEF t
<1>5. /\ Promise!From(rows', n) = buffer
      /\ SubSeq(rows', Len(rows) + 1, Len(rows) + Len(t)) = t
      /\ n \in Len(rows) + 1 .. Len(rows')
  BY <1>1, <1>2, PartsOfConcat
<1>6. Promise!IsPrefix(t, buffer)
  BY <1>2, BeginsIsPrefix
<1>7. Promise!IsPrefix(rows, rows')
  <2>1. rows \o t \in Seq(Cursors)
    BY <1>2, ConcatProperties
  <2>2. rows \o t \o buffer \in Seq(Cursors)
    BY <1>2, <2>1, ConcatProperties
  <2>3. Begins(rows, rows)
    BY <1>2, BeginsSelf
  <2>4. Begins(rows, rows \o t)
    BY <1>2, <2>3, BeginsConcat
  <2>5. Begins(rows, rows \o t \o buffer)
    BY <1>2, <2>1, <2>4, BeginsConcat
  <2> QED
    BY <1>1, <1>2, <2>2, <2>5, BeginsIsPrefix
<1> DEFINE reach == IF main' = "mark" THEN pending' ELSE cursor'
<1>8. reach >= cursor /\ cursor' \in {cursor, reach}
  <2>1. pending = 0 => cursor' = cursor /\ reach = cursor
    BY <1>1, <1>2 DEF Larger
  <2>2. pending # 0 => cursor' \in {cursor, pending} /\ reach = pending
    BY <1>1, <1>2 DEF Larger
  <2> QED
    BY <1>2, <2>1, <2>2
<1>9. SubSeq(rows', Len(rows) + 1, n - 1) = t
  BY <1>4, <1>5
<1>10. \E m \in Len(rows) + 1 .. Len(rows') :
          LET batch == Promise!From(rows', m)
          IN  /\ Promise!IsPrefix(SubSeq(rows', Len(rows) + 1, m - 1), batch)
              /\ Promise!Continues(batch)
  <2>1. /\ Promise!IsPrefix(SubSeq(rows', Len(rows) + 1, n - 1),
                             Promise!From(rows', n))
        /\ Promise!Continues(Promise!From(rows', n))
    BY <1>3, <1>5, <1>6, <1>9
  <2> HIDE DEF n
  <2> QED
    BY <1>5, <2>1
<1>11. Skipped' = Skipped
  BY <1>1 DEF Skipped
<1> QED
  BY <1>1, <1>7, <1>8, <1>10, <1>11 DEF Promise!Store

LEMMA PromiseInit == Init => Promise!Init
  BY DEF Init, Promise!Init, Skipped

LEMMA PromiseNext == Sound /\ [Next]_vars => [Promise!Next]_(Promise!vars)
<1> SUFFICES ASSUME Sound, [Next]_vars
             PROVE  Promise!Next \/ UNCHANGED Promise!vars
  OBVIOUS
<1> QED
  BY HiddenSteps, PassSteps, JournalStep, AdvanceStep, ForgetSteps,
     PowerLossStep, StoreStep
     DEF Next, MainStep, WorkerStep, Disturbance, Promise!Next

\* The collector is a log that resumes: each run stores, in order and without
\* a gap, the watched entries just after the cursor it was started from, and
\* what a failed flush leaves is a beginning of the batch stored next
\* (JournalSource.events, Daemon._drain_queue, Pipeline.flush, write_batch).
THEOREM Implements == Spec => Delivers
  BY SoundInit, SoundNext, PromiseInit, PromiseNext, PTL
     DEF Spec, Delivers, Promise!Spec

----------------------------------------------------------------------------
(***************************************************************************)
(* How often an entry is stored, and how much is in memory only, for any   *)
(* number of units, entries and disturbances and any sizes of batch and    *)
(* queue.                                                                  *)
(*                                                                         *)
(* An entry beyond what this run has stored is in the rows once for each   *)
(* torn flush at most, counting what an open transaction would add, so     *)
(* that the flush that stores it now is the one that is allowed.  The      *)
(* entries the reader has taken are in the rows, in the buffer, in the     *)
(* queue or in its hand, and the first three of these have their sizes.    *)
(***************************************************************************)

Copies(s, e) == {i \in DOMAIN s : s[i] = e}
Stored == IF main = "mark" THEN pending ELSE cursor

CopiesInv ==
    \A e \in 1..MaxEntries :
        /\ Cardinality(Copies(rows, e)) <= 1 + torn
        /\ e > Stored =>
              Cardinality(Copies(rows, e)) + Cardinality(Copies(txn.rows, e))
                  <= torn

Sizes ==
    /\ Len(buffer) <= BatchSize /\ Len(queue) <= QueueSize
    /\ main \notin {"write", "mark", "exit"} => Len(buffer) < BatchSize

Taken == Accounted(Held \cup Range(queue), rpos - 1)

\* A poll under way has room for its events behind what is buffered; they are
\* submitted one after the other, a flush may fail in between.
Unreported ==
    /\ \/ toReport = 0
       \/ main \in {"report", "exit", "closing"}
       \/ main \in {"write", "mark"} /\ back \in {"report", "closing"}
    /\ Len(buffer) + toReport <= BatchSize - 1 + PollSize

Bounded == Sound /\ CopiesInv /\ Sizes /\ Unreported /\ Taken

----------------------------------------------------------------------------
(* Counting. *)

LEMMA CopiesFinite ==
    ASSUME NEW S, NEW s \in Seq(S), NEW e
    PROVE  IsFiniteSet(Copies(s, e)) /\ Cardinality(Copies(s, e)) \in Nat
<1>1. IsFiniteSet(1..Len(s))
  BY FS_Interval
<1>2. Copies(s, e) \in SUBSET (1..Len(s))
  BY DEF Copies
<1>3. IsFiniteSet(Copies(s, e))
  BY <1>1, <1>2, FS_Subset
<1> QED
  BY <1>3, FS_CardinalityType

LEMMA CopiesAbsent ==
    ASSUME NEW s, NEW e, \A i \in DOMAIN s : s[i] # e
    PROVE  Cardinality(Copies(s, e)) = 0
<1>1. Copies(s, e) = {}
  BY DEF Copies
<1> QED
  BY <1>1, FS_EmptySet

LEMMA CopiesBegin ==
    ASSUME NEW S, NEW r \in Seq(S), NEW s \in Seq(S), NEW e, Begins(r, s)
    PROVE  Cardinality(Copies(r, e)) <= Cardinality(Copies(s, e))
<1>1. IsFiniteSet(Copies(s, e))
  BY CopiesFinite
<1>2. Copies(r, e) \in SUBSET Copies(s, e)
  BY DEF Copies, Begins
<1> QED
  BY <1>1, <1>2, FS_Subset

\* What increases holds an entry once.
LEMMA CopiesRising ==
    ASSUME NEW S \in SUBSET Nat, NEW s \in Seq(S), NEW e \in Nat \ {0},
           Rising(s)
    PROVE  Cardinality(Copies(s, e)) <= 1
<1>1. CASE Copies(s, e) = {}
  BY <1>1, FS_EmptySet
<1>2. CASE Copies(s, e) # {}
  <2>1. PICK i \in DOMAIN s : s[i] = e
    BY <1>2 DEF Copies
  <2>2. ASSUME NEW j \in DOMAIN s, s[j] = e PROVE j = i
    <3>1. i \in Nat /\ j \in Nat
      BY <2>2
    <3>2. ~(i < j) /\ ~(j < i)
      BY <2>1, <2>2 DEF Rising
    <3> QED
      BY <3>1, <3>2
  <2>3. Copies(s, e) = {i}
    BY <2>1, <2>2 DEF Copies
  <2>4. Cardinality({i}) = 1
    BY FS_Singleton
  <2> QED
    BY <2>3, <2>4
<1> QED
  BY <1>1, <1>2

LEMMA CopiesConcat ==
    ASSUME NEW S, NEW s \in Seq(S), NEW t \in Seq(S), NEW e
    PROVE  Cardinality(Copies(s \o t, e))
             = Cardinality(Copies(s, e)) + Cardinality(Copies(t, e))
<1> DEFINE n == Len(s)
           moved == {i + n : i \in Copies(t, e)}
           f == [i \in Copies(t, e) |-> i + n]
<1>1. /\ n \in Nat /\ Len(t) \in Nat
      /\ DOMAIN s = 1..n /\ DOMAIN t = 1..Len(t)
      /\ DOMAIN (s \o t) = 1..n + Len(t)
      /\ \A i \in 1..n + Len(t) :
            (s \o t)[i] = IF i <= n THEN s[i] ELSE t[i - n]
  BY ConcatProperties
<1> HIDE DEF n
<1>2. /\ IsFiniteSet(Copies(s, e)) /\ IsFiniteSet(Copies(t, e))
      /\ Cardinality(Copies(s, e)) \in Nat /\ Cardinality(Copies(t, e)) \in Nat
  BY CopiesFinite
<1>3. Copies(t, e) \subseteq 1..Len(t) /\ Copies(s, e) \subseteq 1..n
  BY <1>1 DEF Copies
<1>4. f \in Bijection(Copies(t, e), moved)
  <2>1. f \in [Copies(t, e) -> moved]
    OBVIOUS
  <2>2. \A i, j \in Copies(t, e) : f[i] = f[j] => i = j
    BY <1>1, <1>3
  <2>3. \A m \in moved : \E i \in Copies(t, e) : f[i] = m
    OBVIOUS
  <2> HIDE DEF f, moved
  <2> QED
    BY <2>1, <2>2, <2>3, Fun_IsBij
<1>5. IsFiniteSet(moved) /\ Cardinality(moved) = Cardinality(Copies(t, e))
  <2> HIDE DEF f, moved
  <2>1. ExistsBijection(Copies(t, e), moved)
    BY <1>4 DEF ExistsBijection
  <2> QED
    BY <1>2, <2>1, FS_Bijection
<1>6. Copies(s \o t, e) = Copies(s, e) \cup moved
  <2>1. \A i \in Copies(s \o t, e) : i \in Copies(s, e) \cup moved
    <3> SUFFICES ASSUME NEW i \in 1..n + Len(t), (s \o t)[i] = e
                 PROVE  i \in Copies(s, e) \cup moved
      BY <1>1 DEF Copies
    <3>1. CASE i <= n
      BY <1>1, <3>1 DEF Copies
    <3>2. CASE i > n
      <4>1. i - n \in 1..Len(t) /\ (i - n) + n = i /\ t[i - n] = e
        BY <1>1, <3>2
      <4>2. i - n \in Copies(t, e)
        BY <1>1, <4>1 DEF Copies
      <4> QED
        BY <4>1, <4>2
    <3> QED
      BY <1>1, <3>1, <3>2
  <2>2. \A i \in Copies(s, e) : i \in Copies(s \o t, e)
    BY <1>1 DEF Copies
  <2>3. \A i \in Copies(t, e) : i + n \in Copies(s \o t, e)
    <3> SUFFICES ASSUME NEW i \in 1..Len(t), t[i] = e
                 PROVE  i + n \in Copies(s \o t, e)
      BY <1>1 DEF Copies
    <3>1. i + n \in 1..n + Len(t) /\ ~(i + n <= n) /\ (i + n) - n = i
      BY <1>1
    <3> QED
      BY <1>1, <3>1 DEF Copies
  <2> QED
    BY <2>1, <2>2, <2>3
<1>7. Copies(s, e) \cap moved = {}
  BY <1>1, <1>3
<1>8. Cardinality(Copies(s, e) \cap moved) = 0
  BY <1>7, FS_EmptySet
<1> HIDE DEF moved, f
<1>9. Cardinality(Copies(s, e) \cup moved)
        = Cardinality(Copies(s, e)) + Cardinality(moved)
          - Cardinality(Copies(s, e) \cap moved)
  BY <1>2, <1>5, FS_Union
<1> QED
  BY <1>2, <1>5, <1>6, <1>8, <1>9

----------------------------------------------------------------------------
(* Copies. *)

LEMMA Counts ==
    ASSUME Sound
    PROVE  /\ torn \in Nat /\ cursor \in Nat /\ pending \in Nat
           /\ rows \in Seq(Cursors) /\ txn.rows \in Seq(Cursors)
           /\ buffer \in Seq(Cursors) /\ Cursors \in SUBSET Nat
           /\ \A e : /\ Cardinality(Copies(rows, e)) \in Nat
                     /\ Cardinality(Copies(txn.rows, e)) \in Nat
                     /\ Cardinality(Copies(buffer, e)) \in Nat
<1>1. /\ torn \in Nat /\ cursor \in Nat /\ pending \in Nat
      /\ rows \in Seq(Cursors) /\ buffer \in Seq(Cursors)
      /\ Cursors \in SUBSET Nat
  BY Numbers DEF Sound, Good, Inv
<1>2. txn.rows \in Seq(Cursors)
  BY DEF Sound, Good, Inv, TypeOK, StoreType, Images
<1> QED
  BY <1>1, <1>2, CopiesFinite

LEMMA CopiesEmpty == \A e : Cardinality(Copies(<<>>, e)) = 0
  BY CopiesAbsent

\* Nothing is stored, nothing torn; a transaction is kept or rolled back.
LEMMA CopiesQuiet ==
    ASSUME Bounded, rows' = rows, torn' = torn, Stored' = Stored,
           txn'.rows \in {txn.rows, <<>>}
    PROVE  CopiesInv'
<1> SUFFICES ASSUME NEW e \in 1..MaxEntries
             PROVE  /\ Cardinality(Copies(rows, e)) <= 1 + torn
                    /\ e > Stored =>
                         Cardinality(Copies(rows, e))
                           + Cardinality(Copies(txn'.rows, e)) <= torn
  BY DEF CopiesInv, Copies
<1>1. /\ Cardinality(Copies(rows, e)) <= 1 + torn
      /\ e > Stored => Cardinality(Copies(rows, e))
                         + Cardinality(Copies(txn.rows, e)) <= torn
  BY DEF Bounded, CopiesInv
<1>2. Cardinality(Copies(<<>>, e)) = 0
  BY CopiesEmpty
<1>3. /\ torn \in Nat /\ Cardinality(Copies(rows, e)) \in Nat
      /\ Cardinality(Copies(txn.rows, e)) \in Nat
  BY Counts DEF Bounded
<1> QED
  BY <1>1, <1>2, <1>3

\* A flush is torn: the transaction is gone or holds each entry once, or what
\* is stored may have to be stored again.
LEMMA CopiesTorn ==
    ASSUME Bounded, rows' = rows, torn' = torn + 1,
           \/ txn'.rows = <<>>
           \/ /\ Stored' = Stored
              /\ \A e \in 1..MaxEntries :
                    /\ Cardinality(Copies(txn'.rows, e)) \in Nat
                    /\ Cardinality(Copies(txn'.rows, e)) <= 1
    PROVE  CopiesInv'
<1> SUFFICES ASSUME NEW e \in 1..MaxEntries
             PROVE  /\ Cardinality(Copies(rows, e)) <= 1 + (torn + 1)
                    /\ e > Stored' =>
                         Cardinality(Copies(rows, e))
                           + Cardinality(Copies(txn'.rows, e)) <= torn + 1
  BY DEF CopiesInv, Copies
<1>1. /\ Cardinality(Copies(rows, e)) <= 1 + torn
      /\ e > Stored => Cardinality(Copies(rows, e))
                         + Cardinality(Copies(txn.rows, e)) <= torn
  BY DEF Bounded, CopiesInv
<1>2. Cardinality(Copies(<<>>, e)) = 0
  BY CopiesEmpty
<1>3. /\ torn \in Nat /\ Cardinality(Copies(rows, e)) \in Nat
      /\ Cardinality(Copies(txn.rows, e)) \in Nat
  BY Counts DEF Bounded
<1>4. CASE txn'.rows = <<>>
  BY <1>1, <1>2, <1>3, <1>4
<1>5. CASE /\ Stored' = Stored
           /\ Cardinality(Copies(txn'.rows, e)) \in Nat
           /\ Cardinality(Copies(txn'.rows, e)) <= 1
  BY <1>1, <1>3, <1>5
<1> QED
  BY <1>4, <1>5

LEMMA WriteCopies == Bounded /\ WriteBatch => CopiesInv'
<1> SUFFICES ASSUME Bounded, WriteBatch PROVE CopiesInv'
  OBVIOUS
<1> DEFINE t == txn.rows
<1>1. /\ rows' = rows \o t \o buffer /\ main = "write" /\ torn' = torn
      /\ cursor' = Larger(cursor, txn.cursor) /\ pending' = pending
      /\ txn' = NoTxn
      /\ pending # 0 => main' = "mark"
      /\ pending = 0 => main' = back
  BY DEF WriteBatch, Commit, ClearBuffer, historyVars
<1>2. /\ cursor \in Nat /\ pending \in Nat /\ txn.cursor \in {0, pending}
      /\ back # "mark"
      /\ pending # 0 => cursor <= pending
      /\ Begins(t, buffer)
      /\ Rising(buffer) /\ UpTo(buffer, pending) /\ Beyond(buffer, cursor)
  BY <1>1, Numbers DEF Bounded, Sound, Good, Inv, TypeOK, MainType, BatchInv,
     Flushing, BufferOrder, OrderInv, Marks
<1>3. Stored = cursor /\ Stored' = IF pending # 0 THEN pending ELSE cursor
  <2>1. pending = 0 => cursor' = cursor
    BY <1>1, <1>2 DEF Larger
  <2>2. main' = "mark" <=> pending # 0
    BY <1>1, <1>2
  <2> QED
    BY <1>1, <2>1, <2>2 DEF Stored
<1>4. /\ torn \in Nat /\ rows \in Seq(Cursors) /\ t \in Seq(Cursors)
      /\ buffer \in Seq(Cursors) /\ Cursors \in SUBSET Nat
      /\ \A e : /\ Cardinality(Copies(rows, e)) \in Nat
                /\ Cardinality(Copies(t, e)) \in Nat
                /\ Cardinality(Copies(buffer, e)) \in Nat
  BY Counts DEF Bounded
<1>5. \A e \in 1..MaxEntries :
         /\ Cardinality(Copies(rows, e)) <= 1 + torn
         /\ e > cursor => Cardinality(Copies(rows, e))
                            + Cardinality(Copies(t, e)) <= torn
  BY <1>3 DEF Bounded, CopiesInv
<1> HIDE DEF t
<1> SUFFICES ASSUME NEW e \in 1..MaxEntries
             PROVE  /\ Cardinality(Copies(rows', e)) <= 1 + torn
                    /\ e > Stored' =>
                         Cardinality(Copies(rows', e))
                           + Cardinality(Copies(<<>>, e)) <= torn
  BY <1>1 DEF CopiesInv, Copies, NoTxn
<1>6. Cardinality(Copies(rows', e))
        = Cardinality(Copies(rows, e)) + Cardinality(Copies(t, e))
          + Cardinality(Copies(buffer, e))
  <2>1. rows \o t \in Seq(Cursors)
    BY <1>4, ConcatProperties
  <2>2. Cardinality(Copies(rows \o t, e))
          = Cardinality(Copies(rows, e)) + Cardinality(Copies(t, e))
    BY <1>4, CopiesConcat
  <2>3. Cardinality(Copies(rows \o t \o buffer, e))
          = Cardinality(Copies(rows \o t, e)) + Cardinality(Copies(buffer, e))
    BY <1>4, <2>1, CopiesConcat
  <2> QED
    BY <1>1, <2>2, <2>3
<1>7. Cardinality(Copies(t, e)) <= Cardinality(Copies(buffer, e))
  BY <1>2, <1>4, CopiesBegin
<1>8. e \in Nat \ {0} /\ \A i \in DOMAIN buffer : buffer[i] \in Nat
  <2>1. e \in Nat \ {0}
    BY BoundAssumption
  <2>2. \A i \in DOMAIN buffer : buffer[i] \in Nat
    BY <1>4, Elements
  <2> QED
    BY <2>1, <2>2
<1>9. Cardinality(Copies(buffer, e)) <= 1
  BY <1>2, <1>4, <1>8, CopiesRising
<1>10. ASSUME ~(e > cursor) \/ e > pending
       PROVE  Cardinality(Copies(buffer, e)) = 0
  <2>1. \A i \in DOMAIN buffer : buffer[i] # e
    BY <1>2, <1>8, <1>10 DEF UpTo, Beyond
  <2> QED
    BY <2>1, CopiesAbsent
<1>11. Cardinality(Copies(<<>>, e)) = 0
  BY CopiesEmpty
<1>12. CASE e > cursor /\ ~(e > pending)
  <2>1. pending # 0 /\ ~(e > Stored')
    BY <1>2, <1>3, <1>8, <1>12
  <2> QED
    <3>1. Cardinality(Copies(rows, e)) + Cardinality(Copies(t, e)) <= torn
      BY <1>5, <1>12
    <3>2. /\ torn \in Nat
          /\ Cardinality(Copies(rows, e)) \in Nat
          /\ Cardinality(Copies(t, e)) \in Nat
          /\ Cardinality(Copies(buffer, e)) \in Nat
      BY <1>4
    <3>3. Cardinality(Copies(rows', e)) <= 1 + torn
      BY <1>6, <1>9, <3>1, <3>2
    <3> QED
      BY <2>1, <3>3
<1>13. CASE ~(e > cursor) \/ e > pending
  <2>1. /\ Cardinality(Copies(buffer, e)) = 0
        /\ Cardinality(Copies(t, e)) = 0
    BY <1>4, <1>7, <1>10, <1>13
  <2>2. Cardinality(Copies(rows', e)) = Cardinality(Copies(rows, e))
    BY <1>4, <1>6, <2>1
  <2>3. e > Stored' => e > cursor
    <3>1. pending = 0 => Stored' = cursor
      BY <1>3
    <3>2. pending # 0 => Stored' = pending
      BY <1>3
    <3> QED
      BY <1>2, <1>8, <3>1, <3>2
  <2> QED
    BY <1>4, <1>5, <1>11, <2>1, <2>2, <2>3
<1> QED
  BY <1>12, <1>13

\* What a failed flush leaves open is the beginning of the buffer.
LEMMA WriteFailsCopies ==
    ASSUME Bounded, Sound', WriteFails PROVE CopiesInv'
<1>1. /\ rows' = rows /\ cursor' = cursor /\ main = "write"
      /\ torn' = IF txn'.rows = <<>> THEN torn ELSE torn + 1
  BY DEF WriteFails
<1>2. main' \in {"exit", "down"}
  BY DEF WriteFails, Raise, Vanish
<1>3. Stored' = Stored
  BY <1>1, <1>2 DEF Stored
<1>4. CASE txn'.rows = <<>>
  BY <1>1, <1>3, <1>4, CopiesQuiet
<1>5. CASE txn'.rows # <<>>
  <2>1. buffer' = buffer
    BY <1>5 DEF WriteFails, Raise, Vanish, NoTxn
  <2>2. /\ Begins(txn'.rows, buffer) /\ txn'.rows \in Seq(Cursors)
        /\ Rising(buffer)
    BY <2>1 DEF Sound, Good, Inv, TypeOK, StoreType, Images, BatchInv,
       Flushing, BufferOrder, Begins, Rising
  <2>3. buffer \in Seq(Cursors) /\ Cursors \in SUBSET Nat
    BY Counts DEF Bounded
  <2>4. ASSUME NEW e \in 1..MaxEntries
        PROVE  /\ Cardinality(Copies(txn'.rows, e)) \in Nat
               /\ Cardinality(Copies(txn'.rows, e)) <= 1
    <3>1. e \in Nat \ {0}
      BY BoundAssumption
    <3>2. /\ Cardinality(Copies(txn'.rows, e)) \in Nat
          /\ Cardinality(Copies(buffer, e)) \in Nat
      BY <2>2, <2>3, CopiesFinite
    <3>3. Cardinality(Copies(txn'.rows, e)) <= Cardinality(Copies(buffer, e))
      BY <2>2, <2>3, CopiesBegin
    <3>4. Cardinality(Copies(buffer, e)) <= 1
      BY <2>2, <2>3, <3>1, CopiesRising
    <3> QED
      BY <3>2, <3>3, <3>4
  <2> QED
    BY <1>1, <1>3, <1>5, <2>4, CopiesTorn
<1> QED
  BY <1>4, <1>5

LEMMA MarkFailsCopies == Bounded /\ MarkFails => CopiesInv'
<1> SUFFICES ASSUME Bounded, MarkFails PROVE CopiesInv'
  OBVIOUS
<1>1. rows' = rows /\ torn' = torn + 1
  BY DEF MarkFails
<1>2. txn'.rows = <<>>
  BY DEF MarkFails, Raise, Vanish, NoTxn, Image
<1> QED
  BY <1>1, <1>2, CopiesTorn

\* What a power loss brings back is a beginning of the rows.
LEMMA PowerLossCopies == Bounded /\ PowerLoss => CopiesInv'
<1> SUFFICES ASSUME Bounded, PowerLoss PROVE CopiesInv'
  OBVIOUS
<1>1. PICK image \in disk :
         /\ rows' = image.rows /\ cursor' = image.cursor
         /\ torn' = IF Half(image) THEN torn + 1 ELSE torn
  BY DEF PowerLoss
<1>2. main' = "down" /\ txn'.rows = <<>>
  BY DEF PowerLoss, Vanish, NoTxn
<1>3. Begins(image.rows, rows) /\ image.rows \in Seq(Cursors)
  BY DEF Bounded, Sound, BatchInv, Older, Good, Inv, TypeOK, StoreType, Images
<1>4. torn \in Nat /\ rows \in Seq(Cursors)
  BY Counts DEF Bounded
<1> SUFFICES ASSUME NEW e \in 1..MaxEntries
             PROVE  /\ Cardinality(Copies(image.rows, e)) <= 1 + torn'
                    /\ e > image.cursor =>
                         Cardinality(Copies(image.rows, e))
                           + Cardinality(Copies(<<>>, e)) <= torn'
  BY <1>1, <1>2 DEF CopiesInv, Copies, Stored
<1>5. /\ Cardinality(Copies(image.rows, e)) \in Nat
      /\ Cardinality(Copies(rows, e)) \in Nat
  BY <1>3, <1>4, CopiesFinite
<1>6. Cardinality(Copies(image.rows, e)) <= Cardinality(Copies(rows, e))
  BY <1>3, <1>4, CopiesBegin
<1>7. Cardinality(Copies(rows, e)) <= 1 + torn
  BY DEF Bounded, CopiesInv
<1>8. Cardinality(Copies(<<>>, e)) = 0
  BY CopiesEmpty
<1>9. CASE Half(image)
  BY <1>1, <1>4, <1>5, <1>6, <1>7, <1>8, <1>9
<1>10. CASE ~Half(image)
  <2>1. e > image.cursor => \A i \in DOMAIN image.rows : image.rows[i] # e
    BY <1>10 DEF Half, Range
  <2>2. e > image.cursor => Cardinality(Copies(image.rows, e)) = 0
    BY <2>1, CopiesAbsent
  <2> QED
    BY <1>1, <1>4, <1>5, <1>6, <1>7, <1>8, <1>10, <2>2
<1> QED
  BY <1>9, <1>10

LEMMA KillCopies == Bounded /\ Kill => CopiesInv'
<1> SUFFICES ASSUME Bounded, Kill PROVE CopiesInv'
  OBVIOUS
<1>1. /\ rows' = rows /\ cursor' = cursor /\ txn'.rows = <<>>
      /\ main' = "down"
      /\ torn' = IF main = "mark" THEN torn + 1 ELSE torn
  BY DEF Kill, Vanish, NoTxn
<1>2. CASE main = "mark"
  BY <1>1, <1>2, CopiesTorn
<1>3. CASE main # "mark"
  BY <1>1, <1>3, CopiesQuiet DEF Stored
<1> QED
  BY <1>2, <1>3

LEMMA QuietCopies ==
    ASSUME Bounded,
           \/ StartDaemon \/ CheckStop \/ Drain \/ EndDrain \/ PollNothing
           \/ PollEvents \/ ReportEvent \/ EndReport \/ MaybeFlush
           \/ MarkCursor \/ FinalFlush \/ Close \/ WorkerStep \/ Tick
           \/ Checkpoint \/ (\E u \in Units : Log(u)) \/ Stop \/ Reboot
           \/ VacuumJournal \/ ReaderFails \/ SeekFails \/ PollFails
           \/ UNCHANGED vars
    PROVE  CopiesInv'
<1>1. CASE \/ StartDaemon \/ CheckStop \/ EndDrain \/ PollNothing
           \/ PollEvents \/ EndReport \/ MaybeFlush \/ FinalFlush
           \/ PollFails
  <2>1. UNCHANGED <<rows, cursor, txn, torn>>
        /\ main # "mark" /\ main' # "mark"
    BY <1>1 DEF StartDaemon, StartWith, CheckStop, EndDrain, PollNothing,
       PollEvents, EndReport, MaybeFlush, FinalFlush, Flush, PollFails,
       dbVars, historyVars
  <2> QED
    BY <2>1, CopiesQuiet DEF Stored
<1>2. CASE Drain \/ ReportEvent
  <2>1. UNCHANGED <<rows, cursor, txn, torn>>
        /\ main # "mark" /\ main' # "mark"
    BY <1>2 DEF Drain, ReportEvent, Submit, SubmitUpTo, dbVars, historyVars
  <2> QED
    BY <2>1, CopiesQuiet DEF Stored
<1>3. CASE MarkCursor
  <2>1. /\ rows' = rows /\ cursor' = pending /\ txn'.rows = <<>>
        /\ main = "mark" /\ main' = back /\ torn' = torn
    BY <1>3 DEF MarkCursor, MarkWith, Commit, ClearBuffer, NoTxn, historyVars
  <2>2. back # "mark"
    BY DEF Bounded, Sound, Good, Inv, TypeOK, MainType
  <2> QED
    BY <2>1, <2>2, CopiesQuiet DEF Stored
<1>4. CASE Close
  <2>1. /\ UNCHANGED <<rows, cursor, torn>> /\ txn'.rows = <<>>
        /\ main # "mark" /\ main' # "mark"
    BY <1>4 DEF Close, Vanish, NoTxn, historyVars
  <2> QED
    BY <2>1, CopiesQuiet DEF Stored
<1>5. CASE WorkerStep
  <2>1. UNCHANGED <<rows, cursor, txn, torn, main, pending>>
    BY <1>5 DEF WorkerStep, OpenAtCursor, OpenAtTail, ReadNext, PutEvent,
       PutRemembering, EndBackoff, ReaderStops, WorkerGoes, StartAfter,
       StartReading, readerUnchanged, mainVars, dbVars
  <2> QED
    BY <2>1, CopiesQuiet DEF Stored
<1>6. CASE \/ Tick \/ Checkpoint \/ (\E u \in Units : Log(u)) \/ Stop
           \/ Reboot \/ VacuumJournal \/ ReaderFails \/ SeekFails
           \/ UNCHANGED vars
  <2>1. UNCHANGED <<rows, cursor, txn, torn, main, pending>>
    BY <1>6 DEF Tick, Checkpoint, Log, Stop, Reboot, VacuumJournal,
       ReaderFails, SeekFails, vars, mainVars, dbVars, historyVars
  <2> QED
    BY <2>1, CopiesQuiet DEF Stored
<1> QED
  BY <1>1, <1>2, <1>3, <1>4, <1>5, <1>6

LEMMA CopiesNext ==
    ASSUME Bounded, Sound', [Next]_vars PROVE CopiesInv'
  BY WriteCopies, WriteFailsCopies, MarkFailsCopies, PowerLossCopies,
     KillCopies, QuietCopies DEF Next, MainStep, Disturbance

----------------------------------------------------------------------------
(* Sizes. *)

LEMMA SizesKept ==
    ASSUME Bounded, buffer' \in {buffer, <<>>}, Len(queue') <= QueueSize,
           \/ buffer' = <<>>
           \/ main' \in {"write", "mark", "exit", main}
           \/ main \notin {"write", "mark", "exit"}
    PROVE  Sizes'
<1>1. Len(<<>>) = 0 /\ BatchSize \in Nat \ {0}
  BY BatchAssumption
<1> QED
  BY <1>1 DEF Bounded, Sizes

\* A buffer that has become full is flushed before anything else is added.
LEMMA SubmitSizes ==
    ASSUME Bounded, NEW e \in Cursors, NEW pc, Submit(e, pc),
           main \in {"drain", "more", "report"}, pc \in {"more", "report"},
           Len(queue') <= QueueSize
    PROVE  Sizes'
<1>1. Len(buffer) < BatchSize
  BY DEF Bounded, Sizes
<1>2. CASE ~IsWatched(e)
  BY <1>2, SizesKept DEF Submit, SubmitUpTo
<1>3. CASE IsWatched(e)
  <2>1. buffer' = Append(buffer, e)
        /\ \/ main' = "write"
           \/ Len(buffer) + 1 < BatchSize
    BY <1>3 DEF Submit, SubmitUpTo
  <2>2. Len(Append(buffer, e)) = Len(buffer) + 1 /\ Len(buffer) \in Nat
    <3>1. buffer \in Seq(Cursors)
      BY Counts DEF Bounded
    <3> QED
      BY <3>1, AppendProperties
  <2>3. BatchSize \in Nat
    BY BatchAssumption
  <2> QED
    BY <1>1, <2>1, <2>2, <2>3 DEF Sizes
<1> QED
  BY <1>2, <1>3

LEMMA SizesNext == Bounded /\ [Next]_vars => Sizes'
<1> SUFFICES ASSUME Bounded, [Next]_vars PROVE Sizes'
  OBVIOUS
<1>1. /\ Len(queue) <= QueueSize /\ Len(<<>>) <= QueueSize
      /\ Len(queue) \in Nat /\ queue \in Seq(1..MaxEntries)
      /\ QueueSize \in Nat
  BY QueueAssumption, Numbers DEF Bounded, Sizes, Sound, Good, Inv
<1>2. CASE \/ StartDaemon \/ CheckStop \/ EndDrain \/ PollNothing
           \/ PollEvents \/ EndReport \/ MaybeFlush \/ FinalFlush
           \/ PollFails \/ Tick \/ Checkpoint \/ (\E u \in Units : Log(u))
           \/ Stop \/ Reboot \/ VacuumJournal \/ ReaderFails \/ SeekFails
           \/ UNCHANGED vars
  <2>1. queue' = queue /\ buffer' = buffer
    BY <1>2 DEF StartDaemon, StartWith, CheckStop, EndDrain, PollNothing,
       PollEvents, EndReport, MaybeFlush, FinalFlush, PollFails, Tick,
       Checkpoint, Log, Stop, Reboot, VacuumJournal, ReaderFails, SeekFails,
       vars, mainVars, workerVars
  <2>2. \/ main' \in {"write", "mark", "exit", main}
        \/ main \notin {"write", "mark", "exit"}
        \/ buffer' = <<>>
    BY <1>2, <2>1 DEF StartDaemon, StartWith, CheckStop, EndDrain,
       PollNothing, PollEvents, EndReport, MaybeFlush, FinalFlush, Flush,
       PollFails, Tick, Checkpoint, Log, Stop, Reboot, VacuumJournal,
       ReaderFails, SeekFails, vars, mainVars
  <2> QED
    BY <1>1, <2>1, <2>2, SizesKept
<1>3. CASE WriteBatch \/ MarkCursor
  BY <1>1, <1>3, SizesKept DEF WriteBatch, MarkCursor, MarkWith, ClearBuffer
<1>4. CASE Close \/ Kill \/ PowerLoss
  BY <1>1, <1>4, SizesKept DEF Close, Kill, PowerLoss, Vanish
<1>5. CASE WriteFails \/ MarkFails
  BY <1>1, <1>5, SizesKept DEF WriteFails, MarkFails, Raise, Vanish
<1>6. CASE WorkerStep /\ ~PutEvent
  <2>1. queue' = queue /\ buffer' = buffer /\ main' = main
    BY <1>6 DEF WorkerStep, OpenAtCursor, OpenAtTail, ReadNext, EndBackoff,
       ReaderStops, WorkerGoes, StartAfter, StartReading, readerUnchanged,
       mainVars
  <2> QED
    BY <1>1, <2>1, SizesKept
<1>7. CASE PutEvent
  <2>1. /\ queue' = Append(queue, hand) /\ Len(queue) < QueueSize
        /\ hand \in 1..MaxEntries /\ UNCHANGED <<buffer, main>>
    BY <1>7, BoundAssumption DEF PutEvent, PutRemembering, readerUnchanged,
       mainVars, Bounded, Sound, Good, Inv, TypeOK, WorkerType, Cursors
  <2>2. Len(Append(queue, hand)) = Len(queue) + 1
    BY <1>1, <2>1, AppendProperties
  <2>3. Len(queue') <= QueueSize
    BY <1>1, <2>1, <2>2
  <2> QED
    BY <2>1, <2>3, SizesKept
<1>8. CASE Drain
  <2>1. /\ queue # <<>> /\ queue' = Tail(queue)
        /\ Submit(Head(queue), "more") /\ main \in {"drain", "more"}
    BY <1>8 DEF Drain
  <2>2. /\ Len(Tail(queue)) = Len(queue) - 1
        /\ Head(queue) \in Cursors
    BY <1>1, <2>1, HeadTailProperties, BoundAssumption DEF Cursors
  <2>3. Len(queue') <= QueueSize
    BY <1>1, <2>1, <2>2
  <2> QED
    BY <2>1, <2>2, <2>3, SubmitSizes
<1>9. CASE ReportEvent
  <2>1. /\ queue' = queue /\ Submit(0, "report") /\ main = "report"
        /\ 0 \in Cursors
    BY <1>9, BoundAssumption DEF ReportEvent, Cursors
  <2> QED
    BY <1>1, <2>1, SubmitSizes
<1> QED
  BY <1>2, <1>3, <1>4, <1>5, <1>6, <1>7, <1>8, <1>9
     DEF Next, MainStep, Disturbance

----------------------------------------------------------------------------
(* What the poll has returned. *)

LEMMA UnreportedKept ==
    ASSUME Bounded, UNCHANGED <<toReport, buffer>>,
           \/ UNCHANGED <<main, back>> \/ main' \in {"exit", "closing"}
           \/ main' \in {"write", "mark"} /\ back' \in {"report", "closing"}
           \/ toReport = 0
    PROVE  Unreported'
BY DEF Bounded, Unreported

\* With nothing to report the size of the buffer is all there is.
LEMMA NothingToReport ==
    ASSUME Bounded, Inv', Sizes', toReport' = 0 PROVE Unreported'
<1>1. Len(buffer') <= BatchSize /\ Len(buffer') \in Nat
  <2>1. buffer' \in Seq(Cursors)
    BY DEF Inv, TypeOK, MainType
  <2> QED
    BY <2>1 DEF Sizes
<1> QED
  BY <1>1, PollAssumption, BatchAssumption DEF Unreported

LEMMA ReportUnreported ==
    ASSUME Bounded, ReportEvent PROVE Unreported'
<1>1. /\ main = "report" /\ toReport > 0 /\ toReport' = toReport - 1
      /\ Submit(0, "report")
  BY DEF ReportEvent
<1>2. buffer \in Seq(Cursors) /\ toReport \in Nat /\ 0 \in Cursors
  BY Counts, BoundAssumption DEF Bounded, Sound, Good, Inv, TypeOK, MainType,
     Cursors
<1>3. Len(buffer) \in Nat /\ Len(buffer') <= Len(buffer) + 1
      /\ Len(buffer') \in Nat
  <2>1. Len(Append(buffer, 0)) = Len(buffer) + 1 /\ Len(buffer) \in Nat
    BY <1>2, AppendProperties
  <2> QED
    BY <1>1, <2>1 DEF Submit, SubmitUpTo
<1>4. Len(buffer') + toReport' <= BatchSize - 1 + PollSize
  BY <1>1, <1>2, <1>3, PollAssumption, BatchAssumption DEF Bounded, Unreported
<1>5. main' = "report" \/ (main' = "write" /\ back' = "report")
  BY <1>1 DEF Submit, SubmitUpTo
<1> QED
  BY <1>4, <1>5 DEF Unreported

LEMMA PollUnreported == ASSUME Bounded, PollEvents PROVE Unreported'
<1>1. /\ main = "poll" /\ main' = "report" /\ buffer' = buffer
      /\ toReport' \in 1..PollSize
  BY DEF PollEvents
<1>2. Len(buffer) \in Nat /\ Len(buffer) < BatchSize
  BY <1>1, Counts, Elements DEF Bounded, Sizes
<1>3. Len(buffer') + toReport' <= BatchSize - 1 + PollSize
  BY <1>1, <1>2, PollAssumption, BatchAssumption
<1> QED
  BY <1>1, <1>3 DEF Unreported

LEMMA UnreportedNext ==
    ASSUME Bounded, Inv', Sizes', [Next]_vars PROVE Unreported'
<1>1. toReport \in Nat /\ buffer \in Seq(Cursors) /\ Len(buffer) \in Nat
  BY Elements DEF Bounded, Sound, Good, Inv, TypeOK, MainType
<1>2. CASE StartDaemon \/ CheckStop \/ Drain \/ EndDrain \/ PollNothing
           \/ EndReport \/ MaybeFlush
  <2>1. toReport' = 0
    BY <1>2 DEF StartDaemon, StartWith, CheckStop, Drain, EndDrain,
       PollNothing, EndReport, MaybeFlush, memory, Bounded, Unreported
  <2> QED
    BY <2>1, NothingToReport
<1>3. CASE Close \/ Kill \/ PowerLoss
  BY <1>3, NothingToReport DEF Close, Kill, PowerLoss, Vanish
<1>4. CASE WriteBatch \/ MarkCursor
  <2>1. /\ UNCHANGED <<toReport, back>>
        /\ main \in {"write", "mark"}
        /\ \/ main' = "mark" /\ buffer' = buffer
           \/ main' = back /\ buffer' = <<>>
    BY <1>4 DEF WriteBatch, MarkCursor, MarkWith, ClearBuffer
  <2>2. Len(<<>>) = 0
    OBVIOUS
  <2>3. CASE main' = "mark" /\ buffer' = buffer
    BY <2>1, <2>3 DEF Bounded, Unreported
  <2>4. CASE main' = back /\ buffer' = <<>>
    <3>1. Len(buffer') + toReport' <= BatchSize - 1 + PollSize
      BY <1>1, <2>1, <2>2, <2>4, PollAssumption, BatchAssumption
         DEF Bounded, Unreported
    <3> QED
      BY <2>1, <2>4, <3>1 DEF Bounded, Unreported
  <2> QED
    BY <2>1, <2>3, <2>4
<1>5. CASE FinalFlush \/ PollFails
  BY <1>5, UnreportedKept DEF FinalFlush, PollFails, Flush, memory
<1>6. CASE WriteFails \/ MarkFails
  <2>1. \/ main' = "exit" /\ UNCHANGED memory
        \/ Vanish
    BY <1>6 DEF WriteFails, MarkFails, Raise
  <2> QED
    BY <2>1, UnreportedKept, NothingToReport DEF Vanish, memory
<1>7. CASE WorkerStep \/ Tick \/ Checkpoint \/ (\E u \in Units : Log(u))
           \/ Stop \/ Reboot \/ VacuumJournal \/ ReaderFails \/ SeekFails
           \/ UNCHANGED vars
  <2>1. UNCHANGED <<toReport, buffer, main, back>>
    BY <1>7 DEF WorkerStep, OpenAtCursor, OpenAtTail, ReadNext, PutEvent,
       PutRemembering, EndBackoff, ReaderStops, WorkerGoes, StartAfter,
       StartReading, readerUnchanged, Tick, Checkpoint, Log, Stop, Reboot,
       VacuumJournal, ReaderFails, SeekFails, vars, mainVars, memory
  <2> QED
    BY <2>1, UnreportedKept
<1> QED
  BY <1>2, <1>3, <1>4, <1>5, <1>6, <1>7, ReportUnreported, PollUnreported
     DEF Next, MainStep, Disturbance

----------------------------------------------------------------------------
(* What the reader has taken. *)

LEMMA TakenKept ==
    ASSUME Bounded, UNCHANGED <<journal, rpos>>, Skipped \subseteq Skipped',
           \A e \in Held \cup Range(queue) :
              Logged(e) => e \in Held' \cup Range(queue')
    PROVE  Taken'
<1>1. \A e : Logged(e)' <=> Logged(e)
  BY DEF Logged, Entries
<1> QED
  BY <1>1 DEF Bounded, Taken, Accounted

LEMMA TakenVanish == ASSUME Vanish PROVE Taken'
<1>1. 1..0 - 1 = {}
  OBVIOUS
<1> QED
  BY <1>1 DEF Vanish, Taken, Accounted

\* A reader at work has taken what its invariant says.
LEMMA TakenAtWork ==
    ASSUME Inv', worker' \in {"read", "put"} PROVE Taken'
<1>1. rpos' \in Nat
  BY BoundAssumption DEF Inv, TypeOK, WorkerType, Cursors
<1>2. \A n \in Nat : \A i \in 1..n - 1 : i \in 1..n
  OBVIOUS
<1>3. CASE worker' = "read"
  BY <1>1, <1>2, <1>3 DEF Inv, CursorInv, InFlight, Taken, Accounted
<1>4. CASE worker' = "put"
  BY <1>4 DEF Inv, CursorInv, InFlight, Taken
<1> QED
  BY <1>3, <1>4

\* An entry that leaves the queue is in the buffer, unless it is not watched.
LEMMA DrainTaken == Bounded /\ Drain => Taken'
<1> SUFFICES ASSUME Bounded, Drain PROVE Taken'
  OBVIOUS
<1>1. /\ UNCHANGED <<journal, rpos, rows, atTail, rotated>>
      /\ queue' = Tail(queue) /\ queue # <<>>
      /\ Submit(Head(queue), "more")
  BY DEF Drain, workerVars, dbVars, historyVars
<1>2. /\ queue \in Seq(1..MaxEntries) /\ buffer \in Seq(Cursors)
      /\ Head(queue) \in Cursors
  <2>1. queue \in Seq(1..MaxEntries) /\ buffer \in Seq(Cursors)
    BY Numbers DEF Bounded, Sound, Good, Inv
  <2> QED
    BY <1>1, <2>1, HeadTailProperties, BoundAssumption DEF Cursors
<1>3. Range(queue) \subseteq {Head(queue)} \cup Range(queue')
  BY <1>1, <1>2, RangeTail
<1>4. Held \subseteq Held' /\ (Logged(Head(queue)) => Head(queue) \in Held')
  <2>1. CASE ~IsWatched(Head(queue))
    BY <1>1, <2>1 DEF Submit, SubmitUpTo, Held, IsWatched, Logged
  <2>2. CASE IsWatched(Head(queue))
    <3>1. buffer' = Append(buffer, Head(queue))
      BY <1>1, <2>2 DEF Submit, SubmitUpTo
    <3>2. Range(buffer') = Range(buffer) \cup {Head(queue)}
      BY <1>2, <3>1, RangeAppend
    <3> QED
      BY <1>1, <3>2 DEF Held
  <2> QED
    BY <2>1, <2>2
<1> QED
  BY <1>1, <1>3, <1>4, TakenKept DEF Skipped

LEMMA WriteTaken == Bounded /\ WriteBatch => Taken'
<1> SUFFICES ASSUME Bounded, WriteBatch PROVE Taken'
  OBVIOUS
<1>1. /\ UNCHANGED <<journal, rpos, queue, atTail, rotated>>
      /\ rows' = rows \o txn.rows \o buffer
  BY DEF WriteBatch, Commit, workerVars, historyVars
<1>2. Range(rows) \cup Range(buffer) \subseteq Range(rows')
  <2>1. rows \in Seq(Cursors) /\ txn.rows \in Seq(Cursors)
        /\ buffer \in Seq(Cursors) /\ rows \o txn.rows \in Seq(Cursors)
    BY Counts, ConcatProperties DEF Bounded
  <2>2. Range(rows \o txn.rows) = Range(rows) \cup Range(txn.rows)
    BY <2>1, RangeConcatenation
  <2>3. Range(rows \o txn.rows \o buffer)
          = Range(rows \o txn.rows) \cup Range(buffer)
    BY <2>1, RangeConcatenation
  <2> QED
    BY <1>1, <2>2, <2>3
<1> QED
  BY <1>1, <1>2, TakenKept DEF Held, Skipped

\* The reader gives an entry up when it finds the daemon stopping.
LEMMA ReadTaken == ASSUME Bounded, Inv', ReadNext PROVE Taken'
<1> DEFINE e == Larger(rpos + 1, horizon)
<1>1. /\ UNCHANGED <<journal, queue, rows, buffer>>
      /\ Skipped' = Skipped \cup (rpos + 1 .. e - 1)
      /\ worker = "read" /\ rpos' = e
  BY DEF ReadNext, Skipped, readerUnchanged, mainVars, dbVars
<1>2. rpos \in Nat /\ e \in Nat
  BY BoundAssumption DEF Bounded, Sound, Good, Inv, TypeOK, JournalType,
     WorkerType, Cursors, Larger
<1>3. Accounted(Held \cup Range(queue), rpos)
  BY <1>1 DEF Bounded, Sound, Good, Inv, CursorInv, InFlight
<1> HIDE DEF e
<1>4. \A i \in 1..e - 1 : i \in 1..rpos \/ i \in rpos + 1 .. e - 1
  BY <1>2
<1>5. Held' = Held /\ \A i : Logged(i)' <=> Logged(i)
  BY <1>1 DEF Held, Logged, Entries
<1> QED
  BY <1>1, <1>3, <1>4, <1>5 DEF Taken, Accounted

LEMMA LogTaken == ASSUME Bounded, NEW u \in Units, Log(u) PROVE Taken'
<1>1. /\ journal' = Append(journal, u)
      /\ UNCHANGED <<rpos, queue, rows, buffer, atTail, rotated>>
  BY DEF Log, mainVars, workerVars, dbVars, historyVars
<1>2. journal \in Seq(Units) /\ rpos \in Nat /\ rpos <= Len(journal)
  BY Numbers DEF Bounded, Sound, Good, Inv, TypeOK, JournalType, CursorInv,
     WithinJournal
<1>3. /\ Len(journal) \in Nat
      /\ \A i \in 1..Len(journal) : journal'[i] = journal[i]
  BY <1>1, <1>2, AppendProperties
<1>4. Held' = Held /\ Skipped' = Skipped
  BY <1>1 DEF Held, Skipped
<1>5. \A i \in 1..rpos - 1 : Logged(i)' => Logged(i)
  BY <1>2, <1>3 DEF Logged, Entries
<1> QED
  BY <1>1, <1>4, <1>5 DEF Bounded, Taken, Accounted

LEMMA TakenNext == ASSUME Bounded, Inv', [Next]_vars PROVE Taken'
<1>1. CASE Close \/ Kill \/ PowerLoss
  BY <1>1, TakenVanish DEF Close, Kill, PowerLoss
<1>2. CASE WriteFails \/ MarkFails
  <2>1. \/ Vanish
        \/ UNCHANGED <<journal, rpos, queue, rows, buffer, atTail, rotated>>
    BY <1>2 DEF WriteFails, MarkFails, Raise, workerVars
  <2> QED
    BY <2>1, TakenVanish, TakenKept DEF Held, Skipped
<1>3. CASE MarkCursor
  <2>1. /\ UNCHANGED <<journal, rpos, queue, rows, atTail, rotated>>
        /\ main = "mark"
    BY <1>3 DEF MarkCursor, MarkWith, Commit, workerVars, historyVars
  <2>2. Held \subseteq Held'
    BY <2>1 DEF Bounded, Sound, Good, Inv, CursorInv, Held
  <2> QED
    BY <2>1, <2>2, TakenKept DEF Skipped
<1>4. CASE ReportEvent
  <2>1. /\ UNCHANGED <<journal, rpos, queue, rows, atTail, rotated>>
        /\ Submit(0, "report")
    BY <1>4 DEF ReportEvent, workerVars, dbVars, historyVars
  <2>2. Range(buffer) \subseteq Range(buffer')
    <3>1. buffer \in Seq(Cursors) /\ 0 \in Cursors
      BY Counts, BoundAssumption DEF Bounded, Cursors
    <3>2. Range(Append(buffer, 0)) = Range(buffer) \cup {0}
      BY <3>1, RangeAppend
    <3> QED
      BY <2>1, <3>2 DEF Submit, SubmitUpTo
  <2> QED
    BY <2>1, <2>2, TakenKept DEF Held, Skipped
<1>5. CASE OpenAtCursor \/ OpenAtTail \/ SeekFails \/ PutEvent
  BY <1>5, TakenAtWork DEF OpenAtCursor, OpenAtTail, SeekFails, PutEvent,
     PutRemembering, StartAfter, StartReading
<1>6. CASE \/ StartDaemon \/ CheckStop \/ EndDrain \/ PollNothing
           \/ PollEvents \/ EndReport \/ MaybeFlush \/ FinalFlush
           \/ PollFails \/ Tick \/ Checkpoint \/ Stop \/ Reboot
           \/ VacuumJournal \/ ReaderFails \/ EndBackoff \/ ReaderStops
           \/ UNCHANGED vars
  <2>1. UNCHANGED <<journal, rpos, queue, rows, buffer, atTail, rotated>>
    BY <1>6 DEF StartDaemon, StartWith, CheckStop, EndDrain, PollNothing,
       PollEvents, EndReport, MaybeFlush, FinalFlush, PollFails, Tick,
       Checkpoint, Stop, Reboot, VacuumJournal, ReaderFails, EndBackoff,
       ReaderStops, WorkerGoes, readerUnchanged, vars, mainVars, workerVars,
       dbVars, historyVars
  <2> QED
    BY <2>1, TakenKept DEF Held, Skipped
<1> QED
  BY <1>1, <1>2, <1>3, <1>4, <1>5, <1>6, DrainTaken, WriteTaken, ReadTaken,
     LogTaken DEF Next, MainStep, WorkerStep, Disturbance

----------------------------------------------------------------------------
(* The theorems. *)

LEMMA BoundedInit == Init => Bounded
<1> SUFFICES ASSUME Init PROVE Bounded
  OBVIOUS
<1>1. Sound
  BY SoundInit
<1>2. CopiesInv
  BY CopiesEmpty DEF Init, CopiesInv, NoTxn
<1>3. Sizes
  BY BatchAssumption, QueueAssumption DEF Init, Sizes
<1>4. Taken
  <2>1. 1..0 - 1 = {}
    OBVIOUS
  <2> QED
    BY <2>1 DEF Init, Taken, Accounted
<1>5. Unreported
  BY BatchAssumption, PollAssumption DEF Init, Unreported
<1> QED
  BY <1>1, <1>2, <1>3, <1>4, <1>5 DEF Bounded

LEMMA BoundedNext == Bounded /\ [Next]_vars => Bounded'
<1> SUFFICES ASSUME Bounded, [Next]_vars PROVE Bounded'
  OBVIOUS
<1>1. Sound'
  BY SoundNext DEF Bounded
<1>2. Inv'
  BY <1>1 DEF Sound, Good
<1>3. Sizes'
  BY SizesNext
<1> QED
  BY <1>1, <1>2, <1>3, CopiesNext, UnreportedNext, TakenNext DEF Bounded

\* Whatever is killed, torn or read again: an entry is in the events table at
\* most once more often than a batch was committed without its cursor
\* (Pipeline.flush commits the two one after the other).
THEOREM StoredBoundedly == Spec => []CopiesBounded
<1>1. Bounded => CopiesBounded
  <2> SUFFICES ASSUME Bounded, NEW e \in Range(rows) \ {0}
               PROVE  Cardinality(Copies(rows, e)) <= 1 + torn
    BY DEF CopiesBounded, Copies
  <2>1. rows \in Seq(Cursors)
    BY Counts DEF Bounded
  <2>2. e \in Cursors
    BY <2>1, Elements DEF Range
  <2>3. e \in 1..MaxEntries
    BY <2>2, BoundAssumption DEF Cursors
  <2> QED
    BY <2>3 DEF Bounded, CopiesInv
<1> QED
  BY <1>1, BoundedInit, BoundedNext, PTL DEF Spec

LEMMA CountTo == ASSUME NEW n \in Nat PROVE Cardinality(1..n) = n
<1>1. Cardinality(1..n) = IF 1 > n THEN 0 ELSE n - 1 + 1
  BY FS_Interval
<1> QED
  BY <1>1

\* The values of a sequence at positions P are at most as many as these.
LEMMA FewValues ==
    ASSUME NEW S, NEW s \in Seq(S), NEW P \in SUBSET DOMAIN s
    PROVE  /\ IsFiniteSet(P) /\ IsFiniteSet({s[p] : p \in P})
           /\ Cardinality({s[p] : p \in P}) \in Nat
           /\ Cardinality({s[p] : p \in P}) <= Cardinality(P)
           /\ Cardinality(P) \in Nat
<1> DEFINE f == [p \in P |-> s[p]]
           T == {s[p] : p \in P}
<1>1. IsFiniteSet(1..Len(s))
  BY FS_Interval
<1>2. IsFiniteSet(P)
  BY <1>1, FS_Subset
<1>3. f \in Surjection(P, T)
  <2>1. f \in [P -> T] /\ \A t \in T : \E p \in P : f[p] = t
    OBVIOUS
  <2> HIDE DEF f, T
  <2> QED
    BY <2>1, Fun_IsSurj
<1> HIDE DEF f, T
<1>4. IsFiniteSet(T) /\ Cardinality(T) <= Cardinality(P)
  BY <1>2, <1>3, FS_Surjection
<1> QED
  BY <1>2, <1>4, FS_CardinalityType DEF T

\* A union is at most as large as its parts together.
LEMMA FewTogether ==
    ASSUME NEW S, NEW T, IsFiniteSet(S), IsFiniteSet(T)
    PROVE  /\ IsFiniteSet(S \cup T)
           /\ Cardinality(S \cup T) \in Nat
           /\ Cardinality(S \cup T) <= Cardinality(S) + Cardinality(T)
<1>1. /\ IsFiniteSet(S \cup T) /\ IsFiniteSet(S \cap T)
      /\ Cardinality(S \cup T)
           = Cardinality(S) + Cardinality(T) - Cardinality(S \cap T)
  BY FS_Union, FS_Intersection
<1>2. /\ Cardinality(S) \in Nat /\ Cardinality(T) \in Nat
      /\ Cardinality(S \cap T) \in Nat /\ Cardinality(S \cup T) \in Nat
  BY <1>1, FS_CardinalityType
<1> QED
  BY <1>1, <1>2

\* What a crash can cost is bounded by the configuration: the queue, one batch
\* and one poll, in whose place the entry the reader thread holds may be
\* (Daemon._q, Pipeline._buffer, the events of _maybe_poll_units).
THEOREM LossBounded == Spec => []LossWindowBounded
<1>1. Bounded => LossWindowBounded
  <2> SUFFICES ASSUME Bounded PROVE LossWindowBounded
    OBVIOUS
  <2> DEFINE Lost == {i \in 1..rpos : Logged(i)} \ (Range(rows) \cup Skipped)
             Zero == {p \in DOMAIN buffer : buffer[p] = 0}
             Named == DOMAIN buffer \ Zero
             Names == {buffer[p] : p \in Named}
             Queued == {queue[p] : p \in DOMAIN queue}
  <2>1. /\ buffer \in Seq(Cursors) /\ queue \in Seq(1..MaxEntries)
        /\ rpos \in Nat
    BY Numbers DEF Bounded, Sound, Good, Inv
  <2>2. Lost \subseteq Names \cup Queued \cup {rpos}
    <3> SUFFICES ASSUME NEW i \in 1..rpos, Logged(i), i \notin Range(rows),
                        i \notin Skipped, i # rpos
                 PROVE  i \in Names \cup Queued
      OBVIOUS
    <3>1. i \in 1..rpos - 1 /\ i # 0
      BY <2>1
    <3>2. i \in Range(buffer) \cup Range(queue)
      BY <3>1 DEF Bounded, Taken, Accounted, Held
    <3>3. CASE i \in Range(queue)
      BY <3>3 DEF Range
    <3>4. CASE i \in Range(buffer)
      BY <3>1, <3>4 DEF Range
    <3> QED
      BY <3>2, <3>3, <3>4
  <2>3. /\ DOMAIN buffer = 1..Len(buffer) /\ Len(buffer) \in Nat
        /\ DOMAIN queue = 1..Len(queue) /\ Len(queue) \in Nat
    BY <2>1, Elements
  <2>4. /\ Cardinality(1..Len(buffer)) = Len(buffer)
        /\ Cardinality(1..Len(queue)) = Len(queue)
    BY <2>3, CountTo
  <2>5. Zero \in SUBSET DOMAIN buffer /\ Named \in SUBSET DOMAIN buffer
    OBVIOUS
  <2>6. /\ IsFiniteSet(Zero) /\ Cardinality(Zero) \in Nat
    BY <2>1, <2>5, FewValues
  <2>7. /\ IsFiniteSet(Named) /\ Cardinality(Named) \in Nat
        /\ IsFiniteSet(Names) /\ Cardinality(Names) \in Nat
        /\ Cardinality(Names) <= Cardinality(Named)
    BY <2>1, <2>5, FewValues
  <2>8. /\ IsFiniteSet(Queued) /\ Cardinality(Queued) \in Nat
        /\ Cardinality(Queued) <= Len(queue)
    <3>1. DOMAIN queue \in SUBSET DOMAIN queue
      OBVIOUS
    <3>2. /\ IsFiniteSet(Queued) /\ Cardinality(Queued) \in Nat
          /\ Cardinality(Queued) <= Cardinality(DOMAIN queue)
      BY <2>1, <3>1, FewValues
    <3> QED
      BY <2>3, <2>4, <3>2
  <2>9. Zero \cup Named = 1..Len(buffer) /\ Zero \cap Named = {}
    BY <2>3
  <2> HIDE DEF Lost, Zero, Named, Names, Queued
  <2>10. Cardinality(Zero) + Cardinality(Named) = Len(buffer)
    <3>1. Cardinality(Zero \cup Named)
            = Cardinality(Zero) + Cardinality(Named)
              - Cardinality(Zero \cap Named)
      BY <2>6, <2>7, FS_Union
    <3>2. Cardinality(Zero \cap Named) = 0
      BY <2>9, FS_EmptySet
    <3>3. Cardinality(Zero \cup Named) = Len(buffer)
      BY <2>4, <2>9
    <3>4. Len(buffer) = Cardinality(Zero) + Cardinality(Named) - 0
      BY <3>1, <3>2, <3>3
    <3>5. Cardinality(Zero) \in Nat /\ Cardinality(Named) \in Nat
      BY <2>6, <2>7
    <3> QED
      BY <3>4, <3>5
  <2>11. /\ IsFiniteSet(Names \cup Queued)
         /\ Cardinality(Names \cup Queued) \in Nat
         /\ Cardinality(Names \cup Queued)
              <= Cardinality(Names) + Cardinality(Queued)
    BY <2>7, <2>8, FewTogether
  <2>12. /\ IsFiniteSet(Names \cup Queued \cup {rpos})
         /\ Cardinality(Names \cup Queued \cup {rpos}) \in Nat
         /\ Cardinality(Names \cup Queued \cup {rpos})
              <= Cardinality(Names \cup Queued) + 1
    <3>1. IsFiniteSet({rpos}) /\ Cardinality({rpos}) = 1
      BY FS_Singleton
    <3>2. /\ IsFiniteSet(Names \cup Queued \cup {rpos})
          /\ Cardinality(Names \cup Queued \cup {rpos}) \in Nat
          /\ Cardinality(Names \cup Queued \cup {rpos})
               <= Cardinality(Names \cup Queued) + Cardinality({rpos})
      BY <2>11, <3>1, FewTogether
    <3> QED
      BY <3>1, <3>2
  <2>13. /\ Cardinality(Lost) \in Nat
         /\ Cardinality(Lost) <= Cardinality(Names \cup Queued \cup {rpos})
    BY <2>2, <2>12, FS_Subset, FS_CardinalityType
  <2>14. /\ Len(buffer) + toReport <= BatchSize - 1 + PollSize
         /\ Len(queue) <= QueueSize /\ toReport \in Nat
         /\ BatchSize \in Nat /\ QueueSize \in Nat /\ PollSize \in Nat
    BY BatchAssumption, QueueAssumption, PollAssumption
       DEF Bounded, Sizes, Unreported, Sound, Good, Inv, TypeOK, MainType
  <2>15. Cardinality(Lost) + Cardinality(Zero) + toReport
           <= QueueSize + BatchSize + PollSize
    <3> DEFINE lost == Cardinality(Lost)
               zero == Cardinality(Zero)
               named == Cardinality(Named)
               names == Cardinality(Names)
               queued == Cardinality(Queued)
               both == Cardinality(Names \cup Queued)
               all == Cardinality(Names \cup Queued \cup {rpos})
               inBuffer == Len(buffer)
               inQueue == Len(queue)
    <3>1. /\ lost \in Nat /\ zero \in Nat /\ named \in Nat /\ names \in Nat
          /\ queued \in Nat /\ both \in Nat /\ all \in Nat
          /\ inBuffer \in Nat /\ inQueue \in Nat
      BY <2>3, <2>6, <2>7, <2>8, <2>11, <2>12, <2>13
    <3>2. /\ lost <= all /\ all <= both + 1 /\ both <= names + queued
          /\ names <= named /\ queued <= inQueue /\ zero + named = inBuffer
          /\ inBuffer + toReport <= BatchSize - 1 + PollSize
          /\ inQueue <= QueueSize
      BY <2>7, <2>8, <2>10, <2>11, <2>12, <2>13, <2>14
    <3> HIDE DEF lost, zero, named, names, queued, both, all, inBuffer, inQueue
    <3>3. lost + zero + toReport <= QueueSize + BatchSize + PollSize
      BY <2>14, <3>1, <3>2
    <3> QED
      BY <3>3 DEF lost, zero
  <2> QED
    BY <2>15 DEF LossWindowBounded, Lost, Zero
<1> QED
  BY <1>1, BoundedInit, BoundedNext, PTL DEF Spec
=============================================================================
