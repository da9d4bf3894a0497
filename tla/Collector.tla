----------------------------- MODULE Collector -----------------------------
(***************************************************************************)
(* The collector is the path of a log entry through hblogd: the journal    *)
(* reader thread takes it from the systemd journal and puts it on a        *)
(* bounded queue, the main thread takes it from the queue, drops it when   *)
(* its unit is not watched, buffers it, and commits the buffer to SQLite;  *)
(* after the batch it commits the journal cursor the next start resumes    *)
(* from.  Events of the unit monitor join at the buffer.                   *)
(*                                                                         *)
(* A journal entry is named by its position in the journal, which is also  *)
(* its cursor; 0 is "no cursor" and the name of every unit-monitor event,  *)
(* which carries none.  The stored events are the sequence of names        *)
(* committed to the events table.  Retention is the module Retention.      *)
(***************************************************************************)
EXTENDS Naturals, Sequences, FiniteSets, Functions

CONSTANTS
    Units,             \* the units that write to the journal
    Watched,           \* those Config.unit_is_watched accepts
    BatchSize,         \* Config.batch_size
    QueueSize,         \* maxsize of Daemon._q
    PollSize,          \* most events one poll of the unit monitor returns
    Disturbances,      \* what may happen to the daemon, see the actions
    MaxEntries,        \* bound: entries ever written to the journal
    MaxAlerts,         \* bound: events ever raised by the unit monitor
    MaxDisturbances    \* bound: disturbances in a behaviour

DisturbanceKinds ==
    {"stop", "kill", "power", "reboot", "vacuum", "reader", "seek", "write"}

ASSUME UnitsAssumption == Watched \subseteq Units
ASSUME BatchAssumption == BatchSize \in Nat \ {0}
ASSUME QueueAssumption == QueueSize \in Nat \ {0}
ASSUME PollAssumption == PollSize \in Nat \ {0}
ASSUME SwitchAssumption == Disturbances \subseteq DisturbanceKinds
ASSUME BoundAssumption ==
    MaxEntries \in Nat /\ MaxAlerts \in Nat /\ MaxDisturbances \in Nat

VARIABLES
    journal,   \* the unit of each entry, in order
    horizon,   \* first entry the reader can see: this_boot(), rotation
    main,      \* where the main thread is
    back,      \* where it continues after a flush
    stop,      \* Daemon._stop
    buffer,    \* Pipeline._buffer
    pending,   \* Pipeline._pending_cursor
    due,       \* flush_interval_sec has passed since _last_flush
    toReport,  \* monitor events of this poll not yet submitted
    worker,    \* where the reader thread is
    wcursor,   \* its local `cursor`
    rpos,      \* last entry its reader has returned or skipped
    hand,      \* the event it is putting on the queue
    queue,     \* Daemon._q
    rows,      \* committed rows of events
    cursor,    \* committed meta.journal_cursor
    txn,       \* what an open transaction adds
    disk,      \* the images a power loss may leave (WAL, synchronous=NORMAL)
    atTail,    \* history: entries a start from the tail has passed over
    rotated,   \* history: entries passed over because unreadable
    torn,      \* history: how often a batch was stored without its cursor
    alerts,    \* history: events raised by the unit monitor
    disturbed  \* history: number of disturbances

memory == <<buffer, pending, due, toReport>>
mainVars == <<main, back, stop, memory>>
workerVars == <<worker, wcursor, rpos, hand>>
dbVars == <<rows, cursor, txn, disk>>
historyVars == <<atTail, rotated, torn, alerts, disturbed>>
elsewhere == <<journal, horizon, workerVars, queue>>
vars == <<journal, horizon, mainVars, workerVars, queue, dbVars, historyVars>>

----------------------------------------------------------------------------
NoTxn == [rows |-> <<>>, cursor |-> 0]
Image(r, c) == [rows |-> r, cursor |-> c]
Entries == 1..Len(journal)
Cursors == 0..MaxEntries
Larger(a, b) == IF a >= b THEN a ELSE b
Smaller(a, b) == IF a <= b THEN a ELSE b

\* Wrong variant of IsWatched: an event that is no journal entry is dropped.
IsWatchedEntry(e) == e \in Entries /\ journal[e] \in Watched

\* An event passes the watch rules; monitor events are of watched units only.
IsWatched(e) == e \in Entries => journal[e] \in Watched

\* Rows beyond the cursor of their image are read and stored again.
Half(image) == \E e \in Range(image.rows) : e > image.cursor

Images == [rows : Seq(Cursors), cursor : Cursors]

JournalType ==
    /\ journal \in Seq(Units)
    /\ Len(journal) <= MaxEntries
    /\ horizon \in 1..MaxEntries + 1

MainType ==
    /\ main \in {"down", "loop", "drain", "more", "poll", "report", "timer",
                 "write", "mark", "exit", "closing"}
    /\ back \in {"more", "report", "timer", "closing"}
    /\ buffer \in Seq(Cursors)
    /\ pending \in Cursors
    /\ toReport \in Nat

WorkerType ==
    /\ worker \in {"off", "open", "read", "put", "backoff"}
    /\ wcursor \in Cursors
    /\ rpos \in Cursors
    /\ hand \in Cursors
    /\ worker = "put" => hand # 0
    /\ queue \in Seq(1..MaxEntries)

StoreType ==
    /\ rows \in Seq(Cursors)
    /\ cursor \in Cursors
    /\ txn \in Images
    /\ disk \subseteq Images

HistoryType ==
    /\ atTail \subseteq 1..MaxEntries
    /\ rotated \subseteq 1..MaxEntries
    /\ torn \in Nat
    /\ alerts \in Nat
    /\ disturbed \in Nat

FlagType == stop \in BOOLEAN /\ due \in BOOLEAN

TypeOK ==
    /\ JournalType /\ MainType /\ WorkerType /\ StoreType /\ HistoryType
    /\ FlagType

Init ==
    /\ journal = <<>> /\ horizon = 1
    /\ main = "down" /\ back = "timer" /\ stop = FALSE
    /\ buffer = <<>> /\ pending = 0 /\ due = FALSE /\ toReport = 0
    /\ worker = "off" /\ wcursor = 0 /\ rpos = 0 /\ hand = 0
    /\ queue = <<>>
    /\ rows = <<>> /\ cursor = 0 /\ txn = NoTxn /\ disk = {NoTxn}
    /\ atTail = {} /\ rotated = {}
    /\ torn = 0 /\ alerts = 0 /\ disturbed = 0

----------------------------------------------------------------------------
(* The main thread. *)

\* Daemon.__init__ and the start of run: the reader thread is handed c.
StartWith(c) ==
    /\ main = "down"
    /\ main' = "loop"
    /\ worker' = "open"
    /\ wcursor' = c
    /\ UNCHANGED <<journal, horizon, back, stop, memory, rpos, hand, queue,
                   dbVars, historyVars>>

\* Wrong variant of StartDaemon: the persisted cursor is not read.
StartFromTail == StartWith(0)

\* The persisted cursor is read once, here.
StartDaemon == StartWith(cursor)

\* while not self._stop.is_set()
CheckStop ==
    /\ main = "loop"
    /\ main' = IF stop THEN "exit" ELSE "drain"
    /\ UNCHANGED <<elsewhere, back, stop, memory, dbVars, historyVars>>

\* Pipeline.submit, continuing at pc; a buffer of limit events is flushed
\* first.
SubmitUpTo(limit, e, pc) ==
    \/ /\ ~IsWatched(e)
       /\ main' = pc
       /\ UNCHANGED <<buffer, pending, back>>
    \/ /\ IsWatched(e)
       /\ buffer' = Append(buffer, e)
       /\ pending' = IF e = 0 THEN pending ELSE e
       /\ \/ /\ Len(buffer) + 1 >= limit
             /\ main' = "write"
             /\ back' = pc
          \/ /\ Len(buffer) + 1 < limit
             /\ main' = pc
             /\ UNCHANGED back

\* Wrong variant of Submit: a full buffer waits for the timer.
SubmitUnbounded(e, pc) == SubmitUpTo(MaxEntries + MaxAlerts + 1, e, pc)

Submit(e, pc) == SubmitUpTo(BatchSize, e, pc)

\* One event from the queue: the blocking get, or a get_nowait of the burst.
Drain ==
    /\ main \in {"drain", "more"}
    /\ queue # <<>>
    /\ queue' = Tail(queue)
    /\ Submit(Head(queue), "more")
    /\ UNCHANGED <<journal, horizon, stop, due, toReport, workerVars, dbVars,
                   historyVars>>

\* The queue is empty, or the second the drain is allowed is over.
EndDrain ==
    /\ \/ main \in {"drain", "more"} /\ queue = <<>>
       \/ main = "more"
    /\ main' = "poll"
    /\ UNCHANGED <<elsewhere, back, stop, memory, dbVars, historyVars>>

\* Not yet time to poll, or the poll raised, or it found nothing to report.
PollNothing ==
    /\ main = "poll"
    /\ main' = "timer"
    /\ UNCHANGED <<elsewhere, back, stop, memory, dbVars, historyVars>>

\* The unit monitor returns n events.
PollEvents ==
    /\ main = "poll"
    /\ \E n \in 1..PollSize :
          /\ alerts + n <= MaxAlerts
          /\ alerts' = alerts + n
          /\ toReport' = n
    /\ main' = "report"
    /\ UNCHANGED <<elsewhere, back, stop, buffer, pending, due, dbVars,
                   atTail, rotated, torn, disturbed>>

ReportEvent ==
    /\ main = "report"
    /\ toReport > 0
    /\ toReport' = toReport - 1
    /\ Submit(0, "report")
    /\ UNCHANGED <<elsewhere, stop, due, dbVars, historyVars>>

\* Wrong variant of Flush: it is left to the timer.
FlushLater(pc) == main' = pc /\ UNCHANGED back

\* Pipeline.flush continuing at pc: nothing happens on an empty buffer.
Flush(pc) ==
    \/ buffer = <<>> /\ main' = pc /\ UNCHANGED back
    \/ buffer # <<>> /\ main' = "write" /\ back' = pc

\* if events: self.pipeline.flush()
EndReport ==
    /\ main = "report"
    /\ toReport = 0
    /\ Flush("timer")
    /\ UNCHANGED <<elsewhere, stop, memory, dbVars, historyVars>>

\* Pipeline.maybe_flush; then maintenance and the watchdog ping.
MaybeFlush ==
    /\ main = "timer"
    /\ \/ /\ buffer # <<>> /\ due
          /\ main' = "write"
          /\ back' = "timer"
       \/ /\ buffer = <<>> \/ ~due
          /\ main' = "loop"
          /\ UNCHANGED back
    /\ UNCHANGED <<elsewhere, stop, memory, dbVars, historyVars>>

\* Wrong variant of ClearBuffer: the buffer stays.
KeepBuffer == due' = FALSE /\ main' = back /\ UNCHANGED buffer

\* self._buffer.clear() and the new _last_flush.
ClearBuffer ==
    /\ buffer' = <<>>
    /\ due' = FALSE
    /\ main' = back

\* A commit makes r and c current; the disk may now hold them as well.
Commit(r, c) ==
    /\ rows' = r
    /\ cursor' = c
    /\ txn' = NoTxn
    /\ disk' = disk \cup {Image(r, c)}

\* Database.write_batch up to and including its commit.
WriteBatch ==
    /\ main = "write"
    /\ Commit(rows \o txn.rows \o buffer, Larger(cursor, txn.cursor))
    /\ \/ /\ pending # 0
          /\ main' = "mark"
          /\ UNCHANGED <<buffer, due>>
       \/ /\ pending = 0
          /\ ClearBuffer
    /\ UNCHANGED <<elsewhere, back, stop, pending, toReport, historyVars>>

\* set_meta of a cursor and its own commit.
MarkWith(c) ==
    /\ main = "mark"
    /\ Commit(rows, c)
    /\ pending' = 0
    /\ ClearBuffer
    /\ UNCHANGED <<elsewhere, back, stop, toReport, historyVars>>

\* Wrong variant of MarkCursor: the cursor of the reader is persisted.
MarkReaderCursor == MarkWith(wcursor)

MarkCursor == MarkWith(pending)

\* The flush of run's finally clause.
FinalFlush ==
    /\ main = "exit"
    /\ Flush("closing")
    /\ UNCHANGED <<elsewhere, stop, memory, dbVars, historyVars>>

\* The end of the process: everything it held in memory is gone, and SQLite
\* rolls an open transaction back.
Vanish ==
    /\ main' = "down" /\ back' = "timer" /\ stop' = FALSE
    /\ buffer' = <<>> /\ pending' = 0 /\ due' = FALSE /\ toReport' = 0
    /\ worker' = "off" /\ wcursor' = 0 /\ rpos' = 0 /\ hand' = 0
    /\ queue' = <<>>
    /\ txn' = NoTxn

\* self.db.close(); the last connection to close checkpoints the log.
Close ==
    /\ main = "closing"
    /\ Vanish
    /\ disk' \in {disk, {Image(rows, cursor)}}
    /\ UNCHANGED <<journal, horizon, rows, cursor, historyVars>>

----------------------------------------------------------------------------
(* The journal reader thread. *)

readerUnchanged ==
    UNCHANGED <<journal, horizon, mainVars, dbVars, torn, alerts, disturbed>>

\* Position the reader just after p, an entry not read yet being passed over.
StartReading(p) ==
    /\ worker' = "read" /\ rpos' = p
    /\ UNCHANGED <<wcursor, hand, queue>>
    /\ readerUnchanged

\* Wrong variant of StartAfter: one entry too far.
StartPast(p) == StartReading(p + 1)

StartAfter(p) == StartReading(p)

\* seek_cursor, then get_next to skip the entry already processed.  When that
\* entry is out of sight it skips the first one in sight instead.
OpenAtCursor ==
    /\ worker = "open" /\ ~stop
    /\ wcursor # 0
    /\ \/ /\ wcursor >= horizon
          /\ StartAfter(wcursor)
          /\ UNCHANGED rotated
       \/ /\ wcursor < horizon
          /\ StartAfter(Smaller(horizon, Len(journal)))
          /\ rotated' = rotated \cup
                        {e \in Entries : wcursor < e /\ e <= horizon}
    /\ UNCHANGED atTail

\* No cursor: start after the newest entry.
OpenAtTail ==
    /\ worker = "open" /\ ~stop
    /\ wcursor = 0
    /\ StartAfter(Len(journal))
    /\ atTail' = atTail \cup Entries
    /\ UNCHANGED rotated

\* for entry in reader: the next entry in sight.  The stop flag is looked at
\* only when an entry arrives.
ReadNext ==
    /\ worker = "read"
    /\ LET e == Larger(rpos + 1, horizon)
       IN  /\ e <= Len(journal)
           /\ rpos' = e
           /\ rotated' = rotated \cup (rpos + 1 .. e - 1)
           /\ \/ stop /\ worker' = "off" /\ UNCHANGED hand
              \/ ~stop /\ worker' = "put" /\ hand' = e
    /\ UNCHANGED <<wcursor, queue, atTail>>
    /\ readerUnchanged

\* self._q.put blocks while the queue is full; then the thread remembers c.
PutRemembering(c) ==
    /\ worker = "put"
    /\ Len(queue) < QueueSize
    /\ queue' = Append(queue, hand)
    /\ wcursor' = c
    /\ hand' = 0
    /\ worker' = "read"
    /\ UNCHANGED <<rpos, atTail, rotated>>
    /\ readerUnchanged

\* Wrong variant of PutEvent: the thread does not remember its progress.
PutForgetsCursor == PutRemembering(wcursor)

PutEvent == PutRemembering(hand)

WorkerGoes(from, to) ==
    /\ worker = from
    /\ worker' = to
    /\ UNCHANGED <<wcursor, rpos, hand, queue, atTail, rotated>>
    /\ readerUnchanged

\* Wrong variant of EndBackoff: the thread ends.
EndForGood == WorkerGoes("backoff", "off")

\* self._stop.wait(5), then back to the loop's test.
EndBackoff == WorkerGoes("backoff", "open")

\* while not self._stop.is_set(), the loop of the thread.
ReaderStops == stop /\ WorkerGoes("open", "off")

----------------------------------------------------------------------------
(* The world outside, and what it may do to the daemon. *)

\* A unit writes to the journal.
Log(u) ==
    /\ Len(journal) < MaxEntries
    /\ journal' = Append(journal, u)
    /\ UNCHANGED <<horizon, mainVars, workerVars, queue, dbVars, historyVars>>

\* The flush interval passes.
Tick ==
    /\ main # "down"
    /\ ~due
    /\ due' = TRUE
    /\ UNCHANGED <<elsewhere, main, back, stop, buffer, pending, toReport,
                   dbVars, historyVars>>

\* SQLite checkpoints its log, which syncs it.
Checkpoint ==
    /\ main # "down"
    /\ disk # {Image(rows, cursor)}
    /\ disk' = {Image(rows, cursor)}
    /\ UNCHANGED <<elsewhere, mainVars, rows, cursor, txn, historyVars>>

Disturb(kind) ==
    /\ kind \in Disturbances
    /\ disturbed < MaxDisturbances
    /\ disturbed' = disturbed + 1
    /\ UNCHANGED alerts

\* SIGTERM or SIGINT.
Stop ==
    /\ Disturb("stop")
    /\ main # "down"
    /\ ~stop
    /\ stop' = TRUE
    /\ UNCHANGED <<elsewhere, main, back, memory, dbVars, atTail, rotated,
                   torn>>

\* SIGKILL, the watchdog or the OOM killer: what is committed stays.
Kill ==
    /\ Disturb("kill")
    /\ main # "down"
    /\ Vanish
    /\ torn' = IF main = "mark" THEN torn + 1 ELSE torn
    /\ UNCHANGED <<journal, horizon, rows, cursor, disk, atTail, rotated>>

\* Power loss: the database comes back as one of the images on the disk.
PowerLoss ==
    /\ Disturb("power")
    /\ Vanish
    /\ horizon' = Len(journal) + 1
    /\ \E image \in disk :
          /\ rows' = image.rows
          /\ cursor' = image.cursor
          /\ disk' = {image}
          /\ torn' = IF Half(image) THEN torn + 1 ELSE torn
    /\ UNCHANGED <<journal, atTail, rotated>>

\* An orderly reboot, after the daemon has been stopped.
Reboot ==
    /\ Disturb("reboot")
    /\ main = "down"
    /\ horizon' = Len(journal) + 1
    /\ disk' = {Image(rows, cursor)}
    /\ UNCHANGED <<journal, mainVars, workerVars, queue, rows, cursor, txn,
                   atTail, rotated, torn>>

\* journald deletes its oldest entries.
VacuumJournal ==
    /\ Disturb("vacuum")
    /\ \E h \in Entries : h > horizon /\ horizon' = h
    /\ UNCHANGED <<journal, mainVars, workerVars, queue, dbVars, atTail,
                   rotated, torn>>

\* The reader raises while reading, or the binding cannot be imported, which
\* happens inside _open and events; the thread reconnects after a pause.
ReaderFails ==
    /\ Disturb("reader")
    /\ worker \in {"open", "read"}
    /\ worker = "open" => ~stop
    /\ worker' = "backoff"
    /\ UNCHANGED <<journal, horizon, mainVars, wcursor, rpos, hand, queue,
                   dbVars, atTail, rotated, torn>>

\* seek_cursor or get_next raises: the fallback is the tail.
SeekFails ==
    /\ Disturb("seek")
    /\ worker = "open" /\ ~stop
    /\ wcursor # 0
    /\ worker' = "read"
    /\ rpos' = Len(journal)
    /\ atTail' = atTail \cup {e \in Entries : e > wcursor}
    /\ UNCHANGED <<journal, horizon, mainVars, wcursor, hand, queue, dbVars,
                   rotated, torn>>

\* The exception ends the loop and run's finally clause flushes once more; in
\* that flush it ends the process.  An open transaction survives the first.
Raise(open) ==
    \/ /\ back # "closing"
       /\ main' = "exit"
       /\ txn' \in {open, NoTxn}
       /\ UNCHANGED <<back, stop, memory, workerVars, queue>>
    \/ back = "closing" /\ Vanish

\* write_batch raises after k inserts.
WriteFails ==
    /\ Disturb("write")
    /\ main = "write"
    /\ \E k \in 0..Len(buffer) :
          Raise(Image(txn.rows \o SubSeq(buffer, 1, k), txn.cursor))
    /\ torn' = IF txn'.rows = <<>> THEN torn ELSE torn + 1
    /\ UNCHANGED <<journal, horizon, rows, cursor, disk, atTail, rotated>>

\* set_meta or its commit raises.
MarkFails ==
    /\ Disturb("write")
    /\ main = "mark"
    /\ \/ Raise(NoTxn)
       \/ Raise(Image(<<>>, pending))
    /\ torn' = torn + 1
    /\ UNCHANGED <<journal, horizon, rows, cursor, disk, atTail, rotated>>

\* Writing a service status, or resolving incidents before any event of the
\* poll is submitted, raises: no handler there.
PollFails ==
    /\ Disturb("write")
    /\ main = "poll" \/ (main = "report" /\ toReport > 0)
    /\ main' = "exit"
    /\ UNCHANGED <<elsewhere, back, stop, memory, dbVars, atTail, rotated,
                   torn>>

----------------------------------------------------------------------------
MainStep ==
    \/ StartDaemon \/ CheckStop \/ Drain \/ EndDrain
    \/ PollNothing \/ PollEvents \/ ReportEvent \/ EndReport
    \/ MaybeFlush \/ WriteBatch \/ MarkCursor \/ FinalFlush \/ Close

WorkerStep ==
    \/ OpenAtCursor \/ OpenAtTail \/ ReadNext \/ PutEvent
    \/ EndBackoff \/ ReaderStops

Disturbance ==
    \/ Stop \/ Kill \/ PowerLoss \/ Reboot \/ VacuumJournal
    \/ ReaderFails \/ SeekFails \/ WriteFails \/ MarkFails \/ PollFails

Next ==
    \/ MainStep
    \/ WorkerStep
    \/ Tick
    \/ Checkpoint
    \/ \E u \in Units : Log(u)
    \/ Disturbance

Spec == Init /\ [][Next]_vars

\* The main thread is scheduled, time passes, and systemd (Restart=always) or
\* an operator starts the daemon again.  Nothing is said of the reader thread,
\* which may be stuck, or fail for ever without the journal binding.
FairSpec == Spec /\ WF_vars(MainStep) /\ WF_vars(Tick)

----------------------------------------------------------------------------
(* Properties. *)

Logged(i) == i \in Entries /\ journal[i] \in Watched
Skipped == atTail \cup rotated

\* Every watched entry up to c is in S, or was out of reach.
Accounted(S, c) ==
    \A i \in 1..c : Logged(i) => i \in S \cup Skipped

Covers(image) == Accounted(Range(image.rows), image.cursor)

\* Resuming never loses: whatever the interleaving of the two threads, and
\* whichever image a power loss leaves, the persisted cursor never claims an
\* entry that is not stored (pipeline.py commits rows before the cursor).
CursorCovered ==
    /\ Covers(Image(rows, cursor))
    /\ \A image \in disk : Covers(image)

\* The strengthening that makes CursorCovered inductive: on its way through
\* reader, queue and buffer a watched entry is always somewhere below every
\* cursor that has passed it.
Held == Range(rows) \cup Range(buffer)
Ahead(p) == {queue[q] : q \in 1..p - 1}

WithinJournal ==
    /\ \A c \in {cursor, txn.cursor, pending, wcursor, rpos, hand}
                \cup Range(queue) :
          c <= Len(journal)
    /\ \A image \in disk : image.cursor <= Len(journal)

InFlight ==
    /\ \A p \in DOMAIN queue : Accounted(Held \cup Ahead(p), queue[p] - 1)
    /\ Accounted(Held \cup Range(queue), wcursor)
    /\ worker = "read" => Accounted(Held \cup Range(queue), rpos)
    /\ worker = "put" =>
          /\ hand = rpos
          /\ Accounted(Held \cup Range(queue), hand - 1)

CursorInv ==
    /\ WithinJournal
    /\ CursorCovered
    /\ Accounted(Range(rows), txn.cursor)
    /\ Accounted(Held, pending)
    /\ main = "mark" => Range(buffer) \subseteq Range(rows)
    /\ InFlight

\* Without a torn flush the events of the journal are stored once each and in
\* journal order, across restarts and reader reconnects.
InOrderOnce ==
    torn = 0 =>
        \A i, j \in DOMAIN rows :
            i < j /\ rows[i] # 0 /\ rows[j] # 0 => rows[i] < rows[j]

\* An entry is stored at most once more than flushes were torn.
CopiesBounded ==
    \A e \in Range(rows) \ {0} :
        Cardinality({i \in DOMAIN rows : rows[i] = e}) <= 1 + torn

\* What is in memory only, which is what a crash can cost, fits in the queue,
\* the buffer, the reader's hand and one poll, whichever is full when: the
\* entries that were read and are neither stored nor skipped, and the monitor's
\* events, buffered or still to be submitted by _maybe_poll_units.
LossWindowBounded ==
    Cardinality({i \in 1..rpos : Logged(i)} \ (Range(rows) \cup Skipped))
    + Cardinality({p \in DOMAIN buffer : buffer[p] = 0})
    + toReport
        <= QueueSize + BatchSize + PollSize

\* After a stop the next start resumes exactly: nothing buffered is left and
\* the cursor is that of the last journal event stored.
StopIsExact ==
    main = "closing" =>
        /\ buffer = <<>>
        /\ torn = 0 => \A e \in Range(rows) : e <= cursor

\* The persisted cursor never moves back, except that a power loss brings an
\* older database back.
CursorMonotone == [][cursor' >= cursor \/ PowerLoss]_vars

\* The reader starts from the tail only while no journal event is stored, or
\* when the journal cannot find the cursor.  Nothing is said from the first torn
\* flush on: rows may then be stored while no cursor is.
TailOnlyBeforeFirstEvent ==
    [][atTail' # atTail =>
         SeekFails \/ torn > 0 \/ \A e \in Range(rows) : e = 0]_vars

\* The collector implements Delivery, with what is committed but not yet
\* marked as its progress: through queue, buffer, torn flushes and crashes it
\* stores from the persisted cursor on without gap, disorder or repetition.
Promise ==
    INSTANCE Delivery
    WITH passed <- Skipped, mark <- cursor,
         pos <- IF main = "mark" THEN pending ELSE cursor
Delivers == Promise!Spec

\* Every watched entry is stored, unless a start passed over it, when the
\* reader thread is scheduled.
Delivered ==
    WF_vars(WorkerStep) =>
        \A i \in 1..MaxEntries :
            Logged(i) ~> i \in Range(rows) \cup Skipped

\* Every event the unit monitor raises is stored while nothing goes wrong,
\* whatever the reader thread does: the daemon degrades to the unit monitor.
AlertsStored ==
    \A n \in 1..MaxAlerts :
        alerts = n ~> \/ disturbed > 0
                      \/ Cardinality({i \in DOMAIN rows : rows[i] = 0}) >= n

----------------------------------------------------------------------------
(* What the documentation says and the code does not do. *)

\* README: after a restart, expected or not, logs are not lost: no watched
\* entry becomes unreadable before it was read.
NothingRotated == \A e \in rotated : ~Logged(e)
============================================================================
