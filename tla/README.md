# TLA+ models of the HeartBeat Logger Service

`hblogd` collects what systemd services log and how they fare, stores it in
SQLite and groups what goes wrong into incidents; `hblog` reads and prunes that
database. This directory holds TLA+ models of the parts where interleavings,
crashes, ordering and limits matter, the TLC configurations that check them,
and TLAPS proofs of every safety property the runs check, for every size.
`PROJECT.json` lists components, runs, mutants, the source lines of each
definition, findings, hazards and theorems.

    tlc -workers 2 -config CollectorSafety.cfg Collector
    tlapm FiniteFacts.tla
    tlapm CollectorProofs.tla
    tlapm StatusProofs.tla
    tlapm RetentionProofs.tla
    tlapm FollowProofs.tla
    tlapm ClassifyProofs.tla
    tlapm WatchdogProofs.tla
    tlapm ConfigProofs.tla

Paths below are relative to the repository.

## 1. The system

Two threads and a few short-lived processes share one SQLite file.

    journald --> reader thread --> queue --> main thread --> Pipeline --> SQLite
                 (JournalSource)   10000    (_main_loop)     buffer      (WAL)
    systemctl --------------------------> UnitMonitor.poll --^             ^
                                          status, resolve -----------------|
    hblog status / logs -f / prune / vacuum (other processes) -------------|
    the user, hblog scan --> config.toml --> hblogd, at its start
    systemd: start, READY=1, WATCHDOG=1, SIGTERM, SIGKILL <--> main thread

| Component | State it keeps | Operations | Code |
|---|---|---|---|
| Journal reader | local `cursor`, the reader's position | open and seek, read, put on the queue, back off and reconnect | `hblog/daemon.py` `_journal_worker`, `hblog/sources/journal.py` |
| Main thread | `_stop`, `_last_poll`, `_last_maint`, `_watched` | start, drain, poll, handle events, maintain, ping the watchdog, stop | `hblog/daemon.py` |
| Pipeline | `_buffer`, `_pending_cursor`, `_last_flush` | submit, maybe_flush, flush | `hblog/pipeline.py` |
| Database | tables `events`, `incidents`, `service_status`, `meta`; the transaction open on the connection | write_batch, upserts, resolve, set_meta, prune, vacuum, queries | `hblog/db.py` |
| Unit monitor | `_prev`, `_restarts`, `_loop_active`, `_heartbeat` | poll | `hblog/sources/units.py` |
| Classifier | none | classify, `_pick_unit`, `_failure_event` | `hblog/classify.py`, `journal.py`, `units.py` |
| Command line | `seen_since` of `logs --follow`, what `status` has read so far | status, logs, prune, vacuum, scan, queries | `hblog/cli.py` |
| Configuration | the file, the watch rules | load, unit_is_watched, scan's rewrite | `hblog/config.py` |
| Watchdog notifier | `_last`, `_interval`; deadlines in systemd | `ready`, `ping`, the signal handler | `hblog/daemon.py`, the unit file |

### What is hard about each, and what makes it correct

* **Collection.** An entry is in the reader's hand, in the queue, in the buffer
  or in the table while the cursor that will skip it at the next start advances
  on its own; rows and cursor are two transactions; kills, power losses, reader
  failures, SQLite errors and stops fall between any two steps. *Correct:* the
  persisted cursor never claims what is not stored; nothing is stored twice
  except by a torn flush; the order of the journal is kept; what a crash can
  cost is bounded; a stop leaves nothing behind; every entry arrives in the end.
* **Unit monitor.** It sees samples, not transitions; `NRestarts` is reset by
  operators, the clock may be set, the monitor's memory dies with the daemon.
  *Correct:* restart loops are reported when and only when there is one;
  failures once each; recoveries only of reported failures.
* **Incidents and status.** Resolution writes to the database directly while
  older problems are still buffered or queued; batches are replayed. *Correct:*
  incidents are a summary of the events; a failed unit shows an open incident;
  a recovered one does not; `service_status` is what the last poll found.
* **Retention.** The size loop of `prune` works by `page_count`, which deletion
  alone does not lower; two processes prune at once. *Correct:* the file is
  bounded; pruning ends; nothing recent goes without need.
* **Classification.** One death has three reports from two sources, which do not
  all tell its code. *Correct:* reports that tell the same problem are one
  incident and others are not, whichever of them arrive.
* **Following.** Rows are committed with timestamps older than those already
  printed. *Correct:* each row once, in order.
* **Status.** One command makes many queries while the daemon commits between
  them, and a failure reaches the database as a status first and an event
  later. *Correct:* a bad unit is never shown as a good one.
* **Watchdog and signals.** Every step may wait: for systemctl without a
  timeout, for SQLite's lock, in the loop of `prune`. The watchdog and the stop
  flag are looked at once per round. The handler takes a lock that is not
  reentrant. *Correct:* hangs end, quick daemons live, a stop is orderly.
* **Configuration.** `scan` rewrites in place a file the user edits and the
  daemon reads. *Correct:* only the list changes, and no part of one is used.

`PROJECT.json` lists these hazards with the line where each one bites and the
properties aimed at it.

## 2. The modules

| Module | Models | Proofs |
|---|---|---|
| `Delivery` | what collection promises: a log that resumes at a mark | `CollectorProofs` |
| `Collector` | reader thread, queue, main thread, pipeline, rows and cursor, crashes; implements `Delivery` | `CollectorProofs` |
| `UnitMonitor` | `UnitMonitor.poll` over services that change as they like | `StatusProofs` |
| `Health` (extends `UnitMonitor`) | handling of a poll, incidents, `service_status`, resume after a crash | `StatusProofs` |
| `Status` (extends `Health`) | `hblog status` beside the daemon | `StatusProofs` |
| `Retention` | inserts, `prune` in two processes, `vacuum`, the file's size | `RetentionProofs` |
| `Follow` | `logs --follow` against a writer | `FollowProofs` |
| `Classify` | patterns, kinds, signatures and grouping of what is reported | `ClassifyProofs` |
| `Watchdog` | rounds, readiness, pings, signals, under systemd | `WatchdogProofs` |
| `ConfigFile` | load, `scan`, edits and starts around one file | `ConfigProofs` |

`FiniteFacts` has the lemmas about finite sets, sums and folds that `StatusProofs`,
`RetentionProofs`, `FollowProofs` and `ConfigProofs` share.

`MCClassify` and `MCConfigFile` give the texts their values; every other
constant is a small set or a number and is given in the `.cfg`. No set is
declared symmetric: the largest run has four million states and takes two
minutes, and runs with liveness could not use it.

Each module also holds *wrong variants* of some definitions, marked as such and
used by no specification: the mistake a change to that code might make. For
every property of a passing run `PROJECT.json` names the variant that breaks
it, under the same configuration.

### Collector

A journal entry is its position in the journal, which is also its cursor; 0 is
"no cursor", and stands for every event of the unit monitor. `rows` is the
sequence of the names committed to `events`.

* `main` is the program counter of the main thread: `loop` (test of `_stop`),
  `drain` and `more` (`_drain_queue`), `poll`, `report` (`_maybe_poll_units`),
  `timer` (`maybe_flush`), `write` and `mark` (the two transactions of
  `Pipeline.flush`), `exit` and `closing` (the finally clause), `down`. A flush
  is a subroutine; `back` is where it returns to.
* `worker` is that of the reader thread; `rpos` is the reader's position and
  `wcursor` the thread's local `cursor`, which moves only after the put.
* `horizon` is the first entry the reader can see: `this_boot()` and journald's
  vacuuming move it. Opening at a cursor out of sight makes `get_next()` skip
  the first visible entry instead (`OpenAtCursor`).
* `txn` is what an uncommitted transaction adds. It matters after `WriteFails`:
  nothing rolls back, so the flush of the finally clause continues in it. It
  survives or not, as the error may have made SQLite roll back by itself.
* `disk` is the set of images a power loss may leave: in WAL mode with
  `synchronous=NORMAL` every commit since the last checkpoint. Checkpoints,
  and the close of the last connection, reduce it to the current image.
* `toReport` is how many events of the poll under way are still to be submitted,
  `PollSize` at most; the poll may fail before them or between two
  (`PollFails`).
* `atTail`, `rotated`, `torn`, `alerts`, `disturbed` are history.

`Delivery` is the abstract specification: each run of the daemon stores the
watched entries from just after a mark on, increasing, without a gap except for
entries that are named, and the mark follows. The refinement maps `mark` to the
persisted `cursor`, `pos` to the cursor of the rows that are committed (the
pending one between the two transactions of a flush, `cursor` otherwise) and
`passed` to the entries the reader was not shown. Queue, buffer, thread and
transactions are stutters or together one `Store`; a death is `Forget`, or nothing when mark and
`pos` agree, and
a power loss goes back to a mark its rows cover.

Disturbances are switched by `Disturbances` and counted up to
`MaxDisturbances`: SIGTERM, kill, power loss, reboot, journal vacuuming,
failures of the reader, of the seek, and of the database.

### UnitMonitor

The services (`Fail`, `AutoRestart`, `StartUnit`, ...) and the clocks are
external. `Poll(seen)` is `UnitMonitor.poll` when systemctl returns the units
in `seen`, which may be fewer than asked for; `report` is the list of events of
each of them, in the order `_detect` appends them. `Wall` is `time.time()`,
`now` is `time.monotonic()`: the window is kept by the first, the poll interval
by the second. `restarted`, `since`, `sampled` and `quiet` are history: when
systemd restarted a unit, since when its count is unbroken, when it was last
sampled and the longest time it was not, and whether since its last report of a
loop a sample found it recovered or short of a loop, by the real restarts and
not by the monitor's flag.

### Health

Extends `UnitMonitor`: `StartPoll` is its `Poll`, and the units' steps go on
while the main thread handles what the poll returned: each status upsert is a
transaction (`UpsertStatus`), then the cleanup (`PruneStatus`), then each event
(`HandleEvent`: resolve if it is a recovery, submit), then the flush. Journal
problems reach the buffer through `DrainEvent`. Reader and queue are one step
here, and a death and the start after it are one step (`Restart`), because
nothing in the tables changes in between. `crash` stands for one pair of kind
and signature; that the sources agree on the pair is `Classify`'s business.

### Status

Extends `Health` by a process that only reads. Each `SELECT` is a step of its
own, as each is a read transaction of its own: the statuses, the units, then
crash and errors of one unit after the other (`ReadCrash`, `ReadErrors`).
`moments` is history: in which way each unit was not failed at some moment of
the command.

### Retention

Sizes are in pages and a row takes one; what else a page holds is left out. The
file keeps the pages of deleted rows until they are freed.
`conn.execute("PRAGMA incremental_vacuum")` steps the statement once, and one
step frees one page: that is `FreePage`, and it was observed with Python's
`sqlite3`, not read in its documentation. `prune` is a loop with a program
counter for each of the two processes that may be in it, and any statement of it
may raise: the daemon catches that with `_last_maint` set (`FailToStart`,
`FailLater`), the command ends. What the daemon had deleted without a commit then
goes with its next one, or not at all.

### Follow

One query and its printing is a step, as the process holds nothing between
queries but `seen_since`. Timestamps a microsecond apart are successive
numbers. Deletion of rows by retention while following is left out.

### Classify

A text is the set of patterns found in it; that of an error is a sequence of
words and numbers, made of a template that is the truth `_signature` has to
find again. Reports of a death arrive in any order; the monitor's may be
missing. `reported` and `made` are history: what each report told, which need
not be all that happened (`Problem`, `ResultProblem`, `MonitorProblem`), with the
keys of the incidents it made, and the keys one death has made. Signal names are
taken as their numbers. Texts of systemd and of the
monitor carry the name of the unit, which the pattern of the OOM killer may
find (`OomNamed`).

### Watchdog

What the steps of the main loop do is in the other modules; here they take
time, any amount of it. A variable is the age of something, saturating at
`Horizon`; `Tick` makes them grow and stops at a timeout that is due, so that
systemd's timeouts are exact and everything of the daemon may be late. The
handler of a signal runs on the main thread: while it does no other step of the
thread is taken, and a second signal may meet the first one's handler holding
the lock of the `Event`, which is then never released (`"stuck"`). Before
`_install_signals` a signal ends the process.

### ConfigFile

A text is a sequence of pieces the code tells apart: the beginning of a list,
brackets, patterns, remarks with brackets in them, other keys, a value out of
range. `Load` reads it as tomllib does, piece by piece; `NewText` rewrites it as
`write_watch_units` does, counting brackets in remarks too. `Truncate` and
`WriteMore` are `write_text`: the file is emptied when it is opened and may be
left, or read, at any piece. A write cut within a pattern or a key does not load
either; one cut within a number may load as another number, and numbers in range
are left out.

## 3. The runs

| Run | Shows | Bounds, and why they are enough |
|---|---|---|
| `collector_safety` | `Collector` implements `Delivery`; the cursor is covered in every image a power loss can leave; events are stored in order; copies come only of torn flushes; the cursor is monotone; tail only before the first event; an orderly stop is exact | all eight kinds of disturbance, two of them in a behaviour, so that one lands on the aftermath of another, such as the finally clause failing after a failed batch; 3 entries and 1 alert of the monitor, queue of 1 and batch of 2: the queue fills, the buffer is flushed by size and by timer, and an insert can fail half way |
| `collector_live` | every watched entry, and every alert of the monitor, is eventually stored; what is in memory only, in the queue, the buffer, the reader's hand and a poll being reported, is bounded | kill, reader and write failures, two in a behaviour; 3 entries and an alert with a queue and a batch of 1, so that the queue fills and every event needs a flush; the bound of 3 is reached, and the 4 of them could exceed it; a poll returns one event, and polls of more are left to the proof |
| `unit_loops` | loops reported when and only when there is one, and announced once | threshold 2, window 2, clock offsets 0 and 1: with the slack of the clock a restart still counts that a poll of an earlier tick has stamped, and time to 5 lets stamps lie within the window, on its edge and beyond it; three restarts and a manual start, so that a count that was reset grows again; polls that miss the unit; two sessions |
| `health_incidents` | incidents summarise events; failures shown; recoveries resolve; failures and recoveries counted right | all four states, one failure and one restart of the unit, polls that see it and polls that miss it, two sessions, one journal problem: a replayed batch meets a resolved incident, a crash is stored after a later one, a failure is met by two monitors, and a unit comes up from `failed` by way of `inactive` or `activating` |
| `status` | a bad unit is not shown as anything else; `service_status` is what the last poll found | two units of which polls see none, one or both; two sessions, so that a death falls between the upserts; time to 3 and a crash recent for 2, so that a unit fails and recovers during the command |
| `retention` | pruning ends, reaches the cap or empties the table, spares recent events; the footprint is bounded | daemon and command in `prune` at once, one restart of the daemon and one failure of `prune` in either process; cap 1 and allowance 4, 5 and 6 with one and both of them; with a bound that counts restarts only, the run finds the interval a failure costs |
| `follow` | never twice or out of order; rows that arrive in order are all shown | limit 2, 4 rows in batches of up to 3, start anywhere among them: the backlog exceeds the limit |
| `classify_groups` | reports that tell the same make one incident, others another, and what is no problem none; a death makes two at most | two services, one named like the OOM killer, two deaths, exit codes 0 and 9 and two signals, with core dump, OOM and timeout; 9 is an exit code as well as a signal; two texts, one longer than a signature, with two numbers each |
| `watchdog` | who is killed, and who is not; every hang and every signal ends | timeouts of 3 and 4 ticks: half of the watchdog's leaves a place for a round within and beyond it; ages saturate at 6, past all of them |
| `config_file` | only the list changes; what is watched is what was found; no part of a list is used | three services of which one pattern covers two; seven texts with matching and unmatching remarks, without a list, excluding all, out of range; two scans and an edit |
| `collector_reboot`, `watchdog_no_binding` | what the documentation says and the code does not do, section 4 | the smallest instance that shows it |

**Bounds.** `MaxEntries`, `MaxAlerts`, `MaxDisturbances`, `MaxTime`,
`MaxRestarts`, `MaxFailures`, `MaxSessions`, `MaxCommands`, `MaxRows`,
`MaxDeaths`, `MaxScans`, `MaxEdits` cap counters, `Horizon` ages; `MaxGap` is the
longest time between two polls and `Rate` what is inserted in a unit of time:
how soon a restart is counted and how large the footprint gets depend on those
two, and so does the program.

**Deadlock** is checked for `Collector`, `Watchdog` and `ConfigFile`: time,
restarts and reconnects keep them going. The other modules end when time or the
other counters are used up, or when the last row has been printed, and say
`CHECK_DEADLOCK FALSE`.

**Fairness.** `Collector`: weak fairness of the main thread and of `Tick`; time
passes, the operating system schedules the thread, and `Restart=always` with
`RestartSec=5` (below systemd's start limit) starts the daemon again. Of the
reader thread nothing is assumed: `AlertsStored` holds without it, and
`Delivered` says that it may be assumed, as weak fairness of its step as a
whole, which still lets it be overtaken while it blocks in `put`. What the
number of disturbances is bounded by, `Delivered` depends on: a daemon killed at
every start delivers nothing. `Watchdog`: time passes and systemd acts on its
timeouts; of the main thread nothing is assumed, as its hanging is the point.
`Retention`: both processes go on and time passes. `Follow`: the loop goes on.
`UnitMonitor`, `Health` and `Status` state no liveness: their promises have
deadlines, so they are action properties and invariants; `Classify` and
`ConfigFile` promise nothing of the kind.

## 4. Where the code and its documentation differ

Two runs check a statement of the documentation that the code does not keep;
the quotations are in `PROJECT.json`.

* `collector_reboot`: *"logs are neither lost nor duplicated"*. After a reboot
  the entries of the old boot are out of sight, and the first entry of the new
  one is skipped in place of the one already processed.
* `watchdog_no_binding`: *"if the journal binding is missing it keeps running
  with just the unit monitor"*. READY=1 is sent through the same package; the
  unit file says `Type=notify`, so systemd gives up a daemon that runs when its
  start times out, and starts it again. `watchdog = false` does the same.

Other differences show in the passing runs, as the qualification without which
a property would not hold:

* A kill between the two commits of a flush repeats the batch, and so does an
  insert that fails half way and is committed by the flush of the finally
  clause: `1 + torn` in `CopiesBounded`, `torn = 0` in `InOrderOnce`.
* Until a first watched entry is stored every start begins at the tail:
  `TailOnlyBeforeFirstEvent`, where the documentation says "first start". After a
  torn flush rows may be stored with no cursor, and the tail is taken again:
  `torn > 0` there, from the first torn flush on.
* A power loss takes back every transaction since the last checkpoint:
  `PowerLoss` chooses any image of `disk`.
* Without python3-systemd the import that is guarded is not the one that fails;
  the thread retries for ever; `AlertsStored` assumes nothing of it.
* The window of restart loops is measured by the wall clock (`Skew` in
  `LoopSound` and `LoopComplete`), and a manual start, which resets `NRestarts`,
  hides restarts (`since` in `LoopComplete`). A restart is stamped by the poll
  that counts it, so a unit that polls missed for a while is reported with all
  that happened meanwhile, whatever the window is (`sampled` in `LoopSound`).
* A recovery resolves what is committed; an older journal entry flushed later
  opens the incident again: `stored[i].pos > 0` in `RecoveryResolves`.
* Incidents do not always "auto-resolve when the service becomes healthy again".
  Only a monitor that has sampled the unit as failed and then as active reports
  its recovery: if the unit comes up while the daemon is restarted, or is sampled
  as `activating` on its way, the incident stays open. `RecoveryResolves` speaks
  of reported recoveries only.
* A crash loop is two incidents, not one: "Failed with result" gives no code, so
  a death by an exit code or a signal is an incident of that code and a second
  one, `crash`; one by the OOM killer is `crash:signal=9` and `oom`.
  `GroupsAsTold` compares what is told, and `DeathIsAtMostTwo` is what holds of a
  death.
* One page is freed per slice deleted, while the size loop waits for
  `page_count` to come under the cap: slice after slice goes of events that
  would fit. `RecentKept` holds until the file has once been over the cap.
* `first_seen` is the event stored first, not the earliest:
  `IncidentsSummarise`.
* The file may stay over the cap once every event is gone: `CapOrEmpty`. Each
  restart puts maintenance off by an interval, as does a `prune` that raises, which
  `_maybe_maintain` logs after it has set `_last_maint`; and incidents of errors
  are never pruned: `Missing` and `Signatures` in `Allowance`.
* Rows that arrive late are not shown to a follower: `Ordered` in
  `OrderedRowsShown`.
* A service whose name contains `oom-kill` has every message of systemd about
  it, and every recovery, classified as an OOM kill; and with `error_priority`
  from 5 on every recovery is an error incident, although `_recovery_marker`
  says "it won't create an incident": `OomNamed` and `ErrorPriority < 5` in
  `GroupsAsTold`. Numbers that tell two errors apart do not: `Templates` have
  none but those a service fills in.
* A comment in the list with a bracket that does not match makes `scan` take
  the wrong end of the list, where the README says that every other setting and
  comment "is preserved exactly": `Balanced` in `ScanKeepsTheRest`. Comments
  within the list go in any case.
* Without a file `scan` applies the excludes of `Config`, which are none, and
  not those of the template it then writes; they keep the daemon from watching
  what the list names: `WatchesWhatWasFound` compares after the excludes.
* A scan that dies before it has written the list leaves a file without one, and
  then the daemon watches everything; what the user saves while a scan is
  between reading and writing is lost: `{}` in `NoPartOfAList`, and `text`, not
  `file`, in `ScanKeepsTheRest`.
* The watchdog is answered at the end of a round and at most once per half of
  its timeout, so a round may not take the whole timeout but only the other
  half: `KilledOnlyWhenSlow`. A signal that meets the handler of another may
  deadlock the main thread until SIGKILL: `"stuck"` in `StopKillOnlyWhenSlow`.

## 5. What is proved

Each theorem holds for every value of the constants: for any number of units,
entries, disturbances, polls, restarts and commands, any batch and queue size,
any text and any timeout. `PROJECT.json` lists them; every invariant and action
property of a passing run is stated by one. They rest on the assumptions named
in the modules of the models, no more than the code has or the model's bounds
give: units, services, patterns and signatures are finitely many
(`UnitsAssumption`, `GlobAssumption`, `RetentionAssumption`), a batch has room
for an event (`BatchAssumption`, `HealthAssumption`), timeouts and intervals are
positive, and the clock takes finitely many offsets (`ClockAssumption`), one only in
`Health` (the theorems about loops are of `UnitMonitor`'s specification and use
no assumption of `Health`). `Classify` assumes that "no unit" is no unit and that two templates of
errors differ within the length of a signature, as two that do not are one
problem to the program (`TextAssumption`); `ConfigFile`, that a pattern is not
spelled like the other pieces of a text (`PieceAssumption`). TLC evaluates all of
them in the runs.

### Collection (`CollectorProofs`)

**Types.** `TypeCorrect`: `Spec => []TypeOK`, one lemma per group of actions,
one step per action.

**The cursor.** `CursorSafe`: in the database as it is and in every image a
power loss may leave, every watched entry up to the persisted cursor is stored
or was passed over by a start from the tail or because the reader could not see
it (`CursorCovered`). This says nothing of memory, so no step that writes the
cursor preserves it by itself. The inductive `CursorInv` follows an entry on its
way: an entry up to the pending cursor is in the rows or in the buffer; an entry
before the p-th of the queue is there or ahead of it in the queue; an entry up
to the reader's position is there, anywhere in the queue, or in its hand; after
the first transaction of a flush the buffer is in the rows; an open
transaction's cursor is covered by committed rows. `WithinJournal` keeps cursors
from naming entries not yet written, since a new entry below a cursor would
break all of it. `EntriesOnTheirWay` states `CursorInv` as a theorem of its own.

**The order.** `StoredInOrder` (`InOrderOnce`), `StopsExactly`, `CursorForward`,
`TailOnlyAtFirst`. The positions of the pipeline are ordered: rows, persisted
cursor, pending cursor, each entry of the queue after the one before it, the
thread's cursor, the reader's hand. A torn flush breaks only what this says of
the rows, and a start from the tail only what is between.

**The refinement.** `Implements`: `Spec => Delivers`, every step of the
collector is a step of `Delivery` or hidden from it. `WriteBatch` is `Store`,
`MarkCursor` is `Advance`, a kill or a failed second transaction is `Forget`, a
power loss is `PowerLoss`, opening, seeking and reading past what is not watched
or not seen is `Pass`, a new entry is `Write`, the rest is hidden. To be stored
without a gap the batch must hold, in order, every watched entry between the
persisted and the pending cursor; the invariant `Sound` follows these back to
the reader's hand. What a failed flush left in the open transaction is a
beginning of the batch that is stored again, and every image of the disk has a
beginning of the rows: without these two the retry in the finally clause, and a
power loss, have no step of `Delivery` to be.

**The bounds.** `StoredBoundedly` (`CopiesBounded`): an entry beyond what this
run has stored is in the rows, counting what an open transaction would add, at
most as often as flushes were torn, so that the flush which stores it now is the
one more that is allowed. `LossBounded` (`LossWindowBounded`): what the reader
has taken is in the rows, passed over, in the buffer, the queue or its hand, and
buffer and queue keep their sizes: the buffer is full only on its way to a
flush, or at the end. `Unreported` says the rest: a poll finds the buffer short
of a batch, and what it returned and has not submitted shrinks by one with each
event that the buffer grows by.

### The unit monitor (`StatusProofs`)

`MonitorTypes`; `FailuresOnce`, `RecoveriesOfFailures`: a unit last sampled as
failed has one failure more reported than recoveries; a unit that is failed and
was not sampled so since has one failure, or one start of the daemon, that is
not yet reported.

`LoopsAreReal` (`LoopSound`) and `LoopsAreFound` (`LoopComplete`) need a bound
each way between the deque of stamps and the restarts. `Genuine`: the stamps
from any place of the deque on, together with the restarts the next sample will
count, are no more than the restarts since that stamp, less the longest gap and
what the clock was set by. Quantifying over places, and not over moments, is
what survives a poll that drops the beginning of the deque. `Kept`: while the
count of systemd is unbroken, the restarts from any moment of the window on are
no more than the stamps from it on and those not counted yet. A single bound at
the window's edge is not inductive, as the edge moves with the clock.

`LoopsAnnouncedOnce` (`LoopAnnouncedOnce`) speaks of what happened to the unit,
the code of its flag. They meet in `FlagIsTrue`: the flag is down only when a
sample since the last report was quiet, because by `Kept` a sample that takes it
down has missed no restart.

### Incidents and status (`StatusProofs`)

**Incidents are a summary.** `IncidentsAreSummary` (`IncidentsSummarise`): the
table is kept up to date batch by batch, with a fold over the batch, and is the
summary of all rows: as many, first and last as they say, open if there is one
after the resolution. `Counted` says so of every unit and kind, of any rows and
any table, so that it may be used of the transaction's tables in between; the
fold is followed event by event.

**Failures and recoveries.** `FailuresAreShown` (`FailureShown`),
`RecoveriesResolve` (`RecoveryResolves`) and their invariant `Followed`: a
unit last seen failed has its incident open, or the report of it is still in
`todo` or in the buffer, where no recovery of the same poll comes after it; once
a recovery is handled, rows after the resolution are of the journal or of the
same poll; and what is in the buffer and not of the journal is of the last poll,
which is not over.

**The command.** `StatusShown` (`StatusFresh`): the upserts of a poll and the
pruning after it leave exactly what was seen, because while `_watched` is set no
row of `service_status` lies outside it and the poll under way.
`NoBadRowIsGood` (`NoBadPassesForGood`): a unit read as not failed had, at some
moment since the command began, this status together with a last crash that is
not newer than the one read afterwards; the last crash never gets older, as rows
are only added. `StatusTypes` is the type invariant of all three modules.

### Retention (`RetentionProofs`)

`RetentionTypes`, `FootprintIsBounded` (`FootprintBounded`), `MaintenanceCaps`
(`CapOrEmpty`), `RecentEventsKept`. The file grows only to hold what is live,
and the events that are live are those the last complete maintenance left and
those inserted since (`EventsBounded`). The age of that maintenance, which is
never late (`OnTime`) but for the intervals lost to restarts and failures,
bounds the latter. A failed `prune` that had begun may leave events deleted, and
never more than there were (`PutOffKeeps`, `FailLaterInv`).
`Marked` says that neither process deletes for the cap, whatever the other does
meanwhile, unless the file has been over it.

### Following (`FollowProofs`)

`PrintedInOrder` (`PrintedOnceInOrder`): what is printed is older than the
timestamp asked from, and an answer is in order, as the rank of a row among
those that match is unique and, by the pigeonhole principle, every rank is
taken. `AllShownInOrder`: as long as rows arrive in order, no row from the start on
is passed over. A row that matches and is not in the answer is not before the
last one there, and one that is committed later is not before what is asked
for, which is the start or just past a row. This is the safety half of
`OrderedRowsShown`.

### Classification (`ClassifyProofs`)

`ProblemsAreGrouped` (`GroupsAsTold`): the incident a report makes is a function
of what it tells, whichever source tells it, and one-to-one, and messages that
report nothing make none. That a signature finds its template again, for any
text, is the heart of it: taking out the numbers that were filled in gives the
template back, word by word, and templates differ within the width of a
signature. A death is not one problem, as its reports do not tell the same.
`DeathsMakeTwo` (`DeathIsAtMostTwo`): with the OOM killer the result and the
monitor agree; with a code the monitor and "Main process exited" do; after a
timeout there is no such line.

### The watchdog (`WatchdogProofs`)

`TypeCorrect`. `SparesTheQuick` (`KilledOnlyWhenSlow`): systemd heard of the
daemon at most `Interval` before this round began, whatever the notifier's own
rate limit suppressed. `StopsInTwoRounds` (`StopKillOnlyWhenSlow`): a stop under
way is at most as old as this round and the one before it, after which only the
end is left.

### Configuration (`ConfigProofs`)

`ConfigTypes`. `NeverPartOfAList` (`NoPartOfAList`), `ScansWatchWhatTheyFound`
(`WatchesWhatWasFound`): a text that a scan writes has one list, its own, and no
other before it, so a reader that gets through any beginning of it without an
error, and is not in the middle of a list, has either no list or all of it
(`ConfigInv`).

`RestIsKept` (`ScanKeepsTheRest`) compares two readers of one text, the parser
and the scan, which only counts brackets. Up to the list they read the same. The
scan's end of the list is the parser's, as a place with the depth of the list
comes first where the parser closes it when remarks balance. After it the
readers of the old text and of the new one are `Alike`: they differ in what is
watched and in nothing else, at every piece that follows.

### How data is reasoned about

The induction theorems of the library take an operator as a parameter and no
installed prover can instantiate them. `FiniteFacts` goes by way of the smallest
counterexample: strict inclusion on finite sets is well-founded, a fact without
such a parameter, so a set of counterexamples has a smallest one
(`SmallestSubset`, `IntervalInduction`, `SubsetInduction`). From it follow that
a recursion over the subsets of a finite set has one solution
(`SolutionExists`, `SolutionsAgree`), that the community modules' fold is that
solution for sums, and the arithmetic of sums (`SumTakeOut`, `SumMonotone`,
`SumChange`, `SumUnion`).

## 6. What is only model-checked

Liveness, which is beyond the prover: `Delivered` and `AlertsStored` of
`Collector`, `PruneEnds` of `Retention`, `OrderedRowsShown` of `Follow`,
`HangEnds` and `SignalEnds` of `Watchdog`. They need what weak fairness means for
`ENABLED` of whole actions. So are the two violations of section 4, where a
counterexample is the result.

## 7. What is not modelled

* The texts of systemctl and journald: parsing is a total function of a line,
  and so is the conversion of signal names and of exit states.
* `discover_services`, which is one call of systemctl and a sort.
* In `Classify`, the normalisation of hexadecimal numbers and of white space.
* In `ConfigFile`, tables, unusual spellings of a key, numbers in range and the
  lookup of the file's path.
* `crashes`, `incidents`, `stats` and `logs` without `--follow`: single SELECTs
  that change no state, and formatting.
* The mock source and the demo, which submit a fixed list; packaging.
* How long a step takes: `Watchdog` lets each take any time, `Retention` bounds
  the time between rounds.
* Deletion by retention while `status` or `logs --follow` reads.

## 8. The plan

Done: all the modules of section 2; the refinement of `Delivery`, checked and
proved; a theorem for every invariant and every action property of a passing
run; the safety half of `OrderedRowsShown`.

Next, in this order:

1. What the liveness of the others rests on, as far as it is safety: that every
   round of the size loop of `prune` leaves fewer events, and that an entry
   taken by the reader only moves towards the rows.
2. Retention beside `Status` and `Follow`: deletion between two SELECTs.
3. The invariants as refinements: a log of reports that `Health` implements, as
   `Collector` does `Delivery`.

No module declares a RECURSIVE operator.
