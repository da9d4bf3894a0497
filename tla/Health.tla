------------------------------- MODULE Health -------------------------------
(***************************************************************************)
(* What the daemon makes of the events it collects: the rows of events,    *)
(* incidents and service_status.  It composes the unit monitor with the    *)
(* main thread, which handles a poll, drains journal events into the same  *)
(* buffer, and flushes it; incidents are opened and counted by the flush   *)
(* and resolved, ahead of it, when the monitor reports a recovery.         *)
(*                                                                         *)
(* The reader thread and the queue, here the step from entries to taken,   *)
(* and the failures of SQLite are the module Collector's.                  *)
(***************************************************************************)
EXTENDS UnitMonitor, SequencesExt

CONSTANTS
    BatchSize,   \* Config.batch_size
    LoggedKinds, \* the problems units log to the journal
    MaxEntries   \* bound: problems ever logged

ASSUME HealthAssumption ==
    /\ BatchSize \in Nat \ {0}
    /\ LoggedKinds \subseteq {"crash", "error"}
    /\ MaxEntries \in Nat
    /\ Cardinality(Offsets) = 1  \* the clock is set in UnitMonitor's runs only

VARIABLES
    entries,    \* the journal: what units logged of their problems
    taken,      \* the last entry the main thread has taken
    saved,      \* committed meta.journal_cursor
    pc,         \* where the main thread is
    back,       \* where it continues after a flush
    toUpsert,   \* units of this poll whose status is not yet written
    todo,       \* for each unit of this poll, its events not yet handled
    buffer,     \* Pipeline._buffer
    cache,      \* Daemon._watched; {} stands for None, which it never leaves
                \* for the empty set
    stored,     \* rows of events, in order of insertion
    incidents,  \* rows of incidents; count 0 is no row
    status,     \* rows of service_status
    resolvedAt  \* history: rows of events when u was last resolved

store == <<stored, incidents, status, saved>>
thread == <<taken, pc, back, toUpsert, todo, buffer, cache>>
healthVars == <<vars, entries, thread, store, resolvedAt>>

ResolveKinds == {"crash", "loop"}
Kinds == ResolveKinds \cup {"error"}
NoIncident == [count |-> 0, first |-> 0, last |-> 0, open |-> FALSE]

\* A failure the monitor sees has the kind and, by its exit status, the
\* signature of the crash systemd logs: crash stands for any one such pair.
EventOf(u, what) ==
    [unit |-> u, kind |-> IF what = "failure" THEN "crash" ELSE what,
     ts |-> lastPoll + offset, pos |-> 0]

HealthTypeOK ==
    /\ TypeOK
    /\ taken \in 0..Len(entries) /\ saved \in 0..Len(entries)
    /\ pc \in {"idle", "status", "prune", "events", "write", "mark"}
    /\ back \in {"idle", "events"}
    /\ toUpsert \subseteq DOMAIN report
    /\ DOMAIN todo \subseteq DOMAIN report
    /\ \A u \in DOMAIN todo : IsSuffix(todo[u], report[u])
    /\ \A e \in Range(entries) \cup Range(buffer) \cup Range(stored) :
          /\ e.unit \in Units /\ e.kind \in Kinds \cup {"recovery"}
          /\ e.ts \in Nat /\ e.pos \in 0..Len(entries)
    /\ cache \subseteq Units
    /\ incidents \in [Units \X Kinds -> [count : Nat, first : Nat,
                                         last : Nat, open : BOOLEAN]]
    /\ DOMAIN status \subseteq Units
    /\ \A u \in DOMAIN status : status[u] \in States
    /\ resolvedAt \in [Units -> 0..Len(stored)]

HealthInit ==
    /\ Init
    /\ entries = <<>> /\ taken = 0 /\ saved = 0
    /\ pc = "idle" /\ back = "idle"
    /\ toUpsert = {} /\ todo = <<>> /\ buffer = <<>> /\ cache = {}
    /\ stored = <<>>
    /\ incidents = [key \in Units \X Kinds |-> NoIncident]
    /\ status = <<>>
    /\ resolvedAt = [u \in Units |-> 0]

----------------------------------------------------------------------------
(* The world. *)

HealthWorldStep ==
    /\ WorldStep
    /\ UNCHANGED <<entries, thread, store, resolvedAt>>

\* A unit, or systemd about it, logs a problem.
LogProblem(u) ==
    /\ Len(entries) < MaxEntries
    /\ \E k \in LoggedKinds :
          entries' = Append(entries, [unit |-> u, kind |-> k, ts |-> Wall,
                                      pos |-> Len(entries) + 1])
    /\ UNCHANGED <<vars, thread, store, resolvedAt>>

----------------------------------------------------------------------------
(* The main thread. *)

\* Pipeline.submit of an event of a watched unit, continuing at p.
Submit(e, p) ==
    /\ buffer' = Append(buffer, e)
    /\ back' = p
    /\ pc' = IF Len(buffer) + 1 >= BatchSize THEN "write" ELSE p

\* _drain_queue, one event.
DrainEvent ==
    /\ pc = "idle"
    /\ taken < Len(entries)
    /\ taken' = taken + 1
    /\ Submit(entries[taken + 1], "idle")
    /\ UNCHANGED <<vars, entries, toUpsert, todo, cache, store, resolvedAt>>

\* _maybe_poll_units up to the statuses and events poll returns.
StartPoll(seen) ==
    /\ pc = "idle"
    /\ Poll(seen)
    /\ toUpsert' = seen
    /\ todo' = report'
    /\ pc' = "status"
    /\ UNCHANGED <<entries, taken, back, buffer, cache, store, resolvedAt>>

\* db.upsert_service_status, a transaction of its own.
UpsertStatus(u) ==
    /\ pc = "status"
    /\ u \in toUpsert
    /\ toUpsert' = toUpsert \ {u}
    /\ status' = [v \in DOMAIN status \cup {u} |->
                    IF v = u THEN prev[u].state ELSE status[v]]
    /\ UNCHANGED <<vars, entries, taken, pc, back, todo, buffer, cache,
                   stored, incidents, saved, resolvedAt>>

\* Wrong variant of WatchedChanged: only a unit more counts.
WatchedGrew == ~(DOMAIN report \subseteq cache)

WatchedChanged == DOMAIN report # {} /\ DOMAIN report # cache

\* prune_service_status when the set of units seen is new, and not empty.
PruneStatus ==
    /\ pc = "status"
    /\ toUpsert = {}
    /\ pc' = "events"
    /\ \/ /\ WatchedChanged
          /\ status' = Restrict(status, DOMAIN report)
          /\ cache' = DOMAIN report
       \/ /\ ~WatchedChanged
          /\ UNCHANGED <<status, cache>>
    /\ UNCHANGED <<vars, entries, taken, back, toUpsert, todo, buffer,
                   stored, incidents, saved, resolvedAt>>

\* db.resolve_incidents_for_unit.
Resolve(u) ==
    /\ incidents' = [key \in DOMAIN incidents |->
                       IF key[1] = u /\ key[2] \in ResolveKinds
                       THEN [incidents[key] EXCEPT !.open = FALSE]
                       ELSE incidents[key]]
    /\ resolvedAt' = [resolvedAt EXCEPT ![u] = Len(stored)]

\* One event of the poll: a recovery resolves, at once, what is committed;
\* then the event is submitted.
HandleEvent(u) ==
    /\ pc = "events"
    /\ u \in DOMAIN todo /\ todo[u] # <<>>
    /\ \A v \in DOMAIN todo \ {u} : todo[v] \in {<<>>, report[v]}
    /\ todo' = [todo EXCEPT ![u] = Tail(@)]
    /\ \/ Head(todo[u]) = "recovery" /\ Resolve(u)
       \/ Head(todo[u]) # "recovery" /\ UNCHANGED <<incidents, resolvedAt>>
    /\ Submit(EventOf(u, Head(todo[u])), "events")
    /\ UNCHANGED <<vars, entries, taken, toUpsert, cache, stored, status,
                   saved>>

\* Wrong variant of FlushAfterPoll: the flush is left to the timer.
NoFlushAfterPoll == FALSE

FlushAfterPoll == \E u \in DOMAIN report : report[u] # <<>>

\* if events: self.pipeline.flush()
EndPoll ==
    /\ pc = "events"
    /\ \A u \in DOMAIN todo : todo[u] = <<>>
    /\ todo' = <<>>
    /\ back' = "idle"
    /\ pc' = IF FlushAfterPoll /\ buffer # <<>> THEN "write" ELSE "idle"
    /\ UNCHANGED <<vars, entries, taken, toUpsert, buffer, cache, store,
                   resolvedAt>>

\* maybe_flush, or the flush of an orderly stop.
TimerFlush ==
    /\ pc = "idle"
    /\ buffer # <<>>
    /\ pc' = "write" /\ back' = "idle"
    /\ UNCHANGED <<vars, entries, taken, toUpsert, todo, buffer, cache, store,
                   resolvedAt>>

\* Wrong variant of UpsertIncident: a resolved incident is not opened again.
UpsertStaysResolved(incs, e) ==
    LET key == <<e.unit, e.kind>>
        old == incs[key]
        new == [count |-> old.count + 1,
                first |-> IF old.count = 0 THEN e.ts ELSE old.first,
                last |-> Max({e.ts, old.last}),
                open |-> old.count = 0 \/ old.open]
    IN  IF e.kind \in Kinds THEN [incs EXCEPT ![key] = new] ELSE incs

\* Database._upsert_incident, for a problem.
UpsertIncident(incs, e) ==
    LET key == <<e.unit, e.kind>>
        old == incs[key]
        new == [count |-> old.count + 1,
                first |-> IF old.count = 0 THEN e.ts ELSE old.first,
                last |-> IF old.count = 0 \/ e.ts > old.last THEN e.ts
                         ELSE old.last,
                open |-> TRUE]
    IN  IF e.kind \in Kinds THEN [incs EXCEPT ![key] = new] ELSE incs

\* write_batch: the events and their incidents in one transaction.
WriteBatch ==
    /\ pc = "write"
    /\ stored' = stored \o buffer
    /\ incidents' = FoldLeft(UpsertIncident, incidents, buffer)
    /\ pc' = "mark"
    /\ UNCHANGED <<vars, entries, taken, back, toUpsert, todo, buffer, cache,
                   status, saved, resolvedAt>>

\* The cursor of the last journal event of the batch, in the next.
MarkCursor ==
    /\ pc = "mark"
    /\ LET marks == {e.pos : e \in Range(buffer)} \ {0}
       IN  saved' = IF marks = {} THEN saved ELSE Max(marks)
    /\ buffer' = <<>>
    /\ pc' = back
    /\ UNCHANGED <<vars, entries, taken, back, toUpsert, todo, cache, stored,
                   incidents, status, resolvedAt>>

ResumePoint == IF saved = 0 THEN Len(entries) ELSE saved

\* The daemon dies and is started again.
Restart ==
    /\ NewSession
    /\ taken' = ResumePoint
    /\ pc' = "idle" /\ back' = "idle"
    /\ toUpsert' = {} /\ todo' = <<>> /\ buffer' = <<>> /\ cache' = {}
    /\ UNCHANGED <<entries, store, resolvedAt>>

HealthNext ==
    \/ HealthWorldStep
    \/ \E u \in Units :
          LogProblem(u) \/ UpsertStatus(u) \/ HandleEvent(u)
    \/ \E seen \in Sightings : StartPoll(seen)
    \/ DrainEvent \/ PruneStatus \/ EndPoll \/ TimerFlush
    \/ WriteBatch \/ MarkCursor \/ Restart

HealthSpec == HealthInit /\ [][HealthNext]_healthVars

----------------------------------------------------------------------------
(* What the commands read of a crash. *)

NoCrash == [none |-> TRUE]

Crashes(u) == {i \in DOMAIN stored : /\ stored[i].unit = u
                                     /\ stored[i].kind = "crash"}

\* unit_last_crash: the one with the latest timestamp.
LastCrash(u) ==
    IF Crashes(u) = {} THEN NoCrash
    ELSE stored[CHOOSE i \in Crashes(u) :
                   \A j \in Crashes(u) : stored[j].ts <= stored[i].ts]

----------------------------------------------------------------------------
(* Properties. *)

Open(u, k) == incidents[u, k].open
Rows(u, k) == {i \in DOMAIN stored : stored[i].unit = u /\ stored[i].kind = k}

\* The incidents, kept up to date batch by batch across resolutions, crashes
\* and replays, are the summary of the events table: as many as there are
\* rows, first seen with the one stored first, last seen with the latest, open
\* if one was stored after the resolution.
IncidentsSummarise ==
    \A u \in Units, k \in Kinds :
        LET inc == incidents[u, k]
            rows == Rows(u, k)
        IN  /\ inc.count = Cardinality(rows)
            /\ rows # {} => inc.first = stored[Min(rows)].ts
            /\ rows # {} => inc.last = Max({stored[i].ts : i \in rows})
            /\ inc.open <=> \E i \in rows :
                               k \in ResolveKinds => i > resolvedAt[u]

\* Whenever the main thread is between two steps of its loop, a unit last
\* seen failed in this session has an open incident.
FailureShown ==
    pc = "idle" =>
        \A u \in Units : prev[u].state = "failed" => Open(u, "crash")

\* Once a poll that reports a recovery has been handled, what is open of the
\* unit was opened by the journal or by this same poll.
RecoveryResolves ==
    pc = "idle" =>
        \A u \in DOMAIN report, k \in ResolveKinds :
            "recovery" \in Range(report[u]) /\ Open(u, k) =>
                \E i \in Rows(u, k) :
                    /\ i > resolvedAt[u]
                    /\ stored[i].pos > 0 \/ k \in Range(report[u])

\* service_status shows exactly the units of the last poll that found any,
\* each in the state it was found in.
StatusFresh ==
    pc = "idle" /\ DOMAIN report # {} =>
        status = [u \in DOMAIN report |-> prev[u].state]

============================================================================
