----------------------------- MODULE Retention -----------------------------
(***************************************************************************)
(* Retention: the size of the database file under the daemon's inserts,    *)
(* Database.prune (by age, then by size) and VACUUM.  prune is several     *)
(* transactions, run by the daemon's maintenance and by `hblog prune`,     *)
(* which is another process: the two may run at the same time.             *)
(*                                                                         *)
(* Sizes are in pages, a row of events or incidents taking one, whatever   *)
(* else the file holds left out.  The file keeps the pages of deleted rows *)
(* until a vacuum gives them back; conn.execute steps the statement        *)
(* PRAGMA incremental_vacuum once, and a step frees one page.              *)
(***************************************************************************)
EXTENDS Naturals, FiniteSets, FiniteSetsExt

CONSTANTS
    Retain,          \* retention_days
    RetainIncidents, \* incident_retention_days
    Cap,             \* max_db_mb
    Slice,           \* events deleted at a time: LIMIT 1000
    Interval,        \* maintenance_interval_sec
    Rate,            \* bound: events inserted in a unit of time
    Signatures,      \* problems an event may be of: keys of incidents
    Resolvable,      \* those whose kind is in _RESOLVE_KINDS
    MaxTime,         \* bound: the clock
    MaxRestarts,     \* bound: restarts of the daemon
    MaxCommands,     \* bound: prune and vacuum commands
    MaxFailures      \* bound: prunes that fail

ASSUME RetentionAssumption ==
    /\ Retain \in Nat /\ RetainIncidents \in Nat
    /\ Cap \in Nat /\ Slice \in Nat \ {0} /\ Interval \in Nat \ {0}
    /\ Rate \in Nat /\ MaxTime \in Nat
    /\ MaxRestarts \in Nat /\ MaxCommands \in Nat /\ MaxFailures \in Nat
    /\ Resolvable \subseteq Signatures /\ IsFiniteSet(Signatures)

VARIABLES
    now,        \* the clock
    inserted,   \* events inserted at this time
    events,     \* rows of events: how many of each timestamp
    incidents,  \* rows of incidents
    file,       \* PRAGMA page_count
    lastMaint,  \* Daemon._last_maint
    pc,         \* where each of the two processes is in prune
    restarts,   \* history: restarts of the daemon
    commands,   \* history: commands run
    failures,   \* history: prunes that failed
    overflowed  \* history: the file has been over the cap

counters == <<restarts, commands, failures>>
vars == <<now, inserted, events, incidents, file, lastMaint, pc, counters,
          overflowed>>

Times == 0..MaxTime
Processes == {"daemon", "cli"}
NoRow == [last |-> 0, status |-> "none"]

EventRows(ev) == MapThenSumSet(LAMBDA t : ev[t], Times)
IncidentRows(inc) == Cardinality({s \in Signatures : inc[s].status # "none"})
Live(ev, inc) == EventRows(ev) + IncidentRows(inc)

TypeOK ==
    /\ now \in Times /\ lastMaint \in 0..now
    /\ inserted \in 0..Rate
    /\ events \in [Times -> Nat]
    /\ incidents \in [Signatures ->
                        [last : Times, status : {"none", "open", "resolved"}]]
    /\ \A s \in Signatures :
          incidents[s].status = "resolved" => s \in Resolvable
    /\ file \in Nat
    /\ file >= Live(events, incidents)
    /\ pc \in [Processes -> {"idle", "size", "delete", "vacuum", "final"}]
    /\ overflowed \in BOOLEAN
    /\ restarts \in 0..MaxRestarts /\ commands \in 0..MaxCommands
    /\ failures \in 0..MaxFailures

Init ==
    /\ now = 0 /\ inserted = 0
    /\ events = [t \in Times |-> 0]
    /\ incidents = [s \in Signatures |-> NoRow]
    /\ file = 0 /\ lastMaint = 0
    /\ pc = [p \in Processes |-> "idle"]
    /\ restarts = 0 /\ commands = 0 /\ failures = 0
    /\ overflowed = FALSE

----------------------------------------------------------------------------
(* The daemon outside maintenance. *)

MaintenanceDue == now - lastMaint >= Interval

\* New rows take free pages first.
Fill(ev, inc) ==
    /\ events' = ev
    /\ incidents' = inc
    /\ file' = Max({file, Live(ev, inc)})
    /\ overflowed' = (overflowed \/ file' > Cap)

\* An event is stored, with its incident if it is a problem.  Events of the
\* journal may be older than the moment they are stored at.
Insert ==
    /\ pc["daemon"] = "idle"
    /\ inserted < Rate
    /\ inserted' = inserted + 1
    /\ \E t \in {now, Max({now, 1}) - 1} :
          LET ev == [events EXCEPT ![t] = @ + 1]
          IN  \/ Fill(ev, incidents)
              \/ \E s \in Signatures :
                    Fill(ev, [incidents EXCEPT
                                ![s] = [last |-> Max({t, @.last}),
                                        status |-> "open"]])
    /\ UNCHANGED <<now, lastMaint, pc, counters>>

\* resolve_incidents_for_unit.
Resolve ==
    /\ pc["daemon"] = "idle"
    /\ \E s \in Resolvable :
          /\ incidents[s].status = "open"
          /\ incidents' = [incidents EXCEPT ![s].status = "resolved"]
    /\ UNCHANGED <<now, inserted, events, file, lastMaint, pc, counters,
                   overflowed>>

\* Time passes; the daemon's loop does not miss its maintenance.
Tick ==
    /\ now < MaxTime
    /\ ~MaintenanceDue /\ pc["daemon"] = "idle"
    /\ now' = now + 1
    /\ inserted' = 0
    /\ UNCHANGED <<events, incidents, file, lastMaint, pc, counters,
                   overflowed>>

\* The daemon dies and is started again, which sets _last_maint.
Restart ==
    /\ restarts < MaxRestarts
    /\ restarts' = restarts + 1
    /\ pc' = [pc EXCEPT !["daemon"] = "idle"]
    /\ lastMaint' = now
    /\ UNCHANGED <<now, inserted, events, incidents, file, commands, failures,
                   overflowed>>

----------------------------------------------------------------------------
(* prune. *)

\* _maybe_maintain, when the interval is over.
StartMaintenance ==
    /\ pc["daemon"] = "idle"
    /\ MaintenanceDue
    /\ lastMaint' = now
    /\ UNCHANGED <<restarts, commands>>

\* hblog prune.
StartCommand ==
    /\ pc["cli"] = "idle"
    /\ commands < MaxCommands
    /\ commands' = commands + 1
    /\ UNCHANGED <<lastMaint, restarts>>

\* Wrong variant of Expired: at the retention's age, not past it.
ExpiresEarly(t) == t + Retain <= now

Expired(t) == t + Retain < now

Unexpired == [t \in Times |-> IF Expired(t) THEN 0 ELSE events[t]]

\* The first transaction: events by age, and incidents by age if resolved.
PruneByAge(p) ==
    /\ \/ p = "daemon" /\ StartMaintenance
       \/ p = "cli" /\ StartCommand
    /\ events' = Unexpired
    /\ incidents' = [s \in Signatures |->
                       IF /\ incidents[s].status = "resolved"
                          /\ incidents[s].last + RetainIncidents < now
                       THEN NoRow ELSE incidents[s]]
    /\ pc' = [pc EXCEPT ![p] = "size"]
    /\ UNCHANGED <<now, inserted, file, failures, overflowed>>

Go(p, from, to) ==
    /\ pc[p] = from
    /\ pc' = [pc EXCEPT ![p] = to]
    /\ UNCHANGED <<now, inserted, incidents, lastMaint, counters, overflowed>>

\* What is left of the events when the n oldest are deleted.
WithoutOldest(n) ==
    [t \in Times |->
        LET older == MapThenSumSet(LAMBDA s : events[s], {s \in Times : s < t})
            gone == IF older >= n THEN 0 ELSE n - older
        IN  IF events[t] <= gone THEN 0 ELSE events[t] - gone]

\* Wrong variant of UnderCap: the cap in the wrong unit.
UnderCapInKilobytes == file <= 1024 * Cap

UnderCap == file <= Cap

\* The file is over the cap, when it is looked at.
SeeOverCap(p) ==
    /\ Go(p, "size", "delete")
    /\ ~UnderCap
    /\ UNCHANGED <<file, events>>

\* Wrong variant of NothingLeft: the loop goes on without an event.
NeverNothing == FALSE

NothingLeft == EventRows(events) = 0

\* Then the oldest slice of events goes; with none left, the loop ends.
DeleteSlice(p) ==
    /\ \/ NothingLeft /\ Go(p, "delete", "final")
       \/ ~NothingLeft /\ Go(p, "delete", "vacuum")
    /\ events' = WithoutOldest(Slice)
    /\ UNCHANGED file

\* Wrong variant of FreePage: a page is freed that is not free.
FreeAnyPage ==
    /\ file' = IF file > 0 THEN file - 1 ELSE file
    /\ UNCHANGED events

\* PRAGMA incremental_vacuum, of one page.
FreePage ==
    /\ file' = IF file > Live(events, incidents) THEN file - 1 ELSE file
    /\ UNCHANGED events

\* Wrong variant of VacuumPage: an if in place of the while.
VacuumOnce(p) == Go(p, "vacuum", "final") /\ FreePage

VacuumPage(p) == Go(p, "vacuum", "size") /\ FreePage

EndSize(p) ==
    /\ Go(p, "size", "final")
    /\ UnderCap
    /\ UNCHANGED <<file, events>>

EndPrune(p) == Go(p, "final", "idle") /\ FreePage

\* hblog vacuum.
Vacuum ==
    /\ commands < MaxCommands
    /\ commands' = commands + 1
    /\ file' = Live(events, incidents)
    /\ UNCHANGED <<now, inserted, events, incidents, lastMaint, pc, restarts,
                   failures, overflowed>>

\* A statement of prune raises: the lock of the other process is not given up in
\* time, the disk is full.
Raises ==
    /\ failures < MaxFailures
    /\ failures' = failures + 1
    /\ UNCHANGED <<now, inserted, incidents, file, restarts, commands,
                   overflowed>>

\* The first transaction of maintenance fails; _maybe_maintain catches it, with
\* _last_maint set.  What was deleted goes with the next transaction that is
\* committed, or does not.
FailToStart ==
    /\ pc["daemon"] = "idle"
    /\ MaintenanceDue
    /\ lastMaint' = now
    /\ Raises
    /\ events' \in {events, Unexpired}
    /\ UNCHANGED pc

\* A later one fails, with the daemon's maintenance or the whole command.
FailLater(p) ==
    /\ pc[p] # "idle"
    /\ Raises
    /\ pc' = [pc EXCEPT ![p] = "idle"]
    /\ \/ UNCHANGED events
       \/ /\ p = "daemon" /\ pc[p] = "delete"
          /\ events' = WithoutOldest(Slice)
    /\ UNCHANGED lastMaint

----------------------------------------------------------------------------
Prune(p) ==
    \/ PruneByAge(p)
    \/ SeeOverCap(p) \/ DeleteSlice(p) \/ VacuumPage(p) \/ EndSize(p)
    \/ EndPrune(p)

Next ==
    \/ Insert \/ Resolve \/ Tick \/ Restart \/ Vacuum
    \/ FailToStart
    \/ \E p \in Processes : Prune(p) \/ FailLater(p)

Spec == Init /\ [][Next]_vars

\* Nothing interrupts the two processes for ever, and time passes.
FairSpec == Spec /\ WF_vars(Tick) /\ \A p \in Processes : WF_vars(Prune(p))

----------------------------------------------------------------------------
(* Properties. *)

\* Maintenance that did not take place, or did not complete.
Missing == restarts + failures

\* What the file can grow by from one complete maintenance to the next, which
\* each restart and each failure puts off by an interval, and an incident for
\* each signature.
Allowance ==
    Rate * (Interval * (Missing + 1) + 1) + Cardinality(Signatures)

\* README: retention by age and the size cap keep the footprint bounded: the
\* file stays under the cap but for what came after the last maintenance.
FootprintBounded == file <= Cap + Allowance

\* Maintenance leaves the file under the cap or has no event left to delete,
\* whatever a prune command of another process does meanwhile.
CapOrEmpty ==
    pc["daemon"] = "final" => file <= Cap \/ EventRows(events) = 0

\* Pruning by size stops: the daemon never stays in it.
PruneEnds == (pc["daemon"] # "idle") ~> (pc["daemon"] = "idle")

\* As long as the file has not been over the cap no event younger than the
\* retention is gone, however maintenance, commands and restarts fall.
RecentKept ==
    [][\A t \in Times :
         events'[t] < events[t] => overflowed \/ t + Retain < now]_vars
============================================================================
