------------------------------- MODULE Status -------------------------------
(***************************************************************************)
(* hblog status beside the daemon of Health.  The command makes one SELECT *)
(* after another on a connection that only reads, each of them seeing what *)
(* is committed at that moment: the statuses, the units, then the crashes  *)
(* and the errors of one unit after the other.  The daemon may commit      *)
(* between any two of them, and it writes the status of a unit and the     *)
(* event of its failure in different transactions.                         *)
(***************************************************************************)
EXTENDS Health

CONSTANTS
    Watched,     \* the units the configuration of the command watches
    RecentCrash, \* the hour for which a crash counts
    ErrorWindow, \* the day for which errors count
    MaxCommands  \* bound: commands run

ASSUME StatusAssumption ==
    /\ Watched \subseteq Units
    /\ RecentCrash \in Nat /\ ErrorWindow \in Nat /\ MaxCommands \in Nat

VARIABLES
    reading,  \* what the command reads next
    statuses, \* the rows of service_status it has read
    units,    \* the units it has still to show
    crash,    \* the last crash it has read, of the first of them
    begun,    \* when it began
    row,      \* the last row it has shown
    commands, \* number of commands run
    moments   \* history: each unit as it was, and was not failed, in the
              \* database at some moment of the command, with its last crash

command == <<reading, statuses, units, crash, begun, row, commands>>
statusVars == <<healthVars, command, moments>>

NoRow == <<>>
Bad == "X"
Errors == "!"
Good == "OK"

----------------------------------------------------------------------------
(* The queries. *)

\* unit_error_count, by priority: systemd logs of a crash below
\* Config.error_priority, while the monitor's events are at it.
ErrorCount(u) ==
    Cardinality({i \in Rows(u, "error") \cup Rows(u, "loop")
                          \cup {j \in Crashes(u) : stored[j].pos = 0} :
                   stored[i].ts >= begun - ErrorWindow})

\* distinct_units
DistinctUnits ==
    {e.unit : e \in Range(stored)}
    \cup {u \in Units : \E k \in Kinds : incidents[u, k].count > 0}

Recent(c) == c # NoCrash /\ Wall - c.ts < RecentCrash

\* _health_marker
HealthMarker(st, c, errs) ==
    IF st = "failed" \/ Recent(c) THEN Bad
    ELSE IF errs > 0 THEN Errors ELSE Good

----------------------------------------------------------------------------
(* The command. *)

\* resolve_config, Database(read_only=True) and service_statuses.
ReadStatuses ==
    /\ reading = "nothing" /\ commands < MaxCommands
    /\ commands' = commands + 1
    /\ begun' = Wall
    /\ statuses' = status
    /\ reading' = "units"
    /\ row' = NoRow
    /\ UNCHANGED <<units, crash>>

\* Wrong variant of NextRow: there is always another.
OneMoreRow(left) == "crash"

\* Where it goes from the units that are left.
NextRow(left) == IF left = {} THEN "nothing" ELSE "crash"

\* The units with a status, an event or an incident, those it watches.
ReadUnits ==
    /\ reading = "units"
    /\ units' = (DOMAIN statuses \cup DistinctUnits) \cap Watched
    /\ reading' = NextRow(units')
    /\ UNCHANGED <<statuses, crash, begun, row, commands>>

First == CHOOSE u \in units : TRUE

ReadCrash ==
    /\ reading = "crash"
    /\ crash' = LastCrash(First)
    /\ reading' = "errors"
    /\ UNCHANGED <<statuses, units, begun, row, commands>>

StateIn(rows, u) == IF u \in DOMAIN rows THEN rows[u] ELSE "-"

\* Wrong variant of StateOf: the status is read with the row.
StateNow(u) == StateIn(status, u)

StateOf(u) == StateIn(statuses, u)

\* unit_error_count, which completes the row.
ReadErrors ==
    /\ reading = "errors"
    /\ row' = [unit |-> First,
               marker |-> HealthMarker(StateOf(First), crash,
                                       ErrorCount(First))]
    /\ units' = units \ {First}
    /\ reading' = NextRow(units')
    /\ UNCHANGED <<statuses, crash, begun, commands>>

CommandStep ==
    /\ ReadStatuses \/ ReadUnits \/ ReadCrash \/ ReadErrors
    /\ UNCHANGED healthVars

\* Every unit that is not failed by the table, with its last crash.
Moment ==
    {<<u, LastCrash(u)>> : u \in {v \in Units : StateNow(v) # "failed"}}

StatusInit ==
    /\ HealthInit
    /\ reading = "nothing" /\ statuses = <<>> /\ units = {}
    /\ crash = NoCrash /\ row = NoRow /\ begun = 0 /\ commands = 0
    /\ moments = {}

StatusNext ==
    /\ \/ CommandStep
       \/ HealthNext /\ UNCHANGED command
    /\ moments' = IF reading' = "nothing" THEN {}
                  ELSE moments \cup Moment'

StatusSpec == StatusInit /\ [][StatusNext]_statusVars

----------------------------------------------------------------------------
(* Properties. *)

StatusTypeOK ==
    /\ HealthTypeOK
    /\ reading \in {"nothing", "units", "crash", "errors"}
    /\ DOMAIN statuses \subseteq Units
    /\ units \subseteq Watched
    /\ reading \in {"crash", "errors"} => units # {}
    /\ crash = NoCrash \/ crash.kind = "crash"
    /\ row = NoRow \/ row \in [unit : Watched, marker : {Bad, Errors, Good}]
    /\ begun \in Nat /\ commands \in 0..MaxCommands

\* A unit that is shown as anything but bad was, at one moment of the command,
\* by status and crashes together, not bad: a failure whose status comes before
\* its event, and goes before it too, does not slip through between two SELECTs.
NoBadPassesForGood ==
    [][\A u \in Units :
         row' = [unit |-> u, marker |-> Errors]
         \/ row' = [unit |-> u, marker |-> Good] =>
            row' = row
            \/ \E m \in moments : m[1] = u /\ ~Recent(m[2])]_statusVars
=============================================================================
