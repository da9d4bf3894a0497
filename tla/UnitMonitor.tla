---------------------------- MODULE UnitMonitor ----------------------------
(***************************************************************************)
(* The unit monitor samples what systemd says of each watched service and  *)
(* turns differences between two samples into events: a failure when a     *)
(* unit is first seen failed, a recovery when it goes from failed to       *)
(* active, a restart loop when NRestarts grew by the threshold within the  *)
(* window.  The services change between samples as they like; the          *)
(* properties relate what is reported to what happened.                    *)
(*                                                                         *)
(* Services and systemctl are external: what UnitMonitor.poll reads.       *)
(***************************************************************************)
EXTENDS Integers, Sequences, FiniteSets, FiniteSetsExt, Functions

CONSTANTS
    Units,        \* the watched services
    Threshold,    \* Config.restart_loop_threshold
    Window,       \* Config.restart_loop_window_sec
    PollInterval, \* Config.poll_interval_sec
    MaxGap,       \* bound: longest time from one poll to the next
    Sightings,    \* the sets of units systemctl may return in a poll
    Offsets,      \* what the wall clock may be ahead of time.monotonic() by
    States,       \* the ActiveStates units take
    MaxTime,      \* bound: the clock
    MaxRestarts,  \* bound: restarts systemd makes
    MaxFailures,  \* bound: times a unit enters the failed state
    MaxSessions   \* bound: starts of the daemon

ASSUME UnitsAssumption == IsFiniteSet(Units)
ASSUME ThresholdAssumption == Threshold \in Nat
ASSUME TimingAssumption ==
    /\ Window \in Nat
    /\ PollInterval \in Nat \ {0}
    /\ MaxGap \in Nat /\ MaxGap >= PollInterval
ASSUME ClockAssumption ==
    Offsets \subseteq Nat /\ Offsets # {} /\ IsFiniteSet(Offsets)
ASSUME StatesAssumption ==
    /\ {"active", "failed"} \subseteq States
    /\ States \subseteq {"active", "activating", "inactive", "failed"}
ASSUME SightAssumption == Sightings \subseteq SUBSET Units
ASSUME MonitorBounds ==
    /\ MaxTime \in Nat /\ MaxRestarts \in Nat
    /\ MaxFailures \in Nat /\ MaxSessions \in Nat \ {0}

VARIABLES
    now,        \* time.monotonic()
    offset,     \* wall clock minus now
    state,      \* ActiveState of each unit
    nrestarts,  \* NRestarts of each unit
    lastPoll,   \* Daemon._last_poll
    prev,       \* UnitMonitor._prev: the last snapshot, Unseen before it
    heartbeat,  \* UnitMonitor._heartbeat
    restarts,   \* UnitMonitor._restarts, the deque of each unit
    loopActive, \* UnitMonitor._loop_active
    report,     \* for each unit seen by the last poll, its events
    session,    \* number of daemon starts
    restarted,  \* history: when each unit was really restarted
    failures,   \* history: times each unit entered the failed state
    failed,     \* history: failure events of each unit
    recovered,  \* history: recovery events of each unit
    since,      \* history: first sample since NRestarts was last reset
    sampled,    \* history: when the monitor last saw each unit, and the
                \* longest it did not see it
    quiet       \* history: a sample of the unit since its last report of a loop
                \* found it recovered, or short of a loop

world == <<now, offset, state, nrestarts, restarted, failures>>
monitor == <<lastPoll, prev, heartbeat, restarts, loopActive, report>>
history == <<failed, recovered, sampled, quiet>>
vars == <<world, monitor, history, session, since>>

Never == MaxTime + 1
NotSampled == [last |-> Never, gap |-> 0]
Unseen == [state |-> "unseen", nrestarts |-> 0]
Wall == now + offset

TypeOK ==
    /\ now \in 0..MaxTime
    /\ offset \in Offsets
    /\ state \in [Units -> States]
    /\ nrestarts \in [Units -> 0..MaxRestarts]
    /\ lastPoll \in 0..now \cup {Never}
    /\ prev \in [Units -> [state : States \cup {"unseen"},
                           nrestarts : 0..MaxRestarts]]
    /\ heartbeat \in [Units -> Nat]
    /\ restarts \in [Units -> Seq(Nat)]
    /\ loopActive \in [Units -> BOOLEAN]
    /\ DOMAIN report \subseteq Units
    /\ \A u \in DOMAIN report :
          report[u] \in Seq({"recovery", "failure", "loop"})
    /\ session \in 1..MaxSessions
    /\ restarted \in [Units -> Seq(0..MaxTime)]
    /\ failures \in [Units -> 0..MaxFailures]
    /\ failed \in [Units -> Nat]
    /\ recovered \in [Units -> Nat]
    /\ since \in [Units -> 0..Never]
    /\ sampled \in [Units -> [last : 0..now \cup {Never}, gap : 0..now]]
    /\ quiet \in [Units -> BOOLEAN]

----------------------------------------------------------------------------
(* The services. *)

WorldInit ==
    /\ now = 0 /\ offset \in Offsets
    /\ state \in [Units -> States \ {"failed"}]
    /\ nrestarts = [u \in Units |-> 0]
    /\ restarted = [u \in Units |-> <<>>]
    /\ failures = [u \in Units |-> 0]

\* What MaxFailures and MaxRestarts bound.
FailuresMade == MapThenSumSet(LAMBDA v : failures[v], Units)
RestartsMade ==
    LET made == [u \in Units |-> Len(restarted[u])]
    IN  MapThenSumSet(LAMBDA v : made[v], Units)

Move(u, s) == state' = [state EXCEPT ![u] = s]

\* A unit fails for good, or stops, or comes up.
Fail(u) ==
    /\ state[u] # "failed"
    /\ FailuresMade < MaxFailures
    /\ Move(u, "failed")
    /\ failures' = [failures EXCEPT ![u] = @ + 1]
    /\ UNCHANGED <<now, offset, nrestarts, restarted, since>>

StopUnit(u) ==
    /\ state[u] \in {"active", "activating", "failed"}
    /\ "inactive" \in States
    /\ Move(u, "inactive")
    /\ UNCHANGED <<now, offset, nrestarts, restarted, failures, since>>

ComeUp(u) ==
    /\ state[u] = "activating"
    /\ Move(u, "active")
    /\ UNCHANGED <<now, offset, nrestarts, restarted, failures, since>>

\* systemd restarts a unit whose process died.
AutoRestart(u) ==
    /\ state[u] \in {"active", "activating"}
    /\ RestartsMade < MaxRestarts
    /\ \E s \in {"active", "activating"} \cap States : Move(u, s)
    /\ nrestarts' = [nrestarts EXCEPT ![u] = @ + 1]
    /\ restarted' = [restarted EXCEPT ![u] = Append(@, now)]
    /\ UNCHANGED <<now, offset, failures, since>>

\* An operator starts it, which resets NRestarts: until the monitor has seen
\* the new count, restarts may go uncounted.
StartUnit(u) ==
    /\ state[u] \in {"failed", "inactive"}
    /\ \E s \in {"active", "activating"} \cap States : Move(u, s)
    /\ nrestarts' = [nrestarts EXCEPT ![u] = 0]
    /\ since' = [since EXCEPT ![u] = Never]
    /\ UNCHANGED <<now, offset, restarted, failures>>

\* Time passes; the main loop comes round to a poll within MaxGap.
Pass ==
    /\ now < MaxTime
    /\ lastPoll # Never => now - lastPoll < MaxGap
    /\ now' = now + 1
    /\ UNCHANGED <<offset, state, nrestarts, restarted, failures, since>>

\* The wall clock is set.
SetClock ==
    /\ offset' \in Offsets \ {offset}
    /\ UNCHANGED <<now, state, nrestarts, restarted, failures, since>>

WorldStep ==
    /\ \/ \E u \in Units : \/ Fail(u) \/ StopUnit(u) \/ ComeUp(u)
                           \/ AutoRestart(u) \/ StartUnit(u)
       \/ Pass
       \/ SetClock
    /\ UNCHANGED <<monitor, history, session>>

----------------------------------------------------------------------------
(* The monitor. *)

Fresh ==
    [lastPoll |-> Never,
     prev |-> [u \in Units |-> Unseen],
     heartbeat |-> [u \in Units |-> 0],
     restarts |-> [u \in Units |-> <<>>],
     loopActive |-> [u \in Units |-> FALSE],
     report |-> <<>>]

MonitorInit ==
    /\ lastPoll = Fresh.lastPoll /\ prev = Fresh.prev
    /\ heartbeat = Fresh.heartbeat /\ restarts = Fresh.restarts
    /\ loopActive = Fresh.loopActive /\ report = Fresh.report

\* What the poll finds in the deque of u after adding a stamp for each new
\* restart and dropping, from the left, those older than the window.
Stamped(u) ==
    LET new == IF prev[u] # Unseen /\ nrestarts[u] > prev[u].nrestarts
               THEN nrestarts[u] - prev[u].nrestarts ELSE 0
    IN  restarts[u] \o [i \in 1..new |-> Wall]

\* Wrong variant of InWindow: old stamps stay.
NeverExpires(dq) == dq

\* Wrong variant of InWindow: the edge of the window is out of it.
StrictlyInWindow(dq) ==
    LET fresh == {i \in DOMAIN dq : Wall - dq[i] < Window}
    IN  IF fresh = {} THEN <<>> ELSE SubSeq(dq, Min(fresh), Len(dq))

InWindow(dq) ==
    LET fresh == {i \in DOMAIN dq : Wall - dq[i] <= Window}
    IN  IF fresh = {} THEN <<>>
        ELSE SubSeq(dq, CHOOSE i \in fresh : \A j \in fresh : i <= j, Len(dq))

\* Wrong variant of Recovers: any unit that becomes active.
BecomesActive(u) == state[u] = "active" /\ prev[u].state # "active"

\* Wrong variants of FailsNow: a failed unit, whatever it was; only a unit
\* that was seen before.
IsFailed(u) == state[u] = "failed"
FailsSinceSeen(u) ==
    state[u] = "failed" /\ prev[u].state \notin {"failed", "unseen"}

Recovers(u) == state[u] = "active" /\ prev[u].state = "failed"
FailsNow(u) == state[u] = "failed" /\ prev[u].state # "failed"
Over(u) == Len(InWindow(Stamped(u))) >= Threshold

\* Wrong variant of LoopStands: a sample without a new restart ends the loop.
StandsWhileRestarting(u) == Over(u) /\ nrestarts[u] > prev[u].nrestarts

\* What the check leaves in _loop_active.
LoopStands(u) == Over(u)

Loops(u) == Over(u) /\ (~loopActive[u] \/ Recovers(u))

\* _detect: the recovery first, then the failure, then the loop.
Events(u) ==
    (IF Recovers(u) THEN <<"recovery">> ELSE <<>>)
    \o (IF FailsNow(u) THEN <<"failure">> ELSE <<>>)
    \o (IF Loops(u) THEN <<"loop">> ELSE <<>>)

\* The clock _last_poll is kept by.
Monotonic == now

\* The longest u was not seen, as of now.
Unsampled(u) ==
    IF sampled[u].last = Never THEN 0
    ELSE Max({sampled[u].gap, now - sampled[u].last})

\* The restarts of u that really happened at or after time t.
RestartsFrom(u, t) == {i \in DOMAIN restarted[u] : restarted[u][i] >= t}

\* How far the wall clock may be set.
Skew == Max(Offsets) - Min(Offsets)

\* Threshold restarts within the window, whatever the clock was set by, since
\* the monitor has an unbroken count.
InLoop(u) ==
    Cardinality(RestartsFrom(u, now - Window + Skew)
                  \cap RestartsFrom(u, since[u] + 1)) >= Threshold

\* UnitMonitor.poll when systemctl returns the units in seen.
Poll(seen) ==
    /\ lastPoll # Never => Monotonic - lastPoll >= PollInterval
    /\ lastPoll' = Monotonic
    /\ prev' = [u \in Units |->
                  IF u \in seen
                  THEN [state |-> state[u], nrestarts |-> nrestarts[u]]
                  ELSE prev[u]]
    /\ heartbeat' = [u \in Units |->
                       IF u \in seen /\ state[u] = "active"
                       THEN Wall ELSE heartbeat[u]]
    /\ restarts' = [u \in Units |->
                      IF u \in seen THEN InWindow(Stamped(u)) ELSE restarts[u]]
    /\ loopActive' = [u \in Units |->
                        IF u \in seen THEN LoopStands(u) ELSE loopActive[u]]
    /\ report' = [u \in seen |-> Events(u)]
    /\ failed' = [u \in Units |->
                    failed[u] + IF u \in seen /\ FailsNow(u) THEN 1 ELSE 0]
    /\ recovered' = [u \in Units |->
                       recovered[u]
                       + IF u \in seen /\ Recovers(u) THEN 1 ELSE 0]
    /\ since' = [u \in Units |->
                   IF u \in seen /\ since[u] = Never THEN now ELSE since[u]]
    /\ sampled' = [u \in Units |->
                     IF u \in seen THEN [last |-> now, gap |-> Unsampled(u)]
                     ELSE sampled[u]]
    /\ quiet' = [u \in Units |->
                   IF u \in seen
                   THEN /\ ~Loops(u)
                        /\ quiet[u] \/ Recovers(u) \/ ~InLoop(u)
                   ELSE quiet[u]]
    /\ UNCHANGED <<world, session>>

\* The daemon is started again: a new UnitMonitor.
NewSession ==
    /\ session < MaxSessions
    /\ session' = session + 1
    /\ lastPoll' = Fresh.lastPoll /\ prev' = Fresh.prev
    /\ heartbeat' = Fresh.heartbeat /\ restarts' = Fresh.restarts
    /\ loopActive' = Fresh.loopActive /\ report' = Fresh.report
    /\ since' = [u \in Units |-> Never]
    /\ sampled' = [u \in Units |-> NotSampled]
    /\ quiet' = [u \in Units |-> TRUE]
    /\ UNCHANGED <<world, failed, recovered>>

Init ==
    /\ WorldInit
    /\ MonitorInit
    /\ session = 1
    /\ failed = [u \in Units |-> 0]
    /\ recovered = [u \in Units |-> 0]
    /\ since = [u \in Units |-> Never]
    /\ sampled = [u \in Units |-> NotSampled]
    /\ quiet = [u \in Units |-> TRUE]

Next ==
    \/ WorldStep
    \/ \E seen \in Sightings : Poll(seen)
    \/ NewSession

Spec == Init /\ [][Next]_vars

----------------------------------------------------------------------------
(* Properties. *)

Polled(u) == lastPoll' # lastPoll /\ u \in DOMAIN report'

\* A restart loop is reported only of a unit systemd restarted Threshold times
\* within the window, give or take the longest time a poll did not see the unit
\* and what the clock was set by: a restart is stamped with the wall clock of
\* the poll that sees it.
LoopSound ==
    [][\A u \in Units :
         Polled(u) /\ "loop" \in Range(report'[u]) =>
            Cardinality(RestartsFrom(u, now - Window - sampled'[u].gap - Skew))
                >= Threshold]_vars

\* Threshold restarts within the window since the monitor has an unbroken
\* count never escape it: by the next poll the loop has been reported.
LoopComplete ==
    [][\A u \in Units : Polled(u) /\ InLoop(u) => loopActive'[u]]_vars

\* A failure is reported at most once in a session, however often it is seen.
FailuresBounded ==
    \A u \in Units : failed[u] <= failures[u] + session - 1

\* A recovery is always that of a failure reported before.
RecoveriesBounded == \A u \in Units : recovered[u] <= failed[u]

\* A loop that goes on is announced once: between two announcements the unit
\* recovered, or a sample found it short of Threshold restarts within the window
\* (or without an unbroken count of them), or the daemon was started again.  A
\* poll that misses the unit, or finds no new restart, ends no loop.
LoopAnnouncedOnce ==
    [][\A u \in Units :
         Polled(u) /\ "loop" \in Range(report'[u]) =>
            quiet[u] \/ "recovery" \in Range(report'[u])]_vars
============================================================================
