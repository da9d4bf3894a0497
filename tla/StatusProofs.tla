--------------------------- MODULE StatusProofs ---------------------------
(***************************************************************************)
(* The unit monitor, what the daemon makes of its reports, and what the    *)
(* status command reads of it, for any number of units, failures, restarts *)
(* of the daemon and runs of the command, and any size of batch.           *)
(***************************************************************************)
EXTENDS Status, FiniteFacts, SequenceTheorems

(***************************************************************************)
(* However often services fail, samples miss it and the daemon restarts,   *)
(* the monitor reports a failure at most once per failure and start, and   *)
(* recoveries only of failures it has reported.                            *)
(*                                                                         *)
(* A unit whose last sample said failed has one failure more reported than *)
(* recoveries; one that is failed and was not yet seen so has one failure, *)
(* or one start of the daemon, that is not yet reported.                   *)
(***************************************************************************)

SeenFailed(u) == prev[u].state = "failed"
Unreported(u) == state[u] = "failed" /\ ~SeenFailed(u)

CountTypes ==
    /\ state \in [Units -> States]
    /\ nrestarts \in [Units -> Nat]
    /\ prev \in [Units -> [state : States \cup {"unseen"}, nrestarts : Nat]]
    /\ failures \in [Units -> Nat]
    /\ failed \in [Units -> Nat] /\ recovered \in [Units -> Nat]
    /\ session \in Nat

Reported ==
    \A u \in Units :
        /\ failed[u] <= failures[u] + session - 1
        /\ Unreported(u) => failed[u] < failures[u] + session - 1

Recovered ==
    \A u \in Units :
        /\ recovered[u] <= failed[u]
        /\ SeenFailed(u) => recovered[u] < failed[u]

Counts == CountTypes /\ Reported /\ Recovered

LEMMA CountsInit == Init => Counts
<1> SUFFICES ASSUME Init PROVE Counts
  OBVIOUS
<1> USE DEF Init, WorldInit, MonitorInit, Fresh, Unseen
<1>1. CountTypes
  BY StatesAssumption DEF CountTypes
<1>2. \A u \in Units : state[u] # "failed" /\ ~SeenFailed(u)
  BY DEF SeenFailed
<1>3. Reported /\ Recovered
  BY <1>2 DEF Reported, Recovered, Unreported
<1> QED
  BY <1>1, <1>3 DEF Counts

\* The steps of a service that is not failing: at most one unit moves, to a
\* state that is not failed.
LEMMA MovesCounts ==
    ASSUME Counts, UNCHANGED <<monitor, history, session, failures>>,
           nrestarts' \in [Units -> Nat],
           NEW u \in Units, NEW s \in States \ {"failed"},
           state' = state \/ Move(u, s)
    PROVE  Counts'
<1>1. CountTypes'
  BY DEF Counts, CountTypes, Move, monitor, history
<1>2. \A v \in Units : Unreported(v)' => Unreported(v)
  BY DEF Counts, CountTypes, Move, Unreported, SeenFailed, monitor
<1>3. Reported' /\ Recovered'
  BY <1>2 DEF Counts, Reported, Recovered, SeenFailed, monitor, history
<1> QED
  BY <1>1, <1>3 DEF Counts

\* A unit fails: there is one failure more to report.
LEMMA FailCounts ==
    ASSUME Counts, NEW u \in Units, Fail(u), UNCHANGED <<monitor, history, session>>
    PROVE  Counts'
<1> USE DEF Fail, Move, monitor, history
<1>1. CountTypes'
  BY StatesAssumption DEF Counts, CountTypes
<1>2. \A v \in Units : failures'[v] = IF v = u THEN failures[v] + 1
                                      ELSE failures[v]
  BY DEF Counts, CountTypes
<1>3. \A v \in Units : Unreported(v)' => v = u \/ Unreported(v)
  BY DEF Counts, CountTypes, Unreported, SeenFailed
<1>4. Reported'
  BY <1>2, <1>3 DEF Counts, CountTypes, Reported
<1>5. Recovered'
  BY DEF Counts, Recovered, SeenFailed
<1> QED
  BY <1>1, <1>4, <1>5 DEF Counts

LEMMA WorldCounts == Counts /\ WorldStep => Counts'
<1> SUFFICES ASSUME Counts, WorldStep PROVE Counts'
  OBVIOUS
<1>0. UNCHANGED <<monitor, history, session>>
  BY DEF WorldStep
<1>1. ASSUME NEW u \in Units, Fail(u) PROVE Counts'
  BY <1>0, <1>1, FailCounts
<1>2. ASSUME NEW u \in Units, StopUnit(u) PROVE Counts'
  BY <1>0, <1>2, MovesCounts, StatesAssumption DEF StopUnit, Counts, CountTypes
<1>3. ASSUME NEW u \in Units, ComeUp(u) PROVE Counts'
  BY <1>0, <1>3, MovesCounts, StatesAssumption DEF ComeUp, Counts, CountTypes
<1>4. ASSUME NEW u \in Units, AutoRestart(u) PROVE Counts'
  <2>1. PICK s \in {"active", "activating"} \cap States : Move(u, s)
    BY <1>4 DEF AutoRestart
  <2>2. nrestarts' \in [Units -> Nat]
    BY <1>4 DEF AutoRestart, Counts, CountTypes
  <2> QED
    BY <1>0, <1>4, <2>1, <2>2, MovesCounts DEF AutoRestart
<1>5. ASSUME NEW u \in Units, StartUnit(u) PROVE Counts'
  <2>1. PICK s \in {"active", "activating"} \cap States : Move(u, s)
    BY <1>5 DEF StartUnit
  <2>2. nrestarts' \in [Units -> Nat]
    BY <1>5 DEF StartUnit, Counts, CountTypes
  <2> QED
    BY <1>0, <1>5, <2>1, <2>2, MovesCounts DEF StartUnit
<1>6. ASSUME Pass \/ SetClock PROVE Counts'
  BY <1>0, <1>6 DEF Pass, SetClock, Counts, CountTypes, Reported, Recovered,
     Unreported, SeenFailed, monitor, history
<1> QED
  BY <1>1, <1>2, <1>3, <1>4, <1>5, <1>6 DEF WorldStep

LEMMA PollCounts == ASSUME Counts, NEW seen \in Sightings, Poll(seen) PROVE Counts'
<1> USE DEF Counts, CountTypes
<1>1. UNCHANGED <<state, nrestarts, failures, session>>
  BY DEF Poll, world
<1>2. \A u \in Units :
         prev'[u] = IF u \in seen
                    THEN [state |-> state[u], nrestarts |-> nrestarts[u]]
                    ELSE prev[u]
  BY DEF Poll
<1>3. \A u \in Units :
         /\ failed'[u] = IF u \in seen /\ FailsNow(u) THEN failed[u] + 1
                         ELSE failed[u]
         /\ recovered'[u] = IF u \in seen /\ Recovers(u) THEN recovered[u] + 1
                            ELSE recovered[u]
  BY DEF Poll
<1>4. CountTypes'
  <2>1. failed' \in [Units -> Nat] /\ recovered' \in [Units -> Nat]
    BY DEF Poll
  <2>2. prev' \in [Units -> [state : States \cup {"unseen"}, nrestarts : Nat]]
    BY DEF Poll
  <2> QED
    BY <1>1, <2>1, <2>2
<1>5. ASSUME NEW u \in Units, u \in seen
      PROVE  /\ SeenFailed(u)' <=> state[u] = "failed"
             /\ ~Unreported(u)'
             /\ FailsNow(u) <=> Unreported(u)
             /\ Recovers(u) <=> state[u] = "active" /\ SeenFailed(u)
  <2> HIDE DEF Counts, CountTypes
  <2>1. state' = state
    BY <1>1
  <2>2. prev'[u] = [state |-> state[u], nrestarts |-> nrestarts[u]]
    BY <1>2, <1>5, Zenon
  <2>3. prev'[u].state = state[u]
    BY <2>2
  <2>4. SeenFailed(u)' <=> state[u] = "failed"
    BY <2>3, Zenon DEF SeenFailed
  <2>5. ~Unreported(u)'
    BY <2>1, <2>4, Zenon DEF Unreported
  <2>6. FailsNow(u) <=> Unreported(u)
    BY Zenon DEF FailsNow, Unreported, SeenFailed
  <2>7. Recovers(u) <=> state[u] = "active" /\ SeenFailed(u)
    BY Zenon DEF Recovers, SeenFailed
  <2> QED
    BY <2>4, <2>5, <2>6, <2>7, Zenon
<1>6. ASSUME NEW u \in Units, u \notin seen
      PROVE  SeenFailed(u)' = SeenFailed(u) /\ Unreported(u)' = Unreported(u)
  BY <1>1, <1>2, <1>6 DEF SeenFailed, Unreported
<1>7. Reported'
  <2> SUFFICES ASSUME NEW u \in Units
               PROVE  /\ failed'[u] <= failures'[u] + session' - 1
                      /\ Unreported(u)' => failed'[u] < failures'[u] + session' - 1
    BY DEF Reported
  <2>1. CASE u \in seen
    <3>1. CASE Unreported(u)
      BY <1>1, <1>3, <1>5, <2>1, <3>1 DEF Reported
    <3>2. CASE ~Unreported(u)
      BY <1>1, <1>3, <1>5, <2>1, <3>2 DEF Reported
    <3> QED
      BY <3>1, <3>2
  <2>2. CASE u \notin seen
    BY <1>1, <1>3, <1>6, <2>2 DEF Reported
  <2> QED
    BY <2>1, <2>2
<1>8. Recovered'
  <2> SUFFICES ASSUME NEW u \in Units
               PROVE  /\ recovered'[u] <= failed'[u]
                      /\ SeenFailed(u)' => recovered'[u] < failed'[u]
    BY DEF Recovered
  <2>1. CASE u \in seen
    <3>1. CASE SeenFailed(u)
      BY <1>3, <1>5, <2>1, <3>1 DEF Recovered, Unreported
    <3>2. CASE ~SeenFailed(u)
      BY <1>3, <1>5, <2>1, <3>2 DEF Recovered, Unreported
    <3> QED
      BY <3>1, <3>2
  <2>2. CASE u \notin seen
    BY <1>3, <1>6, <2>2 DEF Recovered
  <2> QED
    BY <2>1, <2>2
<1> QED
  BY <1>4, <1>7, <1>8

LEMMA SessionCounts == Counts /\ NewSession => Counts'
<1> SUFFICES ASSUME Counts, NewSession PROVE Counts'
  OBVIOUS
<1> USE DEF NewSession, Fresh, Unseen, world
<1>1. CountTypes'
  BY DEF Counts, CountTypes
<1>2. Reported'
  BY DEF Counts, CountTypes, Reported, Unreported
<1>3. \A u \in Units : ~SeenFailed(u)'
  BY DEF SeenFailed
<1>4. Recovered'
  BY <1>3 DEF Counts, Recovered
<1> QED
  BY <1>1, <1>2, <1>4 DEF Counts

LEMMA CountsNext == Counts /\ [Next]_vars => Counts'
<1> SUFFICES ASSUME Counts, [Next]_vars PROVE Counts'
  OBVIOUS
<1>1. CASE UNCHANGED vars
  BY <1>1 DEF vars, world, monitor, history, Counts, CountTypes, Reported, Recovered,
     Unreported, SeenFailed
<1> QED
  BY <1>1, WorldCounts, PollCounts, SessionCounts DEF Next

\* A failure is reported at most once in a session, however often it is seen,
\* for any services, samples and timing (_detect in units.py).
THEOREM FailuresOnce == Spec => []FailuresBounded
<1>1. Counts => FailuresBounded
  BY DEF Counts, Reported, FailuresBounded
<1> QED
  BY <1>1, CountsInit, CountsNext, PTL DEF Spec

\* A recovery is always that of a failure reported before, by this monitor.
THEOREM RecoveriesOfFailures == Spec => []RecoveriesBounded
<1>1. Counts => RecoveriesBounded
  BY DEF Counts, Recovered, RecoveriesBounded
<1> QED
  BY <1>1, CountsInit, CountsNext, PTL DEF Spec

----------------------------------------------------------------------------
(* Types. The bounds on the counters come from those on the sums.          *)

Made == [u \in Units |-> Len(restarted[u])]

TypeInv ==
    /\ TypeOK
    /\ Sum(failures, Units) <= MaxFailures
    /\ Sum(Made, Units) <= MaxRestarts
    /\ \A u \in Units : nrestarts[u] <= Len(restarted[u])

LEMMA RestartsMadeIs == RestartsMade = Sum(Made, Units)
  BY DEF RestartsMade, Made, Sum

LEMMA FailuresMadeIs == FailuresMade = Sum(failures, Units)
  BY DEF FailuresMade, Sum

LEMMA SumOfZeros ==
    ASSUME NEW f, f = [u \in Units |-> 0] PROVE Sum(f, Units) = 0
<1> DEFINE F == {T \in SUBSET Units : Sum(f, T) = 0}
<1>1. {} \in F
  BY SumEmpty
<1>2. ASSUME NEW T \in SUBSET Units, NEW x \in Units, T \in F, x \notin T
      PROVE  T \cup {x} \in F
  <2>1. IsFiniteSet(T) /\ \A s \in T \cup {x} : f[s] = 0
    BY UnitsAssumption, FS_Subset
  <2>2. Sum(f, T \cup {x}) = Sum(f, T) + f[x]
    BY <1>2, <2>1, SumAdd
  <2> QED
    BY <1>2, <2>1, <2>2
<1>3. Units \in F
  <2> HIDE DEF F
  <2> QED
    BY <1>1, <1>2, UnitsAssumption, SubsetInduction
<1> QED
  BY <1>3

LEMMA TypeInit == Init => TypeInv
<1> SUFFICES ASSUME Init PROVE TypeInv
  OBVIOUS
<1> USE DEF Init, WorldInit, MonitorInit, Fresh, Unseen, Never
<1>1. TypeOK
  <2>1. state \in [Units -> States] /\ offset \in Offsets /\ now \in 0..MaxTime
    BY MonitorBounds
  <2>2. /\ prev \in [Units -> [state : States \cup {"unseen"},
                               nrestarts : 0..MaxRestarts]]
        /\ nrestarts \in [Units -> 0..MaxRestarts]
        /\ failures \in [Units -> 0..MaxFailures]
    BY MonitorBounds
  <2>3. /\ heartbeat \in [Units -> Nat] /\ restarts \in [Units -> Seq(Nat)]
        /\ restarted \in [Units -> Seq(0..MaxTime)]
        /\ loopActive \in [Units -> BOOLEAN]
        /\ failed \in [Units -> Nat] /\ recovered \in [Units -> Nat]
    OBVIOUS
  <2>4. since \in [Units -> 0..Never] /\ lastPoll = Never /\ session \in 1..MaxSessions
    BY MonitorBounds
  <2>5. report = <<>>
    OBVIOUS
  <2>6. /\ sampled \in [Units -> [last : 0..now \cup {Never}, gap : 0..now]]
        /\ quiet \in [Units -> BOOLEAN]
    BY MonitorBounds DEF NotSampled
  <2> QED
    BY <2>1, <2>2, <2>3, <2>4, <2>5, <2>6 DEF TypeOK
<1>2. Made = [u \in Units |-> 0] /\ failures = [u \in Units |-> 0]
  BY DEF Made
<1>3. Sum(Made, Units) = 0 /\ Sum(failures, Units) = 0
  BY <1>2, SumOfZeros
<1> QED
  BY <1>1, <1>3, MonitorBounds DEF TypeInv

\* The counters of one unit are bounded by the sum over all of them.
LEMMA NextCounters ==
    ASSUME failures' \in [Units -> Nat],
           restarted' \in [Units -> Seq(0..MaxTime)],
           Sum(failures, Units)' <= MaxFailures, Sum(Made, Units)' <= MaxRestarts
    PROVE  \A u \in Units : /\ failures'[u] <= MaxFailures
                            /\ Len(restarted'[u]) <= MaxRestarts
<1> DEFINE f == failures'
           h == Made'
<1>1. \A v \in Units : f[v] \in Nat /\ h[v] \in Nat /\ h[v] = Len(restarted'[v])
  BY DEF Made
<1>2. Sum(f, Units) <= MaxFailures /\ Sum(h, Units) <= MaxRestarts
  OBVIOUS
<1> HIDE DEF f, h
<1>3. \A u \in Units : f[u] <= Sum(f, Units) /\ h[u] <= Sum(h, Units)
  BY <1>1, UnitsAssumption, SumBoundsEach
<1>4. Sum(f, Units) \in Nat /\ Sum(h, Units) \in Nat
  BY <1>1, UnitsAssumption, SumType
<1>5. \A u \in Units : f[u] <= MaxFailures /\ h[u] <= MaxRestarts
  BY <1>1, <1>2, <1>3, <1>4, MonitorBounds
<1> QED
  BY <1>1, <1>5 DEF f

LEMMA FailTypes ==
    ASSUME TypeInv, NEW u \in Units, Fail(u), UNCHANGED <<monitor, history, session>>
    PROVE  TypeInv'
<1>1. /\ state' = [state EXCEPT ![u] = "failed"] /\ state' \in [Units -> States]
      /\ failures' = [failures EXCEPT ![u] = @ + 1]
      /\ UNCHANGED <<now, offset, nrestarts, restarted, since>>
      /\ Sum(failures, Units) < MaxFailures
  BY StatesAssumption, FailuresMadeIs DEF Fail, Move, TypeInv, TypeOK
<1>2. /\ failures \in [Units -> Nat] /\ failures' \in [Units -> Nat]
      /\ \A v \in Units : failures'[v] = IF v = u THEN failures[v] + 1 ELSE failures[v]
  BY <1>1 DEF TypeInv, TypeOK
<1>3. Sum(failures', Units) = Sum(failures, Units) + 1
  <2> DEFINE h == failures'
  <2>1. \A v \in Units : failures[v] \in Nat /\ h[v] \in Nat
    BY <1>2
  <2>2. \A v \in Units \ {u} : h[v] = failures[v]
    BY <1>2
  <2>3. h[u] = failures[u] + 1
    BY <1>2
  <2> HIDE DEF h
  <2>4. Sum(h, Units) + failures[u] = Sum(failures, Units) + h[u]
    BY <2>1, <2>2, UnitsAssumption, SumChange
  <2>5. Sum(h, Units) \in Nat /\ Sum(failures, Units) \in Nat
    BY <2>1, UnitsAssumption, SumType
  <2>6. Sum(h, Units) = Sum(failures, Units) + 1
    BY <2>1, <2>3, <2>4, <2>5
  <2> QED
    BY <2>6 DEF h
<1>4. Sum(failures, Units) \in Nat
  BY <1>2, UnitsAssumption, SumType
<1>5. Made' = Made
  BY <1>1 DEF Made
<1>6. Sum(failures, Units)' <= MaxFailures /\ Sum(Made, Units)' <= MaxRestarts
  <2>1. Sum(Made, Units)' = Sum(Made, Units)
    BY <1>5
  <2> QED
    BY <1>1, <1>3, <1>4, <2>1, MonitorBounds DEF TypeInv
<1>7. /\ restarted' = restarted
      /\ \A v \in Units : failures'[v] <= MaxFailures
  <2>1. /\ restarted' \in [Units -> Seq(0..MaxTime)]
        /\ failures' \in [Units -> Nat]
    BY <1>1, <1>2 DEF TypeInv, TypeOK
  <2> QED
    BY <1>1, <1>6, <2>1, NextCounters
<1>10. failures' \in [Units -> 0..MaxFailures]
  BY <1>2, <1>7, MonitorBounds
<1>8. TypeOK'
  BY <1>1, <1>7, <1>10 DEF TypeInv, TypeOK, monitor, history
<1>9. UNCHANGED <<nrestarts, restarted>>
  BY <1>1
<1> QED
  BY <1>6, <1>8, <1>9 DEF TypeInv

\* systemd restarts a unit: one restart more, of it and in all.
LEMMA AutoRestartTypes ==
    ASSUME TypeInv, NEW u \in Units, AutoRestart(u),
           UNCHANGED <<monitor, history, session>>
    PROVE  TypeInv'
<1>1. /\ state' \in [Units -> States]
      /\ nrestarts' = [nrestarts EXCEPT ![u] = @ + 1]
      /\ restarted' = [restarted EXCEPT ![u] = Append(@, now)]
      /\ UNCHANGED <<now, offset, failures, since>>
      /\ Sum(Made, Units) < MaxRestarts
  BY RestartsMadeIs DEF AutoRestart, Move, TypeInv, TypeOK
<1>2. /\ restarted' \in [Units -> Seq(0..MaxTime)]
      /\ \A v \in Units : Len(restarted'[v]) = IF v = u THEN Len(restarted[v]) + 1
                                               ELSE Len(restarted[v])
  <2>1. restarted \in [Units -> Seq(0..MaxTime)] /\ now \in 0..MaxTime
    BY DEF TypeInv, TypeOK
  <2> QED
    BY <1>1, <2>1, AppendProperties
<1>3. Sum(Made, Units)' = Sum(Made, Units) + 1
  <2> DEFINE f == Made
             h == Made'
  <2>1. \A v \in Units : f[v] = Len(restarted[v]) /\ f[v] \in Nat
    BY DEF Made, TypeInv, TypeOK
  <2>2. \A v \in Units : h[v] = Len(restarted'[v])
    BY DEF Made
  <2>3. /\ \A v \in Units : h[v] \in Nat
        /\ \A v \in Units \ {u} : h[v] = f[v]
        /\ h[u] = f[u] + 1
    BY <1>2, <2>1, <2>2
  <2> HIDE DEF f, h
  <2>4. Sum(h, Units) + f[u] = Sum(f, Units) + h[u]
    BY <2>1, <2>3, UnitsAssumption, SumChange
  <2>5. Sum(h, Units) \in Nat /\ Sum(f, Units) \in Nat
    BY <2>1, <2>3, UnitsAssumption, SumType
  <2>6. Sum(h, Units) = Sum(f, Units) + 1
    BY <2>1, <2>3, <2>4, <2>5
  <2> QED
    BY <2>6 DEF f, h
<1>4. Sum(Made, Units) \in Nat
  <2>1. \A v \in Units : Made[v] \in Nat
    BY DEF Made, TypeInv, TypeOK
  <2> QED
    BY <2>1, UnitsAssumption, SumType
<1>5. Sum(Made, Units)' <= MaxRestarts /\ Sum(failures, Units)' <= MaxFailures
  BY <1>1, <1>3, <1>4, MonitorBounds DEF TypeInv
<1>6. \A v \in Units : Len(restarted'[v]) <= MaxRestarts
  <2>1. failures' \in [Units -> Nat]
    BY <1>1 DEF TypeInv, TypeOK
  <2> QED
    BY <1>2, <1>5, <2>1, NextCounters
<1>7. /\ \A v \in Units : nrestarts'[v] <= Len(restarted'[v])
      /\ nrestarts' \in [Units -> Nat]
  BY <1>1, <1>2 DEF TypeInv, TypeOK
<1>8. nrestarts' \in [Units -> 0..MaxRestarts]
  BY <1>2, <1>6, <1>7, MonitorBounds
<1>9. TypeOK'
  BY <1>1, <1>2, <1>8 DEF TypeInv, TypeOK, monitor, history
<1> QED
  BY <1>5, <1>7, <1>9 DEF TypeInv

\* What leaves the restarts, the failures and the counts as they are, or resets
\* a count, keeps the bounds.
LEMMA BoundsStay ==
    ASSUME TypeInv, TypeOK', UNCHANGED <<failures, restarted>>,
           \A v \in Units : nrestarts'[v] = nrestarts[v] \/ nrestarts'[v] = 0
    PROVE  TypeInv'
<1>1. Made' = Made
  BY DEF Made
<1>2. Sum(Made, Units)' = Sum(Made, Units)
      /\ Sum(failures, Units)' = Sum(failures, Units)
  BY <1>1
<1>3. \A v \in Units : nrestarts'[v] <= Len(restarted'[v])
  <2>1. \A v \in Units : Len(restarted[v]) \in Nat
    BY DEF TypeInv, TypeOK
  <2>2. \A v \in Units : nrestarts[v] <= Len(restarted[v])
    BY DEF TypeInv
  <2> QED
    BY <2>1, <2>2
<1> QED
  BY <1>2, <1>3 DEF TypeInv

LEMMA WorldTypes == TypeInv /\ WorldStep => TypeInv'
<1> SUFFICES ASSUME TypeInv, WorldStep PROVE TypeInv'
  OBVIOUS
<1>0. UNCHANGED <<monitor, history, session>>
  BY DEF WorldStep
<1>1. ASSUME NEW u \in Units, StopUnit(u) \/ ComeUp(u) PROVE TypeInv'
  <2>1. /\ state' \in [Units -> States]
        /\ UNCHANGED <<now, offset, nrestarts, restarted, failures, since>>
    <3>1. CASE StopUnit(u)
      BY <3>1 DEF StopUnit, Move, TypeInv, TypeOK
    <3>2. CASE ComeUp(u)
      BY <3>2, StatesAssumption DEF ComeUp, Move, TypeInv, TypeOK
    <3> QED
      BY <1>1, <3>1, <3>2
  <2>2. TypeOK'
    BY <1>0, <2>1 DEF TypeInv, TypeOK, monitor, history
  <2> QED
    BY <2>1, <2>2, BoundsStay
<1>2. ASSUME NEW u \in Units, StartUnit(u) PROVE TypeInv'
  <2>1. /\ state' \in [Units -> States]
        /\ nrestarts' = [nrestarts EXCEPT ![u] = 0]
        /\ since' = [since EXCEPT ![u] = Never]
        /\ UNCHANGED <<now, offset, restarted, failures>>
    BY <1>2 DEF StartUnit, Move, TypeInv, TypeOK
  <2>2. /\ nrestarts' \in [Units -> 0..MaxRestarts]
        /\ since' \in [Units -> 0..Never]
    BY <2>1, MonitorBounds DEF TypeInv, TypeOK, Never
  <2>3. TypeOK'
    BY <1>0, <2>1, <2>2 DEF TypeInv, TypeOK, monitor, history
  <2>4. \A v \in Units : nrestarts'[v] = nrestarts[v] \/ nrestarts'[v] = 0
    BY <2>1 DEF TypeInv, TypeOK
  <2> QED
    BY <2>1, <2>3, <2>4, BoundsStay
<1>3. CASE Pass \/ SetClock
  <2>1. /\ now' \in 0..MaxTime /\ now' >= now /\ offset' \in Offsets
        /\ UNCHANGED <<state, nrestarts, restarted, failures, since>>
    BY <1>3, MonitorBounds DEF Pass, SetClock, TypeInv, TypeOK
  <2>2. lastPoll' \in 0..now' \cup {Never}
    BY <1>0, <2>1, MonitorBounds DEF TypeInv, TypeOK, monitor
  <2>3. sampled' \in [Units -> [last : 0..now' \cup {Never}, gap : 0..now']]
    BY <1>0, <2>1, MonitorBounds DEF TypeInv, TypeOK, history
  <2>4. TypeOK'
    BY <1>0, <2>1, <2>2, <2>3 DEF TypeInv, TypeOK, monitor, history
  <2> QED
    BY <2>1, <2>4, BoundsStay
<1> QED
  BY <1>0, <1>1, <1>2, <1>3, FailTypes, AutoRestartTypes DEF WorldStep

----------------------------------------------------------------------------
(* The deque. *)

LEMMA StampedIsSeq ==
    ASSUME TypeOK, NEW u \in Units
    PROVE  Stamped(u) \in Seq(Nat)
<1> DEFINE new == IF prev[u] # Unseen /\ nrestarts[u] > prev[u].nrestarts
                  THEN nrestarts[u] - prev[u].nrestarts ELSE 0
<1>1. nrestarts[u] \in Nat /\ prev[u].nrestarts \in Nat
  BY MonitorBounds DEF TypeOK
<1>2. new \in Nat
  BY <1>1
<1>3. Wall \in Nat
  BY ClockAssumption, MonitorBounds DEF TypeOK, Wall
<1>4. Stamped(u) = restarts[u] \o [i \in 1..new |-> Wall]
  BY DEF Stamped
<1> HIDE DEF new
<1>5. [i \in 1..new |-> Wall] \in Seq(Nat)
  BY <1>2, <1>3
<1>6. restarts[u] \in Seq(Nat)
  BY DEF TypeOK
<1> QED
  BY <1>4, <1>5, <1>6, ConcatProperties

\* What is left of a deque are its stamps from some place on.
LEMMA InWindowIs ==
    ASSUME NEW dq \in Seq(Nat), Wall \in Nat
    PROVE  /\ InWindow(dq) \in Seq(Nat)
           /\ \E i \in 1..Len(dq) + 1 :
                 /\ Len(InWindow(dq)) = Len(dq) - i + 1
                 /\ \A j \in 1..Len(InWindow(dq)) : InWindow(dq)[j] = dq[i + j - 1]
                 /\ \A j \in 1..i - 1 : Wall - dq[j] > Window
                 /\ i <= Len(dq) => Wall - dq[i] <= Window
<1> DEFINE fresh == {i \in DOMAIN dq : Wall - dq[i] <= Window}
<1>1. fresh \in SUBSET (1..Len(dq)) /\ \A j \in 1..Len(dq) : dq[j] \in Nat
  OBVIOUS
<1>2. CASE fresh = {}
  <2>1. InWindow(dq) = <<>>
    BY <1>2 DEF InWindow
  <2>2. \A j \in 1..Len(dq) : ~(Wall - dq[j] <= Window)
    BY <1>2
  <2>3. \A j \in 1..Len(dq) : Wall - dq[j] > Window
    BY <1>1, <2>2, TimingAssumption
  <2>4. <<>> \in Seq(Nat) /\ Len(<<>>) = 0 /\ Len(dq) \in Nat
    OBVIOUS
  <2> QED
    BY <2>1, <2>3, <2>4
<1>3. CASE fresh # {}
  <2> DEFINE i == CHOOSE i \in fresh : \A j \in fresh : i <= j
  <2>1. IsFiniteSet(fresh)
    <3>1. IsFiniteSet(1..Len(dq))
      BY FS_Interval
    <3> QED
      BY <1>1, <3>1, FS_Subset
  <2>2. \E k \in fresh : \A j \in fresh : k <= j
    <3>1. fresh \in SUBSET Int
      BY <1>1
    <3> HIDE DEF fresh
    <3> QED
      BY <1>3, <2>1, <3>1, MinOfFinite
  <2>3. i \in fresh /\ \A j \in fresh : i <= j
    BY <2>2
  <2>4. InWindow(dq) = SubSeq(dq, i, Len(dq))
    BY <1>3 DEF InWindow
  <2> HIDE DEF i
  <2>5. i \in 1..Len(dq) /\ Wall - dq[i] <= Window
    BY <2>3
  <2>6. \A j \in 1..i - 1 : j \in 1..Len(dq) /\ j \notin fresh
    BY <2>3, <2>5
  <2>7. \A j \in 1..i - 1 : Wall - dq[j] > Window
    BY <1>1, <2>6, TimingAssumption
  <2>8. /\ SubSeq(dq, i, Len(dq)) \in Seq(Nat)
        /\ Len(SubSeq(dq, i, Len(dq))) = Len(dq) - i + 1
        /\ \A j \in 1..Len(dq) - i + 1 : SubSeq(dq, i, Len(dq))[j] = dq[i + j - 1]
    BY <2>5, SubSeqProperties
  <2>9. /\ i \in 1..Len(dq) + 1 /\ Len(InWindow(dq)) = Len(dq) - i + 1
        /\ \A j \in 1..Len(InWindow(dq)) : InWindow(dq)[j] = dq[i + j - 1]
    BY <2>4, <2>5, <2>8
  <2> QED
    BY <2>4, <2>5, <2>7, <2>8, <2>9
<1> QED
  BY <1>2, <1>3

----------------------------------------------------------------------------
\* What a sample may report, and that a recovery excludes a failure.
LEMMA EventsType ==
    \A u : /\ Events(u) \in Seq({"recovery", "failure", "loop"})
           /\ Range(Events(u)) \subseteq {"recovery", "failure", "loop"}
           /\ "recovery" \in Range(Events(u)) <=> Recovers(u)
           /\ "failure" \in Range(Events(u)) <=> FailsNow(u)
           /\ "loop" \in Range(Events(u)) <=> Loops(u)
<1> SUFFICES ASSUME NEW u
             PROVE  /\ Events(u) \in Seq({"recovery", "failure", "loop"})
                    /\ Range(Events(u)) \subseteq {"recovery", "failure", "loop"}
                    /\ "recovery" \in Range(Events(u)) <=> Recovers(u)
                    /\ "failure" \in Range(Events(u)) <=> FailsNow(u)
                    /\ "loop" \in Range(Events(u)) <=> Loops(u)
  OBVIOUS
<1>1. ~(Recovers(u) /\ FailsNow(u))
  BY DEF Recovers, FailsNow
<1> DEFINE R == {"recovery", "failure", "loop"}
<1>2. /\ <<>> \in Seq(R) /\ <<"recovery">> \in Seq(R) /\ <<"failure">> \in Seq(R)
      /\ <<"loop">> \in Seq(R) /\ <<"recovery", "loop">> \in Seq(R)
      /\ <<"failure", "loop">> \in Seq(R)
  OBVIOUS
<1>0. \A a, b : (<<a>> \o <<>>) \o <<b>> = <<a, b>> /\ (<<>> \o <<a>>) \o <<b>> = <<a, b>>
  <2>1. \A a : <<a>> \o <<>> = <<a>> /\ <<>> \o <<a>> = <<a>>
    OBVIOUS
  <2>2. ASSUME NEW a, NEW b PROVE <<a>> \o <<b>> = <<a, b>>
    <3> DEFINE S == {a, b}
               c == <<a>> \o <<b>>
    <3>1. /\ <<a>> \in Seq(S) /\ <<b>> \in Seq(S) /\ <<a, b>> \in Seq(S)
          /\ Len(<<a>>) = 1 /\ Len(<<b>>) = 1 /\ Len(<<a, b>>) = 2
      OBVIOUS
    <3>2. c \in Seq(S) /\ Len(c) = 2 /\ c[1] = a /\ c[2] = b
      BY <3>1, ConcatProperties
    <3> HIDE DEF c, S
    <3>3. \A i \in 1..Len(c) : c[i] = <<a, b>>[i]
      BY <3>2
    <3>4. c = <<a, b>>
      BY <3>1, <3>2, <3>3, SeqEqual
    <3> QED
      BY <3>4 DEF c
  <2> QED
    BY <2>1, <2>2
<1>3. /\ Range(<<>>) = {} /\ Range(<<"recovery">>) = {"recovery"}
      /\ Range(<<"failure">>) = {"failure"} /\ Range(<<"loop">>) = {"loop"}
      /\ Range(<<"recovery", "loop">>) = {"recovery", "loop"}
      /\ Range(<<"failure", "loop">>) = {"failure", "loop"}
  BY DEF Range
<1>4. CASE Recovers(u) /\ Loops(u)
  <2>1. Events(u) = <<"recovery", "loop">>
    BY <1>0, <1>1, <1>4 DEF Events
  <2> QED
    BY <1>1, <1>2, <1>3, <1>4, <2>1
<1>5. CASE Recovers(u) /\ ~Loops(u)
  <2>1. Events(u) = <<"recovery">>
    BY <1>1, <1>5 DEF Events
  <2> QED
    BY <1>1, <1>2, <1>3, <1>5, <2>1
<1>6. CASE ~Recovers(u) /\ FailsNow(u) /\ Loops(u)
  <2>1. Events(u) = <<"failure", "loop">>
    BY <1>0, <1>6 DEF Events
  <2> QED
    BY <1>2, <1>3, <1>6, <2>1
<1>7. CASE ~Recovers(u) /\ FailsNow(u) /\ ~Loops(u)
  <2>1. Events(u) = <<"failure">>
    BY <1>7 DEF Events
  <2> QED
    BY <1>2, <1>3, <1>7, <2>1
<1>8. CASE ~Recovers(u) /\ ~FailsNow(u) /\ Loops(u)
  <2>1. Events(u) = <<"loop">>
    BY <1>8 DEF Events
  <2> QED
    BY <1>2, <1>3, <1>8, <2>1
<1>9. CASE ~Recovers(u) /\ ~FailsNow(u) /\ ~Loops(u)
  <2>1. Events(u) = <<>>
    BY <1>9 DEF Events
  <2> QED
    BY <1>2, <1>3, <1>9, <2>1
<1> QED
  BY <1>4, <1>5, <1>6, <1>7, <1>8, <1>9

\* How long a unit was not seen, at most.
LEMMA UnsampledIs ==
    ASSUME TypeOK, NEW u \in Units
    PROVE  /\ Unsampled(u) \in 0..now
           /\ sampled[u].last # Never =>
                 /\ Unsampled(u) >= sampled[u].gap
                 /\ Unsampled(u) >= now - sampled[u].last
<1> DEFINE S == {sampled[u].gap, now - sampled[u].last}
<1>1. /\ now \in Nat /\ sampled[u].gap \in 0..now
      /\ sampled[u].last \in 0..now \cup {Never}
  BY DEF TypeOK
<1>2. CASE sampled[u].last = Never
  BY <1>1, <1>2 DEF Unsampled
<1>3. CASE sampled[u].last # Never
  <2>1. S \in SUBSET (0..now) /\ S \in SUBSET Int /\ S # {}
    BY <1>1, <1>3
  <2>2. IsFiniteSet(S)
    <3>1. IsFiniteSet({sampled[u].gap} \cup {now - sampled[u].last})
      BY FS_Singleton, FS_AddElement
    <3>2. S = {sampled[u].gap} \cup {now - sampled[u].last}
      OBVIOUS
    <3> QED
      BY <3>1, <3>2
  <2>3. Max(S) \in S /\ \A x \in S : x <= Max(S)
    <3> HIDE DEF S
    <3> QED
      BY <2>1, <2>2, MaxOfFinite
  <2>4. Unsampled(u) = Max(S)
    BY <1>3 DEF Unsampled
  <2>5. sampled[u].gap <= Max(S) /\ now - sampled[u].last <= Max(S)
    BY <2>3
  <2>6. Max(S) \in 0..now
    BY <2>1, <2>3
  <2> HIDE DEF S
  <2> QED
    BY <1>1, <1>3, <2>4, <2>5, <2>6
<1> QED
  BY <1>2, <1>3

LEMMA PollTypes == ASSUME TypeInv, NEW seen \in Sightings, Poll(seen) PROVE TypeInv'
<1>1. /\ UNCHANGED <<now, offset, state, nrestarts, restarted, failures, session>>
      /\ lastPoll' = now
  BY DEF Poll, world, Monotonic
<1>2. now \in 0..MaxTime /\ Wall \in Nat
  BY ClockAssumption, MonitorBounds DEF TypeInv, TypeOK, Wall
<1>3. prev' \in [Units -> [state : States \cup {"unseen"},
                           nrestarts : 0..MaxRestarts]]
  BY DEF Poll, TypeInv, TypeOK
<1>4. heartbeat' \in [Units -> Nat]
  BY <1>2 DEF Poll, TypeInv, TypeOK
<1>5. restarts' \in [Units -> Seq(Nat)]
  <2>1. \A u \in Units : InWindow(Stamped(u)) \in Seq(Nat)
    BY <1>2, StampedIsSeq, InWindowIs DEF TypeInv
  <2>2. restarts' = [u \in Units |-> IF u \in seen THEN InWindow(Stamped(u))
                                     ELSE restarts[u]]
    BY DEF Poll
  <2> QED
    BY <2>1, <2>2 DEF TypeInv, TypeOK
<1>6. loopActive' \in [Units -> BOOLEAN]
  <2>1. \A u : LoopStands(u) \in BOOLEAN
    BY SMT DEF LoopStands, Over
  <2>2. loopActive' = [u \in Units |-> IF u \in seen THEN LoopStands(u)
                                       ELSE loopActive[u]]
    BY DEF Poll
  <2>3. loopActive \in [Units -> BOOLEAN]
    BY DEF TypeInv, TypeOK
  <2> QED
    BY <2>1, <2>2, <2>3, Zenon
<1>7. /\ DOMAIN report' \subseteq Units
      /\ \A u \in DOMAIN report' :
            report'[u] \in Seq({"recovery", "failure", "loop"})
  BY EventsType, SightAssumption DEF Poll
<1>8. failed' \in [Units -> Nat] /\ recovered' \in [Units -> Nat]
  <2>1. failed \in [Units -> Nat] /\ recovered \in [Units -> Nat]
    BY DEF TypeInv, TypeOK
  <2>2. failed' \in [Units -> Nat]
    BY <2>1 DEF Poll
  <2>3. recovered' \in [Units -> Nat]
    BY <2>1 DEF Poll
  <2> QED
    BY <2>2, <2>3
<1>9. since' \in [Units -> 0..Never]
  BY <1>2, MonitorBounds DEF Poll, TypeInv, TypeOK, Never
<1>11. sampled' \in [Units -> [last : 0..now' \cup {Never}, gap : 0..now']]
  <2>1. sampled \in [Units -> [last : 0..now \cup {Never}, gap : 0..now]]
    BY DEF TypeInv, TypeOK
  <2>2. \A u \in Units : Unsampled(u) \in 0..now
    BY UnsampledIs DEF TypeInv
  <2> QED
    BY <1>1, <1>2, <2>1, <2>2 DEF Poll
<1>12. quiet' \in [Units -> BOOLEAN]
  <2> DEFINE Q(u) == ~Loops(u) /\ (quiet[u] \/ Recovers(u) \/ ~InLoop(u))
  <2>1. \A u : Q(u) \in BOOLEAN
    OBVIOUS
  <2>2. quiet' = [u \in Units |-> IF u \in seen THEN Q(u) ELSE quiet[u]]
    BY DEF Poll
  <2>3. quiet \in [Units -> BOOLEAN]
    BY DEF TypeInv, TypeOK
  <2> HIDE DEF Q
  <2> QED
    BY <2>1, <2>2, <2>3, Zenon
<1>10. TypeOK'
  <2>1. /\ now' \in 0..MaxTime /\ offset' \in Offsets
        /\ state' \in [Units -> States]
        /\ nrestarts' \in [Units -> 0..MaxRestarts]
        /\ lastPoll' \in 0..now' \cup {Never}
    BY <1>1, <1>2 DEF TypeInv, TypeOK
  <2>2. /\ session' \in 1..MaxSessions
        /\ restarted' \in [Units -> Seq(0..MaxTime)]
        /\ failures' \in [Units -> 0..MaxFailures]
    BY <1>1 DEF TypeInv, TypeOK
  <2> QED
    BY <2>1, <2>2, <1>3, <1>4, <1>5, <1>6, <1>7, <1>8, <1>9, <1>11, <1>12
    DEF TypeOK
<1> QED
  BY <1>1, <1>10, BoundsStay

LEMMA SessionTypes == TypeInv /\ NewSession => TypeInv'
<1> SUFFICES ASSUME TypeInv, NewSession PROVE TypeInv'
  OBVIOUS
<1>1. /\ UNCHANGED <<now, offset, state, nrestarts, restarted, failures>>
      /\ UNCHANGED <<failed, recovered>>
      /\ session' = session + 1 /\ session < MaxSessions
      /\ lastPoll' = Never /\ report' = <<>>
      /\ prev' = [u \in Units |-> Unseen]
      /\ heartbeat' = [u \in Units |-> 0]
      /\ restarts' = [u \in Units |-> <<>>]
      /\ loopActive' = [u \in Units |-> FALSE]
      /\ since' = [u \in Units |-> Never]
      /\ sampled' = [u \in Units |-> NotSampled]
      /\ quiet' = [u \in Units |-> TRUE]
  BY DEF NewSession, Fresh, world
<1>2. /\ prev' \in [Units -> [state : States \cup {"unseen"},
                              nrestarts : 0..MaxRestarts]]
      /\ heartbeat' \in [Units -> Nat] /\ restarts' \in [Units -> Seq(Nat)]
      /\ loopActive' \in [Units -> BOOLEAN]
      /\ session' \in 1..MaxSessions /\ since' \in [Units -> 0..Never]
  BY <1>1, MonitorBounds DEF TypeInv, TypeOK, Unseen, Never
<1>4. /\ sampled' \in [Units -> [last : 0..now' \cup {Never}, gap : 0..now']]
      /\ quiet' \in [Units -> BOOLEAN]
  BY <1>1 DEF TypeInv, TypeOK, NotSampled
<1>3. TypeOK'
  BY <1>1, <1>2, <1>4 DEF TypeInv, TypeOK
<1> QED
  BY <1>1, <1>3, BoundsStay

LEMMA TypeNext == TypeInv /\ [Next]_vars => TypeInv'
<1> SUFFICES ASSUME TypeInv, [Next]_vars PROVE TypeInv'
  OBVIOUS
<1>1. CASE UNCHANGED vars
  <2>1. UNCHANGED <<now, offset, state, nrestarts, restarted, failures, lastPoll,
                    prev, heartbeat, restarts, loopActive, report, failed,
                    recovered, session, since, sampled, quiet>>
    BY <1>1 DEF vars, world, monitor, history
  <2>2. TypeOK'
    BY <2>1 DEF TypeInv, TypeOK
  <2> QED
    BY <2>1, <2>2, BoundsStay
<1> QED
  BY <1>1, WorldTypes, PollTypes, SessionTypes DEF Next

\* The monitor's variables have their types: what it keeps of a unit, the deque
\* and the last sample, is what systemctl can have said of it.
THEOREM MonitorTypes == Spec => []TypeOK
<1>1. TypeInv => TypeOK
  BY DEF TypeInv
<1> QED
  BY <1>1, TypeInit, TypeNext, PTL DEF Spec

----------------------------------------------------------------------------
(* Which steps poll. *)

\* Only a poll has polled.
LEMMA PolledInPoll ==
    ASSUME [Next]_vars, NEW u \in Units, Polled(u)
    PROVE  \E seen \in Sightings : Poll(seen) /\ u \in seen
<1>1. CASE WorldStep \/ UNCHANGED vars
  BY <1>1 DEF WorldStep, vars, monitor, Polled
<1>2. CASE NewSession
  BY <1>2 DEF NewSession, Fresh, Polled
<1>3. ASSUME NEW seen \in Sightings, Poll(seen) PROVE u \in seen
  BY <1>3 DEF Poll, Polled
<1> QED
  BY <1>1, <1>2, <1>3 DEF Next

----------------------------------------------------------------------------
(***************************************************************************)
(* Restart loops are real, and found.                                      *)
(*                                                                         *)
(* A restart is stamped by the poll that counts it, with the wall clock.   *)
(* Genuine bounds the stamps by restarts: those from any place of the      *)
(* deque on, and the restarts the next sample will count, are no more than *)
(* the restarts since that stamp, less what the clock is ahead by and the  *)
(* longest time the unit was not seen.  Kept bounds restarts by stamps:    *)
(* while the count is unbroken, those from any moment of the window on are *)
(* no more than the stamps since then and the restarts not counted yet.    *)
(***************************************************************************)

\* The places of s with a number not less than t.
Since(s, t) == {i \in DOMAIN s : s[i] >= t}

LEMMA SinceFinite ==
    ASSUME NEW s \in Seq(Nat), NEW t
    PROVE  IsFiniteSet(Since(s, t)) /\ Cardinality(Since(s, t)) \in Nat
<1>1. Since(s, t) \subseteq 1..Len(s) /\ IsFiniteSet(1..Len(s))
  BY FS_Interval DEF Since
<1>2. IsFiniteSet(Since(s, t))
  BY <1>1, FS_Subset
<1> QED
  BY <1>2, FS_CardinalityType

LEMMA SinceEarlier ==
    ASSUME NEW s \in Seq(Nat), NEW t \in Int, NEW r \in Int, r <= t
    PROVE  Cardinality(Since(s, t)) <= Cardinality(Since(s, r))
<1>1. Since(s, t) \subseteq Since(s, r)
  BY DEF Since
<1> QED
  BY <1>1, SinceFinite, FS_Subset

LEMMA SinceAppend ==
    ASSUME NEW s \in Seq(Nat), NEW n \in Nat, NEW t \in Int
    PROVE  /\ t <= n => Cardinality(Since(Append(s, n), t)) = Cardinality(Since(s, t)) + 1
           /\ Cardinality(Since(Append(s, n), t)) <= Cardinality(Since(s, t)) + 1
           /\ Cardinality(Since(Append(s, n), t)) >= Cardinality(Since(s, t))
<1> DEFINE a == Append(s, n)
           l == Len(s) + 1
           S == Since(s, t)
<1>1. /\ a \in Seq(Nat) /\ Len(a) = l /\ a[l] = n
      /\ \A i \in 1..Len(s) : a[i] = s[i]
      /\ Len(s) \in Nat /\ DOMAIN a = 1..l /\ DOMAIN s = 1..Len(s)
  BY AppendProperties
<1> HIDE DEF a
<1>2. Since(a, t) = IF n >= t THEN S \cup {l} ELSE S
  BY <1>1 DEF Since
<1>3. l \notin S
  BY <1>1 DEF Since
<1>4. IsFiniteSet(S) /\ Cardinality(S) \in Nat
  BY SinceFinite
<1> HIDE DEF S, l
<1>5. Cardinality(S \cup {l}) = Cardinality(S) + 1
  BY <1>3, <1>4, FS_AddElement
<1> QED
  BY <1>2, <1>4, <1>5 DEF a, S

\* Equal numbers at the end.
LEMMA SinceMore ==
    ASSUME NEW s \in Seq(Nat), NEW q \in Seq(Nat), NEW k \in Nat, NEW t \in Int,
           Len(q) = Len(s) + k,
           \A i \in 1..Len(s) : q[i] = s[i],
           \A i \in Len(s) + 1..Len(q) : q[i] >= t
    PROVE  Cardinality(Since(q, t)) = Cardinality(Since(s, t)) + k
<1> DEFINE S == Since(s, t)
           l == Len(s)
           T == l + 1..l + k
<1>1. l \in Nat /\ DOMAIN q = 1..l + k /\ DOMAIN s = 1..l
  OBVIOUS
<1>2. Since(q, t) = S \cup T
  BY <1>1 DEF Since
<1>3. S \cap T = {}
  BY <1>1 DEF Since
<1>4. IsFiniteSet(S) /\ Cardinality(S) \in Nat
  BY SinceFinite
<1>5. IsFiniteSet(T) /\ Cardinality(T) = k
  <2> DEFINE a == l + 1
             b == l + k
  <2>1. a \in Int /\ b \in Int /\ b - a + 1 = k /\ (a > b <=> k = 0) /\ T = a..b
    BY <1>1
  <2> HIDE DEF a, b, T
  <2>2. IsFiniteSet(a..b) /\ Cardinality(a..b) = IF a > b THEN 0 ELSE b - a + 1
    BY <2>1, FS_Interval
  <2> QED
    BY <2>1, <2>2
<1> HIDE DEF S, T
<1>6. Cardinality(S \cup T) = Cardinality(S) + Cardinality(T) - Cardinality({})
  BY <1>3, <1>4, <1>5, FS_Union
<1> QED
  BY <1>2, <1>4, <1>5, <1>6, FS_EmptySet DEF S

\* The end of s has all of them when what is before is less than t.
LEMMA SinceEnd ==
    ASSUME NEW s \in Seq(Nat), NEW q \in Seq(Nat), NEW t \in Int,
           NEW i \in 1..Len(s) + 1,
           Len(q) = Len(s) - i + 1,
           \A j \in 1..Len(q) : q[j] = s[i + j - 1],
           \A j \in 1..i - 1 : ~(s[j] >= t)
    PROVE  Cardinality(Since(s, t)) <= Cardinality(Since(q, t))
<1> DEFINE S == Since(s, t)
           T == Since(q, t)
           f == [j \in S |-> j - i + 1]
<1>1. Len(s) \in Nat /\ DOMAIN q = 1..Len(q) /\ DOMAIN s = 1..Len(s)
  OBVIOUS
<1>2. ASSUME NEW j \in S PROVE j - i + 1 \in T
  <2>1. j \in 1..Len(s) /\ s[j] >= t
    BY <1>1 DEF Since
  <2>2. j >= i
    BY <2>1
  <2>3. j - i + 1 \in 1..Len(q) /\ i + (j - i + 1) - 1 = j
    BY <1>1, <2>1, <2>2
  <2> QED
    BY <1>1, <2>1, <2>3 DEF Since
<1>3. S \subseteq Int
  BY <1>1 DEF Since
<1>4. f \in [S -> T]
  BY <1>2
<1>5. \A x, y \in S : f[x] = f[y] => x = y
  BY <1>3
<1> HIDE DEF f, S, T
<1>6. f \in Injection(S, T)
  BY <1>4, <1>5 DEF Injection, IsInjective
<1>7. IsFiniteSet(T)
  BY SinceFinite DEF T
<1> QED
  BY <1>6, <1>7, FS_Injection DEF S, T

Latest == Max(Offsets)
Earliest == Min(Offsets)

LEMMA OffsetsAre ==
    /\ Latest \in Nat /\ Earliest \in Nat /\ Earliest <= Latest
    /\ Skew = Latest - Earliest
    /\ \A o \in Offsets : Earliest <= o /\ o <= Latest
<1>1. Offsets \in SUBSET Int /\ IsFiniteSet(Offsets) /\ Offsets # {}
  BY ClockAssumption
<1>2. /\ Latest \in Offsets /\ \A o \in Offsets : o <= Latest
      /\ Earliest \in Offsets /\ \A o \in Offsets : Earliest <= o
  BY <1>1, MaxOfFinite, MinOfFinite DEF Latest, Earliest
<1>3. Latest \in Nat /\ Earliest \in Nat
  BY <1>2, ClockAssumption
<1>4. Skew = Latest - Earliest
  BY DEF Skew, Latest, Earliest
<1> QED
  BY <1>2, <1>3, <1>4

\* The restarts of u the next sample of it will count.
Uncounted(u) ==
    IF prev[u] # Unseen /\ nrestarts[u] > prev[u].nrestarts
    THEN nrestarts[u] - prev[u].nrestarts ELSE 0

LEMMA UncountedIs ==
    ASSUME TypeOK, NEW u \in Units
    PROVE  Uncounted(u) \in Nat
<1>1. nrestarts[u] \in Nat /\ prev[u].nrestarts \in Nat
  BY MonitorBounds DEF TypeOK
<1> QED
  BY <1>1 DEF Uncounted

LEMMA StampedIs ==
    ASSUME TypeOK, NEW u \in Units
    PROVE  LET s == Stamped(u)
           IN  /\ s \in Seq(Nat) /\ Len(s) = Len(restarts[u]) + Uncounted(u)
               /\ \A i \in 1..Len(restarts[u]) : s[i] = restarts[u][i]
               /\ \A i \in Len(restarts[u]) + 1..Len(s) : s[i] = Wall
<1> DEFINE n == Uncounted(u)
           q == [i \in 1..n |-> Wall]
           s == Stamped(u)
<1>1. n \in Nat
  BY UncountedIs
<1>2. s = restarts[u] \o q
  BY DEF Stamped, Uncounted
<1>3. Wall \in Nat /\ restarts[u] \in Seq(Nat)
  BY ClockAssumption, MonitorBounds DEF TypeOK, Wall
<1> HIDE DEF n, s
<1>4. q \in Seq(Nat) /\ Len(q) = n /\ \A i \in 1..n : q[i] = Wall
  BY <1>1, <1>3
<1> HIDE DEF q
<1>5. /\ s \in Seq(Nat) /\ Len(s) = Len(restarts[u]) + n
      /\ \A i \in 1..Len(restarts[u]) : s[i] = restarts[u][i]
      /\ \A i \in 1..n : s[Len(restarts[u]) + i] = q[i]
  <2> DEFINE r == restarts[u]
  <2>1. r \in Seq(Nat) /\ q \in Seq(Nat) /\ s = r \o q
    BY <1>2, <1>3, <1>4
  <2> HIDE DEF r
  <2>2. /\ s \in Seq(Nat) /\ Len(s) = Len(r) + Len(q)
        /\ \A i \in 1..Len(r) : s[i] = r[i]
        /\ \A i \in 1..Len(q) : s[Len(r) + i] = q[i]
    BY <2>1, ConcatProperties
  <2> QED
    BY <1>4, <2>2 DEF r
<1>6. ASSUME NEW i \in Len(restarts[u]) + 1..Len(s) PROVE s[i] = Wall
  <2> DEFINE l == Len(restarts[u])
  <2>1. l \in Nat /\ i - l \in 1..n /\ l + (i - l) = i
    BY <1>1, <1>3, <1>5
  <2> HIDE DEF l
  <2>2. s[l + (i - l)] = Wall
    BY <1>4, <1>5, <2>1 DEF l
  <2> QED
    BY <2>1, <2>2
<1> QED
  BY <1>5, <1>6 DEF n, s

\* The stamps from each place of the deque on, and the restarts not counted
\* yet, are no more than the restarts since that stamp, and the sample before.
Genuine(u) ==
    /\ \A i \in DOMAIN restarted[u] : restarted[u][i] <= now
    /\ prev[u] = Unseen <=> sampled[u].last = Never
    /\ prev[u] = Unseen => restarts[u] = <<>>
    /\ prev[u] # Unseen =>
          Cardinality(Since(restarted[u], sampled[u].last)) >= Uncounted(u)
    /\ \A i \in 1..Len(restarts[u]) :
          LET first == restarts[u][i] - Latest - sampled[u].gap
          IN  /\ first <= now
              /\ Cardinality(Since(restarted[u], first))
                    >= Len(restarts[u]) - i + 1 + Uncounted(u)

Later(t, s) == IF t >= s THEN t ELSE s

\* The restarts within the window, since the count is unbroken, are no more
\* than the stamps within the window, and the restarts not counted yet.
Kept(u) ==
    since[u] # Never =>
        /\ since[u] <= now /\ prev[u] # Unseen
        /\ nrestarts[u] >= prev[u].nrestarts
        /\ \A t \in Int : t >= now - Window + Skew =>
              Cardinality(Since(restarted[u], Later(t, since[u] + 1)))
                  <= Uncounted(u) + Cardinality(Since(restarts[u], t + Earliest))

LoopInv == TypeOK /\ \A u \in Units : Genuine(u) /\ Kept(u)

LEMMA UnitTypes ==
    ASSUME TypeOK, NEW u \in Units
    PROVE  /\ now \in Nat /\ restarted[u] \in Seq(Nat) /\ restarts[u] \in Seq(Nat)
           /\ nrestarts[u] \in Nat /\ prev[u].nrestarts \in Nat
           /\ since[u] \in Nat /\ sampled[u].gap \in Nat /\ sampled[u].last \in Nat
           /\ Wall \in Nat /\ offset \in Offsets /\ offset \in Nat
<1>1. restarted[u] \in Seq(0..MaxTime) /\ restarts[u] \in Seq(Nat) /\ now \in Nat
  BY DEF TypeOK
<1>2. restarted[u] \in Seq(Nat)
  <2>2. \A i \in 1..Len(restarted[u]) : restarted[u][i] \in 0..MaxTime
    BY <1>1, ElementOfSeq
  <2>1. \A i \in 1..Len(restarted[u]) : restarted[u][i] \in Nat
    BY <2>2
  <2> QED
    BY <1>1, <2>1
<1>3. /\ nrestarts[u] \in Nat /\ prev[u].nrestarts \in Nat /\ since[u] \in Nat
  BY MonitorBounds DEF TypeOK, Never
<1>4. sampled[u].gap \in Nat /\ sampled[u].last \in Nat
  <2>1. sampled[u] \in [last : 0..now \cup {Never}, gap : 0..now]
    BY DEF TypeOK
  <2> QED
    BY <1>1, <2>1, MonitorBounds DEF Never
<1>5. offset \in Offsets /\ offset \in Nat
  BY ClockAssumption DEF TypeOK
<1> QED
  BY <1>1, <1>2, <1>3, <1>4, <1>5 DEF Wall

\* What does not restart a unit, nor sample it, keeps both.
LEMMA QuietStep ==
    ASSUME TypeOK, TypeOK', NEW u \in Units, Genuine(u), Kept(u),
           now' >= now, restarted'[u] = restarted[u], prev'[u] = prev[u],
           restarts'[u] = restarts[u], sampled'[u] = sampled[u],
           \/ since'[u] = since[u] /\ nrestarts'[u] = nrestarts[u]
           \/ since'[u] = Never /\ nrestarts'[u] = 0
    PROVE  Genuine(u)' /\ Kept(u)'
<1>1. /\ now \in Nat /\ now' \in Nat /\ nrestarts[u] \in Nat /\ prev[u].nrestarts \in Nat
      /\ restarted[u] \in Seq(Nat) /\ restarts[u] \in Seq(Nat)
      /\ sampled[u].gap \in Nat /\ sampled[u].last \in Nat
  <2>1. now' \in Nat
    BY DEF TypeOK
  <2> QED
    BY <2>1, UnitTypes
<1>2. Uncounted(u) \in Nat /\ Uncounted(u)' \in Nat /\ Uncounted(u)' <= Uncounted(u)
  BY <1>1 DEF Uncounted
<1>3. Genuine(u)'
  <2>1. \A i \in DOMAIN restarted'[u] : restarted'[u][i] <= now'
    <3>1. \A i \in DOMAIN restarted[u] : restarted[u][i] \in Nat /\ restarted[u][i] <= now
      BY <1>1 DEF Genuine
    <3> QED
      BY <1>1, <3>1
  <2>2. prev'[u] # Unseen =>
            Cardinality(Since(restarted[u], sampled[u].last)) >= Uncounted(u)'
    <3> DEFINE c == Cardinality(Since(restarted[u], sampled[u].last))
    <3>1. c \in Nat /\ (prev[u] # Unseen => c >= Uncounted(u))
      BY <1>1, SinceFinite DEF Genuine
    <3> HIDE DEF c
    <3> QED
      BY <1>2, <3>1 DEF c
  <2>3. ASSUME NEW i \in 1..Len(restarts[u])
        PROVE  LET first == restarts[u][i] - Latest - sampled[u].gap
               IN  /\ first <= now'
                   /\ Cardinality(Since(restarted[u], first))
                         >= Len(restarts[u]) - i + 1 + Uncounted(u)'
    <3> DEFINE first == restarts[u][i] - Latest - sampled[u].gap
               c == Cardinality(Since(restarted[u], first))
               l == Len(restarts[u])
    <3>1. c \in Nat /\ c >= l - i + 1 + Uncounted(u) /\ first <= now
      BY <1>1, SinceFinite DEF Genuine
    <3>2. first \in Int /\ l \in Nat
      <4>1. restarts[u] \in Seq(Nat) /\ sampled[u].gap \in Nat /\ Latest \in Nat
        BY <1>1, OffsetsAre
      <4>2. restarts[u][i] \in Nat
        BY <4>1, ElementOfSeq
      <4>3. l \in Nat
        BY <4>1, LenProperties
      <4> QED
        BY <4>1, <4>2, <4>3
    <3>4. i \in Nat
      OBVIOUS
    <3> HIDE DEF c, first, l
    <3>3. first <= now' /\ c >= l - i + 1 + Uncounted(u)'
      BY <1>1, <1>2, <3>1, <3>2, <3>4
    <3> QED
      BY <3>3 DEF c, first, l
  <2> QED
    BY <2>1, <2>2, <2>3 DEF Genuine
<1>4. Kept(u)'
  <2> SUFFICES ASSUME since'[u] # Never PROVE Kept(u)'
    BY DEF Kept
  <2>1. since'[u] = since[u] /\ nrestarts'[u] = nrestarts[u] /\ since[u] # Never
    OBVIOUS
  <2>2. Uncounted(u)' = Uncounted(u)
    BY <2>1 DEF Uncounted
  <2>3. since[u] <= now' /\ since[u] \in Nat
    BY <1>1, <2>1, UnitTypes DEF Kept
  <2>4. \A t \in Int : t >= now' - Window + Skew => t >= now - Window + Skew
    BY <1>1, OffsetsAre, TimingAssumption
  <2> QED
    BY <2>1, <2>2, <2>3, <2>4 DEF Kept
<1> QED
  BY <1>3, <1>4

\* A restart is one more to count, and one more of any time up to now.
LEMMA RestartStep ==
    ASSUME TypeOK, TypeOK', NEW u \in Units, Genuine(u), Kept(u),
           AutoRestart(u), UNCHANGED <<monitor, history, session>>
    PROVE  Genuine(u)' /\ Kept(u)'
<1> DEFINE R == restarted[u]
           n == Uncounted(u)
           dq == restarts[u]
           g == sampled[u].gap
<1>1. /\ now \in Nat /\ nrestarts[u] \in Nat /\ prev[u].nrestarts \in Nat
      /\ R \in Seq(Nat) /\ dq \in Seq(Nat)
      /\ g \in Nat /\ sampled[u].last \in Nat /\ since[u] \in Nat
  BY UnitTypes
<1>2. /\ now' = now /\ since' = since /\ prev' = prev /\ restarts' = restarts
      /\ sampled' = sampled
      /\ nrestarts'[u] = nrestarts[u] + 1 /\ restarted'[u] = Append(R, now)
  BY DEF AutoRestart, TypeOK, monitor, history
<1>3. /\ n \in Nat /\ Uncounted(u)' \in Nat /\ Uncounted(u)' <= n + 1
      /\ prev[u] # Unseen /\ nrestarts[u] >= prev[u].nrestarts => Uncounted(u)' = n + 1
  BY <1>1, <1>2 DEF Uncounted
<1> DEFINE m == Uncounted(u)'
<1>4. \A t \in Int :
         /\ Cardinality(Since(R, t)) \in Nat
         /\ t <= now => Cardinality(Since(Append(R, now), t))
                            = Cardinality(Since(R, t)) + 1
         /\ Cardinality(Since(Append(R, now), t)) \in Nat
         /\ Cardinality(Since(Append(R, now), t)) <= Cardinality(Since(R, t)) + 1
  <2>1. Append(R, now) \in Seq(Nat)
    BY <1>1, AppendProperties
  <2> HIDE DEF R
  <2> QED
    BY <1>1, <2>1, SinceFinite, SinceAppend
<1>5. Genuine(u)'
  <2>1. \A i \in DOMAIN restarted'[u] : restarted'[u][i] <= now'
    <3>1. \A i \in 1..Len(R) : R[i] <= now
      BY DEF Genuine
    <3>2. /\ DOMAIN restarted'[u] = 1..Len(R) + 1 /\ Len(R) \in Nat
          /\ restarted'[u][Len(R) + 1] = now
          /\ \A i \in 1..Len(R) : restarted'[u][i] = R[i]
      <4> HIDE DEF R
      <4> QED
        BY <1>1, <1>2, AppendProperties
    <3> HIDE DEF R
    <3> QED
      BY <1>1, <1>2, <3>1, <3>2
  <2>2. prev'[u] # Unseen =>
            Cardinality(Since(restarted'[u], sampled'[u].last)) >= m
    <3> SUFFICES ASSUME prev[u] # Unseen
                 PROVE  Cardinality(Since(restarted'[u], sampled[u].last)) >= m
      BY <1>2
    <3> DEFINE t == sampled[u].last
               c == Cardinality(Since(R, t))
    <3>1. t \in Int /\ t <= now /\ c >= n
      <4>1. t # Never
        BY DEF Genuine
      <4>2. sampled[u] \in [last : 0..now \cup {Never}, gap : 0..now]
        BY DEF TypeOK
      <4> QED
        BY <1>1, <4>1, <4>2 DEF Genuine
    <3> HIDE DEF t
    <3>2. c \in Nat /\ Cardinality(Since(restarted'[u], t)) = c + 1
      BY <1>2, <1>4, <3>1
    <3> HIDE DEF c, n, m
    <3>3. c + 1 >= m
      BY <1>3, <3>1, <3>2 DEF n, m
    <3> QED
      BY <3>2, <3>3 DEF t
  <2>3. ASSUME NEW i \in 1..Len(dq)
        PROVE  LET first == dq[i] - Latest - g
               IN  /\ first <= now
                   /\ Cardinality(Since(restarted'[u], first)) >= Len(dq) - i + 1 + m
    <3> DEFINE t == dq[i] - Latest - g
               c == Cardinality(Since(R, t))
               l == Len(dq)
    <3>1. c >= l - i + 1 + n /\ t <= now
      BY DEF Genuine
    <3>2. t \in Int /\ l \in Nat
      <4>1. dq[i] \in Nat
        <5> HIDE DEF dq
        <5> QED
          BY <1>1, ElementOfSeq
      <4>2. g \in Nat /\ Latest \in Nat /\ l \in Nat
        BY <1>1, OffsetsAre
      <4> HIDE DEF g, dq
      <4>3. dq[i] - Latest - g \in Int
        BY <4>1, <4>2
      <4> QED
        BY <4>2, <4>3 DEF t
    <3>3. i \in Nat
      OBVIOUS
    <3> HIDE DEF t, l
    <3>4. c \in Nat /\ Cardinality(Since(restarted'[u], t)) = c + 1
      BY <1>2, <1>4, <3>1, <3>2
    <3> HIDE DEF c, n, m
    <3>5. c + 1 >= l - i + 1 + m
      BY <1>3, <3>1, <3>2, <3>3, <3>4 DEF n, m
    <3> QED
      BY <3>1, <3>4, <3>5 DEF t, l
  <2> QED
    BY <1>2, <2>1, <2>2, <2>3 DEF Genuine
<1>6. Kept(u)'
  <2> SUFFICES ASSUME since[u] # Never PROVE Kept(u)'
    BY <1>2 DEF Kept
  <2>1. /\ since[u] <= now /\ prev[u] # Unseen /\ nrestarts[u] >= prev[u].nrestarts
        /\ m = n + 1
    BY <1>3 DEF Kept
  <2>2. nrestarts'[u] >= prev'[u].nrestarts
    BY <1>1, <1>2, <2>1
  <2>3. ASSUME NEW t \in Int, t >= now - Window + Skew
        PROVE  Cardinality(Since(restarted'[u], Later(t, since[u] + 1)))
                  <= m + Cardinality(Since(dq, t + Earliest))
    <3> DEFINE x == Later(t, since[u] + 1)
               c == Cardinality(Since(R, x))
               d == Cardinality(Since(dq, t + Earliest))
    <3>1. c <= n + d
      BY <2>3 DEF Kept
    <3>2. x \in Int
      BY <1>1 DEF Later
    <3>3. d \in Nat
      BY <1>1, SinceFinite
    <3> HIDE DEF x
    <3>4. c \in Nat /\ Cardinality(Since(restarted'[u], x)) \in Nat
          /\ Cardinality(Since(restarted'[u], x)) <= c + 1
      BY <1>2, <1>4, <3>2
    <3> DEFINE b == Cardinality(Since(restarted'[u], x))
    <3>6. b \in Nat /\ b <= c + 1
      BY <3>4
    <3> HIDE DEF b, c, d, n, m
    <3>7. b <= m + d
      BY <1>3, <2>1, <3>1, <3>3, <3>4, <3>6 DEF n, m
    <3> QED
      BY <3>7 DEF b, x, d
  <2> QED
    BY <1>2, <2>1, <2>2, <2>3 DEF Kept
<1> QED
  BY <1>5, <1>6

\* What the poll finds in the deque, before it drops the old stamps.
LEMMA StampsGenuine ==
    ASSUME TypeOK, NEW u \in Units, Genuine(u)
    PROVE  \A j \in 1..Len(Stamped(u)) :
              LET first == Stamped(u)[j] - Latest - Unsampled(u)
              IN  /\ first \in Int /\ first <= now
                  /\ Cardinality(Since(restarted[u], first))
                        >= Len(Stamped(u)) - j + 1
<1> DEFINE R == restarted[u]
           n == Uncounted(u)
           dq == restarts[u]
           s == Stamped(u)
           g == sampled[u].gap
           last == sampled[u].last
           G == Unsampled(u)
<1>1. /\ now \in Nat /\ Wall \in Nat /\ offset \in Nat /\ offset \in Offsets
      /\ R \in Seq(Nat) /\ dq \in Seq(Nat) /\ Len(dq) \in Nat
      /\ g \in Nat /\ last \in Nat
  BY UnitTypes
<1>2. /\ n \in Nat /\ s \in Seq(Nat) /\ Len(s) = Len(dq) + n
      /\ \A i \in 1..Len(dq) : s[i] = dq[i]
      /\ \A i \in Len(dq) + 1..Len(s) : s[i] = Wall
  BY StampedIs, UncountedIs
<1>3. /\ G \in Nat
      /\ last # Never => G >= g /\ G >= now - last
  BY UnsampledIs, <1>1
<1>4. /\ prev[u] = Unseen <=> last = Never
      /\ prev[u] = Unseen => dq = <<>> /\ n = 0
      /\ last # Never => Cardinality(Since(R, last)) >= n
      /\ \A i \in 1..Len(dq) :
            /\ dq[i] - Latest - g <= now
            /\ Cardinality(Since(R, dq[i] - Latest - g)) >= Len(dq) - i + 1 + n
  BY DEF Genuine, Uncounted
<1>5. Latest \in Nat /\ offset <= Latest /\ Wall = now + offset
  BY <1>1, OffsetsAre DEF Wall
<1> SUFFICES ASSUME NEW j \in 1..Len(s)
             PROVE  LET first == s[j] - Latest - G
                    IN  /\ first \in Int /\ first <= now
                        /\ Cardinality(Since(R, first)) >= Len(s) - j + 1
  OBVIOUS
<1> HIDE DEF R, n, dq, s, g, last, G
<1>6. CASE j <= Len(dq)
  <2> DEFINE t == dq[j] - Latest - g
             first == s[j] - Latest - G
             c == Cardinality(Since(R, t))
             d == Cardinality(Since(R, first))
             l == Len(dq)
  <2>1. j \in 1..l /\ dq[j] \in Nat /\ s[j] = dq[j] /\ l \in Nat
    <3>1. j \in 1..l
      BY <1>1, <1>6
    <3> QED
      BY <1>1, <1>2, <3>1, ElementOfSeq
  <2>2. last # Never
    <3>1. dq # <<>>
      BY <2>1
    <3> QED
      BY <1>4, <3>1
  <2>3. t \in Int /\ first \in Int /\ first <= t /\ t <= now
    <3>1. t <= now
      BY <1>4, <2>1
    <3>2. t \in Int /\ first \in Int /\ first <= t
      <4> DEFINE a == dq[j]
      <4>1. t = a - Latest - g /\ first = a - Latest - G
        BY <2>1
      <4>2. a \in Nat /\ g \in Nat /\ G \in Nat /\ G >= g /\ Latest \in Nat
        BY <1>1, <1>3, <1>5, <2>1, <2>2
      <4> HIDE DEF a, t, first
      <4>3. a - Latest - g \in Int /\ a - Latest - G \in Int
            /\ a - Latest - G <= a - Latest - g
        BY <4>2
      <4> QED
        BY <4>1, <4>3
    <3> QED
      BY <3>1, <3>2
  <2>4. c >= l - j + 1 + n
    BY <1>4, <2>1
  <2> HIDE DEF t, first
  <2>5. c \in Nat /\ d \in Nat /\ c <= d
    BY <1>1, <2>3, SinceFinite, SinceEarlier
  <2> HIDE DEF c, d, l
  <2>6. d >= l + n - j + 1
    BY <1>2, <2>1, <2>4, <2>5
  <2>7. first <= now
    BY <1>1, <2>3
  <2> QED
    BY <1>2, <2>3, <2>6, <2>7 DEF d, first, l
<1>7. CASE ~(j <= Len(dq))
  <2> DEFINE first == s[j] - Latest - G
             c == Cardinality(Since(R, last))
             d == Cardinality(Since(R, first))
             l == Len(dq)
  <2>1. j \in l + 1..Len(s) /\ s[j] = Wall /\ l \in Nat
    BY <1>1, <1>2, <1>7
  <2>2. n # 0 /\ last # Never
    BY <1>2, <1>4, <2>1
  <2>3. first \in Int /\ first <= last /\ first <= now
    BY <1>1, <1>3, <1>5, <2>1, <2>2
  <2>4. c >= n
    BY <1>4, <2>2
  <2> HIDE DEF first
  <2>5. c \in Nat /\ d \in Nat /\ c <= d
    BY <1>1, <2>3, SinceFinite, SinceEarlier
  <2> HIDE DEF c, d, l
  <2>6. d >= l + n - j + 1
    BY <1>2, <2>1, <2>4, <2>5
  <2> QED
    BY <1>2, <2>3, <2>6 DEF d, first, l
<1> QED
  BY <1>6, <1>7

\* No restart is later than now.
LEMMA NoneLater ==
    ASSUME TypeOK, NEW u \in Units, Genuine(u), NEW t \in Int, t > now
    PROVE  Cardinality(Since(restarted[u], t)) = 0
<1>1. \A i \in DOMAIN restarted[u] : restarted[u][i] \in Nat
  BY UnitTypes, ElementOfSeq
<1>2. \A i \in DOMAIN restarted[u] : ~(restarted[u][i] >= t)
  BY <1>1, UnitTypes DEF Genuine
<1>3. Since(restarted[u], t) = {}
  BY <1>2 DEF Since
<1> QED
  BY <1>3, FS_EmptySet

\* The old stamps it drops are of restarts before the window.
LEMMA StampsKept ==
    ASSUME TypeOK, NEW u \in Units, Genuine(u), Kept(u), since[u] # Never,
           NEW t \in Int, t >= now - Window + Skew
    PROVE  Cardinality(Since(restarted[u], Later(t, since[u] + 1)))
               <= Cardinality(Since(InWindow(Stamped(u)), t + Earliest))
<1> DEFINE x == Later(t, since[u] + 1)
           c == Cardinality(Since(restarted[u], x))
           n == Uncounted(u)
           dq == restarts[u]
           s == Stamped(u)
           q == InWindow(s)
           y == t + Earliest
<1>1. /\ now \in Nat /\ Wall \in Nat /\ offset \in Nat /\ offset \in Offsets
      /\ dq \in Seq(Nat) /\ since[u] \in Nat
  BY UnitTypes
<1>2. /\ n \in Nat /\ s \in Seq(Nat) /\ Len(s) = Len(dq) + n
      /\ \A i \in 1..Len(dq) : s[i] = dq[i]
      /\ \A i \in Len(dq) + 1..Len(s) : s[i] = Wall
  BY StampedIs, UncountedIs
<1>3. /\ Earliest <= offset /\ offset <= Latest /\ Wall = now + offset
      /\ Earliest \in Nat /\ Latest \in Nat /\ Skew = Latest - Earliest
      /\ Window \in Nat
  BY <1>1, OffsetsAre, TimingAssumption DEF Wall
<1>4. c <= n + Cardinality(Since(dq, y))
  BY DEF Kept
<1>5. x \in Int /\ x >= t /\ y \in Int
  <2>1. since[u] + 1 \in Int
    BY <1>1
  <2>2. \A a, b \in Int : Later(a, b) \in Int /\ Later(a, b) >= a
    BY DEF Later
  <2>3. y \in Int
    BY <1>3
  <2> QED
    BY <2>1, <2>2, <2>3
<1> HIDE DEF s
<1>6. /\ q \in Seq(Nat)
      /\ \E i \in 1..Len(s) + 1 :
            /\ Len(q) = Len(s) - i + 1
            /\ \A j \in 1..Len(q) : q[j] = s[i + j - 1]
            /\ \A j \in 1..i - 1 : Wall - s[j] > Window
  BY <1>1, <1>2, InWindowIs
<1> HIDE DEF x, dq, q, n, y
<1>7. Cardinality(Since(q, y)) \in Nat
  BY <1>6, SinceFinite
<1>8. CASE t > now
  <2>1. x > now
    BY <1>1, <1>5, <1>8
  <2>2. c = 0
    BY <1>5, <2>1, NoneLater
  <2> HIDE DEF c
  <2>3. c <= Cardinality(Since(q, y))
    BY <1>7, <2>2
  <2> QED
    BY <2>3 DEF c, x, s, q, y
<1>9. CASE ~(t > now)
  <2>1. Wall >= y
    BY <1>1, <1>3, <1>9 DEF y
  <2>2. Cardinality(Since(s, y)) = Cardinality(Since(dq, y)) + n
    <3>1. \A i \in Len(dq) + 1..Len(s) : s[i] >= y
      BY <1>2, <2>1
    <3> QED
      BY <1>1, <1>2, <1>5, <3>1, SinceMore
  <2>3. PICK i \in 1..Len(s) + 1 :
            /\ Len(q) = Len(s) - i + 1
            /\ \A j \in 1..Len(q) : q[j] = s[i + j - 1]
            /\ \A j \in 1..i - 1 : Wall - s[j] > Window
    BY <1>6
  <2>4. ASSUME NEW j \in 1..i - 1 PROVE ~(s[j] >= y)
    <3>1. j \in 1..Len(s)
      BY <1>2
    <3>2. s[j] \in Nat
      BY <1>2, <3>1, ElementOfSeq
    <3>3. Wall - s[j] > Window
      BY <2>3
    <3> QED
      BY <1>1, <1>3, <1>9, <3>2, <3>3 DEF y
  <2>5. Cardinality(Since(s, y)) <= Cardinality(Since(q, y))
    BY <1>2, <1>5, <1>6, <2>3, <2>4, SinceEnd
  <2>6. /\ Cardinality(Since(s, y)) \in Nat /\ Cardinality(Since(dq, y)) \in Nat
        /\ c \in Nat
    <3>1. restarted[u] \in Seq(Nat)
      BY UnitTypes
    <3> QED
      BY <1>1, <1>2, <3>1, SinceFinite
  <2> HIDE DEF c
  <2>7. c <= Cardinality(Since(q, y))
    BY <1>2, <1>4, <1>7, <2>2, <2>5, <2>6
  <2> QED
    BY <2>7 DEF c, x, s, q, y
<1> QED
  BY <1>8, <1>9

\* A poll that sees u turns what it had not counted into stamps.
LEMMA SampleStep ==
    ASSUME TypeOK, TypeOK', NEW seen \in Sightings, Poll(seen), NEW u \in seen,
           Genuine(u), Kept(u)
    PROVE  Genuine(u)' /\ Kept(u)'
<1> DEFINE R == restarted[u]
           s == Stamped(u)
           q == InWindow(s)
           G == Unsampled(u)
<1>0. u \in Units
  BY SightAssumption
<1>1. /\ now \in Nat /\ Wall \in Nat /\ R \in Seq(Nat) /\ s \in Seq(Nat)
      /\ nrestarts[u] \in Nat /\ G \in Nat
  BY <1>0, UnitTypes, StampedIs, UnsampledIs
<1>2. /\ now' = now /\ restarted' = restarted /\ nrestarts' = nrestarts
      /\ restarts'[u] = q
      /\ prev'[u] = [state |-> state[u], nrestarts |-> nrestarts[u]]
      /\ since'[u] = IF since[u] = Never THEN now ELSE since[u]
      /\ sampled'[u] = [last |-> now, gap |-> G]
  BY <1>0 DEF Poll, world
<1>3. prev'[u] # Unseen
  <2>1. state[u] \in States
    BY <1>0 DEF TypeOK
  <2>2. prev'[u].state # "unseen"
    BY <1>2, <2>1, StatesAssumption
  <2> QED
    BY <2>2 DEF Unseen
<1>4. Uncounted(u)' = 0
  <2>1. nrestarts'[u] = nrestarts[u] /\ prev'[u].nrestarts = nrestarts[u]
    BY <1>2
  <2>2. ~(nrestarts'[u] > prev'[u].nrestarts)
    BY <1>1, <2>1
  <2> QED
    BY <2>2 DEF Uncounted
<1>5. now # Never /\ now \in Int
  BY MonitorBounds DEF TypeOK, Never
<1>6. Genuine(u)'
  <2>1. \A i \in DOMAIN restarted'[u] : restarted'[u][i] <= now'
    BY <1>2 DEF Genuine
  <2>2. Cardinality(Since(restarted'[u], now)) >= 0
    <3>1. Cardinality(Since(R, now)) \in Nat
      BY <1>1, SinceFinite
    <3> QED
      BY <1>2, <3>1
  <2>3. ASSUME NEW i \in 1..Len(q)
        PROVE  LET first == q[i] - Latest - G
               IN  /\ first <= now
                   /\ Cardinality(Since(R, first)) >= Len(q) - i + 1 + 0
    <3>0. q \in Seq(Nat) /\ Len(q) \in Nat
      <4> HIDE DEF s
      <4> QED
        BY <1>1, InWindowIs
    <3>1. PICK k \in 1..Len(s) + 1 :
             /\ Len(q) = Len(s) - k + 1
             /\ \A j \in 1..Len(q) : q[j] = s[k + j - 1]
      <4> HIDE DEF s
      <4> QED
        BY <1>1, InWindowIs
    <3> DEFINE j == k + i - 1
               c == Cardinality(Since(R, s[j] - Latest - G))
    <3>2. j \in 1..Len(s) /\ Len(s) - j + 1 = Len(q) - i + 1 + 0
      <4> HIDE DEF q, s
      <4> QED
        BY <1>1, <3>0, <3>1
    <3>3. q[i] = s[j]
      BY <3>1
    <3>4. s[j] - Latest - G <= now /\ c >= Len(s) - j + 1
      BY <1>0, <3>2, StampsGenuine
    <3> HIDE DEF j, q, s, G
    <3> QED
      BY <3>2, <3>3, <3>4
  <2> HIDE DEF q, G
  <2>4. /\ sampled'[u].last = now /\ sampled'[u].gap = G /\ restarted'[u] = R
    BY <1>2
  <2> QED
    BY <1>2, <1>3, <1>4, <1>5, <2>1, <2>2, <2>3, <2>4 DEF Genuine
<1>7. Kept(u)'
  <2>1. since'[u] <= now' /\ nrestarts'[u] >= prev'[u].nrestarts
    BY <1>1, <1>2 DEF Kept
  <2>2. ASSUME NEW t \in Int, t >= now - Window + Skew
        PROVE  Cardinality(Since(R, Later(t, since'[u] + 1)))
                  <= 0 + Cardinality(Since(q, t + Earliest))
    <3>0. q \in Seq(Nat)
      <4> HIDE DEF s
      <4> QED
        BY <1>1, InWindowIs
    <3> DEFINE d == Cardinality(Since(q, t + Earliest))
    <3>1. d \in Nat
      BY <3>0, SinceFinite
    <3>2. CASE since[u] = Never
      <4> DEFINE x == Later(t, now + 1)
      <4>1. x \in Int /\ x > now
        <5>1. \A a, b \in Int : Later(a, b) \in Int /\ Later(a, b) >= b
          BY DEF Later
        <5>2. now + 1 \in Int
          BY <1>1
        <5>3. x \in Int /\ x >= now + 1
          BY <5>1, <5>2
        <5> HIDE DEF x
        <5> QED
          BY <1>1, <5>3
      <4> HIDE DEF x
      <4>2. Cardinality(Since(R, x)) = 0
        BY <1>0, <4>1, NoneLater
      <4>3. since'[u] = now
        BY <1>2, <3>2
      <4> HIDE DEF d
      <4>4. 0 <= 0 + d
        BY <3>1
      <4> QED
        BY <4>2, <4>3, <4>4 DEF x, d
    <3>3. CASE since[u] # Never
      <4>1. since'[u] = since[u]
        BY <1>2, <3>3
      <4> DEFINE c == Cardinality(Since(R, Later(t, since[u] + 1)))
      <4>2. c <= d
        BY <1>0, <2>2, <3>3, StampsKept
      <4> HIDE DEF c, d
      <4>3. 0 + d = d
        BY <3>1
      <4> QED
        BY <4>1, <4>2, <4>3 DEF c, d
    <3> QED
      BY <3>2, <3>3
  <2> HIDE DEF q
  <2> QED
    BY <1>2, <1>3, <1>4, <2>1, <2>2 DEF Kept
<1> QED
  BY <1>6, <1>7

LEMMA LoopInit == Init => LoopInv
<1> SUFFICES ASSUME Init PROVE LoopInv
  OBVIOUS
<1>1. TypeOK
  BY TypeInit DEF TypeInv
<1>2. ASSUME NEW u \in Units PROVE Genuine(u) /\ Kept(u)
  <2>1. /\ prev[u] = Unseen /\ restarts[u] = <<>> /\ restarted[u] = <<>>
        /\ since[u] = Never /\ sampled[u].last = Never
    BY DEF Init, WorldInit, MonitorInit, Fresh, NotSampled
  <2> QED
    BY <2>1 DEF Genuine, Kept
<1> QED
  BY <1>1, <1>2 DEF LoopInv

LEMMA LoopNext == LoopInv /\ TypeInv /\ [Next]_vars => LoopInv'
<1> SUFFICES ASSUME LoopInv, TypeInv, [Next]_vars PROVE LoopInv'
  OBVIOUS
<1>0. TypeOK /\ TypeOK'
  BY TypeNext DEF TypeInv, LoopInv
<1> SUFFICES ASSUME NEW u \in Units PROVE Genuine(u)' /\ Kept(u)'
  BY <1>0 DEF LoopInv
<1>1. Genuine(u) /\ Kept(u)
  BY DEF LoopInv
<1>2. now \in Nat /\ now' \in Nat
  BY <1>0 DEF TypeOK
<1>3. ASSUME UNCHANGED <<prev, restarts, sampled>>, now' >= now,
             restarted'[u] = restarted[u],
             \/ since'[u] = since[u] /\ nrestarts'[u] = nrestarts[u]
             \/ since'[u] = Never /\ nrestarts'[u] = 0
      PROVE  Genuine(u)' /\ Kept(u)'
  BY <1>0, <1>1, <1>3, QuietStep
<1>4. CASE WorldStep
  <2>0. UNCHANGED <<monitor, history, session>>
    BY <1>4 DEF WorldStep
  <2>1. UNCHANGED <<prev, restarts, sampled>>
    BY <2>0 DEF monitor, history
  <2>2. ASSUME NEW v \in Units, Fail(v) \/ StopUnit(v) \/ ComeUp(v)
        PROVE  UNCHANGED <<now, restarted, since, nrestarts>>
    BY <2>2 DEF Fail, StopUnit, ComeUp
  <2>3. ASSUME NEW v \in Units, StartUnit(v)
        PROVE  /\ now' = now /\ restarted' = restarted
               /\ \/ since'[u] = since[u] /\ nrestarts'[u] = nrestarts[u]
                  \/ since'[u] = Never /\ nrestarts'[u] = 0
    BY <1>0, <2>3 DEF StartUnit, TypeOK
  <2>4. ASSUME NEW v \in Units, AutoRestart(v), v # u
        PROVE  /\ now' = now /\ restarted'[u] = restarted[u]
               /\ since'[u] = since[u] /\ nrestarts'[u] = nrestarts[u]
    BY <1>0, <2>4 DEF AutoRestart, TypeOK
  <2>5. CASE Pass \/ SetClock
    <3>1. now' >= now /\ UNCHANGED <<restarted, since, nrestarts>>
      BY <1>2, <2>5 DEF Pass, SetClock
    <3> QED
      BY <1>3, <2>1, <3>1
  <2>6. CASE AutoRestart(u)
    BY <1>0, <1>1, <2>0, <2>6, RestartStep
  <2>7. now' = now => now' >= now
    BY <1>2
  <2> QED
    BY <1>3, <1>4, <2>1, <2>2, <2>3, <2>4, <2>5, <2>6, <2>7 DEF WorldStep
<1>5. ASSUME NEW seen \in Sightings, Poll(seen) PROVE Genuine(u)' /\ Kept(u)'
  <2>1. CASE u \in seen
    BY <1>0, <1>1, <1>5, <2>1, SampleStep
  <2>2. CASE u \notin seen
    <3>1. /\ now' = now /\ restarted' = restarted /\ nrestarts' = nrestarts
          /\ since'[u] = since[u] /\ prev'[u] = prev[u]
          /\ restarts'[u] = restarts[u] /\ sampled'[u] = sampled[u]
      BY <1>5, <2>2 DEF Poll, world
    <3>2. now' >= now
      BY <1>2, <3>1
    <3> QED
      BY <1>0, <1>1, <3>1, <3>2, QuietStep
  <2> QED
    BY <2>1, <2>2
<1>6. CASE NewSession
  <2>1. /\ now' = now /\ restarted' = restarted
        /\ prev'[u] = Unseen /\ restarts'[u] = <<>>
        /\ since'[u] = Never /\ sampled'[u].last = Never
    BY <1>6 DEF NewSession, Fresh, world, NotSampled
  <2>2. \A i \in DOMAIN restarted'[u] : restarted'[u][i] <= now'
    BY <1>1, <2>1 DEF Genuine
  <2> QED
    BY <2>1, <2>2 DEF Genuine, Kept
<1>7. CASE UNCHANGED vars
  <2>1. /\ UNCHANGED <<prev, restarts, sampled, now, restarted, since, nrestarts>>
    BY <1>7 DEF vars, world, monitor, history
  <2>2. now' >= now
    BY <1>2, <2>1
  <2> QED
    BY <1>3, <2>1, <2>2
<1> QED
  BY <1>4, <1>5, <1>6, <1>7 DEF Next

LEMMA LoopInvariant == Spec => [](LoopInv /\ TypeInv)
  BY LoopInit, LoopNext, TypeInit, TypeNext, PTL DEF Spec

LEMMA SinceIs == \A u, t : RestartsFrom(u, t) = Since(restarted[u], t)
  BY DEF RestartsFrom, Since

LEMMA ReportIsSound ==
    ASSUME LoopInv, NEW seen \in Sightings, Poll(seen), NEW u \in seen,
           "loop" \in Range(report'[u])
    PROVE  Cardinality(RestartsFrom(u, now - Window - sampled'[u].gap - Skew))
               >= Threshold
<1> DEFINE R == restarted[u]
           s == Stamped(u)
           q == InWindow(s)
           G == Unsampled(u)
           t == now - Window - G - Skew
<1>0. u \in Units /\ TypeOK /\ Genuine(u)
  BY SightAssumption DEF LoopInv
<1>1. /\ now \in Nat /\ Wall \in Nat /\ R \in Seq(Nat) /\ s \in Seq(Nat)
      /\ offset \in Nat /\ offset \in Offsets /\ G \in Nat
  BY <1>0, UnitTypes, StampedIs, UnsampledIs
<1>2. sampled'[u].gap = G
  BY <1>0 DEF Poll
<1>3. Len(q) >= Threshold
  <2>1. report'[u] = Events(u)
    BY DEF Poll
  <2> QED
    BY <2>1, EventsType DEF Loops, Over
<1>4. /\ Earliest <= offset /\ Wall = now + offset /\ Skew = Latest - Earliest
      /\ Earliest \in Nat /\ Latest \in Nat /\ Window \in Nat /\ Threshold \in Nat
  BY <1>1, OffsetsAre, TimingAssumption, ThresholdAssumption DEF Wall
<1>5. t \in Int
  BY <1>1, <1>4
<1>6. \A j \in 1..Len(s) :
         LET first == s[j] - Latest - G
         IN  /\ first \in Int
             /\ Cardinality(Since(R, first)) >= Len(s) - j + 1
  BY <1>0, StampsGenuine
<1> DEFINE d == Cardinality(Since(R, t))
<1>7. d \in Nat
  BY <1>1, SinceFinite
<1> HIDE DEF s, G
<1>8. PICK k \in 1..Len(s) + 1 :
         /\ Len(q) = Len(s) - k + 1
         /\ k <= Len(s) => Wall - s[k] <= Window
  BY <1>1, InWindowIs
<1>9. Len(s) \in Nat
  BY <1>1
<1> HIDE DEF q
<1>10. CASE k <= Len(s)
  <2> DEFINE first == s[k] - Latest - G
             c == Cardinality(Since(R, first))
  <2>1. k \in 1..Len(s) /\ s[k] \in Nat
    <3>1. k \in 1..Len(s)
      BY <1>9, <1>10
    <3> QED
      BY <1>1, <3>1, ElementOfSeq
  <2>2. first \in Int /\ c >= Len(q)
    BY <1>6, <1>8, <2>1
  <2>3. t <= first
    <3> DEFINE a == s[k]
    <3>1. a \in Nat /\ Wall - a <= Window
      BY <1>8, <1>10, <2>1
    <3> HIDE DEF a
    <3>2. now - Window - G - Skew <= a - Latest - G
      BY <1>1, <1>4, <3>1 DEF G
    <3> QED
      BY <3>2 DEF a
  <2> HIDE DEF first, t
  <2>4. c \in Nat /\ c <= d
    BY <1>1, <1>5, <2>2, <2>3, SinceFinite, SinceEarlier
  <2>5. Len(q) \in Nat
    BY <1>8, <1>9
  <2> HIDE DEF c, d
  <2>6. d >= Threshold
    BY <1>3, <1>4, <1>7, <2>2, <2>4, <2>5
  <2> QED
    BY <1>2, <2>6, SinceIs DEF d, t
<1>11. CASE ~(k <= Len(s))
  <2>1. Threshold = 0
    BY <1>3, <1>4, <1>8, <1>9, <1>11
  <2> HIDE DEF d
  <2>2. d >= Threshold
    BY <1>7, <2>1
  <2> QED
    BY <1>2, <2>2, SinceIs DEF d, t
<1> QED
  BY <1>10, <1>11

LEMMA LoopIsFound ==
    ASSUME LoopInv, NEW seen \in Sightings, Poll(seen), NEW u \in seen, InLoop(u)
    PROVE  loopActive'[u]
<1> DEFINE R == restarted[u]
           q == InWindow(Stamped(u))
           t == now - Window + Skew
           x == Later(t, since[u] + 1)
           c == Cardinality(Since(R, x))
<1>0. u \in Units /\ TypeOK /\ Genuine(u) /\ Kept(u)
  BY SightAssumption DEF LoopInv
<1>1. /\ now \in Nat /\ R \in Seq(Nat) /\ since[u] \in Nat
      /\ q \in Seq(Nat) /\ Len(q) \in Nat
  <2>1. Stamped(u) \in Seq(Nat) /\ Wall \in Nat
    BY <1>0, StampedIs, UnitTypes
  <2> QED
    BY <1>0, <2>1, UnitTypes, InWindowIs
<1>2. /\ Threshold \in Nat /\ t \in Int /\ t + Earliest \in Int
  BY <1>1, OffsetsAre, TimingAssumption, ThresholdAssumption
<1>3. loopActive'[u] <=> Len(q) >= Threshold
  BY <1>0 DEF Poll, LoopStands, Over
<1>4. c >= Threshold
  <2>1. \A i \in DOMAIN R : R[i] \in Nat
    BY <1>1
  <2>2. ASSUME NEW s \in Int, NEW r \in Int
        PROVE  Since(R, r) \cap Since(R, s) = Since(R, Later(r, s))
    BY <2>1 DEF Since, Later
  <2>3. since[u] + 1 \in Int
    BY <1>1
  <2> QED
    BY <1>2, <2>2, <2>3, SinceIs DEF InLoop
<1> HIDE DEF q, t
<1>5. CASE since[u] = Never
  <2>1. x \in Int /\ x > now
    <3>1. \A a, b \in Int : Later(a, b) \in Int /\ Later(a, b) >= b
      BY DEF Later
    <3>2. since[u] + 1 \in Int /\ since[u] + 1 > now
      BY <1>0, <1>5, MonitorBounds DEF TypeOK, Never
    <3> DEFINE b == since[u] + 1
    <3>3. b \in Int /\ b > now /\ x \in Int /\ x >= b
      BY <1>2, <3>1, <3>2
    <3> HIDE DEF x, b
    <3> QED
      BY <1>1, <3>3
  <2> HIDE DEF x
  <2>2. c = 0
    BY <1>0, <2>1, NoneLater
  <2> HIDE DEF c
  <2>3. Len(q) >= Threshold
    BY <1>1, <1>2, <1>4, <2>2
  <2> QED
    BY <1>3, <2>3
<1>6. CASE since[u] # Never
  <2> DEFINE d == Cardinality(Since(q, t + Earliest))
  <2>1. t >= now - Window + Skew
    BY <1>2 DEF t
  <2>2. c <= d
    BY <1>0, <1>2, <1>6, <2>1, StampsKept DEF q
  <2>3. d <= Len(q) /\ d \in Nat
    <3>1. IsFiniteSet(1..Len(q)) /\ Cardinality(1..Len(q)) = Len(q)
      <4>1. 1 \in Int /\ Len(q) \in Int
        BY <1>1
      <4>2. Cardinality(1..Len(q)) = IF 1 > Len(q) THEN 0 ELSE Len(q) - 1 + 1
        BY <4>1, FS_Interval
      <4>3. (IF 1 > Len(q) THEN 0 ELSE Len(q) - 1 + 1) = Len(q)
        BY <1>1
      <4> QED
        BY <4>1, <4>2, <4>3, FS_Interval
    <3>2. Since(q, t + Earliest) \in SUBSET (1..Len(q))
      BY <1>1 DEF Since
    <3>3. d <= Cardinality(1..Len(q))
      <4> DEFINE T == Since(q, t + Earliest)
                 U == 1..Len(q)
      <4> HIDE DEF T, U
      <4> QED
        BY <3>1, <3>2, FS_Subset DEF T, U
    <3> QED
      BY <1>1, <3>1, <3>3, SinceFinite
  <2>4. c \in Nat
    BY <1>1, SinceFinite
  <2> HIDE DEF c, d
  <2>5. Len(q) >= Threshold
    BY <1>1, <1>2, <1>4, <2>2, <2>3, <2>4
  <2> QED
    BY <1>3, <2>5
<1> QED
  BY <1>5, <1>6

\* A restart loop is reported only of a unit that systemd really restarted as
\* often as the threshold says, within the window, the longest time between two
\* samples of the unit and what the wall clock was set by; whatever samples miss
\* the unit and whoever resets NRestarts (_check_restart_loop).
THEOREM LoopsAreReal == Spec => LoopSound
<1>1. LoopInv /\ TypeInv /\ [Next]_vars =>
        [\A u \in Units :
           Polled(u) /\ "loop" \in Range(report'[u]) =>
              Cardinality(RestartsFrom(u, now - Window - sampled'[u].gap - Skew))
                  >= Threshold]_vars
  BY PolledInPoll, ReportIsSound
<1> QED
  BY <1>1, LoopInvariant, PTL DEF Spec, LoopSound

\* As many restarts as the threshold within the window, less what the clock was
\* set by, are found by the next sample of the unit, as long as NRestarts grew
\* all the time: no restart is lost between samples or dropped from the deque
\* before it has left the window (_check_restart_loop).
THEOREM LoopsAreFound == Spec => LoopComplete
<1>1. LoopInv /\ TypeInv /\ [Next]_vars =>
        [\A u \in Units : Polled(u) /\ InLoop(u) => loopActive'[u]]_vars
  BY PolledInPoll, LoopIsFound
<1> QED
  BY <1>1, LoopInvariant, PTL DEF Spec, LoopComplete

\* The flag is down only when nothing was reported since the unit was quiet.
FlagIsTrue == \A u \in Units : loopActive[u] \/ quiet[u]

\* A sample that takes the flag down has seen too few restarts: of those that
\* happened none is missed.
LEMMA FlagNext ==
    ASSUME LoopInv, FlagIsTrue, [Next]_vars PROVE FlagIsTrue'
<1> SUFFICES ASSUME NEW u \in Units PROVE loopActive'[u] \/ quiet'[u]
  BY DEF FlagIsTrue
<1>0. loopActive[u] \/ quiet[u]
  BY DEF FlagIsTrue
<1>1. CASE WorldStep \/ UNCHANGED vars
  BY <1>0, <1>1 DEF WorldStep, vars, monitor, history
<1>2. CASE NewSession
  BY <1>2 DEF NewSession
<1>3. ASSUME NEW seen \in Sightings, Poll(seen)
      PROVE  loopActive'[u] \/ quiet'[u]
  <2>1. CASE u \notin seen
    BY <1>0, <1>3, <2>1 DEF Poll
  <2>2. CASE u \in seen
    <3> SUFFICES ASSUME ~loopActive'[u] PROVE quiet'[u]
      OBVIOUS
    <3>1. ~InLoop(u)
      BY <1>3, <2>2, LoopIsFound
    <3>2. ~Over(u)
      BY <1>3, <2>2 DEF Poll, LoopStands
    <3>3. ~Loops(u)
      BY <3>2 DEF Loops
    <3> QED
      BY <1>3, <2>2, <3>1, <3>3 DEF Poll
  <2> QED
    BY <2>1, <2>2
<1> QED
  BY <1>1, <1>2, <1>3 DEF Next

\* A loop is announced once, whatever the flag is reset by: again only after the
\* unit recovered, or a sample with fewer restarts within the window than the
\* threshold, or a new start of the daemon (_check_restart_loop and _detect).
THEOREM LoopsAnnouncedOnce == Spec => LoopAnnouncedOnce
<1>1. Init => FlagIsTrue
  BY DEF Init, FlagIsTrue
<1>2. FlagIsTrue /\ [Next]_vars =>
        [\A u \in Units :
           Polled(u) /\ "loop" \in Range(report'[u]) =>
              quiet[u] \/ "recovery" \in Range(report'[u])]_vars
  <2> SUFFICES ASSUME FlagIsTrue, [Next]_vars, NEW u \in Units, Polled(u),
                      "loop" \in Range(report'[u])
               PROVE  quiet[u] \/ "recovery" \in Range(report'[u])
    OBVIOUS
  <2>1. PICK seen \in Sightings : Poll(seen) /\ u \in seen
    BY PolledInPoll
  <2>2. report'[u] = Events(u)
    BY <2>1 DEF Poll
  <2>3. Loops(u)
    BY <2>2, EventsType
  <2>4. ~loopActive[u] \/ Recovers(u)
    BY <2>3 DEF Loops
  <2> QED
    BY <2>2, <2>4, EventsType DEF FlagIsTrue
<1> QED
  BY <1>1, <1>2, FlagNext, LoopInvariant, PTL DEF Spec, LoopAnnouncedOnce

----------------------------------------------------------------------------
(***************************************************************************)
(* service_status shows what the last poll found, and no unit that was bad *)
(* all along is shown as anything else.                                    *)
(*                                                                         *)
(* A unit the command has read as not failed had, at some moment since it  *)
(* began, this status together with a last crash that is not newer than    *)
(* the one the command reads; crashes in the table only get newer.         *)
(***************************************************************************)

----------------------------------------------------------------------------
(* Types, of what the proofs need. *)

Reports == {"recovery", "failure", "loop"}
Event == [unit : Units, kind : Kinds \cup {"recovery"}, ts : Nat, pos : Nat]

Clocks == now \in Nat /\ offset \in Nat /\ lastPoll \in Nat

EventTypes ==
    /\ entries \in Seq(Event)
    /\ buffer \in Seq(Event)
    /\ stored \in Seq(Event)
    /\ \A u \in DOMAIN report : report[u] \in Seq(Reports)
    /\ \A u \in DOMAIN todo : todo[u] \in Seq(Reports)
    /\ taken \in Nat /\ saved \in Nat /\ back \in {"idle", "events"}

Typed == Clocks /\ EventTypes

\* The statuses, and which of them the daemon knows of.
Written ==
    /\ status = [u \in DOMAIN status |-> status[u]]
    /\ cache # {} =>
          DOMAIN status \subseteq
             cache \cup (IF pc = "status" THEN DOMAIN report ELSE {})
    /\ IF pc = "status"
       THEN /\ toUpsert \subseteq DOMAIN report
            /\ \A u \in DOMAIN report \ toUpsert :
                  u \in DOMAIN status /\ status[u] = prev[u].state
       ELSE DOMAIN report # {} =>
               status = [u \in DOMAIN report |-> prev[u].state]

Inv == Typed /\ Written

USE DEF store, thread

LEMMA WorldClocks ==
    ASSUME Clocks, WorldStep
    PROVE  /\ Clocks'
           /\ UNCHANGED <<report, prev>>
<1>1. UNCHANGED <<lastPoll, report, prev>>
  BY DEF WorldStep, monitor
<1>2. now' \in Nat /\ offset' \in Nat
  <2>1. now' \in {now, now + 1} /\ offset' \in {offset} \cup Offsets
    BY DEF WorldStep, Fail, StopUnit, ComeUp, AutoRestart, StartUnit, Pass,
       SetClock
  <2>2. now \in Nat /\ offset \in Nat
    BY DEF Clocks
  <2> QED
    BY <2>1, <2>2, ClockAssumption
<1> QED
  BY <1>1, <1>2 DEF Clocks

LEMMA ReportType == \A u : Events(u) \in Seq(Reports)
<1> SUFFICES ASSUME NEW u PROVE Events(u) \in Seq(Reports)
  OBVIOUS
<1>1. /\ <<>> \in Seq(Reports) /\ <<"recovery">> \in Seq(Reports)
      /\ <<"failure">> \in Seq(Reports) /\ <<"loop">> \in Seq(Reports)
  BY DEF Reports
<1> DEFINE a == IF Recovers(u) THEN <<"recovery">> ELSE <<>>
           b == IF FailsNow(u) THEN <<"failure">> ELSE <<>>
           c == IF Loops(u) THEN <<"loop">> ELSE <<>>
<1>2. a \in Seq(Reports) /\ b \in Seq(Reports) /\ c \in Seq(Reports)
  BY <1>1
<1>3. Events(u) = a \o b \o c
  BY DEF Events
<1> HIDE DEF a, b, c
<1>4. a \o b \in Seq(Reports)
  BY <1>2, ConcatProperties
<1> QED
  BY <1>2, <1>3, <1>4, ConcatProperties

LEMMA SubmitTypes ==
    ASSUME buffer \in Seq(Event), NEW e \in Event, NEW p, Submit(e, p)
    PROVE  buffer' \in Seq(Event)
  BY AppendProperties DEF Submit

LEMMA InvInit == HealthInit => Inv
<1> SUFFICES ASSUME HealthInit PROVE Inv
  OBVIOUS
<1> USE DEF HealthInit, Init, WorldInit, MonitorInit, Fresh
<1>1. Clocks
  BY ClockAssumption, MonitorBounds DEF Clocks, Never
<1>2. EventTypes
  BY DEF EventTypes
<1>3. Written
  BY DEF Written
<1> QED
  BY <1>1, <1>2, <1>3 DEF Inv, Typed

LEMMA WorldInv == Inv /\ HealthWorldStep => Inv'
<1> SUFFICES ASSUME Inv, HealthWorldStep PROVE Inv'
  OBVIOUS
<1>1. /\ Clocks' /\ UNCHANGED <<report, prev>>
      /\ UNCHANGED <<entries, thread, store>>
  BY WorldClocks DEF HealthWorldStep, Inv, Typed
<1>2. EventTypes'
  BY <1>1 DEF Inv, Typed, EventTypes
<1>3. Written'
  BY <1>1 DEF Inv, Written
<1> QED
  BY <1>1, <1>2, <1>3 DEF Inv, Typed

LEMMA LogInv == ASSUME Inv, NEW u \in Units, LogProblem(u) PROVE Inv'
<1>1. UNCHANGED <<vars, thread, store>>
  BY DEF LogProblem
<1>2. UNCHANGED <<now, offset, lastPoll, report, prev>>
  BY <1>1 DEF vars, world, monitor
<1>3. entries' \in Seq(Event)
  <2>1. PICK k \in LoggedKinds :
           entries' = Append(entries, [unit |-> u, kind |-> k, ts |-> Wall,
                                       pos |-> Len(entries) + 1])
    BY DEF LogProblem
  <2>2. entries \in Seq(Event) /\ Wall \in Nat /\ Len(entries) + 1 \in Nat
    BY DEF Inv, Typed, EventTypes, Clocks, Wall
  <2>3. k \in Kinds
    BY HealthAssumption DEF Kinds, ResolveKinds
  <2>4. [unit |-> u, kind |-> k, ts |-> Wall, pos |-> Len(entries) + 1]
           \in Event
    BY <2>2, <2>3 DEF Event
  <2> QED
    BY <2>1, <2>2, <2>4, AppendProperties
<1>4. Clocks' /\ EventTypes'
  BY <1>1, <1>2, <1>3 DEF Inv, Typed, EventTypes, Clocks
<1>5. Written'
  BY <1>1, <1>2 DEF Inv, Written
<1> QED
  BY <1>4, <1>5 DEF Inv, Typed

----------------------------------------------------------------------------
(* The steps of the daemon. *)

LEMMA DrainInv == Inv /\ DrainEvent => Inv'
<1> SUFFICES ASSUME Inv, DrainEvent PROVE Inv'
  OBVIOUS
<1>1. /\ pc = "idle" /\ pc' \in {"write", "idle"}
      /\ UNCHANGED <<vars, entries, toUpsert, todo, cache, store>>
      /\ taken' = taken + 1 /\ taken < Len(entries) /\ back' = "idle"
      /\ Submit(entries[taken + 1], "idle")
  BY DEF DrainEvent, Submit
<1>2. UNCHANGED <<now, offset, lastPoll, report, prev>>
  BY <1>1 DEF vars, world, monitor
<1>3. buffer' \in Seq(Event) /\ taken' \in Nat
  <2>1. /\ entries \in Seq(Event) /\ buffer \in Seq(Event) /\ taken \in Nat
    BY DEF Inv, Typed, EventTypes
  <2>2. entries[taken + 1] \in Event
    <3>1. taken + 1 \in 1..Len(entries)
      BY <1>1, <2>1
    <3> QED
      BY <2>1, <3>1, ElementOfSeq
  <2> QED
    BY <1>1, <2>1, <2>2, SubmitTypes
<1>4. Clocks' /\ EventTypes'
  BY <1>1, <1>2, <1>3 DEF Inv, Typed, EventTypes, Clocks
<1>5. Written'
  BY <1>1, <1>2 DEF Inv, Written
<1> QED
  BY <1>4, <1>5 DEF Inv, Typed

LEMMA StartPollInv ==
    ASSUME Inv, NEW seen \in Sightings, StartPoll(seen) PROVE Inv'
<1>1. /\ pc = "idle" /\ pc' = "status" /\ toUpsert' = seen /\ todo' = report'
      /\ UNCHANGED <<entries, taken, back, buffer, cache, store>>
  BY DEF StartPoll
<1>2. /\ lastPoll' = now /\ UNCHANGED <<now, offset>>
      /\ report' = [u \in seen |-> Events(u)]
  BY DEF StartPoll, Poll, Monotonic, world
<1>3. Clocks' /\ EventTypes'
  BY <1>1, <1>2, ReportType DEF Inv, Typed, EventTypes, Clocks
<1>4. Written'
  BY <1>1, <1>2 DEF Inv, Written
<1> QED
  BY <1>3, <1>4 DEF Inv, Typed

LEMMA UpsertInv == ASSUME Inv, NEW u \in Units, UpsertStatus(u) PROVE Inv'
<1>1. /\ pc = "status" /\ u \in toUpsert /\ toUpsert' = toUpsert \ {u}
      /\ status' = [v \in DOMAIN status \cup {u} |->
                      IF v = u THEN prev[u].state ELSE status[v]]
      /\ UNCHANGED <<vars, entries, taken, pc, todo, buffer, cache>>
      /\ UNCHANGED <<back, stored, saved>>
  BY DEF UpsertStatus
<1>2. UNCHANGED <<now, offset, lastPoll, report, prev>>
  BY <1>1 DEF vars, world, monitor
<1>3. Clocks' /\ EventTypes'
  BY <1>1, <1>2 DEF Inv, Typed, EventTypes, Clocks
<1>4. Written'
  BY <1>1, <1>2 DEF Inv, Written
<1> QED
  BY <1>3, <1>4 DEF Inv, Typed

LEMMA PruneInv == Inv /\ PruneStatus => Inv'
<1> SUFFICES ASSUME Inv, PruneStatus PROVE Inv'
  OBVIOUS
<1>1. /\ pc = "status" /\ toUpsert = {} /\ pc' = "events"
      /\ UNCHANGED <<vars, entries, taken, back, todo, buffer, stored, saved>>
      /\ \/ /\ WatchedChanged
            /\ status' = [u \in DOMAIN report |-> status[u]]
            /\ cache' = DOMAIN report
         \/ ~WatchedChanged /\ status' = status /\ cache' = cache
  BY DEF PruneStatus, Restrict
<1>2. UNCHANGED <<now, offset, lastPoll, report, prev>>
  BY <1>1 DEF vars, world, monitor
<1>3. Clocks' /\ EventTypes'
  BY <1>1, <1>2 DEF Inv, Typed, EventTypes, Clocks
<1>4. \A u \in DOMAIN report :
         u \in DOMAIN status /\ status[u] = prev[u].state
  BY <1>1 DEF Inv, Written
<1>5. CASE WatchedChanged
  <2>1. status' = [u \in DOMAIN report |-> prev[u].state]
    BY <1>1, <1>4, <1>5
  <2> QED
    BY <1>1, <1>2, <1>3, <1>5, <2>1 DEF Inv, Typed, Written
<1>6. CASE ~WatchedChanged
  <2>1. DOMAIN report = {} \/ DOMAIN report = cache
    BY <1>6 DEF WatchedChanged
  <2>2. cache # {} => DOMAIN status \subseteq cache
    BY <1>1, <2>1 DEF Inv, Written
  <2>3. ASSUME DOMAIN report # {}
        PROVE  status = [u \in DOMAIN report |-> prev[u].state]
    <3>1. DOMAIN status = DOMAIN report
      BY <1>4, <2>1, <2>2, <2>3
    <3>2. status = [u \in DOMAIN status |-> status[u]]
      BY DEF Inv, Written
    <3> QED
      BY <1>4, <3>1, <3>2
  <2> QED
    BY <1>1, <1>2, <1>3, <1>6, <2>2, <2>3 DEF Inv, Typed, Written
<1> QED
  BY <1>5, <1>6

LEMMA HandleInv == ASSUME Inv, NEW u \in Units, HandleEvent(u) PROVE Inv'
<1>1. /\ pc = "events" /\ u \in DOMAIN todo /\ todo[u] # <<>>
      /\ todo' = [todo EXCEPT ![u] = Tail(@)]
      /\ Submit(EventOf(u, Head(todo[u])), "events")
      /\ UNCHANGED <<vars, entries, taken, toUpsert, cache>>
      /\ UNCHANGED <<stored, status, saved>>
  BY DEF HandleEvent
<1>2. UNCHANGED <<now, offset, lastPoll, report, prev>>
  BY <1>1 DEF vars, world, monitor
<1>3. todo[u] \in Seq(Reports) /\ \A v \in DOMAIN todo : todo[v] \in Seq(Reports)
  BY <1>1 DEF Inv, Typed, EventTypes
<1>4. Head(todo[u]) \in Reports /\ Tail(todo[u]) \in Seq(Reports)
  BY <1>1, <1>3, HeadTailProperties
<1>5. EventOf(u, Head(todo[u])) \in Event
  <2>1. lastPoll + offset \in Nat
    BY DEF Inv, Typed, Clocks
  <2> QED
    BY <1>4, <2>1 DEF EventOf, Event, Kinds, ResolveKinds, Reports
<1>6. buffer' \in Seq(Event)
  BY <1>1, <1>5, SubmitTypes DEF Inv, Typed, EventTypes
<1>7. \A v \in DOMAIN todo' : todo'[v] \in Seq(Reports)
  BY <1>1, <1>3, <1>4
<1>8. pc' \in {"write", "events"} /\ back' = "events"
  BY <1>1 DEF Submit
<1>9. Clocks' /\ EventTypes'
  BY <1>1, <1>2, <1>6, <1>7, <1>8 DEF Inv, Typed, EventTypes, Clocks
<1>10. Written'
  BY <1>1, <1>2, <1>8 DEF Inv, Written
<1> QED
  BY <1>9, <1>10 DEF Inv, Typed

LEMMA WriteInv == Inv /\ WriteBatch => Inv'
<1> SUFFICES ASSUME Inv, WriteBatch PROVE Inv'
  OBVIOUS
<1>1. /\ pc = "write" /\ pc' = "mark" /\ stored' = stored \o buffer
      /\ UNCHANGED <<vars, entries, taken, toUpsert, todo, buffer, cache>>
      /\ UNCHANGED <<back, status, saved>>
  BY DEF WriteBatch
<1>2. UNCHANGED <<now, offset, lastPoll, report, prev>>
  BY <1>1 DEF vars, world, monitor
<1>3. stored' \in Seq(Event)
  BY <1>1, ConcatProperties DEF Inv, Typed, EventTypes
<1>4. Clocks' /\ EventTypes'
  BY <1>1, <1>2, <1>3 DEF Inv, Typed, EventTypes, Clocks
<1>5. Written'
  BY <1>1, <1>2 DEF Inv, Written
<1> QED
  BY <1>4, <1>5 DEF Inv, Typed

LEMMA RestartInv == Inv /\ Restart => Inv'
<1> SUFFICES ASSUME Inv, Restart PROVE Inv'
  OBVIOUS
<1>1. /\ pc' = "idle" /\ toUpsert' = {} /\ todo' = <<>> /\ buffer' = <<>>
      /\ cache' = {} /\ UNCHANGED <<entries, stored, status, saved>>
      /\ taken' = ResumePoint /\ back' = "idle"
  BY DEF Restart
<1>2. /\ UNCHANGED <<now, offset>> /\ lastPoll' = Never /\ report' = <<>>
  BY DEF Restart, NewSession, Fresh, world
<1>3. Clocks'
  BY <1>2, MonitorBounds DEF Inv, Typed, Clocks, Never
<1>4. Written'
  BY <1>1, <1>2 DEF Inv, Written
<1>5. taken' \in Nat
  BY <1>1 DEF ResumePoint, Inv, Typed, EventTypes
<1>6. EventTypes'
  BY <1>1, <1>2, <1>5 DEF Inv, Typed, EventTypes
<1> QED
  BY <1>3, <1>4, <1>6 DEF Inv, Typed

LEMMA MarkInv == Inv /\ MarkCursor => Inv'
<1> SUFFICES ASSUME Inv, MarkCursor PROVE Inv'
  OBVIOUS
<1> DEFINE marks == {e.pos : e \in Range(buffer)} \ {0}
<1>1. /\ pc = "mark" /\ pc' = back /\ buffer' = <<>>
      /\ saved' = IF marks = {} THEN saved ELSE Max(marks)
      /\ UNCHANGED <<vars, entries, taken, back, toUpsert, todo, cache>>
      /\ UNCHANGED <<stored, status>>
  BY DEF MarkCursor
<1>2. UNCHANGED <<now, offset, lastPoll, report, prev>>
  BY <1>1 DEF vars, world, monitor
<1>3. buffer \in Seq(Event) /\ saved \in Nat
  BY DEF Inv, Typed, EventTypes
<1>4. \A i \in DOMAIN buffer : buffer[i] \in Event /\ buffer[i].pos \in Nat
  <2>1. \A i \in DOMAIN buffer : buffer[i] \in Event
    BY <1>3, ElementOfSeq
  <2> QED
    BY <2>1 DEF Event
<1>5. ASSUME marks # {} PROVE Max(marks) \in Nat
  <2> DEFINE T == {i \in DOMAIN buffer : buffer[i].pos # 0}
             f == [i \in T |-> buffer[i].pos]
  <2>1. marks = {f[i] : i \in T}
    BY DEF Range
  <2>2. IsFiniteSet(T)
    <3>1. IsFiniteSet(1..Len(buffer)) /\ T \in SUBSET (1..Len(buffer))
      BY <1>3, FS_Interval
    <3> QED
      BY <3>1, FS_Subset
  <2>3. \A i \in T : f[i] \in Nat
    BY <1>4
  <2>4. T # {}
    BY <1>5, <2>1
  <2> HIDE DEF T, f, marks
  <2>5. PICK i \in T : \A j \in T : f[j] <= f[i]
    BY <2>2, <2>3, <2>4, LargestExists
  <2>6. \E x \in marks : \A y \in marks : x >= y
    BY <2>1, <2>3, <2>5
  <2>7. Max(marks) \in marks
    BY <2>6 DEF Max
  <2> QED
    BY <2>1, <2>3, <2>7
<1>6. saved' \in Nat
  BY <1>1, <1>3, <1>5
<1> HIDE DEF marks
<1>7. EventTypes' /\ back \in {"idle", "events"}
  BY <1>1, <1>2, <1>6 DEF Inv, Typed, EventTypes
<1>8. Clocks'
  BY <1>2 DEF Inv, Typed, Clocks
<1>9. Written'
  BY <1>1, <1>2, <1>7 DEF Inv, Written
<1> QED
  BY <1>7, <1>8, <1>9 DEF Inv, Typed

LEMMA EndPollInv == Inv /\ EndPoll => Inv'
<1> SUFFICES ASSUME Inv, EndPoll PROVE Inv'
  OBVIOUS
<1>1. /\ pc = "events" /\ pc' \in {"write", "idle"} /\ back' = "idle"
      /\ todo' = <<>>
      /\ UNCHANGED <<vars, entries, taken, toUpsert, buffer, cache, store>>
  BY DEF EndPoll
<1>2. UNCHANGED <<now, offset, lastPoll, report, prev>>
  BY <1>1 DEF vars, world, monitor
<1>3. Clocks' /\ EventTypes'
  BY <1>1, <1>2 DEF Inv, Typed, EventTypes, Clocks
<1>4. Written'
  BY <1>1, <1>2 DEF Inv, Written
<1> QED
  BY <1>3, <1>4 DEF Inv, Typed

LEMMA TimerFlushInv == Inv /\ TimerFlush => Inv'
<1> SUFFICES ASSUME Inv, TimerFlush PROVE Inv'
  OBVIOUS
<1>1. /\ pc = "idle" /\ pc' = "write" /\ back' = "idle"
      /\ UNCHANGED <<vars, entries, taken, toUpsert, todo, buffer, cache, store>>
  BY DEF TimerFlush
<1>2. UNCHANGED <<now, offset, lastPoll, report, prev>>
  BY <1>1 DEF vars, world, monitor
<1>3. Clocks' /\ EventTypes'
  BY <1>1, <1>2 DEF Inv, Typed, EventTypes, Clocks
<1>4. Written'
  BY <1>1, <1>2 DEF Inv, Written
<1> QED
  BY <1>3, <1>4 DEF Inv, Typed

LEMMA StutterInv == Inv /\ UNCHANGED healthVars => Inv'
<1> SUFFICES ASSUME Inv, UNCHANGED healthVars PROVE Inv'
  OBVIOUS
<1>1. UNCHANGED <<now, offset, lastPoll, report, prev, entries, pc, thread,
                  store>>
  BY DEF healthVars, vars, world, monitor
<1> QED
  BY <1>1 DEF Inv, Typed, Clocks, EventTypes, Written

LEMMA HealthInv == Inv /\ [HealthNext]_healthVars => Inv'
<1> SUFFICES ASSUME Inv, [HealthNext]_healthVars PROVE Inv'
  OBVIOUS
<1>1. CASE HealthWorldStep
  BY <1>1, WorldInv
<1>2. CASE \E u \in Units : LogProblem(u) \/ UpsertStatus(u) \/ HandleEvent(u)
  BY <1>2, LogInv, UpsertInv, HandleInv
<1>3. CASE \E seen \in Sightings : StartPoll(seen)
  BY <1>3, StartPollInv
<1>4. CASE DrainEvent \/ PruneStatus \/ EndPoll \/ TimerFlush
  BY <1>4, DrainInv, PruneInv, EndPollInv, TimerFlushInv
<1>5. CASE WriteBatch \/ MarkCursor \/ Restart
  BY <1>5, WriteInv, MarkInv, RestartInv
<1>6. CASE UNCHANGED healthVars
  BY <1>6, StutterInv
<1> QED
  BY <1>1, <1>2, <1>3, <1>4, <1>5, <1>6 DEF HealthNext

\* The steps of the command are stutters of the daemon.
LEMMA StatusStep == [StatusNext]_statusVars => [HealthNext]_healthVars
  BY DEF StatusNext, CommandStep, statusVars

LEMMA InvIsFresh == Inv => StatusFresh
  BY DEF Inv, Written, StatusFresh

\* Between two steps of the loop, service_status has exactly the units of the
\* last poll that found any, each in the state it was found in: the upserts of
\* a poll and its pruning are separate transactions, and the cache that saves
\* the pruning is never wrong (_maybe_poll_units, prune_service_status).
THEOREM StatusShown == StatusSpec => []StatusFresh
<1>1. StatusInit => Inv
  BY InvInit DEF StatusInit
<1>2. Inv /\ [StatusNext]_statusVars => Inv'
  BY HealthInv, StatusStep
<1> QED
  BY <1>1, <1>2, InvIsFresh, PTL DEF StatusSpec

----------------------------------------------------------------------------
(* The last crash of a unit never gets older. *)

Known(c) == c = NoCrash \/ c.ts \in Nat

NotAfter(c, d) == c = NoCrash \/ (d # NoCrash /\ c.ts <= d.ts)

LEMMA EventIsACrash == \A e \in Event : e # NoCrash /\ e.ts \in Nat
<1> SUFFICES ASSUME NEW e \in Event PROVE e # NoCrash /\ e.ts \in Nat
  OBVIOUS
<1>1. "ts" \in DOMAIN e /\ "ts" \notin DOMAIN NoCrash
  BY DEF Event, NoCrash
<1> QED
  BY <1>1 DEF Event

\* Stated of any table, so that it may be used of the next one too.
LEMMA LatestExists ==
    ASSUME NEW table \in Seq(Event), NEW T \in SUBSET DOMAIN table, T # {}
    PROVE  \E i \in T : \A j \in T : table[j].ts <= table[i].ts
<1>1. T \in SUBSET (1..Len(table)) /\ IsFiniteSet(1..Len(table))
  BY FS_Interval
<1>2. IsFiniteSet(T)
  BY <1>1, FS_Subset
<1>3. \A i \in T : table[i] \in Event
  BY <1>1, ElementOfSeq
<1> DEFINE f == [i \in T |-> table[i].ts]
<1>4. \A i \in T : f[i] \in Nat
  BY <1>3 DEF Event
<1>6. \A i \in T : f[i] \in Int
  BY <1>4
<1>5. \E i \in T : \A j \in T : f[j] <= f[i]
  <2> HIDE DEF f
  <2> QED
    BY <1>2, <1>6, LargestExists
<1> QED
  BY <1>5

\* The row of the last crash, if u has one.
IsLatest(u, c) ==
    /\ \E i \in Crashes(u) : c = stored[i]
    /\ \A j \in Crashes(u) : stored[j].ts <= c.ts
    /\ c # NoCrash /\ c.ts \in Nat

LEMMA LastCrashIsLatest ==
    ASSUME stored \in Seq(Event), NEW u, Crashes(u) # {}
    PROVE  IsLatest(u, LastCrash(u))
<1>1. Crashes(u) \in SUBSET DOMAIN stored
  BY DEF Crashes
<1>2. \E i \in Crashes(u) : \A j \in Crashes(u) : stored[j].ts <= stored[i].ts
  BY <1>1, LatestExists
<1> DEFINE latest == CHOOSE i \in Crashes(u) :
                        \A j \in Crashes(u) : stored[j].ts <= stored[i].ts
<1>3. /\ latest \in Crashes(u)
      /\ \A j \in Crashes(u) : stored[j].ts <= stored[latest].ts
  BY <1>2
<1>4. LastCrash(u) = stored[latest]
  BY DEF LastCrash
<1> HIDE DEF latest
<1>5. stored[latest] \in Event
  BY <1>1, <1>3, ElementOfSeq
<1> QED
  BY <1>3, <1>4, <1>5, EventIsACrash DEF IsLatest

\* The same in the next state.
LEMMA NextCrashIsLatest ==
    ASSUME stored' \in Seq(Event), NEW u, Crashes(u)' # {}
    PROVE  IsLatest(u, LastCrash(u))'
<1>1. Crashes(u)' \in SUBSET DOMAIN stored'
  BY DEF Crashes
<1>2. \E i \in Crashes(u)' : \A j \in Crashes(u)' : stored'[j].ts <= stored'[i].ts
  BY <1>1, LatestExists
<1> DEFINE latest == CHOOSE i \in Crashes(u)' :
                        \A j \in Crashes(u)' : stored'[j].ts <= stored'[i].ts
<1>3. /\ latest \in Crashes(u)'
      /\ \A j \in Crashes(u)' : stored'[j].ts <= stored'[latest].ts
  BY <1>2
<1>4. LastCrash(u)' = stored'[latest]
  BY DEF LastCrash
<1> HIDE DEF latest
<1>5. stored'[latest] \in Event
  BY <1>1, <1>3, ElementOfSeq
<1> QED
  BY <1>3, <1>4, <1>5, EventIsACrash DEF IsLatest

LEMMA LastCrashKnown ==
    ASSUME stored \in Seq(Event), NEW u
    PROVE  Known(LastCrash(u)) /\ NotAfter(LastCrash(u), LastCrash(u))
<1>1. CASE Crashes(u) = {}
  BY <1>1 DEF LastCrash, Known, NotAfter
<1>2. CASE Crashes(u) # {}
  <2>1. LastCrash(u) # NoCrash /\ LastCrash(u).ts \in Nat
    BY <1>2, LastCrashIsLatest DEF IsLatest
  <2> QED
    BY <2>1 DEF Known, NotAfter
<1> QED
  BY <1>1, <1>2

LEMMA NotAfterTransitive ==
    ASSUME NEW c, NEW d, NEW e, Known(c), Known(d), Known(e),
           NotAfter(c, d), NotAfter(d, e)
    PROVE  NotAfter(c, e)
  BY DEF NotAfter, Known

\* The events table only grows while the program of Health runs.
LEMMA StoredGrows ==
    Inv /\ [HealthNext]_healthVars =>
        stored' = stored \/ (stored' = stored \o buffer /\ buffer \in Seq(Event))
<1> SUFFICES ASSUME Inv, [HealthNext]_healthVars
             PROVE  \/ stored' = stored
                    \/ stored' = stored \o buffer /\ buffer \in Seq(Event)
  OBVIOUS
<1>1. CASE WriteBatch
  BY <1>1 DEF WriteBatch, Inv, Typed, EventTypes
<1>2. CASE UNCHANGED healthVars
  BY <1>2 DEF healthVars
<1>3. CASE HealthWorldStep \/ DrainEvent \/ PruneStatus \/ EndPoll \/ TimerFlush
             \/ MarkCursor \/ Restart
  BY <1>3 DEF HealthWorldStep, DrainEvent, PruneStatus, EndPoll, TimerFlush,
              MarkCursor, Restart
<1>4. CASE \/ \E u \in Units : LogProblem(u) \/ UpsertStatus(u) \/ HandleEvent(u)
           \/ \E seen \in Sightings : StartPoll(seen)
  BY <1>4 DEF LogProblem, UpsertStatus, HandleEvent, StartPoll
<1> QED
  BY <1>1, <1>2, <1>3, <1>4 DEF HealthNext

LEMMA CrashesGetNewer ==
    ASSUME Inv, [HealthNext]_healthVars, NEW u
    PROVE  NotAfter(LastCrash(u), LastCrash(u)')
<1>1. Inv' /\ stored \in Seq(Event) /\ stored' \in Seq(Event)
  BY HealthInv DEF Inv, Typed, EventTypes
<1>2. CASE stored' = stored
  <2>1. LastCrash(u)' = LastCrash(u)
    BY <1>2 DEF LastCrash, Crashes
  <2> QED
    BY <1>1, <2>1, LastCrashKnown
<1>3. CASE stored' = stored \o buffer /\ buffer \in Seq(Event)
  <2>1. \A i \in DOMAIN stored : i \in DOMAIN stored' /\ stored'[i] = stored[i]
    BY <1>1, <1>3, ConcatProperties
  <2>2. Crashes(u) \subseteq Crashes(u)'
    BY <2>1 DEF Crashes
  <2>3. CASE Crashes(u) = {}
    BY <2>3 DEF LastCrash, NotAfter
  <2>4. CASE Crashes(u) # {}
    <3>1. PICK i \in Crashes(u) : LastCrash(u) = stored[i]
      BY <1>1, <2>4, LastCrashIsLatest DEF IsLatest
    <3>2. i \in Crashes(u)' /\ stored'[i] = stored[i]
      BY <2>1, <2>2 DEF Crashes
    <3>3. IsLatest(u, LastCrash(u))'
      BY <1>1, <3>2, NextCrashIsLatest
    <3> QED
      BY <3>1, <3>2, <3>3 DEF IsLatest, NotAfter
  <2> QED
    BY <2>3, <2>4
<1> QED
  BY <1>2, <1>3, StoredGrows

----------------------------------------------------------------------------
(* What the command has read was so at some moment since it began. *)

\* u was, at a moment in M, not failed, and its last crash was then c or an
\* older one.
WitnessIn(M, u, c) ==
    \E m \in M : m[1] = u /\ Known(m[2]) /\ NotAfter(m[2], c)

\* Every unit read as not failed, in view of its last crash by now.
StatusesWitnessed ==
    reading # "nothing" =>
        \A u \in Units : StateOf(u) # "failed" => WitnessIn(moments, u, LastCrash(u))

\* The unit whose crash has been read, in view of that crash.
CrashWitnessed ==
    reading = "errors" =>
        /\ Known(crash)
        /\ StateOf(First) # "failed" => WitnessIn(moments, First, crash)

UnitsLeft ==
    /\ units \subseteq Watched
    /\ reading \in {"crash", "errors"} => units # {}

Witnessed == Inv /\ StatusesWitnessed /\ CrashWitnessed /\ UnitsLeft

LEMMA FirstIsUnit == UnitsLeft /\ reading \in {"crash", "errors"} => First \in Units
  BY StatusAssumption DEF UnitsLeft, First

LEMMA WitnessStays ==
    ASSUME NEW M, NEW N, M \subseteq N, NEW u, NEW c, NEW d,
           WitnessIn(M, u, c), Known(c), Known(d), NotAfter(c, d)
    PROVE  WitnessIn(N, u, d)
<1>1. PICK m \in M : m[1] = u /\ Known(m[2]) /\ NotAfter(m[2], c)
  BY DEF WitnessIn
<1>2. NotAfter(m[2], d)
  BY <1>1, NotAfterTransitive
<1> QED
  BY <1>1, <1>2 DEF WitnessIn

\* A step of either keeps the statuses witnessed once they have been read.
LEMMA StatusesStay ==
    ASSUME Witnessed, [HealthNext]_healthVars, reading # "nothing",
           UNCHANGED statuses, moments \subseteq moments'
    PROVE  StatusesWitnessed'
<1> SUFFICES ASSUME NEW u \in Units, StateOf(u)' # "failed"
             PROVE  WitnessIn(moments', u, LastCrash(u)')
  BY DEF StatusesWitnessed
<1>1. StateOf(u) # "failed"
  BY DEF StateOf, StateIn
<1>2. WitnessIn(moments, u, LastCrash(u))
  BY <1>1 DEF Witnessed, StatusesWitnessed
<1>3. NotAfter(LastCrash(u), LastCrash(u)')
  BY CrashesGetNewer DEF Witnessed
<1>4. Inv /\ Inv' /\ stored \in Seq(Event) /\ stored' \in Seq(Event)
  BY HealthInv DEF Witnessed, Inv, Typed, EventTypes
<1>5. Known(LastCrash(u))
  BY <1>4, LastCrashKnown
<1>6. Known(LastCrash(u)')
  <2>1. CASE Crashes(u)' = {}
    BY <2>1 DEF LastCrash, Known
  <2>2. CASE Crashes(u)' # {}
    BY <1>4, <2>2, NextCrashIsLatest DEF IsLatest, Known
  <2> QED
    BY <2>1, <2>2
<1> DEFINE c == LastCrash(u)
           d == LastCrash(u)'
<1>7. WitnessIn(moments', u, d)
  <2> HIDE DEF c, d
  <2>1. WitnessIn(moments, u, c) /\ Known(c) /\ Known(d) /\ NotAfter(c, d)
    BY <1>2, <1>3, <1>5, <1>6 DEF c, d
  <2> QED
    BY <2>1, WitnessStays
<1> QED
  BY <1>7

\* So is the last crash that has been read.
LEMMA CrashStays ==
    ASSUME Witnessed, [HealthNext]_healthVars, UNCHANGED command,
           moments \subseteq moments'
    PROVE  CrashWitnessed'
<1> SUFFICES ASSUME reading = "errors" PROVE CrashWitnessed'
  BY DEF CrashWitnessed, command
<1>1. UNCHANGED <<reading, statuses, units, crash>>
  BY DEF command
<1>2. /\ Known(crash) /\ NotAfter(crash, crash)
      /\ StateOf(First) # "failed" => WitnessIn(moments, First, crash)
  BY DEF Witnessed, CrashWitnessed, Known, NotAfter
<1>3. First' = First /\ StateOf(First)' = StateOf(First) /\ crash' = crash
  BY <1>1 DEF First, StateOf, StateIn
<1>4. Known(crash')
  BY <1>2, <1>3
<1>5. ASSUME StateOf(First) # "failed" PROVE WitnessIn(moments', First, crash)
  BY <1>2, <1>5, WitnessStays
<1> QED
  BY <1>3, <1>4, <1>5, <1>2 DEF CrashWitnessed, Known

LEMMA WitnessedInit == StatusInit => Witnessed
<1> SUFFICES ASSUME StatusInit PROVE Witnessed
  OBVIOUS
<1>1. Inv /\ reading = "nothing" /\ units = {}
  BY InvInit DEF StatusInit
<1> QED
  BY <1>1 DEF Witnessed, StatusesWitnessed, CrashWitnessed, UnitsLeft

\* The statuses are witnessed by the moment they are read at.
LEMMA ReadStatusesWitnessed ==
    Witnessed /\ ReadStatuses /\ StatusNext /\ UNCHANGED healthVars => Witnessed'
<1> SUFFICES ASSUME Witnessed, ReadStatuses, StatusNext, UNCHANGED healthVars
             PROVE  Witnessed'
  OBVIOUS
<1>1. /\ reading = "nothing" /\ reading' = "units" /\ statuses' = status
      /\ units' = units
  BY DEF ReadStatuses
<1>2. moments' = moments \cup Moment'
  BY <1>1 DEF StatusNext
<1>3. status' = status /\ stored' = stored
  BY DEF healthVars
<1>4. Inv' /\ stored \in Seq(Event)
  BY StutterInv DEF Witnessed, Inv, Typed, EventTypes
<1>5. ASSUME NEW u \in Units, StateOf(u)' # "failed"
      PROVE  WitnessIn(moments', u, LastCrash(u)')
  <2>1. StateNow(u)' # "failed"
    BY <1>1, <1>3, <1>5 DEF StateNow, StateOf, StateIn
  <2>2. LastCrash(u)' = LastCrash(u)
    BY <1>3 DEF LastCrash, Crashes
  <2>3. <<u, LastCrash(u)'>> \in Moment'
    BY <2>1 DEF Moment
  <2>4. Known(LastCrash(u)) /\ NotAfter(LastCrash(u), LastCrash(u))
    BY <1>4, LastCrashKnown
  <2> DEFINE c == LastCrash(u)'
  <2>5. <<u, c>> \in moments' /\ Known(c) /\ NotAfter(c, c)
    BY <1>2, <2>2, <2>3, <2>4
  <2> HIDE DEF c
  <2>6. WitnessIn(moments', u, c)
    BY <2>5 DEF WitnessIn
  <2> QED
    BY <2>6 DEF c
<1>6. StatusesWitnessed'
  BY <1>5 DEF StatusesWitnessed
<1> QED
  BY <1>1, <1>4, <1>6 DEF Witnessed, CrashWitnessed, UnitsLeft

\* The later queries of the command.
LEMMA ReadUnitsWitnessed ==
    Witnessed /\ ReadUnits /\ StatusNext /\ UNCHANGED healthVars => Witnessed'
<1> SUFFICES ASSUME Witnessed, ReadUnits, StatusNext, UNCHANGED healthVars
             PROVE  Witnessed'
  OBVIOUS
<1>1. /\ reading = "units" /\ reading' = NextRow(units')
      /\ units' \subseteq Watched /\ statuses' = statuses
  BY DEF ReadUnits
<1>2. Inv' /\ UnitsLeft' /\ CrashWitnessed'
  BY <1>1, StutterInv DEF Witnessed, UnitsLeft, CrashWitnessed, NextRow
<1>3. CASE reading' = "nothing"
  BY <1>2, <1>3 DEF Witnessed, StatusesWitnessed
<1>4. CASE reading' # "nothing"
  <2>1. moments \subseteq moments'
    BY <1>4 DEF StatusNext
  <2> QED
    BY <1>1, <1>2, <2>1, StatusesStay DEF Witnessed
<1> QED
  BY <1>3, <1>4

LEMMA ReadCrashWitnessed ==
    Witnessed /\ ReadCrash /\ StatusNext /\ UNCHANGED healthVars => Witnessed'
<1> SUFFICES ASSUME Witnessed, ReadCrash, StatusNext, UNCHANGED healthVars
             PROVE  Witnessed'
  OBVIOUS
<1>1. /\ reading = "crash" /\ reading' = "errors" /\ crash' = LastCrash(First)
      /\ UNCHANGED <<statuses, units>> /\ units # {} /\ First \in Units
  BY FirstIsUnit DEF ReadCrash, Witnessed, UnitsLeft
<1>2. moments \subseteq moments'
  BY <1>1 DEF StatusNext
<1>3. Inv' /\ UnitsLeft' /\ stored \in Seq(Event)
  BY <1>1, StutterInv DEF Witnessed, UnitsLeft, Inv, Typed, EventTypes
<1>4. StatusesWitnessed'
  BY <1>1, <1>2, StatusesStay
<1>5. Known(crash') /\ NotAfter(crash', crash')
  BY <1>1, <1>3, LastCrashKnown
<1>6. First' = First /\ StateOf(First)' = StateOf(First)
  BY <1>1 DEF First, StateOf, StateIn
<1>7. ASSUME StateOf(First) # "failed" PROVE WitnessIn(moments', First, crash')
  <2>1. WitnessIn(moments, First, crash')
    BY <1>1, <1>7 DEF Witnessed, StatusesWitnessed
  <2> QED
    BY <1>2, <1>5, <2>1, WitnessStays
<1>8. CrashWitnessed'
  BY <1>5, <1>6, <1>7 DEF CrashWitnessed, Known
<1> QED
  BY <1>3, <1>4, <1>8 DEF Witnessed

LEMMA ReadErrorsWitnessed ==
    Witnessed /\ ReadErrors /\ StatusNext /\ UNCHANGED healthVars => Witnessed'
<1> SUFFICES ASSUME Witnessed, ReadErrors, StatusNext, UNCHANGED healthVars
             PROVE  Witnessed'
  OBVIOUS
<1>1. /\ reading = "errors" /\ reading' = NextRow(units')
      /\ units' \subseteq units /\ statuses' = statuses
  BY DEF ReadErrors
<1>2. Inv' /\ UnitsLeft' /\ CrashWitnessed'
  BY <1>1, StutterInv DEF Witnessed, UnitsLeft, CrashWitnessed, NextRow
<1>3. CASE reading' = "nothing"
  BY <1>2, <1>3 DEF Witnessed, StatusesWitnessed
<1>4. CASE reading' # "nothing"
  <2>1. moments \subseteq moments'
    BY <1>4 DEF StatusNext
  <2> QED
    BY <1>1, <1>2, <2>1, StatusesStay DEF Witnessed
<1> QED
  BY <1>3, <1>4

\* A step of the daemon.
LEMMA HealthWitnessed ==
    Witnessed /\ [HealthNext]_healthVars /\ StatusNext /\ UNCHANGED command
        => Witnessed'
<1> SUFFICES ASSUME Witnessed, [HealthNext]_healthVars, StatusNext,
                    UNCHANGED command
             PROVE  Witnessed'
  OBVIOUS
<1>1. UNCHANGED <<reading, statuses, units>>
  BY DEF command
<1>2. Inv' /\ UnitsLeft'
  BY <1>1, HealthInv DEF Witnessed, UnitsLeft
<1>3. CASE reading = "nothing"
  BY <1>1, <1>2, <1>3 DEF Witnessed, StatusesWitnessed, CrashWitnessed
<1>4. CASE reading # "nothing"
  <2>1. moments \subseteq moments'
    BY <1>1, <1>4 DEF StatusNext
  <2> QED
    BY <1>1, <1>2, <1>4, <2>1, StatusesStay, CrashStays DEF Witnessed
<1> QED
  BY <1>3, <1>4

LEMMA WitnessedNext == Witnessed /\ [StatusNext]_statusVars => Witnessed'
<1> SUFFICES ASSUME Witnessed, [StatusNext]_statusVars PROVE Witnessed'
  OBVIOUS
<1>1. CASE StatusNext /\ CommandStep
  BY <1>1, ReadStatusesWitnessed, ReadUnitsWitnessed, ReadCrashWitnessed,
     ReadErrorsWitnessed DEF CommandStep
<1>2. CASE StatusNext /\ HealthNext /\ UNCHANGED command
  BY <1>2, HealthWitnessed
<1>3. CASE UNCHANGED statusVars
  <2>1. UNCHANGED healthVars /\ UNCHANGED command /\ moments' = moments
    BY <1>3 DEF statusVars
  <2>2. UNCHANGED <<reading, statuses, units>> /\ Inv'
    BY <2>1, StutterInv DEF command, Witnessed
  <2>3. StatusesWitnessed'
    <3>1. CASE reading = "nothing"
      BY <2>2, <3>1 DEF StatusesWitnessed
    <3>2. CASE reading # "nothing"
      BY <2>1, <2>2, <3>2, StatusesStay
    <3> QED
      BY <3>1, <3>2
  <2>4. CrashWitnessed'
    BY <2>1, CrashStays
  <2> QED
    BY <2>2, <2>3, <2>4 DEF Witnessed, UnitsLeft
<1> QED
  BY <1>1, <1>2, <1>3 DEF StatusNext

----------------------------------------------------------------------------
(* What a row claims. *)

Shows(u, r) ==
    r = [unit |-> u, marker |-> Errors] \/ r = [unit |-> u, marker |-> Good]

\* A row that is not bad has had a witness for both halves of it.
LEMMA RowWitnessed ==
    ASSUME Witnessed, ReadErrors, NEW u \in Units, Shows(u, row')
    PROVE  \E m \in moments : m[1] = u /\ ~Recent(m[2])
<1>1. /\ reading = "errors"
      /\ row' = [unit |-> First,
                 marker |-> HealthMarker(StateOf(First), crash,
                                         ErrorCount(First))]
  BY DEF ReadErrors
<1> DEFINE mark == HealthMarker(StateOf(First), crash, ErrorCount(First))
<1>2. u = First /\ mark # Bad
  <2> HIDE DEF mark
  <2>1. row' = [unit |-> First, marker |-> mark]
    BY <1>1 DEF mark
  <2>2. row'.unit = First /\ row'.marker = mark
    BY <2>1
  <2>3. row'.unit = u /\ row'.marker \in {Errors, Good}
    BY DEF Shows
  <2> QED
    BY <2>2, <2>3 DEF Bad, Errors, Good
<1>3. StateOf(First) # "failed" /\ ~Recent(crash)
  BY <1>2 DEF HealthMarker
<1>4. Known(crash) /\ WitnessIn(moments, First, crash)
  BY <1>1, <1>3 DEF Witnessed, CrashWitnessed
<1>5. PICK m \in moments : m[1] = u /\ Known(m[2]) /\ NotAfter(m[2], crash)
  BY <1>2, <1>4 DEF WitnessIn
<1>6. Wall \in Nat /\ RecentCrash \in Nat
  BY StatusAssumption DEF Witnessed, Inv, Typed, Clocks, Wall
<1>7. ~Recent(m[2])
  BY <1>3, <1>4, <1>5, <1>6 DEF Recent, Known, NotAfter
<1> QED
  BY <1>5, <1>7

LEMMA NoBadRow ==
    ASSUME Witnessed, [StatusNext]_statusVars, NEW u \in Units, Shows(u, row')
    PROVE  row' = row \/ \E m \in moments : m[1] = u /\ ~Recent(m[2])
<1>1. CASE ReadErrors
  BY <1>1, RowWitnessed
<1>2. CASE ReadStatuses
  <2>1. row' = <<>>
    BY <1>2 DEF ReadStatuses, NoRow
  <2>2. "unit" \in DOMAIN row'
    BY DEF Shows
  <2> QED
    BY <2>1, <2>2
<1>3. CASE ReadUnits \/ ReadCrash \/ UNCHANGED command \/ UNCHANGED statusVars
  BY <1>3 DEF ReadUnits, ReadCrash, command, statusVars
<1> QED
  BY <1>1, <1>2, <1>3 DEF StatusNext, CommandStep

\* A unit that hblog status shows as anything but bad was, at one moment of the
\* command, by status and crashes together, not bad, though the daemon writes
\* the two in different transactions and the command reads them in different
\* SELECTs (cmd_status, _health_marker).
THEOREM NoBadRowIsGood == StatusSpec => NoBadPassesForGood
<1>1. StatusInit => Witnessed
  BY WitnessedInit
<1>2. Witnessed /\ [StatusNext]_statusVars => Witnessed'
  BY WitnessedNext
<1>3. Witnessed /\ [StatusNext]_statusVars =>
         [\A u \in Units :
            row' = [unit |-> u, marker |-> Errors]
            \/ row' = [unit |-> u, marker |-> Good] =>
               row' = row
               \/ \E m \in moments : m[1] = u /\ ~Recent(m[2])]_statusVars
  BY NoBadRow DEF Shows
<1> QED
  BY <1>1, <1>2, <1>3, PTL DEF StatusSpec, NoBadPassesForGood

----------------------------------------------------------------------------
(* The fold of a batch over the incidents, event by event. *)

Table == [Units \X Kinds -> [count : Nat, first : Nat, last : Nat, open : BOOLEAN]]

LEMMA UpsertTyped ==
    ASSUME NEW t \in Table, NEW e \in Event
    PROVE  UpsertIncident(t, e) \in Table
<1> DEFINE key == <<e.unit, e.kind>>
           old == t[key]
           new == [count |-> old.count + 1,
                   first |-> IF old.count = 0 THEN e.ts ELSE old.first,
                   last |-> IF old.count = 0 \/ e.ts > old.last THEN e.ts
                            ELSE old.last,
                   open |-> TRUE]
<1>1. CASE e.kind \notin Kinds
  BY <1>1 DEF UpsertIncident
<1>2. CASE e.kind \in Kinds
  <2>1. key \in Units \X Kinds /\ e.ts \in Nat
    BY <1>2 DEF Event
  <2>2. old \in [count : Nat, first : Nat, last : Nat, open : BOOLEAN]
    BY <2>1 DEF Table
  <2>3. new \in [count : Nat, first : Nat, last : Nat, open : BOOLEAN]
    BY <2>1, <2>2
  <2>4. UpsertIncident(t, e) = [t EXCEPT ![key] = new]
    BY <1>2 DEF UpsertIncident
  <2> HIDE DEF new, old, key
  <2> QED
    BY <2>1, <2>3, <2>4 DEF Table
<1> QED
  BY <1>1, <1>2

\* h is the table after each set of places of seq, the last of them last.
FoldsInto(h, base, seq) ==
    h = [s \in SUBSET DOMAIN seq |->
           IF s = {} THEN base
           ELSE UpsertIncident(h[s \ {Max(s)}], seq[Max(s)])]

LEMMA FoldExists ==
    ASSUME NEW seq \in Seq(Event), NEW base \in Table
    PROVE  \E h : FoldsInto(h, base, seq)
<1> DEFINE D == DOMAIN seq
           pick == [s \in SUBSET D |-> Max(s)]
           op == [p \in D \X Table |-> UpsertIncident(p[2], seq[p[1]])]
<1>1. /\ D = 1..Len(seq) /\ IsFiniteSet(D) /\ D \in SUBSET Int
      /\ \A i \in D : seq[i] \in Event
  <2>1. D = 1..Len(seq) /\ Len(seq) \in Nat
    OBVIOUS
  <2>2. IsFiniteSet(1..Len(seq))
    BY <2>1, FS_Interval
  <2> QED
    BY <2>1, <2>2, ElementOfSeq
<1> HIDE DEF D
<1>2. ASSUME NEW s \in SUBSET D, s # {} PROVE Max(s) \in s
  <2>1. IsFiniteSet(s) /\ s \in SUBSET Int
    BY <1>1, FS_Subset
  <2> QED
    BY <1>2, <2>1, MaxOfFinite
<1>3. \A s \in SUBSET D : s # {} => pick[s] \in s
  BY <1>2
<1>4. PICK h : Solves(h, base, pick, op, D)
  <2> HIDE DEF pick, op
  <2> QED
    BY <1>1, <1>3, SolutionExists
<1>5. h = [s \in SUBSET D |->
             IF s = {} THEN base ELSE op[<<pick[s], h[s \ {pick[s]}]>>]]
  BY <1>4 DEF Solves
<1>6. ASSUME NEW s \in SUBSET D
      PROVE  h[s] = IF s = {} THEN base ELSE op[<<pick[s], h[s \ {pick[s]}]>>]
  <2> HIDE DEF pick, op
  <2> QED
    BY <1>5
<1>7. ASSUME NEW s \in SUBSET D, s # {}, h[s \ {Max(s)}] \in Table
      PROVE  /\ h[s] = UpsertIncident(h[s \ {Max(s)}], seq[Max(s)])
             /\ h[s] \in Table
  <2>1. Max(s) \in D /\ pick[s] = Max(s)
    BY <1>2, <1>7
  <2>2. h[s] = op[<<Max(s), h[s \ {Max(s)}]>>]
    <3> HIDE DEF pick, op
    <3> QED
      BY <1>6, <1>7, <2>1
  <2> DEFINE v == h[s \ {Max(s)}]
  <2>3. v \in Table /\ h[s] = op[<<Max(s), v>>]
    BY <1>7, <2>2
  <2> HIDE DEF v
  <2>4. op[<<Max(s), v>>] = UpsertIncident(v, seq[Max(s)])
    BY <2>1, <2>3
  <2>5. h[s] = UpsertIncident(v, seq[Max(s)])
    BY <2>3, <2>4
  <2> QED
    BY <1>1, <2>1, <2>3, <2>5, UpsertTyped DEF v
<1> HIDE DEF pick, op
<1>8. \A s \in SUBSET D : h[s] \in Table
  <2> SUFFICES ASSUME \E s \in SUBSET D : h[s] \notin Table PROVE FALSE
    OBVIOUS
  <2> DEFINE F == {s \in SUBSET D : h[s] \notin Table}
  <2>0. IsFiniteSet(D) /\ F # {} /\ F \in SUBSET (SUBSET D)
    BY <1>1
  <2>1. PICK s \in F : \A r \in F : r \subseteq s => r = s
    <3> HIDE DEF F
    <3> QED
      BY <2>0, SmallestSubset
  <2>2. s \in SUBSET D /\ h[s] \notin Table
    OBVIOUS
  <2>3. s # {}
    <3>1. h[{}] = base
      BY <1>6
    <3> QED
      BY <2>2, <3>1
  <2>4. Max(s) \in s
    BY <1>2, <2>2, <2>3
  <2>5. h[s \ {Max(s)}] \in Table
    BY <2>1, <2>2, <2>4
  <2> QED
    BY <1>7, <2>2, <2>3, <2>5
<1> DEFINE rhs(s) == IF s = {} THEN base
                     ELSE UpsertIncident(h[s \ {Max(s)}], seq[Max(s)])
<1>9. \A s \in SUBSET D : h[s] = rhs(s)
  <2>1. h[{}] = base
    BY <1>6
  <2> QED
    BY <1>7, <1>8, <2>1
<1>10. h = [s \in SUBSET D |-> h[s]]
  BY <1>5
<1>11. h = [s \in SUBSET D |-> rhs(s)]
  <2> HIDE DEF rhs
  <2> QED
    BY <1>9, <1>10
<1>12. FoldsInto(h, base, seq)
  BY <1>11 DEF FoldsInto, D
<1> QED
  BY <1>12

LEMMA MaxOfInterval == ASSUME NEW i \in Nat, i # 0 PROVE Max(1..i) = i
<1>1. 1..i \in SUBSET Int /\ i \in 1..i /\ \A j \in 1..i : j <= i
  OBVIOUS
<1> QED
  BY <1>1, MaxIs

\* The tables from one event of the batch to the next.
LEMMA UpsertAll ==
    ASSUME NEW seq \in Seq(Event), NEW base \in Table
    PROVE  \E t \in [0..Len(seq) -> Table] :
              /\ t[0] = base
              /\ \A i \in 1..Len(seq) : t[i] = UpsertIncident(t[i - 1], seq[i])
              /\ FoldLeft(UpsertIncident, base, seq) = t[Len(seq)]
<1> DEFINE h == CHOOSE h : FoldsInto(h, base, seq)
           n == Len(seq)
           t == [i \in 0..n |-> h[1..i]]
<1>1. n \in Nat /\ DOMAIN seq = 1..n /\ \A i \in 1..n : seq[i] \in Event
  BY ElementOfSeq
<1>2. FoldsInto(h, base, seq)
  BY FoldExists
<1>3. FoldLeft(UpsertIncident, base, seq) = h[DOMAIN seq]
  BY DEF FoldLeft, MapThenFoldSet, FoldsInto
<1> HIDE DEF h
<1>4. ASSUME NEW s \in SUBSET (1..n)
      PROVE  h[s] = IF s = {} THEN base
                    ELSE UpsertIncident(h[s \ {Max(s)}], seq[Max(s)])
  BY <1>1, <1>2 DEF FoldsInto
<1>5. t[0] = base
  <2>1. 1..0 = {} /\ 0 \in 0..n
    BY <1>1
  <2>2. h[{}] = base
    BY <1>4
  <2> QED
    BY <2>1, <2>2
<1>6. ASSUME NEW i \in 1..n PROVE t[i] = UpsertIncident(t[i - 1], seq[i])
  <2>1. /\ 1..i \in SUBSET (1..n) /\ 1..i # {} /\ Max(1..i) = i
        /\ (1..i) \ {i} = 1..(i - 1) /\ i - 1 \in 0..n /\ i \in 0..n
    <3> HIDE DEF n, t
    <3>1. i \in Nat /\ i # 0 /\ i <= n
      BY <1>1
    <3>2. Max(1..i) = i
      BY <3>1, MaxOfInterval
    <3>3. 1..i \in SUBSET (1..n) /\ i \in 1..i
      BY <1>1, <3>1
    <3>4. (1..i) \ {i} = 1..(i - 1) /\ i - 1 \in 0..n /\ i \in 0..n
      BY <1>1, <3>1
    <3> QED
      BY <3>2, <3>3, <3>4
  <2>2. h[1..i] = UpsertIncident(h[(1..i) \ {Max(1..i)}], seq[Max(1..i)])
    BY <1>4, <2>1
  <2>3. h[1..i] = UpsertIncident(h[1..(i - 1)], seq[i])
    BY <2>1, <2>2
  <2>4. t[i] = h[1..i] /\ t[i - 1] = h[1..(i - 1)]
    BY <2>1
  <2> QED
    BY <2>3, <2>4
<1>7. t[n] = FoldLeft(UpsertIncident, base, seq)
  BY <1>1, <1>3
<1> HIDE DEF t
<1> DEFINE S == {i \in 0..n : t[i] \in Table}
<1>8. \A i \in 0..n : i \in S
  <2>1. 0 \in S
    BY <1>1, <1>5
  <2>2. \A i \in 1..n : i - 1 \in S => i \in S
    BY <1>1, <1>6, UpsertTyped
  <2> HIDE DEF S, n
  <2> QED
    BY <1>1, <2>1, <2>2, IntervalInduction
<1>9. t \in [0..n -> Table]
  BY <1>8 DEF t
<1> QED
  BY <1>5, <1>6, <1>7, <1>9

----------------------------------------------------------------------------
(* The incidents summarise the events, of any table and rows. *)

RowsIn(s, u, k) == {i \in DOMAIN s : s[i].unit = u /\ s[i].kind = k}

\* What inc says of the rows of u and k in s, when u was resolved at row r.
Summarises(inc, s, r, u, k) ==
    /\ inc.count = Cardinality(RowsIn(s, u, k))
    /\ RowsIn(s, u, k) # {} =>
          /\ \E i \in RowsIn(s, u, k) :
                inc.first = s[i].ts /\ \A j \in RowsIn(s, u, k) : i <= j
          /\ \E i \in RowsIn(s, u, k) : inc.last = s[i].ts
          /\ \A j \in RowsIn(s, u, k) : s[j].ts <= inc.last
    /\ inc.open <=> \E i \in RowsIn(s, u, k) : k \in ResolveKinds => i > r

AllSummarised(t, s, r) ==
    \A u \in Units, k \in Kinds : Summarises(t[u, k], s, r[u], u, k)

LEMMA RowsFinite ==
    ASSUME NEW s \in Seq(Event), NEW u, NEW k
    PROVE  /\ IsFiniteSet(RowsIn(s, u, k))
           /\ RowsIn(s, u, k) \in SUBSET (1..Len(s))
           /\ \A i \in RowsIn(s, u, k) : s[i] \in Event /\ s[i].ts \in Nat
<1>1. RowsIn(s, u, k) \in SUBSET (1..Len(s))
  BY DEF RowsIn
<1>2. IsFiniteSet(1..Len(s))
  <2>1. Len(s) \in Nat
    OBVIOUS
  <2> QED
    BY <2>1, FS_Interval
<1>3. IsFiniteSet(RowsIn(s, u, k))
  BY <1>1, <1>2, FS_Subset
<1>4. \A i \in RowsIn(s, u, k) : s[i] \in Event
  BY <1>1, ElementOfSeq
<1> QED
  BY <1>1, <1>3, <1>4 DEF Event

\* z is s and one event more.
Extends(z, s, e) ==
    /\ z \in Seq(Event) /\ Len(z) = Len(s) + 1
    /\ \A i \in 1..Len(s) : z[i] = s[i]
    /\ z[Len(s) + 1] = e

\* A key the event is not of keeps its incident and its rows.
LEMMA OtherKeySummarised ==
    ASSUME NEW s \in Seq(Event), NEW e \in Event, NEW u, NEW k, NEW inc, NEW r,
           NEW z, Extends(z, s, e),
           Summarises(inc, s, r, u, k), ~(e.unit = u /\ e.kind = k)
    PROVE  Summarises(inc, z, r, u, k)
<1> DEFINE rows == RowsIn(s, u, k)
<1>1. RowsIn(z, u, k) = rows /\ \A i \in rows : z[i] = s[i]
  <2>3. \A i \in 1..Len(s) : z[i] = s[i]
    BY DEF Extends
  <2>1. RowsIn(z, u, k) = rows
    <3>1. /\ DOMAIN s = 1..Len(s) /\ DOMAIN z = 1..Len(s) + 1 /\ Len(s) \in Nat
          /\ z[Len(s) + 1] = e
      BY DEF Extends
    <3>2. \A i \in 1..Len(s) + 1 : i \in 1..Len(s) \/ i = Len(s) + 1
      BY <3>1
    <3> QED
      BY <2>3, <3>1, <3>2 DEF RowsIn
  <2>2. rows \in SUBSET (1..Len(s))
    BY RowsFinite
  <2> QED
    BY <2>1, <2>2, <2>3
<1> QED
  BY <1>1 DEF Summarises

\* The key of the event: its incident counts the event and is open.
LEMMA ItsKeySummarised ==
    ASSUME NEW s \in Seq(Event), NEW e \in Event, NEW u, NEW k,
           NEW old \in [count : Nat, first : Nat, last : Nat, open : BOOLEAN],
           NEW new \in [count : Nat, first : Nat, last : Nat, open : BOOLEAN],
           NEW r \in Nat, r <= Len(s), Summarises(old, s, r, u, k),
           NEW z, Extends(z, s, e),
           e.unit = u, e.kind = k,
           new.count = old.count + 1, new.open = TRUE,
           new.first = IF old.count = 0 THEN e.ts ELSE old.first,
           new.last = IF old.count = 0 \/ e.ts > old.last THEN e.ts ELSE old.last
    PROVE  Summarises(new, z, r, u, k)
<1> DEFINE rows == RowsIn(s, u, k)
           n == Len(s) + 1
<1>1. /\ RowsIn(z, u, k) = rows \cup {n}
      /\ \A i \in rows : z[i] = s[i] /\ i < n /\ i \in Nat /\ s[i].ts \in Nat
      /\ z[n] = e /\ n \in Nat /\ n > r /\ e.ts \in Nat /\ n \notin rows
  <2>1. Len(s) \in Nat /\ e.ts \in Nat
    BY DEF Event
  <2>2. /\ RowsIn(z, u, k) = rows \cup {n} /\ z[n] = e
        /\ \A i \in 1..Len(s) : z[i] = s[i]
    <3>1. /\ DOMAIN s = 1..Len(s) /\ DOMAIN z = 1..Len(s) + 1
          /\ z[Len(s) + 1] = e /\ \A i \in 1..Len(s) : z[i] = s[i]
      BY DEF Extends
    <3>2. \A i \in 1..Len(s) + 1 : i \in 1..Len(s) \/ i = Len(s) + 1
      BY <2>1
    <3>3. RowsIn(z, u, k) = RowsIn(s, u, k) \cup {Len(s) + 1}
      BY <2>1, <3>1, <3>2 DEF RowsIn
    <3> QED
      BY <3>1, <3>3
  <2>3. \A i \in rows : i \in 1..Len(s) /\ s[i].ts \in Nat
    BY RowsFinite
  <2> HIDE DEF rows
  <2> QED
    BY <2>1, <2>2, <2>3
<1>2. IsFiniteSet(rows)
  BY RowsFinite
<1> HIDE DEF n
<1>3. Cardinality(rows \cup {n}) = Cardinality(rows) + 1
  BY <1>1, <1>2, FS_AddElement
<1>4. Cardinality(rows) \in Nat /\ (Cardinality(rows) = 0 <=> rows = {})
  BY <1>2, FS_CardinalityType, FS_EmptySet
<1>5. old.count = Cardinality(rows)
  BY DEF Summarises
<1>6. new.count = Cardinality(RowsIn(z, u, k))
  BY <1>1, <1>3, <1>5
<1>7. new.open <=> \E i \in RowsIn(z, u, k) : k \in ResolveKinds => i > r
  BY <1>1
<1>8. CASE rows = {}
  <2>1. new.first = e.ts /\ new.last = e.ts /\ RowsIn(z, u, k) = {n}
    BY <1>1, <1>4, <1>5, <1>8
  <2>2. /\ \E i \in {n} : new.first = z[i].ts /\ \A j \in {n} : i <= j
        /\ \E i \in {n} : new.last = z[i].ts
        /\ \A j \in {n} : z[j].ts <= new.last
    BY <1>1, <2>1
  <2> QED
    BY <1>6, <1>7, <2>1, <2>2 DEF Summarises
<1>9. CASE rows # {}
  <2>1. old.count # 0
    BY <1>4, <1>5, <1>9
  <2>2. PICK i \in rows : old.first = s[i].ts /\ \A j \in rows : i <= j
    BY <1>9 DEF Summarises
  <2>3. /\ \E l \in rows : old.last = s[l].ts
        /\ \A j \in rows : s[j].ts <= old.last
    BY <1>9 DEF Summarises
  <2>4. new.first = z[i].ts /\ \A j \in rows \cup {n} : i <= j
    BY <1>1, <2>1, <2>2
  <2>5. \E l \in rows \cup {n} : new.last = z[l].ts
    BY <1>1, <2>1, <2>3
  <2>6. \A j \in rows \cup {n} : z[j].ts <= new.last
    <3>1. new.last >= e.ts /\ new.last >= old.last /\ new.last \in Nat
      BY <1>1, <2>1
    <3>2. \A j \in rows : z[j].ts <= old.last /\ z[j].ts \in Nat
      BY <1>1, <2>3
    <3>3. z[n].ts = e.ts
      BY <1>1
    <3>4. old.last \in Nat /\ e.ts \in Nat
      BY <1>1
    <3>5. \A j \in rows : z[j].ts <= new.last
      BY <3>1, <3>2, <3>4
    <3>6. z[n].ts <= new.last
      BY <3>1, <3>3, <3>4
    <3> QED
      BY <3>5, <3>6
  <2> QED
    BY <1>1, <1>6, <1>7, <2>2, <2>4, <2>5, <2>6 DEF Summarises
<1> QED
  BY <1>8, <1>9

LEMMA EventSummarised ==
    ASSUME NEW t \in Table, NEW s \in Seq(Event), NEW e \in Event,
           NEW r \in [Units -> Nat], \A u \in Units : r[u] <= Len(s),
           AllSummarised(t, s, r), NEW z, Extends(z, s, e)
    PROVE  AllSummarised(UpsertIncident(t, e), z, r)
<1> SUFFICES ASSUME NEW u \in Units, NEW k \in Kinds
             PROVE  Summarises(UpsertIncident(t, e)[u, k], z, r[u], u, k)
  BY DEF AllSummarised
<1>1. Summarises(t[u, k], s, r[u], u, k)
  BY DEF AllSummarised
<1>2. UpsertIncident(t, e) \in Table
  BY UpsertTyped
<1>3. CASE ~(e.unit = u /\ e.kind = k)
  <2>1. UpsertIncident(t, e)[u, k] = t[u, k]
    BY <1>3 DEF UpsertIncident, Table, Event
  <2> QED
    BY <1>1, <1>3, <2>1, OtherKeySummarised
<1>4. CASE e.unit = u /\ e.kind = k
  <2> DEFINE old == t[u, k]
             new == UpsertIncident(t, e)[u, k]
  <2>1. /\ old \in [count : Nat, first : Nat, last : Nat, open : BOOLEAN]
        /\ new \in [count : Nat, first : Nat, last : Nat, open : BOOLEAN]
    BY <1>2 DEF Table
  <2>2. new = [count |-> old.count + 1,
               first |-> IF old.count = 0 THEN e.ts ELSE old.first,
               last |-> IF old.count = 0 \/ e.ts > old.last THEN e.ts
                        ELSE old.last,
               open |-> TRUE]
    BY <1>4 DEF UpsertIncident, Table, Event
  <2> HIDE DEF old, new
  <2>3. /\ new.count = old.count + 1 /\ new.open = TRUE
        /\ new.first = IF old.count = 0 THEN e.ts ELSE old.first
        /\ new.last = IF old.count = 0 \/ e.ts > old.last THEN e.ts ELSE old.last
    BY <2>2
  <2>4. Summarises(old, s, r[u], u, k)
    BY <1>1 DEF old
  <2>5. Summarises(new, z, r[u], u, k)
    BY <1>4, <2>1, <2>3, <2>4, ItsKeySummarised
  <2> QED
    BY <2>5 DEF new
<1> QED
  BY <1>3, <1>4

\* A batch: the tables in between summarise the rows up to there.
LEMMA BatchSummarised ==
    ASSUME NEW t \in Table, NEW s \in Seq(Event), NEW batch \in Seq(Event),
           NEW r \in [Units -> Nat], \A u \in Units : r[u] <= Len(s),
           AllSummarised(t, s, r)
    PROVE  /\ AllSummarised(FoldLeft(UpsertIncident, t, batch), s \o batch, r)
           /\ FoldLeft(UpsertIncident, t, batch) \in Table
<1> DEFINE z == s \o batch
           n == Len(batch)
           upto(i) == SubSeq(z, 1, Len(s) + i)
<1>1. PICK tt \in [0..n -> Table] :
         /\ tt[0] = t
         /\ \A i \in 1..n : tt[i] = UpsertIncident(tt[i - 1], batch[i])
         /\ FoldLeft(UpsertIncident, t, batch) = tt[n]
  BY UpsertAll
<1>2. /\ n \in Nat /\ Len(s) \in Nat /\ z \in Seq(Event) /\ Len(z) = Len(s) + n
      /\ \A i \in 1..n : z[Len(s) + i] = batch[i]
      /\ \A i \in 1..Len(s) : z[i] = s[i]
  BY ConcatProperties
<1> HIDE DEF z
<1>3. ASSUME NEW i \in 0..n
      PROVE  /\ upto(i) \in Seq(Event) /\ Len(upto(i)) = Len(s) + i
             /\ \A j \in 1..Len(s) + i : upto(i)[j] = z[j]
  <2>1. \A j \in 1..Len(s) + i : z[j] \in Event
    BY <1>2, ElementOfSeq
  <2>2. 1 \in Int /\ Len(s) + i \in Int
    BY <1>2
  <2> QED
    BY <1>2, <2>1, <2>2, SubSeqProperties
<1>4. upto(0) = s
  <2>1. /\ upto(0) \in Seq(Event) /\ Len(upto(0)) = Len(s) + 0
        /\ \A j \in 1..Len(s) + 0 : upto(0)[j] = z[j]
    BY <1>2, <1>3
  <2>2. \A j \in 1..Len(s) : upto(0)[j] = s[j]
    BY <1>2, <2>1
  <2> HIDE DEF upto
  <2> QED
    BY <1>2, <2>1, <2>2, SeqEqual
<1>5. upto(n) = z
  BY <1>2, SubSeqFull
<1>6. ASSUME NEW i \in 1..n PROVE Extends(upto(i), upto(i - 1), batch[i])
  <2>1. i - 1 \in 0..n /\ i \in 0..n
    BY <1>2
  <2>2. /\ upto(i) \in Seq(Event) /\ Len(upto(i)) = Len(s) + i
        /\ \A j \in 1..Len(s) + i : upto(i)[j] = z[j]
        /\ Len(upto(i - 1)) = Len(s) + (i - 1)
        /\ \A j \in 1..Len(s) + (i - 1) : upto(i - 1)[j] = z[j]
    BY <1>3, <2>1
  <2> HIDE DEF upto
  <2>3. Len(upto(i - 1)) + 1 = Len(s) + i /\ Len(s) + i \in 1..Len(s) + i
    BY <1>2, <2>2
  <2>4. \A j \in 1..Len(upto(i - 1)) : upto(i)[j] = upto(i - 1)[j]
    BY <1>2, <2>2
  <2>5. upto(i)[Len(upto(i - 1)) + 1] = batch[i]
    BY <1>2, <2>2, <2>3
  <2> QED
    BY <2>2, <2>3, <2>4, <2>5 DEF Extends
<1>7. ASSUME NEW i \in 1..n, AllSummarised(tt[i - 1], upto(i - 1), r)
      PROVE  AllSummarised(tt[i], upto(i), r)
  <2>1. i - 1 \in 0..n /\ i \in 0..n /\ batch[i] \in Event
    BY <1>2, ElementOfSeq
  <2>2. /\ tt[i - 1] \in Table /\ tt[i] = UpsertIncident(tt[i - 1], batch[i])
    BY <1>1, <2>1
  <2>3. upto(i - 1) \in Seq(Event) /\ Len(upto(i - 1)) = Len(s) + (i - 1)
    BY <1>3, <2>1
  <2> HIDE DEF upto
  <2>4. \A u \in Units : r[u] <= Len(upto(i - 1))
    BY <1>2, <2>3
  <2> QED
    BY <1>6, <1>7, <2>1, <2>2, <2>3, <2>4, EventSummarised
<1> HIDE DEF upto
<1> DEFINE S == {i \in 0..n : AllSummarised(tt[i], upto(i), r)}
<1>8. \A i \in 0..n : i \in S
  <2>1. 0 \in S
    BY <1>1, <1>2, <1>4
  <2>2. ASSUME NEW i \in 1..n, i - 1 \in S PROVE i \in S
    <3>1. AllSummarised(tt[i - 1], upto(i - 1), r) /\ i \in 0..n
      BY <2>2
    <3>2. AllSummarised(tt[i], upto(i), r)
      BY <1>7, <3>1
    <3> QED
      BY <3>1, <3>2
  <2> HIDE DEF S, n
  <2> QED
    BY <1>2, <2>1, <2>2, IntervalInduction
<1>9. n \in 0..n
  BY <1>2
<1>10. AllSummarised(tt[n], upto(n), r) /\ tt[n] \in Table
  BY <1>1, <1>8, <1>9
<1> QED
  BY <1>1, <1>5, <1>10 DEF z

----------------------------------------------------------------------------
(* The incidents of the daemon. *)

Counted ==
    /\ incidents \in Table
    /\ resolvedAt \in [Units -> Nat]
    /\ \A u \in Units : resolvedAt[u] <= Len(stored)
    /\ AllSummarised(incidents, stored, resolvedAt)

\* A resolution closes what is open of the unit: no row is newer.
LEMMA ResolveCounted ==
    ASSUME Counted, stored \in Seq(Event), NEW u \in Units, Resolve(u),
           stored' = stored
    PROVE  Counted'
<1>1. /\ incidents' = [key \in DOMAIN incidents |->
                         IF key[1] = u /\ key[2] \in ResolveKinds
                         THEN [incidents[key] EXCEPT !.open = FALSE]
                         ELSE incidents[key]]
      /\ resolvedAt' = [resolvedAt EXCEPT ![u] = Len(stored)]
  BY DEF Resolve
<1>2. /\ resolvedAt \in [Units -> Nat] /\ incidents \in Table
      /\ DOMAIN incidents = Units \X Kinds /\ Len(stored) \in Nat
  BY DEF Counted, Table
<1>3. /\ resolvedAt' \in [Units -> Nat]
      /\ \A v \in Units : resolvedAt'[v] <= Len(stored)
      /\ \A v \in Units : resolvedAt'[v] = IF v = u THEN Len(stored)
                                           ELSE resolvedAt[v]
  BY <1>1, <1>2 DEF Counted
<1>4. ASSUME NEW v \in Units, NEW k \in Kinds
      PROVE  /\ incidents'[v, k] = IF v = u /\ k \in ResolveKinds
                                   THEN [incidents[v, k] EXCEPT !.open = FALSE]
                                   ELSE incidents[v, k]
             /\ incidents[v, k] \in [count : Nat, first : Nat, last : Nat,
                                     open : BOOLEAN]
  BY <1>1, <1>2 DEF Table
<1>5. incidents' \in Table
  <2>1. \A key \in Units \X Kinds :
           incidents'[key] \in [count : Nat, first : Nat, last : Nat,
                                open : BOOLEAN]
    BY <1>1, <1>2 DEF Table
  <2> QED
    BY <1>1, <1>2, <2>1 DEF Table
<1>6. ASSUME NEW v \in Units, NEW k \in Kinds
      PROVE  Summarises(incidents'[v, k], stored, resolvedAt'[v], v, k)
  <2>1. Summarises(incidents[v, k], stored, resolvedAt[v], v, k)
    BY DEF Counted, AllSummarised
  <2>2. CASE ~(v = u /\ k \in ResolveKinds)
    <3>1. /\ incidents'[v, k] = incidents[v, k]
          /\ v # u => resolvedAt'[v] = resolvedAt[v]
      BY <1>3, <1>4, <2>2
    <3> QED
      BY <2>1, <2>2, <3>1 DEF Summarises
  <2>3. CASE v = u /\ k \in ResolveKinds
    <3> DEFINE inc == incidents[v, k]
               new == incidents'[v, k]
    <3>1. /\ new = [inc EXCEPT !.open = FALSE]
          /\ inc \in [count : Nat, first : Nat, last : Nat, open : BOOLEAN]
      BY <1>4, <2>3
    <3> HIDE DEF inc, new
    <3>2. /\ new.count = inc.count /\ new.first = inc.first
          /\ new.last = inc.last /\ new.open = FALSE
      BY <3>1
    <3>3. \A i \in RowsIn(stored, v, k) : i \in 1..Len(stored)
      BY RowsFinite
    <3>4. ~ \E i \in RowsIn(stored, v, k) : k \in ResolveKinds => i > resolvedAt'[v]
      BY <1>2, <1>3, <2>3, <3>3
    <3>5. Summarises(inc, stored, resolvedAt[v], v, k)
      BY <2>1 DEF inc
    <3>6. Summarises(new, stored, resolvedAt'[v], v, k)
      BY <3>2, <3>4, <3>5 DEF Summarises
    <3> QED
      BY <3>6 DEF new
  <2> QED
    BY <2>2, <2>3
<1> QED
  BY <1>3, <1>5, <1>6 DEF Counted, AllSummarised

LEMMA CountedInit == HealthInit => Counted
<1> SUFFICES ASSUME HealthInit PROVE Counted
  OBVIOUS
<1>1. /\ incidents = [key \in Units \X Kinds |-> NoIncident]
      /\ resolvedAt = [u \in Units |-> 0] /\ stored = <<>>
  BY DEF HealthInit
<1>2. incidents \in Table
  BY <1>1 DEF Table, NoIncident
<1>3. \A u, k : RowsIn(stored, u, k) = {}
  BY <1>1 DEF RowsIn
<1>4. \A u \in Units, k \in Kinds : incidents[u, k] = NoIncident
  BY <1>1
<1>5. ASSUME NEW u \in Units, NEW k \in Kinds
      PROVE  Summarises(incidents[u, k], stored, resolvedAt[u], u, k)
  <2>1. incidents[u, k].count = 0 /\ incidents[u, k].open = FALSE
    <3> DEFINE inc == incidents[u, k]
    <3>1. inc = NoIncident
      BY <1>4
    <3> HIDE DEF inc
    <3>2. inc.count = 0 /\ inc.open = FALSE
      BY <3>1 DEF NoIncident
    <3> QED
      BY <3>2 DEF inc
  <2>3. RowsIn(stored, u, k) = {}
    BY <1>3
  <2>2. Cardinality({}) = 0
    BY FS_EmptySet
  <2> QED
    BY <2>1, <2>2, <2>3 DEF Summarises
<1>6. AllSummarised(incidents, stored, resolvedAt)
  BY <1>5 DEF AllSummarised
<1>7. \A u \in Units : resolvedAt[u] <= Len(stored)
  BY <1>1
<1> QED
  BY <1>1, <1>2, <1>6, <1>7 DEF Counted

LEMMA CountedNext == Inv /\ Counted /\ [HealthNext]_healthVars => Counted'
<1> SUFFICES ASSUME Inv, Counted, [HealthNext]_healthVars PROVE Counted'
  OBVIOUS
<1>1. stored \in Seq(Event) /\ buffer \in Seq(Event)
  BY DEF Inv, Typed, EventTypes
<1>2. ASSUME UNCHANGED <<stored, incidents, resolvedAt>> PROVE Counted'
  BY <1>2 DEF Counted
<1>3. CASE WriteBatch
  <2>1. /\ stored' = stored \o buffer /\ resolvedAt' = resolvedAt
        /\ incidents' = FoldLeft(UpsertIncident, incidents, buffer)
    BY <1>3 DEF WriteBatch
  <2>2. /\ incidents \in Table /\ resolvedAt \in [Units -> Nat]
        /\ \A u \in Units : resolvedAt[u] <= Len(stored)
        /\ AllSummarised(incidents, stored, resolvedAt)
    BY DEF Counted
  <2>3. /\ AllSummarised(incidents', stored', resolvedAt')
        /\ incidents' \in Table
    BY <1>1, <2>1, <2>2, BatchSummarised
  <2>4. Len(stored') = Len(stored) + Len(buffer) /\ Len(buffer) \in Nat
        /\ Len(stored) \in Nat
    BY <1>1, <2>1, ConcatProperties
  <2>5. \A u \in Units : resolvedAt'[u] <= Len(stored')
    BY <2>1, <2>2, <2>4
  <2> QED
    BY <2>1, <2>2, <2>3, <2>5 DEF Counted
<1>4. ASSUME NEW u \in Units, HandleEvent(u) PROVE Counted'
  <2>1. CASE Resolve(u)
    BY <1>1, <1>4, <2>1, ResolveCounted DEF HandleEvent
  <2>2. CASE UNCHANGED <<incidents, resolvedAt>>
    BY <1>2, <1>4, <2>2 DEF HandleEvent
  <2> QED
    BY <1>4, <2>1, <2>2 DEF HandleEvent
<1>5. CASE HealthWorldStep \/ UNCHANGED healthVars
  BY <1>2, <1>5 DEF HealthWorldStep, healthVars
<1>6. CASE \E u \in Units : LogProblem(u) \/ UpsertStatus(u)
  BY <1>2, <1>6 DEF LogProblem, UpsertStatus
<1>7. CASE DrainEvent \/ PruneStatus \/ EndPoll \/ TimerFlush \/ MarkCursor
           \/ Restart \/ \E seen \in Sightings : StartPoll(seen)
  BY <1>2, <1>7 DEF DrainEvent, PruneStatus, EndPoll, TimerFlush, MarkCursor,
     Restart, StartPoll
<1> QED
  BY <1>3, <1>4, <1>5, <1>6, <1>7 DEF HealthNext

LEMMA CountedSummarise == stored \in Seq(Event) /\ Counted => IncidentsSummarise
<1> SUFFICES ASSUME stored \in Seq(Event), Counted, NEW u \in Units, NEW k \in Kinds
             PROVE  LET inc == incidents[u, k]
                        rows == Rows(u, k)
                    IN  /\ inc.count = Cardinality(rows)
                        /\ rows # {} => inc.first = stored[Min(rows)].ts
                        /\ rows # {} => inc.last = Max({stored[i].ts : i \in rows})
                        /\ inc.open <=> \E i \in rows :
                                           k \in ResolveKinds => i > resolvedAt[u]
  BY DEF IncidentsSummarise
<1> DEFINE inc == incidents[u, k]
           rows == Rows(u, k)
           times == {stored[i].ts : i \in rows}
<1>1. Summarises(inc, stored, resolvedAt[u], u, k) /\ rows = RowsIn(stored, u, k)
  BY DEF Counted, AllSummarised, Rows, RowsIn
<1>2. rows \in SUBSET Int /\ \A i \in rows : stored[i].ts \in Nat
  <2>1. rows = RowsIn(stored, u, k)
    BY <1>1
  <2> HIDE DEF rows
  <2>2. rows \in SUBSET (1..Len(stored)) /\ \A i \in rows : stored[i].ts \in Nat
    BY <2>1, RowsFinite
  <2> QED
    BY <2>2
<1>3. inc.last \in Int
  <2>1. incidents \in Table /\ <<u, k>> \in Units \X Kinds
    BY DEF Counted
  <2>2. inc \in [count : Nat, first : Nat, last : Nat, open : BOOLEAN]
    BY <2>1 DEF Table
  <2> HIDE DEF inc
  <2> QED
    BY <2>2
<1> HIDE DEF inc, rows
<1>4. ASSUME rows # {} PROVE inc.first = stored[Min(rows)].ts
  <2>1. PICK i \in rows : inc.first = stored[i].ts /\ \A j \in rows : i <= j
    BY <1>1, <1>4 DEF Summarises
  <2>2. Min(rows) = i
    BY <1>2, <2>1, MinIs
  <2> QED
    BY <2>1, <2>2
<1>5. ASSUME rows # {} PROVE inc.last = Max(times)
  <2>1. /\ \E i \in rows : inc.last = stored[i].ts
        /\ \A j \in rows : stored[j].ts <= inc.last
    BY <1>1, <1>5 DEF Summarises
  <2>2. times \in SUBSET Int /\ inc.last \in times
    <3>1. \A i \in rows : stored[i].ts \in Int
      BY <1>2
    <3>2. times \in SUBSET Int
      BY <3>1
    <3>3. inc.last \in times
      BY <2>1
    <3> QED
      BY <3>2, <3>3
  <2>3. \A x \in times : x <= inc.last
    BY <2>1
  <2> HIDE DEF times
  <2> QED
    BY <2>2, <2>3, MaxIs
<1>6. /\ inc.count = Cardinality(rows)
      /\ inc.open <=> \E i \in rows : k \in ResolveKinds => i > resolvedAt[u]
  BY <1>1 DEF Summarises
<1> QED
  BY <1>4, <1>5, <1>6 DEF inc, rows

\* The incidents, kept up to date batch by batch, across resolutions, crashes
\* and replays, are the summary of the events: as many as there are rows, first
\* and last seen as the rows say, open if there is a row after the resolution
\* (_upsert_incident, resolve_incidents_for_unit).
THEOREM IncidentsAreSummary == HealthSpec => []IncidentsSummarise
<1>1. HealthInit => Inv /\ Counted
  BY InvInit, CountedInit
<1>2. Inv /\ Counted /\ [HealthNext]_healthVars => Inv' /\ Counted'
  BY HealthInv, CountedNext
<1>3. Inv /\ Counted => IncidentsSummarise
  BY CountedSummarise DEF Inv, Typed, EventTypes
<1> QED
  BY <1>1, <1>2, <1>3, PTL DEF HealthSpec

----------------------------------------------------------------------------
(* What a poll reported, from the monitor to the incidents. *)

\* The last poll reported w of u; it is still to be handled.
Told(u, w) == u \in DOMAIN report /\ w \in Range(report[u])
Queued(u, w) == u \in DOMAIN todo /\ w \in Range(todo[u])

QueueOK ==
    /\ DOMAIN report \subseteq Units
    /\ \A u \in Units, w \in Reports : Queued(u, w) => Told(u, w)
    /\ DOMAIN todo \subseteq DOMAIN report
    /\ pc = "idle" \/ (pc \in {"write", "mark"} /\ back = "idle") => todo = <<>>
    /\ pc \in {"idle", "status", "events", "write", "mark"}

\* A recovery excludes a failure, in the report and in the last sample.
ReportOK ==
    \A u \in Units :
        Told(u, "recovery") => prev[u].state = "active" /\ ~Told(u, "failure")

\* What is in the buffer and not of the journal is of the last poll, which is
\* not over: it is flushed before the next.
FromPoll ==
    /\ \A i \in DOMAIN entries : entries[i].pos > 0
    /\ \A i \in DOMAIN buffer :
          buffer[i].pos = 0 =>
             /\ pc \in {"events", "write", "mark"}
             /\ IF buffer[i].kind = "crash" THEN Told(buffer[i].unit, "failure")
                ELSE Told(buffer[i].unit, buffer[i].kind)

\* A unit seen failed has its incident open, or the failure is on its way.
FailureFollowed ==
    \A u \in Units : prev[u].state = "failed" =>
        \/ Open(u, "crash")
        \/ Queued(u, "failure")
        \/ /\ Told(u, "failure") /\ pc \in {"events", "write"}
           /\ \E i \in DOMAIN buffer :
                 buffer[i].unit = u /\ buffer[i].kind = "crash"

\* Once its recovery is handled, the rows of a unit after the resolution are of
\* the journal or of the same poll.
RecoveryHandled ==
    \A u \in Units, k \in ResolveKinds :
        Told(u, "recovery") /\ ~Queued(u, "recovery") =>
            \A i \in RowsIn(stored, u, k) :
                i > resolvedAt[u] => stored[i].pos > 0 \/ Told(u, k)

Followed == QueueOK /\ ReportOK /\ FromPoll /\ FailureFollowed /\ RecoveryHandled

LEMMA FollowedInit == HealthInit => Followed
<1> SUFFICES ASSUME HealthInit PROVE Followed
  OBVIOUS
<1>1. /\ report = <<>> /\ todo = <<>> /\ pc = "idle" /\ entries = <<>>
      /\ buffer = <<>> /\ prev = [u \in Units |-> Unseen]
  BY DEF HealthInit, Init, MonitorInit, Fresh
<1>2. \A u, w : ~Told(u, w) /\ ~Queued(u, w)
  BY <1>1 DEF Told, Queued
<1>3. QueueOK
  BY <1>1, <1>2 DEF QueueOK
<1>4. FromPoll
  BY <1>1 DEF FromPoll
<1>5. FailureFollowed
  BY <1>1 DEF FailureFollowed, Unseen
<1> QED
  BY <1>2, <1>3, <1>4, <1>5 DEF Followed, ReportOK, RecoveryHandled

\* What leaves the poll and its events alone, and goes where they still count.
LEMMA FollowedStays ==
    ASSUME Followed, UNCHANGED <<prev, report, todo, buffer, stored, incidents,
                                 resolvedAt>>,
           \A i \in DOMAIN entries' : entries'[i].pos > 0,
           \/ UNCHANGED <<pc, back>>
           \/ pc = "status" /\ pc' = "events" /\ back' = back
           \/ pc = "idle" /\ pc' = "write" /\ back' = "idle"
    PROVE  Followed'
<1>1. \A u, w : Told(u, w)' = Told(u, w) /\ Queued(u, w)' = Queued(u, w)
  BY DEF Told, Queued
<1>2. QueueOK'
  BY <1>1 DEF Followed, QueueOK
<1>3. ReportOK' /\ RecoveryHandled'
  BY <1>1 DEF Followed, ReportOK, RecoveryHandled
<1>4. FromPoll'
  BY <1>1 DEF Followed, FromPoll
<1>5. FailureFollowed'
  <2>1. \A u, k : Open(u, k)' = Open(u, k)
    BY DEF Open
  <2> QED
    BY <1>1, <2>1 DEF Followed, FailureFollowed
<1> QED
  BY <1>2, <1>3, <1>4, <1>5 DEF Followed

\* An event of the journal is taken.
LEMMA DrainFollowed == Inv /\ Followed /\ DrainEvent => Followed'
<1> SUFFICES ASSUME Inv, Followed, DrainEvent PROVE Followed'
  OBVIOUS
<1>1. /\ pc = "idle" /\ pc' \in {"write", "idle"} /\ back' = "idle"
      /\ UNCHANGED <<vars, entries, todo, stored, incidents, resolvedAt>>
      /\ buffer' = Append(buffer, entries[taken + 1])
      /\ taken + 1 \in DOMAIN entries
  BY DEF DrainEvent, Submit, Inv, Typed, EventTypes
<1>2. UNCHANGED <<prev, report>>
  BY <1>1 DEF vars, monitor
<1>3. \A u, w : Told(u, w)' = Told(u, w) /\ Queued(u, w)' = Queued(u, w)
  BY <1>1, <1>2 DEF Told, Queued
<1>4. /\ DOMAIN buffer' = 1..Len(buffer) + 1 /\ Len(buffer) \in Nat
      /\ DOMAIN buffer = 1..Len(buffer)
      /\ \A i \in 1..Len(buffer) : buffer'[i] = buffer[i]
      /\ buffer'[Len(buffer) + 1] = entries[taken + 1]
  BY <1>1 DEF Inv, Typed, EventTypes
<1>5. entries[taken + 1].pos > 0 /\ entries[taken + 1].pos \in Nat
  <2>1. entries[taken + 1] \in Event
    BY <1>1, ElementOfSeq DEF Inv, Typed, EventTypes
  <2> QED
    BY <1>1, <2>1 DEF Followed, FromPoll, Event
<1>6. \A i \in DOMAIN buffer : buffer[i].pos # 0
  BY <1>1 DEF Followed, FromPoll
<1>7. \A i \in DOMAIN buffer' : buffer'[i].pos # 0
  <2>1. \A i \in 1..Len(buffer) + 1 : i \in 1..Len(buffer) \/ i = Len(buffer) + 1
    BY <1>4
  <2> QED
    BY <1>4, <1>5, <1>6, <2>1
<1>8. FromPoll' /\ QueueOK'
  BY <1>1, <1>2, <1>3, <1>7 DEF Followed, FromPoll, QueueOK
<1>9. ReportOK' /\ RecoveryHandled'
  BY <1>1, <1>2, <1>3 DEF Followed, ReportOK, RecoveryHandled
<1>10. FailureFollowed'
  <2>1. \A u, k : Open(u, k)' = Open(u, k)
    BY <1>1 DEF Open
  <2>2. \A u \in Units : prev[u].state = "failed" => Open(u, "crash") \/ Queued(u, "failure")
    BY <1>1 DEF Followed, FailureFollowed
  <2> QED
    BY <1>2, <1>3, <2>1, <2>2 DEF FailureFollowed
<1> QED
  BY <1>8, <1>9, <1>10 DEF Followed

\* A poll: what it finds failed was, or is reported.
LEMMA StartFollowed ==
    ASSUME Inv, Followed, NEW seen \in Sightings, StartPoll(seen) PROVE Followed'
<1>1. /\ pc = "idle" /\ pc' = "status" /\ back' = back /\ todo' = report'
      /\ UNCHANGED <<entries, buffer, stored, incidents, resolvedAt>>
      /\ Poll(seen) /\ todo = <<>>
  BY DEF StartPoll, store, Followed, QueueOK
<1>2. /\ report' = [u \in seen |-> Events(u)] /\ seen \subseteq Units
      /\ \A u \in Units : prev'[u].state = IF u \in seen THEN state[u]
                                           ELSE prev[u].state
  BY <1>1, SightAssumption DEF Poll
<1>3. \A u, w : Told(u, w)' <=> u \in seen /\ w \in Range(Events(u))
  BY <1>2 DEF Told
<1>4. \A u, w : Queued(u, w)' <=> Told(u, w)'
  BY <1>1 DEF Queued, Told
<1>5. QueueOK'
  BY <1>1, <1>2, <1>4 DEF QueueOK
<1>6. ReportOK'
  BY <1>2, <1>3, EventsType DEF ReportOK, Recovers, FailsNow
<1>7. \A i \in DOMAIN buffer : buffer[i].pos # 0
  BY <1>1 DEF Followed, FromPoll
<1>8. FromPoll'
  BY <1>1, <1>7 DEF Followed, FromPoll
<1>9. RecoveryHandled'
  BY <1>4 DEF RecoveryHandled
<1>10. FailureFollowed'
  <2> SUFFICES ASSUME NEW u \in Units, prev'[u].state = "failed"
               PROVE  Open(u, "crash")' \/ Queued(u, "failure")'
    BY DEF FailureFollowed
  <2>1. CASE prev[u].state = "failed"
    <3>1. Open(u, "crash")
      BY <1>1, <2>1 DEF Followed, FailureFollowed, Queued
    <3> QED
      BY <1>1, <3>1 DEF Open
  <2>2. CASE prev[u].state # "failed"
    <3>1. u \in seen /\ FailsNow(u)
      BY <1>2, <2>2 DEF FailsNow
    <3> QED
      BY <1>3, <1>4, <3>1, EventsType
  <2> QED
    BY <2>1, <2>2
<1> QED
  BY <1>5, <1>6, <1>8, <1>9, <1>10 DEF Followed

LEMMA TailRange ==
    ASSUME NEW s \in Seq(Reports), s # <<>>, NEW w
    PROVE  /\ w \in Range(Tail(s)) => w \in Range(s)
           /\ w \in Range(s) => w = Head(s) \/ w \in Range(Tail(s))
           /\ Head(s) \in Range(s)
<1>1. /\ DOMAIN s = 1..Len(s) /\ Len(s) \in Nat /\ Len(s) # 0 /\ Head(s) = s[1]
      /\ DOMAIN Tail(s) = 1..Len(s) - 1
      /\ \A i \in 1..Len(s) - 1 : Tail(s)[i] = s[i + 1]
  OBVIOUS
<1>2. ASSUME w \in Range(Tail(s)) PROVE w \in Range(s)
  <2>1. PICK i \in 1..Len(s) - 1 : w = Tail(s)[i]
    BY <1>1, <1>2 DEF Range
  <2>2. i + 1 \in DOMAIN s /\ w = s[i + 1]
    BY <1>1, <2>1
  <2> QED
    BY <2>2 DEF Range
<1>3. ASSUME w \in Range(s), w # Head(s) PROVE w \in Range(Tail(s))
  <2>1. PICK i \in 1..Len(s) : w = s[i]
    BY <1>1, <1>3 DEF Range
  <2>2. i # 1
    BY <1>1, <1>3, <2>1
  <2>3. i - 1 \in DOMAIN Tail(s) /\ Tail(s)[i - 1] = s[i]
    BY <1>1, <2>1, <2>2
  <2> QED
    BY <2>1, <2>3 DEF Range
<1>4. Head(s) \in Range(s)
  <2>1. 1 \in DOMAIN s
    BY <1>1
  <2> QED
    BY <1>1, <2>1 DEF Range
<1> QED
  BY <1>2, <1>3, <1>4

\* An event of the poll is handled: it goes from todo to the buffer, and a
\* recovery resolves.
LEMMA HandleFollowed ==
    ASSUME Inv, Counted, Followed, NEW u \in Units, HandleEvent(u) PROVE Followed'
<1> DEFINE w == Head(todo[u])
           e == EventOf(u, w)
<1>1. /\ pc = "events" /\ u \in DOMAIN todo /\ todo[u] # <<>>
      /\ todo' = [todo EXCEPT ![u] = Tail(@)]
      /\ \/ w = "recovery" /\ Resolve(u)
         \/ w # "recovery" /\ UNCHANGED <<incidents, resolvedAt>>
      /\ buffer' = Append(buffer, e) /\ back' = "events"
      /\ pc' \in {"write", "events"}
      /\ UNCHANGED <<vars, entries, stored>>
  BY DEF HandleEvent, Submit
<1>2. UNCHANGED <<prev, report>>
  BY <1>1 DEF vars, monitor
<1>3. todo[u] \in Seq(Reports) /\ stored \in Seq(Event)
  BY <1>1 DEF Inv, Typed, EventTypes
<1>4. w \in Reports
  BY <1>1, <1>3, HeadTailProperties
<1>5. \A v, x : Told(v, x)' = Told(v, x)
  BY <1>2 DEF Told
<1>6. /\ DOMAIN todo' = DOMAIN todo
      /\ \A v \in DOMAIN todo : v # u => todo'[v] = todo[v]
      /\ todo'[u] = Tail(todo[u])
  BY <1>1
<1>7. /\ \A v, x : Queued(v, x)' => Queued(v, x)
      /\ \A v, x : Queued(v, x) => Queued(v, x)' \/ (v = u /\ x = w)
  <2>1. \A x : /\ x \in Range(Tail(todo[u])) => x \in Range(todo[u])
               /\ x \in Range(todo[u]) => x = w \/ x \in Range(Tail(todo[u]))
    BY <1>1, <1>3, TailRange
  <2> HIDE DEF w
  <2> QED
    BY <1>1, <1>6, <2>1 DEF Queued
<1>8. Told(u, w)
  <2>1. Queued(u, w)
    BY <1>1, <1>3, TailRange DEF Queued
  <2> QED
    BY <1>4, <2>1 DEF Followed, QueueOK
<1>9. e.unit = u /\ e.pos = 0 /\ e.kind = IF w = "failure" THEN "crash" ELSE w
  BY DEF EventOf
<1> HIDE DEF w, e
<1>10. /\ DOMAIN buffer' = 1..Len(buffer) + 1 /\ Len(buffer) \in Nat
       /\ DOMAIN buffer = 1..Len(buffer)
       /\ \A i \in 1..Len(buffer) : buffer'[i] = buffer[i]
       /\ buffer'[Len(buffer) + 1] = e
       /\ \A i \in 1..Len(buffer) + 1 : i \in 1..Len(buffer) \/ i = Len(buffer) + 1
  BY <1>1 DEF Inv, Typed, EventTypes
<1>11. QueueOK'
  <2>1. \A v \in Units, x \in Reports : Queued(v, x)' => Told(v, x)'
    BY <1>5, <1>7 DEF Followed, QueueOK
  <2> QED
    BY <1>1, <1>2, <1>6, <2>1 DEF Followed, QueueOK
<1>12. ReportOK'
  BY <1>2, <1>5 DEF Followed, ReportOK
<1>13. FromPoll'
  <2>1. \A i \in 1..Len(buffer) : buffer[i].pos = 0 =>
           IF buffer[i].kind = "crash" THEN Told(buffer[i].unit, "failure")
           ELSE Told(buffer[i].unit, buffer[i].kind)
    BY <1>10 DEF Followed, FromPoll
  <2>2. IF e.kind = "crash" THEN Told(e.unit, "failure") ELSE Told(e.unit, e.kind)
    BY <1>4, <1>8, <1>9 DEF Reports
  <2>3. \A i \in DOMAIN buffer' : buffer'[i].pos = 0 =>
           IF buffer'[i].kind = "crash" THEN Told(buffer'[i].unit, "failure")
           ELSE Told(buffer'[i].unit, buffer'[i].kind)
    BY <1>10, <2>1, <2>2
  <2> QED
    BY <1>1, <1>5, <2>3 DEF Followed, FromPoll
<1>14. FailureFollowed'
  <2> SUFFICES ASSUME NEW v \in Units, prev'[v].state = "failed"
               PROVE  \/ Open(v, "crash")'
                      \/ Queued(v, "failure")'
                      \/ /\ Told(v, "failure")' /\ pc' \in {"events", "write"}
                         /\ \E i \in DOMAIN buffer' :
                               buffer'[i].unit = v /\ buffer'[i].kind = "crash"
    BY DEF FailureFollowed
  <2>1. \/ Open(v, "crash")
        \/ Queued(v, "failure")
        \/ /\ Told(v, "failure")
           /\ \E i \in DOMAIN buffer : buffer[i].unit = v /\ buffer[i].kind = "crash"
    BY <1>2 DEF Followed, FailureFollowed
  <2>2. CASE Open(v, "crash")
    <3>1. CASE w # "recovery"
      BY <1>1, <2>2, <3>1 DEF Open
    <3>2. CASE w = "recovery"
      <4>1. v # u
        BY <1>2, <1>8, <3>2 DEF Followed, ReportOK
      <4>2. /\ incidents \in Table /\ <<v, "crash">> \in Units \X Kinds
            /\ <<v, "crash">>[1] = v
        BY DEF Counted, Kinds, ResolveKinds
      <4>3. incidents'[<<v, "crash">>] = incidents[<<v, "crash">>]
        BY <1>1, <3>2, <4>1, <4>2 DEF Resolve, Table
      <4> QED
        BY <2>2, <4>3 DEF Open
    <3> QED
      BY <3>1, <3>2
  <2>3. CASE Queued(v, "failure") /\ ~Queued(v, "failure")'
    <3>1. v = u /\ w = "failure"
      BY <1>7, <2>3
    <3>2. e.kind = "crash" /\ e.unit = v
      BY <1>9, <3>1
    <3>3. Len(buffer) + 1 \in DOMAIN buffer'
      BY <1>10
    <3> QED
      BY <1>1, <1>5, <1>8, <1>10, <3>1, <3>2, <3>3
  <2>4. CASE /\ Told(v, "failure")
             /\ \E i \in DOMAIN buffer : buffer[i].unit = v /\ buffer[i].kind = "crash"
    <3>1. \A i \in DOMAIN buffer : i \in DOMAIN buffer' /\ buffer'[i] = buffer[i]
      BY <1>10
    <3> QED
      BY <1>1, <1>5, <2>4, <3>1
  <2> QED
    BY <2>1, <2>2, <2>3, <2>4
<1>15. RecoveryHandled'
  <2> SUFFICES ASSUME NEW v \in Units, NEW k \in ResolveKinds,
                      Told(v, "recovery")', ~Queued(v, "recovery")',
                      NEW i \in RowsIn(stored, v, k), i > resolvedAt'[v]
               PROVE  stored[i].pos > 0 \/ Told(v, k)'
    BY <1>1 DEF RecoveryHandled
  <2>1. CASE v = u /\ w = "recovery"
    <3>1. resolvedAt'[v] = Len(stored)
      BY <1>1, <2>1 DEF Resolve, Counted
    <3>2. i \in 1..Len(stored) /\ Len(stored) \in Nat
      BY <1>3, RowsFinite
    <3> QED
      BY <3>1, <3>2
  <2>2. CASE ~(v = u /\ w = "recovery")
    <3>1. resolvedAt'[v] = resolvedAt[v]
      BY <1>1, <2>2 DEF Resolve, Counted
    <3>2. ~Queued(v, "recovery") /\ Told(v, "recovery")
      BY <1>5, <1>7, <2>2
    <3> QED
      BY <1>5, <3>1, <3>2 DEF Followed, RecoveryHandled
  <2> QED
    BY <2>1, <2>2
<1> QED
  BY <1>11, <1>12, <1>13, <1>14, <1>15 DEF Followed

\* A batch is written: what it holds of crashes is open.
LEMMA WriteFollowed == Inv /\ Counted /\ Counted' /\ Followed /\ WriteBatch => Followed'
<1> SUFFICES ASSUME Inv, Counted, Counted', Followed, WriteBatch PROVE Followed'
  OBVIOUS
<1>1. /\ pc = "write" /\ pc' = "mark" /\ stored' = stored \o buffer
      /\ UNCHANGED <<vars, entries, todo, buffer, back, resolvedAt>>
  BY DEF WriteBatch
<1>2. UNCHANGED <<prev, report>>
  BY <1>1 DEF vars, monitor
<1>3. \A v, x : Told(v, x)' = Told(v, x) /\ Queued(v, x)' = Queued(v, x)
  BY <1>1, <1>2 DEF Told, Queued
<1>4. stored \in Seq(Event) /\ buffer \in Seq(Event)
  BY DEF Inv, Typed, EventTypes
<1>5. /\ stored' \in Seq(Event) /\ DOMAIN stored' = 1..Len(stored) + Len(buffer)
      /\ DOMAIN buffer = 1..Len(buffer) /\ Len(stored) \in Nat /\ Len(buffer) \in Nat
      /\ DOMAIN stored = 1..Len(stored)
      /\ \A i \in 1..Len(stored) : stored'[i] = stored[i]
      /\ \A i \in 1..Len(buffer) : stored'[Len(stored) + i] = buffer[i]
  BY <1>1, <1>4, ConcatProperties
<1>6. QueueOK' /\ ReportOK' /\ FromPoll'
  BY <1>1, <1>2, <1>3 DEF Followed, QueueOK, ReportOK, FromPoll
<1>7. ASSUME NEW u \in Units,
             \E i \in RowsIn(stored', u, "crash") : i > resolvedAt[u]
      PROVE  Open(u, "crash")'
  <2>1. Summarises(incidents'[u, "crash"], stored', resolvedAt[u], u, "crash")
    BY <1>1 DEF Counted, AllSummarised, Kinds, ResolveKinds
  <2> QED
    BY <1>7, <2>1 DEF Summarises, Open
<1>8. FailureFollowed'
  <2> SUFFICES ASSUME NEW u \in Units, prev'[u].state = "failed",
                      ~Queued(u, "failure")'
               PROVE  Open(u, "crash")'
    BY DEF FailureFollowed
  <2>1. \/ Open(u, "crash")
        \/ \E i \in DOMAIN buffer : buffer[i].unit = u /\ buffer[i].kind = "crash"
    BY <1>2, <1>3 DEF Followed, FailureFollowed
  <2>2. CASE Open(u, "crash")
    <3>1. Summarises(incidents[u, "crash"], stored, resolvedAt[u], u, "crash")
      BY DEF Counted, AllSummarised, Kinds, ResolveKinds
    <3>2. PICK i \in RowsIn(stored, u, "crash") : i > resolvedAt[u]
      BY <2>2, <3>1 DEF Summarises, Open, ResolveKinds
    <3>3. i \in RowsIn(stored', u, "crash")
      BY <1>5, <3>2 DEF RowsIn
    <3> QED
      BY <1>7, <3>2, <3>3
  <2>3. CASE \E i \in DOMAIN buffer : buffer[i].unit = u /\ buffer[i].kind = "crash"
    <3>1. PICK i \in DOMAIN buffer : buffer[i].unit = u /\ buffer[i].kind = "crash"
      BY <2>3
    <3>2. /\ Len(stored) + i \in DOMAIN stored' /\ stored'[Len(stored) + i] = buffer[i]
          /\ resolvedAt[u] \in Nat /\ resolvedAt[u] <= Len(stored) /\ i \in Nat /\ i # 0
      BY <1>5, <3>1 DEF Counted
    <3>3. Len(stored) + i \in RowsIn(stored', u, "crash") /\ Len(stored) + i > resolvedAt[u]
      BY <1>5, <3>1, <3>2 DEF RowsIn
    <3> QED
      BY <1>7, <3>3
  <2> QED
    BY <2>1, <2>2, <2>3
<1>9. RecoveryHandled'
  <2> SUFFICES ASSUME NEW u \in Units, NEW k \in ResolveKinds,
                      Told(u, "recovery"), ~Queued(u, "recovery"),
                      NEW i \in RowsIn(stored', u, k), i > resolvedAt[u]
               PROVE  stored'[i].pos > 0 \/ Told(u, k)
    BY <1>1, <1>3 DEF RecoveryHandled
  <2>1. CASE i \in 1..Len(stored)
    <3>1. i \in RowsIn(stored, u, k) /\ stored'[i] = stored[i]
      BY <1>5, <2>1 DEF RowsIn
    <3> QED
      BY <3>1 DEF Followed, RecoveryHandled
  <2>2. CASE i \notin 1..Len(stored)
    <3> DEFINE j == i - Len(stored)
    <3>1. /\ i \in 1..Len(stored) + Len(buffer)
          /\ stored'[i].unit = u /\ stored'[i].kind = k
      BY <1>5 DEF RowsIn
    <3>2. j \in 1..Len(buffer) /\ i = Len(stored) + j
      BY <1>5, <2>2, <3>1
    <3> HIDE DEF j
    <3>3. buffer[j].unit = u /\ buffer[j].kind = k /\ stored'[i] = buffer[j]
      BY <1>5, <3>1, <3>2
    <3>4. buffer[j].pos \in Nat
      <4>1. buffer[j] \in Event
        BY <1>4, <3>2, ElementOfSeq
      <4> QED
        BY <4>1 DEF Event
    <3>5. buffer[j].pos = 0 => IF k = "crash" THEN Told(u, "failure") ELSE Told(u, k)
      BY <1>5, <3>2, <3>3 DEF Followed, FromPoll
    <3>6. ~Told(u, "failure")
      BY DEF Followed, ReportOK
    <3> QED
      BY <3>3, <3>4, <3>5, <3>6
  <2> QED
    BY <2>1, <2>2
<1> QED
  BY <1>6, <1>8, <1>9 DEF Followed

\* The batch is done with.
LEMMA MarkFollowed == Inv /\ Followed /\ MarkCursor => Followed'
<1> SUFFICES ASSUME Inv, Followed, MarkCursor PROVE Followed'
  OBVIOUS
<1>1. /\ pc = "mark" /\ pc' = back /\ back' = back /\ buffer' = <<>>
      /\ UNCHANGED <<vars, entries, todo, stored, incidents, resolvedAt>>
      /\ back \in {"idle", "events"}
  BY DEF MarkCursor, Inv, Typed, EventTypes
<1>2. UNCHANGED <<prev, report>>
  BY <1>1 DEF vars, monitor
<1>3. \A u, w : Told(u, w)' = Told(u, w) /\ Queued(u, w)' = Queued(u, w)
  BY <1>1, <1>2 DEF Told, Queued
<1>4. QueueOK'
  BY <1>1, <1>2, <1>3 DEF Followed, QueueOK
<1>5. ReportOK' /\ RecoveryHandled'
  BY <1>1, <1>2, <1>3 DEF Followed, ReportOK, RecoveryHandled
<1>6. FromPoll'
  BY <1>1 DEF Followed, FromPoll
<1>7. FailureFollowed'
  <2>1. \A u, k : Open(u, k)' = Open(u, k)
    BY <1>1 DEF Open
  <2>2. \A u \in Units : prev[u].state = "failed" => Open(u, "crash") \/ Queued(u, "failure")
    BY <1>1 DEF Followed, FailureFollowed
  <2> QED
    BY <1>2, <1>3, <2>1, <2>2 DEF FailureFollowed
<1> QED
  BY <1>4, <1>5, <1>6, <1>7 DEF Followed

\* The poll is over: what it left in the buffer is flushed at once.
LEMMA EndPollFollowed == Inv /\ Followed /\ EndPoll => Followed'
<1> SUFFICES ASSUME Inv, Followed, EndPoll PROVE Followed'
  OBVIOUS
<1>1. /\ pc = "events" /\ back' = "idle" /\ todo' = <<>>
      /\ \A u \in DOMAIN todo : todo[u] = <<>>
      /\ pc' = IF FlushAfterPoll /\ buffer # <<>> THEN "write" ELSE "idle"
      /\ UNCHANGED <<vars, entries, buffer, stored, incidents, resolvedAt>>
  BY DEF EndPoll
<1>2. UNCHANGED <<prev, report>>
  BY <1>1 DEF vars, monitor
<1>3. \A u, w : Told(u, w)' = Told(u, w)
  BY <1>2 DEF Told
<1>4. \A u, w : ~Queued(u, w) /\ ~Queued(u, w)'
  BY <1>1 DEF Queued, Range
<1>5. ASSUME NEW u, NEW w, Told(u, w), NEW i \in DOMAIN buffer PROVE pc' = "write"
  <2>1. u \in DOMAIN report /\ report[u] # <<>>
    BY <1>5 DEF Told, Range
  <2>2. buffer # <<>>
    BY <1>5
  <2> QED
    BY <1>1, <2>1, <2>2 DEF FlushAfterPoll
<1>6. QueueOK'
  BY <1>1, <1>2, <1>4 DEF Followed, QueueOK
<1>7. ReportOK' /\ RecoveryHandled'
  BY <1>1, <1>2, <1>3, <1>4 DEF Followed, ReportOK, RecoveryHandled
<1>8. FromPoll'
  BY <1>1, <1>3, <1>5 DEF Followed, FromPoll
<1>9. FailureFollowed'
  <2>1. \A u, k : Open(u, k)' = Open(u, k)
    BY <1>1 DEF Open
  <2>2. \A u \in Units : prev[u].state = "failed" =>
           \/ Open(u, "crash")
           \/ /\ Told(u, "failure")
              /\ \E i \in DOMAIN buffer :
                    buffer[i].unit = u /\ buffer[i].kind = "crash"
    BY <1>4 DEF Followed, FailureFollowed
  <2> QED
    BY <1>1, <1>2, <1>3, <1>5, <2>1, <2>2 DEF FailureFollowed
<1> QED
  BY <1>6, <1>7, <1>8, <1>9 DEF Followed

\* A new daemon has seen nothing.
LEMMA RestartFollowed == Followed /\ Restart => Followed'
<1> SUFFICES ASSUME Followed, Restart PROVE Followed'
  OBVIOUS
<1>1. /\ pc' = "idle" /\ back' = "idle" /\ todo' = <<>> /\ buffer' = <<>>
      /\ UNCHANGED <<entries, stored, incidents, resolvedAt>>
      /\ report' = <<>> /\ prev' = [u \in Units |-> Unseen]
  BY DEF Restart, NewSession, Fresh
<1>2. \A u, w : ~Told(u, w)' /\ ~Queued(u, w)'
  BY <1>1 DEF Told, Queued
<1>3. QueueOK'
  BY <1>1, <1>2 DEF QueueOK
<1>4. FromPoll'
  BY <1>1 DEF Followed, FromPoll
<1>5. FailureFollowed'
  BY <1>1 DEF FailureFollowed, Unseen
<1> QED
  BY <1>2, <1>3, <1>4, <1>5 DEF Followed, ReportOK, RecoveryHandled

LEMMA LogFollowed ==
    ASSUME Inv, Followed, NEW u \in Units, LogProblem(u) PROVE Followed'
<1>1. UNCHANGED <<vars, thread, store, resolvedAt>>
  BY DEF LogProblem
<1>2. UNCHANGED <<prev, report>>
  BY <1>1 DEF vars, monitor
<1>3. \A i \in DOMAIN entries' : entries'[i].pos > 0
  <2>1. PICK e : entries' = Append(entries, e) /\ e.pos = Len(entries) + 1
    BY DEF LogProblem
  <2>2. entries \in Seq(Event)
    BY DEF Inv, Typed, EventTypes
  <2>3. /\ \A i \in DOMAIN entries' : i \in DOMAIN entries \/ i = Len(entries) + 1
        /\ \A i \in DOMAIN entries : entries'[i] = entries[i]
        /\ entries'[Len(entries) + 1] = e
    BY <2>1, <2>2
  <2>4. e.pos > 0
    BY <2>1, <2>2
  <2>5. \A i \in DOMAIN entries : entries[i].pos > 0
    BY DEF Followed, FromPoll
  <2> QED
    BY <2>3, <2>4, <2>5
<1> QED
  BY <1>1, <1>2, <1>3, FollowedStays

LEMMA FollowedNext ==
    Inv /\ Counted /\ Counted' /\ Followed /\ [HealthNext]_healthVars => Followed'
<1> SUFFICES ASSUME Inv, Counted, Counted', Followed, [HealthNext]_healthVars
             PROVE  Followed'
  OBVIOUS
<1>1. \A i \in DOMAIN entries : entries[i].pos > 0
  BY DEF Followed, FromPoll
<1>2. ASSUME UNCHANGED <<prev, report, thread, entries, stored, incidents, resolvedAt>>
      PROVE  Followed'
  BY <1>1, <1>2, FollowedStays
<1>3. CASE HealthWorldStep
  <2>1. UNCHANGED <<prev, report>>
    BY <1>3, WorldClocks DEF HealthWorldStep, Inv, Typed
  <2> QED
    BY <1>2, <1>3, <2>1 DEF HealthWorldStep
<1>4. CASE UNCHANGED healthVars
  BY <1>2, <1>4 DEF healthVars, vars, monitor
<1>5. CASE \E u \in Units : LogProblem(u) \/ HandleEvent(u)
  BY <1>5, LogFollowed, HandleFollowed
<1>6. CASE (\E u \in Units : UpsertStatus(u)) \/ PruneStatus \/ TimerFlush
  <2>1. UNCHANGED <<prev, report>>
    BY <1>6 DEF UpsertStatus, PruneStatus, TimerFlush, vars, monitor
  <2> QED
    BY <1>1, <1>6, <2>1, FollowedStays DEF UpsertStatus, PruneStatus, TimerFlush
<1>7. CASE \E seen \in Sightings : StartPoll(seen)
  BY <1>7, StartFollowed
<1>8. CASE DrainEvent \/ EndPoll \/ WriteBatch \/ MarkCursor \/ Restart
  BY <1>8, DrainFollowed, EndPollFollowed, WriteFollowed, MarkFollowed,
     RestartFollowed
<1> QED
  BY <1>3, <1>4, <1>5, <1>6, <1>7, <1>8 DEF HealthNext

LEMMA FollowedShows == Followed => FailureShown
  BY DEF Followed, FailureFollowed, QueueOK, Queued, FailureShown

LEMMA FollowedResolves == Counted /\ Followed => RecoveryResolves
<1> SUFFICES ASSUME Counted, Followed, pc = "idle",
                    NEW u \in DOMAIN report, NEW k \in ResolveKinds,
                    "recovery" \in Range(report[u]), Open(u, k)
             PROVE  \E i \in Rows(u, k) :
                       /\ i > resolvedAt[u]
                       /\ stored[i].pos > 0 \/ k \in Range(report[u])
  BY DEF RecoveryResolves
<1>1. u \in Units /\ k \in Kinds /\ todo = <<>>
  BY DEF Followed, QueueOK, Kinds
<1>2. Summarises(incidents[u, k], stored, resolvedAt[u], u, k)
  BY <1>1 DEF Counted, AllSummarised
<1>3. PICK i \in RowsIn(stored, u, k) : i > resolvedAt[u]
  BY <1>2 DEF Summarises, Open
<1>4. stored[i].pos > 0 \/ Told(u, k)
  BY <1>1, <1>3 DEF Followed, RecoveryHandled, Told, Queued
<1>5. i \in Rows(u, k)
  BY <1>3 DEF Rows, RowsIn
<1> QED
  BY <1>3, <1>4, <1>5 DEF Told

\* Whenever the main thread is between two steps of its loop, a unit last seen
\* failed in this session has an open incident: the failure is detected,
\* submitted and flushed, in this order, before the loop goes on, and a recovery
\* of the same poll does not close it (_maybe_poll_units, _detect).
THEOREM FailuresAreShown == HealthSpec => []FailureShown
<1>1. HealthInit => Inv /\ Counted /\ Followed
  BY InvInit, CountedInit, FollowedInit
<1>2. Inv /\ Counted /\ Followed /\ [HealthNext]_healthVars
         => Inv' /\ Counted' /\ Followed'
  BY HealthInv, CountedNext, FollowedNext
<1> QED
  BY <1>1, <1>2, FollowedShows, PTL DEF HealthSpec

\* Once a poll that reports a recovery has been handled, an incident that is
\* open was opened by the journal or by this poll: what the monitor had found
\* before is resolved, and is not opened again by a flush that comes later
\* (resolve_incidents_for_unit, Pipeline.flush).
THEOREM RecoveriesResolve == HealthSpec => []RecoveryResolves
<1>1. HealthInit => Inv /\ Counted /\ Followed
  BY InvInit, CountedInit, FollowedInit
<1>2. Inv /\ Counted /\ Followed /\ [HealthNext]_healthVars
         => Inv' /\ Counted' /\ Followed'
  BY HealthInv, CountedNext, FollowedNext
<1> QED
  BY <1>1, <1>2, FollowedResolves, PTL DEF HealthSpec

----------------------------------------------------------------------------
(* Types, of everything. *)

\* The steps of the daemon are steps of its monitor, or leave it alone.
LEMMA HealthStep == [HealthNext]_healthVars => [Next]_vars
<1> SUFFICES ASSUME [HealthNext]_healthVars PROVE Next \/ UNCHANGED vars
  OBVIOUS
<1>1. CASE HealthWorldStep
  BY <1>1 DEF HealthWorldStep, Next
<1>2. CASE \E seen \in Sightings : StartPoll(seen)
  BY <1>2 DEF StartPoll, Next
<1>3. CASE Restart
  BY <1>3 DEF Restart, Next
<1>4. CASE \E u \in Units : LogProblem(u) \/ UpsertStatus(u) \/ HandleEvent(u)
  BY <1>4 DEF LogProblem, UpsertStatus, HandleEvent
<1>5. CASE DrainEvent \/ PruneStatus \/ EndPoll \/ TimerFlush \/ WriteBatch
           \/ MarkCursor
  BY <1>5 DEF DrainEvent, PruneStatus, EndPoll, TimerFlush, WriteBatch, MarkCursor
<1> QED
  BY <1>1, <1>2, <1>3, <1>4, <1>5 DEF HealthNext, healthVars

\* Positions are of the journal.
UpTo(events, n) == \A i \in DOMAIN events : events[i].pos <= n

Placed ==
    /\ taken <= Len(entries) /\ saved <= Len(entries)
    /\ UpTo(entries, Len(entries))
    /\ UpTo(buffer, Len(entries))
    /\ UpTo(stored, Len(entries))

\* Statuses are of units a poll has seen.
Sighted ==
    /\ toUpsert \subseteq DOMAIN report
    /\ DOMAIN status \subseteq Units /\ cache \subseteq Units
    /\ \A u \in DOMAIN report : prev[u].state \in States
    /\ \A u \in DOMAIN status : status[u] \in States

\* What is still to be handled of a report is its end.
Ends(s, t) ==
    /\ Len(s) <= Len(t)
    /\ \A i \in 1..Len(s) : s[i] = t[(Len(t) - Len(s)) + i]

Ended == \A u \in DOMAIN todo : Ends(todo[u], report[u])

LEMMA EndsIsSuffix ==
    ASSUME NEW s \in Seq(Reports), NEW t \in Seq(Reports), Ends(s, t)
    PROVE  IsSuffix(s, t)
<1> DEFINE rs == Reverse(s)
           rt == Reverse(t)
           n == Len(s)
<1>1. n \in Nat /\ Len(t) \in Nat /\ n <= Len(t)
  BY DEF Ends
<1>2. /\ rs = [i \in 1..n |-> s[(n - i) + 1]]
      /\ rt = [i \in 1..Len(t) |-> t[(Len(t) - i) + 1]]
  BY DEF Reverse
<1>3. rs \in Seq(Reports) /\ Len(rs) = n /\ rt \in Seq(Reports) /\ Len(rt) = Len(t)
  <2>1. \A i \in 1..n : (n - i) + 1 \in 1..n /\ s[(n - i) + 1] \in Reports
    BY <1>1, ElementOfSeq
  <2>2. \A i \in 1..Len(t) : /\ (Len(t) - i) + 1 \in 1..Len(t)
                             /\ t[(Len(t) - i) + 1] \in Reports
    BY <1>1, ElementOfSeq
  <2>3. rs \in [1..n -> Reports] /\ rt \in [1..Len(t) -> Reports]
    BY <1>2, <2>1, <2>2
  <2> HIDE DEF rs, rt, n
  <2>4. Len(t) \in Nat /\ n \in Nat
    BY <1>1
  <2>5. rs \in Seq(Reports)
    BY <2>3, <2>4
  <2>6. rt \in Seq(Reports)
    BY <2>3, <2>4
  <2>7. Len(rs) = n /\ Len(rt) = Len(t)
    BY <2>3, <2>4, <2>5, <2>6, LenProperties
  <2> QED
    BY <2>5, <2>6, <2>7
<1>4. \A i \in 1..n : rs[i] = rt[i]
  <2> SUFFICES ASSUME NEW i \in 1..n PROVE rs[i] = rt[i]
    OBVIOUS
  <2>1. (n - i) + 1 \in 1..n /\ (Len(t) - n) + ((n - i) + 1) = (Len(t) - i) + 1
    BY <1>1
  <2>2. s[(n - i) + 1] = t[(Len(t) - n) + ((n - i) + 1)]
    BY <2>1 DEF Ends
  <2>3. i \in 1..Len(t)
    BY <1>1
  <2>4. rs[i] = s[(n - i) + 1] /\ rt[i] = t[(Len(t) - i) + 1]
    BY <1>2, <2>3
  <2> QED
    BY <2>1, <2>2, <2>4
<1>5. IsPrefix(rs, rt)
  <2> HIDE DEF rs, rt, n
  <2> DEFINE a == SubSeq(rs, 1, n)
             b == SubSeq(rt, 1, n)
  <2>1. /\ a \in Seq(Reports) /\ Len(a) = n /\ \A i \in 1..n : a[i] = rs[i]
        /\ b \in Seq(Reports) /\ Len(b) = n /\ \A i \in 1..n : b[i] = rt[i]
    BY <1>1, <1>3
  <2>2. a = b
    <3> HIDE DEF a, b
    <3> QED
      BY <1>4, <2>1, SeqEqual
  <2> QED
    BY <1>1, <1>3, <2>2 DEF IsPrefix
<1> QED
  BY <1>5 DEF IsSuffix

LEMMA PlacedNext == Inv /\ Placed /\ [HealthNext]_healthVars => Placed'
<1> SUFFICES ASSUME Inv, Placed, [HealthNext]_healthVars PROVE Placed'
  OBVIOUS
<1> DEFINE n == Len(entries)
<1>1. /\ entries \in Seq(Event) /\ buffer \in Seq(Event) /\ stored \in Seq(Event)
      /\ taken \in Nat /\ saved \in Nat /\ n \in Nat
      /\ taken <= n /\ saved <= n
      /\ UpTo(entries, n) /\ UpTo(buffer, n) /\ UpTo(stored, n)
  BY DEF Inv, Typed, EventTypes, Placed
<1> HIDE DEF n
<1>2. ASSUME NEW s \in Seq(Event), UpTo(s, n), NEW e, e.pos <= n
      PROVE  UpTo(Append(s, e), n)
  <2>1. /\ \A i \in DOMAIN Append(s, e) : i \in DOMAIN s \/ i = Len(s) + 1
        /\ \A i \in DOMAIN s : Append(s, e)[i] = s[i]
        /\ Append(s, e)[Len(s) + 1] = e
    BY <1>2
  <2> QED
    BY <1>2, <2>1 DEF UpTo
<1>3. CASE UNCHANGED <<entries, buffer, stored, taken, saved>>
  BY <1>3 DEF Placed, UpTo
<1>4. CASE \E u \in Units : LogProblem(u)
  <2>1. PICK e : /\ entries' = Append(entries, e) /\ e.pos = n + 1
                 /\ UNCHANGED <<buffer, stored, taken, saved>>
    BY <1>4 DEF LogProblem, n
  <2>2. \A i \in DOMAIN entries : entries[i].pos \in Nat
    <3>1. \A i \in DOMAIN entries : entries[i] \in Event
      BY <1>1, ElementOfSeq
    <3> QED
      BY <3>1 DEF Event
  <2>3. ASSUME NEW s \in Seq(Event), UpTo(s, n) PROVE UpTo(s, n + 1)
    <3>1. \A i \in DOMAIN s : s[i].pos \in Nat
      <4>1. \A i \in DOMAIN s : s[i] \in Event
        BY ElementOfSeq
      <4> QED
        BY <4>1 DEF Event
    <3>2. \A i \in DOMAIN s : s[i].pos <= n
      BY <2>3 DEF UpTo
    <3>3. \A i \in DOMAIN s : s[i].pos <= n + 1
      BY <1>1, <3>1, <3>2
    <3> QED
      BY <3>3 DEF UpTo
  <2>4. Len(entries') = n + 1
    BY <1>1, <2>1 DEF n
  <2>5. UpTo(entries', n + 1)
    <3>1. /\ \A i \in DOMAIN entries' : i \in DOMAIN entries \/ i = n + 1
          /\ \A i \in DOMAIN entries : entries'[i] = entries[i]
          /\ entries'[n + 1] = e
      BY <1>1, <2>1 DEF n
    <3>2. UpTo(entries, n + 1) /\ e.pos <= n + 1
      BY <1>1, <2>1, <2>3
    <3> QED
      BY <3>1, <3>2 DEF UpTo
  <2>6. UpTo(buffer', n + 1) /\ UpTo(stored', n + 1)
    BY <1>1, <2>1, <2>3
  <2> QED
    BY <1>1, <2>1, <2>4, <2>5, <2>6 DEF Placed
<1>5. CASE DrainEvent
  <2>1. /\ taken' = taken + 1 /\ taken < n
        /\ UNCHANGED <<entries, stored, saved>>
        /\ buffer' = Append(buffer, entries[taken + 1])
    BY <1>5 DEF DrainEvent, Submit, n
  <2>2. entries[taken + 1].pos <= n
    BY <1>1, <2>1 DEF UpTo, n
  <2>3. UpTo(buffer', n)
    BY <1>1, <1>2, <2>1, <2>2
  <2> QED
    BY <1>1, <2>1, <2>3 DEF Placed, n
<1>6. CASE \E u \in Units : HandleEvent(u)
  <2>1. PICK e : /\ buffer' = Append(buffer, e) /\ e.pos = 0
                 /\ UNCHANGED <<entries, stored, taken, saved>>
    BY <1>6 DEF HandleEvent, Submit, EventOf
  <2>2. UpTo(buffer', n)
    BY <1>1, <1>2, <2>1
  <2> QED
    BY <1>1, <2>1, <2>2 DEF Placed, n
<1>7. CASE WriteBatch
  <2>1. stored' = stored \o buffer /\ UNCHANGED <<entries, buffer, taken, saved>>
    BY <1>7 DEF WriteBatch
  <2>2. UpTo(stored', n)
    <3>1. /\ DOMAIN stored' = 1..Len(stored) + Len(buffer) /\ Len(stored) \in Nat
          /\ DOMAIN buffer = 1..Len(buffer) /\ Len(buffer) \in Nat
          /\ DOMAIN stored = 1..Len(stored)
          /\ \A i \in 1..Len(stored) : stored'[i] = stored[i]
          /\ \A i \in 1..Len(buffer) : stored'[Len(stored) + i] = buffer[i]
      BY <1>1, <2>1, ConcatProperties
    <3>2. ASSUME NEW i \in DOMAIN stored', i \notin DOMAIN stored
          PROVE  \E j \in DOMAIN buffer : stored'[i] = buffer[j]
      <4>1. i - Len(stored) \in 1..Len(buffer) /\ Len(stored) + (i - Len(stored)) = i
        BY <3>1, <3>2
      <4> QED
        BY <3>1, <4>1
    <3> QED
      BY <1>1, <3>1, <3>2 DEF UpTo
  <2> QED
    BY <1>1, <2>1, <2>2 DEF Placed, n
<1>8. CASE MarkCursor
  <2> DEFINE marks == {e.pos : e \in Range(buffer)} \ {0}
  <2>1. /\ saved' = IF marks = {} THEN saved ELSE Max(marks)
        /\ buffer' = <<>> /\ UNCHANGED <<entries, stored, taken>>
    BY <1>8 DEF MarkCursor
  <2>2. saved' <= n
    <3>1. CASE marks = {}
      BY <1>1, <2>1, <3>1
    <3>2. CASE marks # {}
      <4>1. \A m \in marks : \E i \in DOMAIN buffer : m = buffer[i].pos
        BY DEF Range
      <4>2. IsFiniteSet(marks) /\ marks \in SUBSET Int
        <5>1. \A i \in DOMAIN buffer : buffer[i].pos \in Nat
          <6>1. \A i \in DOMAIN buffer : buffer[i] \in Event
            BY <1>1, ElementOfSeq
          <6> QED
            BY <6>1 DEF Event
        <5>2. ASSUME NEW m \in marks PROVE m \in 0..n
          <6>1. PICK i \in DOMAIN buffer : m = buffer[i].pos
            BY <4>1
          <6>2. m \in Nat /\ m <= n
            BY <1>1, <5>1, <6>1 DEF UpTo
          <6> HIDE DEF marks
          <6> QED
            BY <1>1, <6>2
        <5>3. IsFiniteSet(0..n)
          BY <1>1, FS_Interval
        <5>4. marks \in SUBSET (0..n)
          BY <5>2
        <5> HIDE DEF marks
        <5>5. IsFiniteSet(marks)
          BY <5>3, <5>4, FS_Subset
        <5> QED
          BY <5>4, <5>5
      <4> HIDE DEF marks
      <4>3. Max(marks) \in marks
        BY <3>2, <4>2, MaxOfFinite
      <4> QED
        BY <1>1, <2>1, <3>2, <4>1, <4>3 DEF UpTo
    <3> QED
      BY <3>1, <3>2
  <2> HIDE DEF marks
  <2> QED
    BY <1>1, <2>1, <2>2 DEF Placed, UpTo, n
<1>9. CASE Restart
  <2>1. /\ taken' = (IF saved = 0 THEN n ELSE saved)
        /\ buffer' = <<>> /\ UNCHANGED <<entries, stored, saved>>
    BY <1>9 DEF Restart, ResumePoint, n
  <2>2. taken' <= n
    BY <1>1, <2>1
  <2> QED
    BY <1>1, <2>1, <2>2 DEF Placed, UpTo, n
<1>10. CASE \/ HealthWorldStep \/ UNCHANGED healthVars
            \/ \E u \in Units : UpsertStatus(u)
            \/ \E seen \in Sightings : StartPoll(seen)
            \/ PruneStatus \/ EndPoll \/ TimerFlush
  BY <1>3, <1>10 DEF HealthWorldStep, healthVars, UpsertStatus, StartPoll,
     PruneStatus, EndPoll, TimerFlush
<1> QED
  BY <1>4, <1>5, <1>6, <1>7, <1>8, <1>9, <1>10 DEF HealthNext

LEMMA SightedNext ==
    Inv /\ TypeInv /\ QueueOK /\ Sighted /\ [HealthNext]_healthVars => Sighted'
<1> SUFFICES ASSUME Inv, TypeInv, QueueOK, Sighted, [HealthNext]_healthVars
             PROVE  Sighted'
  OBVIOUS
<1>1. ASSUME UNCHANGED <<prev, report, toUpsert, status, cache>> PROVE Sighted'
  BY <1>1 DEF Sighted
<1>2. CASE HealthWorldStep
  <2>1. UNCHANGED <<prev, report>>
    BY <1>2, WorldClocks DEF HealthWorldStep, Inv, Typed
  <2> QED
    BY <1>1, <1>2, <2>1 DEF HealthWorldStep
<1>3. CASE \/ \E u \in Units : LogProblem(u) \/ HandleEvent(u)
           \/ DrainEvent \/ EndPoll \/ TimerFlush \/ WriteBatch \/ MarkCursor
           \/ UNCHANGED healthVars
  <2>1. /\ UNCHANGED vars /\ UNCHANGED <<toUpsert, status, cache>>
    BY <1>3 DEF LogProblem, HandleEvent, DrainEvent, EndPoll, TimerFlush,
       WriteBatch, MarkCursor, healthVars
  <2> QED
    BY <1>1, <2>1 DEF vars, monitor
<1>4. CASE \E u \in Units : UpsertStatus(u)
  <2>1. PICK u \in Units : UpsertStatus(u)
    BY <1>4
  <2>2. /\ u \in toUpsert /\ toUpsert' = toUpsert \ {u}
        /\ status' = [v \in DOMAIN status \cup {u} |->
                        IF v = u THEN prev[u].state ELSE status[v]]
        /\ UNCHANGED <<vars, cache>>
    BY <2>1 DEF UpsertStatus
  <2>3. UNCHANGED <<prev, report>>
    BY <2>2 DEF vars, monitor
  <2> QED
    BY <2>2, <2>3 DEF Sighted
<1>5. CASE PruneStatus
  <2>1. /\ UNCHANGED <<vars, toUpsert>>
        /\ \/ /\ status' = [u \in DOMAIN report |-> status[u]]
              /\ cache' = DOMAIN report
           \/ UNCHANGED <<status, cache>>
        /\ toUpsert = {} /\ pc = "status"
    BY <1>5 DEF PruneStatus, Restrict
  <2>2. UNCHANGED <<prev, report>>
    BY <2>1 DEF vars, monitor
  <2>3. \A u \in DOMAIN report : u \in DOMAIN status
    BY <2>1 DEF Inv, Written
  <2> QED
    BY <2>1, <2>2, <2>3 DEF Sighted, QueueOK
<1>6. CASE \E seen \in Sightings : StartPoll(seen)
  <2>1. PICK seen \in Sightings : StartPoll(seen)
    BY <1>6
  <2>2. /\ toUpsert' = seen /\ UNCHANGED <<cache, status>>
        /\ DOMAIN report' = seen /\ seen \subseteq Units
        /\ \A u \in seen : prev'[u].state = state[u]
    BY <2>1, SightAssumption DEF StartPoll, Poll
  <2>3. \A u \in seen : state[u] \in States
    BY <2>2 DEF TypeInv, TypeOK
  <2> QED
    BY <2>2, <2>3 DEF Sighted
<1>7. CASE Restart
  <2>1. /\ toUpsert' = {} /\ cache' = {} /\ report' = <<>> /\ status' = status
    BY <1>7 DEF Restart, NewSession, Fresh
  <2> QED
    BY <2>1 DEF Sighted
<1> QED
  BY <1>2, <1>3, <1>4, <1>5, <1>6, <1>7 DEF HealthNext

LEMMA EndedNext == Inv /\ QueueOK /\ Ended /\ [HealthNext]_healthVars => Ended'
<1> SUFFICES ASSUME Inv, QueueOK, Ended, [HealthNext]_healthVars PROVE Ended'
  OBVIOUS
<1>1. ASSUME UNCHANGED <<todo, report>> PROVE Ended'
  BY <1>1 DEF Ended
<1>2. CASE HealthWorldStep
  <2>1. UNCHANGED report
    BY <1>2, WorldClocks DEF HealthWorldStep, Inv, Typed
  <2> QED
    BY <1>1, <1>2, <2>1 DEF HealthWorldStep
<1>3. CASE \/ \E u \in Units : LogProblem(u) \/ UpsertStatus(u)
           \/ DrainEvent \/ PruneStatus \/ TimerFlush \/ WriteBatch \/ MarkCursor
           \/ UNCHANGED healthVars
  <2>1. UNCHANGED vars /\ todo' = todo
    BY <1>3 DEF LogProblem, UpsertStatus, DrainEvent, PruneStatus, TimerFlush,
       WriteBatch, MarkCursor, healthVars
  <2> QED
    BY <1>1, <2>1 DEF vars, monitor
<1>4. CASE EndPoll \/ Restart
  <2>1. todo' = <<>>
    BY <1>4 DEF EndPoll, Restart
  <2> QED
    BY <2>1 DEF Ended
<1>5. CASE \E seen \in Sightings : StartPoll(seen)
  <2>1. PICK seen \in Sightings : StartPoll(seen)
    BY <1>5
  <2>2. todo' = report' /\ report' = [u \in seen |-> Events(u)]
    BY <2>1 DEF StartPoll, Poll
  <2>3. ASSUME NEW u PROVE Ends(Events(u), Events(u))
    <3> DEFINE s == Events(u)
    <3>1. Len(s) \in Nat
      BY ReportType
    <3> HIDE DEF s
    <3>2. \A i \in 1..Len(s) : (Len(s) - Len(s)) + i = i
      BY <3>1
    <3>3. Ends(s, s)
      BY <3>1, <3>2 DEF Ends
    <3> QED
      BY <3>3 DEF s
  <2> QED
    BY <2>2, <2>3 DEF Ended
<1>6. CASE \E u \in Units : HandleEvent(u)
  <2>1. PICK u \in Units : HandleEvent(u)
    BY <1>6
  <2>2. /\ u \in DOMAIN todo /\ todo[u] # <<>>
        /\ todo' = [todo EXCEPT ![u] = Tail(@)] /\ UNCHANGED vars
    BY <2>1 DEF HandleEvent
  <2>3. UNCHANGED report
    BY <2>2 DEF vars, monitor
  <2> DEFINE s == todo[u]
             t == report[u]
             z == Tail(s)
  <2>4. s \in Seq(Reports) /\ t \in Seq(Reports) /\ Ends(s, t)
    BY <2>2 DEF Inv, Typed, EventTypes, Ended, QueueOK
  <2>5. Ends(z, t)
    <3>1. s # <<>>
      BY <2>2
    <3> HIDE DEF s, t
    <3>2. /\ Len(s) \in Nat /\ Len(s) # 0 /\ Len(z) = Len(s) - 1 /\ Len(t) \in Nat
          /\ \A i \in 1..Len(z) : z[i] = s[i + 1]
          /\ Len(s) <= Len(t)
          /\ \A i \in 1..Len(s) : s[i] = t[(Len(t) - Len(s)) + i]
      BY <2>4, <3>1 DEF Ends
    <3> HIDE DEF z
    <3>3. \A i \in 1..Len(z) :
             /\ i + 1 \in 1..Len(s)
             /\ (Len(t) - Len(s)) + (i + 1) = (Len(t) - Len(z)) + i
      BY <3>2
    <3>4. \A i \in 1..Len(z) : z[i] = t[(Len(t) - Len(z)) + i]
      BY <3>2, <3>3
    <3> QED
      BY <3>2, <3>4 DEF Ends
  <2>6. \A v \in DOMAIN todo' : Ends(todo'[v], report[v])
    BY <2>2, <2>5 DEF Ended
  <2> QED
    BY <2>3, <2>6 DEF Ended
<1> QED
  BY <1>2, <1>3, <1>4, <1>5, <1>6 DEF HealthNext

DaemonInv == Inv /\ Counted /\ Followed /\ TypeInv /\ Placed /\ Sighted /\ Ended

LEMMA DaemonInit == HealthInit => DaemonInv
<1> SUFFICES ASSUME HealthInit PROVE DaemonInv
  OBVIOUS
<1>1. /\ entries = <<>> /\ taken = 0 /\ saved = 0 /\ buffer = <<>> /\ stored = <<>>
      /\ toUpsert = {} /\ todo = <<>> /\ cache = {} /\ status = <<>>
      /\ report = <<>> /\ Init
  BY DEF HealthInit, Init, MonitorInit, Fresh
<1>2. Placed
  BY <1>1 DEF Placed, UpTo
<1>3. Sighted
  BY <1>1 DEF Sighted
<1>4. Ended
  BY <1>1 DEF Ended
<1> QED
  BY <1>1, <1>2, <1>3, <1>4, InvInit, CountedInit, FollowedInit, TypeInit
     DEF DaemonInv

LEMMA DaemonNext == DaemonInv /\ [HealthNext]_healthVars => DaemonInv'
<1> SUFFICES ASSUME DaemonInv, [HealthNext]_healthVars PROVE DaemonInv'
  OBVIOUS
<1>1. Inv' /\ Counted' /\ TypeInv'
  BY HealthInv, CountedNext, HealthStep, TypeNext DEF DaemonInv
<1>2. Followed'
  BY <1>1, FollowedNext DEF DaemonInv
<1>3. Placed' /\ Sighted' /\ Ended'
  BY PlacedNext, SightedNext, EndedNext DEF DaemonInv, Followed
<1> QED
  BY <1>1, <1>2, <1>3 DEF DaemonInv

LEMMA DaemonTypes == DaemonInv => HealthTypeOK
<1> SUFFICES ASSUME DaemonInv PROVE HealthTypeOK
  OBVIOUS
<1>1. TypeOK
  BY DEF DaemonInv, TypeInv
<1>2. /\ taken \in 0..Len(entries) /\ saved \in 0..Len(entries)
  BY DEF DaemonInv, Inv, Typed, EventTypes, Placed
<1>3. /\ pc \in {"idle", "status", "prune", "events", "write", "mark"}
      /\ back \in {"idle", "events"}
      /\ toUpsert \subseteq DOMAIN report
      /\ DOMAIN todo \subseteq DOMAIN report
      /\ cache \subseteq Units /\ DOMAIN status \subseteq Units
      /\ \A u \in DOMAIN status : status[u] \in States
  BY DEF DaemonInv, Inv, Typed, EventTypes, Followed, QueueOK, Sighted
<1>4. ASSUME NEW u \in DOMAIN todo PROVE IsSuffix(todo[u], report[u])
  BY <1>3, EndsIsSuffix DEF DaemonInv, Inv, Typed, EventTypes, Ended
<1>5. ASSUME NEW e \in Range(entries) \cup Range(buffer) \cup Range(stored)
      PROVE  /\ e.unit \in Units /\ e.kind \in Kinds \cup {"recovery"}
             /\ e.ts \in Nat /\ e.pos \in 0..Len(entries)
  <2>1. PICK s \in {entries, buffer, stored} : e \in Range(s)
    BY <1>5
  <2>2. s \in Seq(Event) /\ UpTo(s, Len(entries)) /\ Len(entries) \in Nat
    BY <2>1 DEF DaemonInv, Inv, Typed, EventTypes, Placed
  <2>3. PICK i \in DOMAIN s : e = s[i]
    BY <2>1 DEF Range
  <2>4. e \in Event
    BY <2>2, <2>3, ElementOfSeq
  <2>5. e.pos <= Len(entries)
    BY <2>2, <2>3 DEF UpTo
  <2>6. /\ e.unit \in Units /\ e.kind \in Kinds \cup {"recovery"}
        /\ e.ts \in Nat /\ e.pos \in Nat
    BY <2>4 DEF Event
  <2> QED
    BY <2>2, <2>5, <2>6
<1>6. /\ incidents \in [Units \X Kinds -> [count : Nat, first : Nat,
                                           last : Nat, open : BOOLEAN]]
      /\ resolvedAt \in [Units -> 0..Len(stored)]
  <2>1. /\ resolvedAt \in [Units -> Nat] /\ Len(stored) \in Nat
        /\ \A u \in Units : resolvedAt[u] <= Len(stored)
    BY DEF DaemonInv, Inv, Typed, EventTypes, Counted
  <2> QED
    BY <2>1 DEF DaemonInv, Counted, Table
<1> QED
  BY <1>1, <1>2, <1>3, <1>4, <1>5, <1>6 DEF HealthTypeOK

\* The command, beside the daemon.
CommandTypes ==
    /\ reading \in {"nothing", "units", "crash", "errors"}
    /\ DOMAIN statuses \subseteq Units
    /\ UnitsLeft
    /\ crash = NoCrash \/ crash.kind = "crash"
    /\ row = NoRow \/ row \in [unit : Watched, marker : {Bad, Errors, Good}]
    /\ begun \in Nat /\ commands \in 0..MaxCommands

LEMMA CommandNext ==
    DaemonInv /\ CommandTypes /\ [StatusNext]_statusVars => CommandTypes'
<1> SUFFICES ASSUME DaemonInv, CommandTypes, [StatusNext]_statusVars
             PROVE  CommandTypes'
  OBVIOUS
<1>1. CASE UNCHANGED command
  BY <1>1 DEF CommandTypes, UnitsLeft, command
<1>2. CASE ReadStatuses
  <2>1. Wall \in Nat
    BY DEF DaemonInv, Inv, Typed, Clocks, Wall
  <2>2. /\ reading' = "units" /\ statuses' = status /\ row' = NoRow
        /\ begun' = Wall /\ commands' = commands + 1 /\ commands < MaxCommands
        /\ UNCHANGED <<units, crash>>
    BY <1>2 DEF ReadStatuses
  <2>3. commands' \in 0..MaxCommands
    BY <2>2, StatusAssumption DEF CommandTypes
  <2> QED
    BY <2>1, <2>2, <2>3 DEF CommandTypes, UnitsLeft, DaemonInv, Sighted
<1>3. CASE ReadUnits
  <2>1. /\ units' \subseteq Watched
        /\ reading' = IF units' = {} THEN "nothing" ELSE "crash"
        /\ UNCHANGED <<statuses, crash, begun, row, commands>>
    BY <1>3 DEF ReadUnits, NextRow
  <2> QED
    BY <2>1 DEF CommandTypes, UnitsLeft
<1>4. CASE ReadCrash
  <2>1. /\ reading' = "errors" /\ reading = "crash"
        /\ crash' = LastCrash(First)
        /\ UNCHANGED <<statuses, units, begun, row, commands>>
    BY <1>4 DEF ReadCrash
  <2>2. LastCrash(First) = NoCrash \/ LastCrash(First).kind = "crash"
    <3>1. CASE Crashes(First) = {}
      BY <3>1 DEF LastCrash
    <3>2. CASE Crashes(First) # {}
      <4>1. /\ stored \in Seq(Event)
            /\ Crashes(First) \in SUBSET DOMAIN stored
        BY DEF Crashes, DaemonInv, Inv, Typed, EventTypes
      <4>2. \E i \in Crashes(First) :
               \A j \in Crashes(First) : stored[j].ts <= stored[i].ts
        BY <3>2, <4>1, LatestExists
      <4>3. PICK i \in Crashes(First) : LastCrash(First) = stored[i]
        BY <3>2, <4>2 DEF LastCrash
      <4> QED
        BY <4>3 DEF Crashes
    <3> QED
      BY <3>1, <3>2
  <2> QED
    BY <2>1, <2>2 DEF CommandTypes, UnitsLeft
<1>5. CASE ReadErrors
  <2>1. /\ reading = "errors" /\ units' = units \ {First}
        /\ reading' = IF units' = {} THEN "nothing" ELSE "crash"
        /\ row' = [unit |-> First, marker |-> HealthMarker(StateOf(First), crash,
                                                           ErrorCount(First))]
        /\ UNCHANGED <<statuses, crash, begun, commands>>
    BY <1>5 DEF ReadErrors, NextRow
  <2>2. First \in Watched
    BY <2>1 DEF CommandTypes, UnitsLeft, First
  <2>3. HealthMarker(StateOf(First), crash, ErrorCount(First))
           \in {Bad, Errors, Good}
    BY DEF HealthMarker
  <2>4. row' \in [unit : Watched, marker : {Bad, Errors, Good}]
    BY <2>1, <2>2, <2>3
  <2> QED
    BY <2>1, <2>4 DEF CommandTypes, UnitsLeft
<1> QED
  BY <1>1, <1>2, <1>3, <1>4, <1>5 DEF StatusNext, CommandStep, statusVars

\* The daemon, its database and the command that reads it are of their types: the
\* daemon is at a step of its loop, what is left of a report is its end, the
\* positions it keeps are of the journal, statuses, incidents and rows are of
\* the units and states there are (_maybe_poll_units, write_batch, cmd_status).
THEOREM StatusTypes == StatusSpec => []StatusTypeOK
<1>1. StatusInit => DaemonInv /\ CommandTypes
  <2> SUFFICES ASSUME StatusInit PROVE DaemonInv /\ CommandTypes
    OBVIOUS
  <2>1. DaemonInv
    BY DaemonInit DEF StatusInit
  <2>2. CommandTypes
    BY StatusAssumption DEF StatusInit, CommandTypes, UnitsLeft
  <2> QED
    BY <2>1, <2>2
<1>2. DaemonInv /\ CommandTypes /\ [StatusNext]_statusVars
         => DaemonInv' /\ CommandTypes'
  BY StatusStep, DaemonNext, CommandNext
<1>3. DaemonInv /\ CommandTypes => StatusTypeOK
  BY DaemonTypes DEF CommandTypes, UnitsLeft, StatusTypeOK
<1> QED
  BY <1>1, <1>2, <1>3, PTL DEF StatusSpec
=============================================================================
