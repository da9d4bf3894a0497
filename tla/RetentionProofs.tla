-------------------------- MODULE RetentionProofs --------------------------
(***************************************************************************)
(* For any retention, cap, slice, interval, rate of events, number of      *)
(* restarts, of commands and of prunes that fail: the footprint is         *)
(* bounded, maintenance that completes leaves the file under the cap or no *)
(* event, and below the cap nothing recent is deleted.                     *)
(*                                                                         *)
(* The file only grows to hold what is live, and the events that are live  *)
(* are those the last complete maintenance left, at most a cap of them,    *)
(* and those inserted since; the clock the daemon's maintenance goes by    *)
(* bounds the latter.                                                      *)
(***************************************************************************)
EXTENDS Retention, FiniteFacts

Incident == [last : Times, status : {"none", "open", "resolved"}]

LEMMA TimesFinite == IsFiniteSet(Times) /\ Times \subseteq Nat
  BY RetentionAssumption, FS_Interval DEF Times

LEMMA EventRowsIs == \A ev : EventRows(ev) = Sum(ev, Times)
  BY DEF EventRows, Sum

LEMMA EventRowsType ==
    ASSUME NEW ev \in [Times -> Nat]
    PROVE  /\ EventRows(ev) \in Nat
           /\ \A t \in Times : ev[t] <= EventRows(ev)
<1>1. \A t \in Times : ev[t] \in Nat
  OBVIOUS
<1> QED
  BY <1>1, TimesFinite, EventRowsIs, SumType, SumBoundsEach

LEMMA EventRowsMonotone ==
    ASSUME NEW ev \in [Times -> Nat], NEW fewer \in [Times -> Nat],
           \A t \in Times : fewer[t] <= ev[t]
    PROVE  EventRows(fewer) <= EventRows(ev)
<1>1. \A t \in Times : ev[t] \in Nat /\ fewer[t] \in Nat
  OBVIOUS
<1> QED
  BY <1>1, TimesFinite, EventRowsIs, SumMonotone

LEMMA EventRowsAdd ==
    ASSUME NEW ev \in [Times -> Nat], NEW t \in Times
    PROVE  EventRows([ev EXCEPT ![t] = @ + 1]) = EventRows(ev) + 1
<1> DEFINE more == [ev EXCEPT ![t] = @ + 1]
<1>1. /\ more \in [Times -> Nat] /\ more[t] = ev[t] + 1
      /\ \A s \in Times \ {t} : more[s] = ev[s]
      /\ ev[t] \in Nat
      /\ \A s \in Times : ev[s] \in Nat /\ more[s] \in Nat
  OBVIOUS
<1> HIDE DEF more
<1>2. Sum(more, Times) + ev[t] = Sum(ev, Times) + more[t]
  <2>1. \A s \in Times : ev[s] \in Nat /\ more[s] \in Nat
    BY <1>1
  <2>2. \A s \in Times \ {t} : more[s] = ev[s]
    BY <1>1
  <2>3. IsFiniteSet(Times)
    BY TimesFinite
  <2> QED
    BY <2>1, <2>2, <2>3, SumChange
<1>3. Sum(more, Times) \in Nat /\ Sum(ev, Times) \in Nat
  BY <1>1, TimesFinite, SumType
<1>4. Sum(more, Times) = Sum(ev, Times) + 1
  BY <1>1, <1>2, <1>3
<1> QED
  BY <1>4, EventRowsIs DEF more

LEMMA IncidentRowsType ==
    ASSUME NEW inc
    PROVE  /\ IncidentRows(inc) \in Nat
           /\ IncidentRows(inc) <= Cardinality(Signatures)
           /\ Cardinality(Signatures) \in Nat
<1> DEFINE S == {s \in Signatures : inc[s].status # "none"}
<1>1. S \in SUBSET Signatures /\ IsFiniteSet(Signatures)
  BY RetentionAssumption
<1> HIDE DEF S
<1>2. IsFiniteSet(S) /\ Cardinality(S) <= Cardinality(Signatures)
  BY <1>1, FS_Subset
<1>3. Cardinality(S) \in Nat /\ Cardinality(Signatures) \in Nat
  BY <1>1, <1>2, FS_CardinalityType
<1> QED
  BY <1>2, <1>3 DEF IncidentRows, S

LEMMA IncidentRowsMonotone ==
    ASSUME NEW inc, NEW fewer,
           \A s \in Signatures : fewer[s].status # "none" => inc[s].status # "none"
    PROVE  IncidentRows(fewer) <= IncidentRows(inc)
<1> DEFINE S == {s \in Signatures : inc[s].status # "none"}
           R == {s \in Signatures : fewer[s].status # "none"}
<1>1. S \in SUBSET Signatures /\ R \in SUBSET S /\ IsFiniteSet(Signatures)
  BY RetentionAssumption
<1> HIDE DEF S, R
<1>2. IsFiniteSet(S)
  BY <1>1, FS_Subset
<1>3. Cardinality(R) <= Cardinality(S)
  BY <1>1, <1>2, FS_Subset
<1> QED
  BY <1>3 DEF IncidentRows, S, R

LEMMA LiveType ==
    ASSUME NEW ev \in [Times -> Nat], NEW inc
    PROVE  /\ Live(ev, inc) \in Nat
           /\ EventRows(ev) <= Live(ev, inc)
           /\ Live(ev, inc) <= EventRows(ev) + Cardinality(Signatures)
  BY EventRowsType, IncidentRowsType DEF Live

LEMMA LiveMonotone ==
    ASSUME NEW ev \in [Times -> Nat], NEW fewer \in [Times -> Nat],
           \A t \in Times : fewer[t] <= ev[t],
           NEW inc, NEW rest,
           \A s \in Signatures : rest[s].status # "none" => inc[s].status # "none"
    PROVE  Live(fewer, rest) <= Live(ev, inc)
<1>1. EventRows(fewer) <= EventRows(ev) /\ IncidentRows(rest) <= IncidentRows(inc)
  BY EventRowsMonotone, IncidentRowsMonotone
<1>2. /\ EventRows(fewer) \in Nat /\ EventRows(ev) \in Nat
      /\ IncidentRows(rest) \in Nat /\ IncidentRows(inc) \in Nat
  BY EventRowsType, IncidentRowsType
<1> QED
  BY <1>1, <1>2 DEF Live

LEMMA MaxOfTwo ==
    ASSUME NEW a \in Nat, NEW b \in Nat
    PROVE  /\ Max({a, b}) \in {a, b}
           /\ a <= Max({a, b}) /\ b <= Max({a, b})
<1> DEFINE S == {a, b}
<1>1. S \in SUBSET Int /\ IsFiniteSet(S) /\ S # {}
  <2>1. IsFiniteSet({a}) /\ IsFiniteSet({a} \cup {b})
    BY FS_Singleton, FS_AddElement
  <2>2. S = {a} \cup {b}
    OBVIOUS
  <2> QED
    BY <2>1, <2>2
<1> HIDE DEF S
<1>2. Max(S) \in S /\ \A x \in S : x <= Max(S)
  BY <1>1, MaxOfFinite
<1> QED
  BY <1>2 DEF S

\* What a slice leaves.
LEMMA SliceType ==
    ASSUME events \in [Times -> Nat], NEW n \in Nat
    PROVE  /\ WithoutOldest(n) \in [Times -> Nat]
           /\ \A t \in Times : WithoutOldest(n)[t] <= events[t]
<1>1. ASSUME NEW t \in Times
      PROVE  Sum(events, {s \in Times : s < t}) \in Nat
  <2> DEFINE R == {s \in Times : s < t}
  <2>1. R \in SUBSET Times /\ \A s \in R : events[s] \in Nat
    OBVIOUS
  <2> HIDE DEF R
  <2>2. IsFiniteSet(R)
    BY <2>1, TimesFinite, FS_Subset
  <2>3. Sum(events, R) \in Nat
    BY <2>1, <2>2, SumType
  <2> QED
    BY <2>3 DEF R
<1> DEFINE gone(t) == LET older == Sum(events, {s \in Times : s < t})
                      IN  IF older >= n THEN 0 ELSE n - older
<1>2. WithoutOldest(n) =
        [t \in Times |-> IF events[t] <= gone(t) THEN 0 ELSE events[t] - gone(t)]
  BY DEF WithoutOldest, Sum
<1>3. \A t \in Times : gone(t) \in Nat /\ events[t] \in Nat
  BY <1>1
<1> HIDE DEF gone
<1> QED
  BY <1>2, <1>3

----------------------------------------------------------------------------
(* The invariant. *)

\* That the file has been over the cap is known to whoever deletes by size.
Marked ==
    /\ file > Cap => overflowed
    /\ \A p \in Processes : pc[p] = "delete" => overflowed

\* The daemon does not miss its maintenance, and time waits for it.
OnTime ==
    /\ now <= lastMaint + Interval
    /\ pc["daemon"] # "idle" => lastMaint = now

\* The intervals that restarts, failures, or a maintenance not yet complete,
\* cost; the time events were inserted in since the last complete maintenance.
Missed == IF pc["daemon"] = "idle" THEN Missing ELSE Missing + 1
Elapsed(r, d) == Rate * (Interval * r + d)

EventsBounded ==
    EventRows(events) <= Cap + Elapsed(Missed, now - lastMaint) + inserted

RetentionInv ==
    TypeOK /\ Marked /\ CapOrEmpty /\ OnTime /\ EventsBounded /\ FootprintBounded

LEMMA ElapsedGrows ==
    ASSUME NEW r \in Nat, NEW d \in Nat
    PROVE  /\ Elapsed(r, d) \in Nat
           /\ Elapsed(r, d + 1) = Elapsed(r, d) + Rate
           /\ Elapsed(r, Interval) = Elapsed(r + 1, 0)
           /\ \A e \in Nat : e <= d => Elapsed(r, e) <= Elapsed(r, d)
           /\ Elapsed(r, d) <= Elapsed(r + 1, d)
<1>1. Rate \in Nat /\ Interval \in Nat
  BY RetentionAssumption
<1>2. Elapsed(r, d) \in Nat
  <2>1. Interval * r \in Nat
    BY <1>1
  <2>2. Interval * r + d \in Nat
    BY <2>1
  <2> DEFINE x == Interval * r + d
  <2> HIDE DEF x
  <2>3. Rate * x \in Nat
    BY <1>1, <2>2 DEF x
  <2> QED
    BY <2>3 DEF Elapsed, x
<1>3. Elapsed(r, d + 1) = Elapsed(r, d) + Rate
  BY <1>1 DEF Elapsed
<1>4. Elapsed(r, Interval) = Elapsed(r + 1, 0)
  BY <1>1 DEF Elapsed
<1>5. ASSUME NEW e \in Nat, e <= d PROVE Elapsed(r, e) <= Elapsed(r, d)
  <2> DEFINE k == d - e
  <2>1. k \in Nat /\ d = e + k
    BY <1>5
  <2> HIDE DEF k
  <2>2. Elapsed(r, d) = Elapsed(r, e) + Rate * k
    BY <1>1, <2>1 DEF Elapsed
  <2>3. Rate * k \in Nat
    BY <1>1, <2>1
  <2>4. Elapsed(r, e) \in Int
    BY <1>1 DEF Elapsed
  <2> QED
    BY <2>2, <2>3, <2>4
<1>6. Elapsed(r, d) <= Elapsed(r + 1, d)
  <2>1. Elapsed(r + 1, d) = Elapsed(r, d) + Rate * Interval
    BY <1>1 DEF Elapsed
  <2>2. Rate * Interval \in Nat
    BY <1>1
  <2> QED
    BY <1>2, <2>1, <2>2
<1> QED
  BY <1>2, <1>3, <1>4, <1>5, <1>6

LEMMA AllowanceIs ==
    ASSUME NEW r \in Nat
    PROVE  Rate * (Interval * (r + 1) + 1) = Elapsed(r, Interval) + Rate
  BY RetentionAssumption DEF Elapsed

LEMMA RetentionInit == Init => RetentionInv
<1> SUFFICES ASSUME Init PROVE RetentionInv
  OBVIOUS
<1>1. /\ now = 0 /\ inserted = 0 /\ file = 0 /\ lastMaint = 0
      /\ restarts = 0 /\ commands = 0 /\ failures = 0 /\ overflowed = FALSE
      /\ events = [t \in Times |-> 0]
      /\ incidents = [s \in Signatures |-> NoRow]
      /\ pc = [p \in Processes |-> "idle"]
  BY DEF Init
<1>2. 0 \in Times /\ 0 <= Cap /\ Cap \in Nat /\ Interval \in Nat
  BY RetentionAssumption DEF Times
<1>3. EventRows(events) = 0
  <2> DEFINE S == {ev \in SUBSET Times : Sum(events, ev) = 0}
  <2>1. {} \in S
    BY SumEmpty
  <2>2. ASSUME NEW T \in SUBSET Times, NEW t \in Times, T \in S, t \notin T
        PROVE  T \cup {t} \in S
    <3>1. IsFiniteSet(T)
      BY TimesFinite, FS_Subset
    <3>2. /\ \A s \in T \cup {t} : events[s] \in Nat
          /\ events[t] = 0
      BY <1>1
    <3>3. Sum(events, T \cup {t}) = Sum(events, T) + events[t]
      BY <2>2, <3>1, <3>2, SumAdd
    <3> QED
      BY <2>2, <3>2, <3>3
  <2>3. Times \in S
    <3> HIDE DEF S
    <3> QED
      BY <2>1, <2>2, TimesFinite, SubsetInduction
  <2> QED
    BY <2>3, EventRowsIs
<1>4. IncidentRows(incidents) = 0
  <2>1. {s \in Signatures : incidents[s].status # "none"} = {}
    BY <1>1 DEF NoRow
  <2> QED
    BY <2>1, FS_EmptySet DEF IncidentRows
<1>5. TypeOK
  <2>1. incidents \in [Signatures -> Incident]
    BY <1>1, <1>2 DEF Incident, NoRow
  <2>2. \A s \in Signatures : incidents[s].status # "resolved"
    BY <1>1 DEF NoRow
  <2>3. /\ restarts \in 0..MaxRestarts /\ commands \in 0..MaxCommands
        /\ failures \in 0..MaxFailures /\ inserted \in 0..Rate
    BY <1>1, RetentionAssumption
  <2>4. Live(events, incidents) = 0
    BY <1>3, <1>4 DEF Live
  <2>5. events \in [Times -> Nat]
    BY <1>1
  <2>6. pc \in [Processes -> {"idle", "size", "delete", "vacuum", "final"}]
    BY <1>1
  <2>7. /\ now \in Times /\ lastMaint \in 0..now /\ file \in Nat
        /\ file >= Live(events, incidents) /\ overflowed \in BOOLEAN
    <3>1. now = 0 /\ lastMaint = 0 /\ file = 0 /\ overflowed = FALSE
      BY <1>1
    <3>2. overflowed \in BOOLEAN
      BY <3>1
    <3>3. now \in Times /\ lastMaint \in 0..now /\ file \in Nat
      BY <1>2, <3>1
    <3>4. file >= Live(events, incidents)
      BY <2>4, <3>1
    <3> QED
      BY <3>2, <3>3, <3>4
  <2> QED
    BY <2>1, <2>2, <2>3, <2>5, <2>6, <2>7 DEF TypeOK, Incident
<1>6. Marked /\ CapOrEmpty /\ OnTime
  BY <1>1, <1>2, <1>3 DEF Marked, CapOrEmpty, OnTime, Processes
<1>7. EventsBounded
  <2>1. Missed = 0 /\ now - lastMaint = 0
    BY <1>1 DEF Missed, Missing, Processes
  <2> QED
    BY <1>1, <1>2, <1>3, <2>1, ElapsedGrows DEF EventsBounded
<1>8. FootprintBounded
  <2>1. Missing = 0 /\ Rate * (Interval * (0 + 1) + 1) \in Nat
    BY <1>1, ElapsedGrows, AllowanceIs, RetentionAssumption DEF Missing
  <2> QED
    BY <1>1, <1>2, <2>1, IncidentRowsType DEF FootprintBounded, Allowance
<1> QED
  BY <1>5, <1>6, <1>7, <1>8 DEF RetentionInv

\* A step that adds nothing, to the rows or to the file, and in which the daemon
\* does not complete its maintenance.
LEMMA ShrinkKeeps ==
    ASSUME RetentionInv,
           events' \in [Times -> Nat],
           \A t \in Times : events'[t] <= events[t],
           incidents' \in [Signatures -> Incident],
           \A s \in Signatures :
              /\ incidents'[s].status = "resolved" => s \in Resolvable
              /\ incidents'[s].status # "none" => incidents[s].status # "none",
           file' \in Nat, file' <= file, Live(events', incidents') <= file',
           UNCHANGED <<now, inserted, restarts, failures, overflowed>>,
           commands' \in 0..MaxCommands,
           pc' \in [Processes -> {"idle", "size", "delete", "vacuum", "final"}],
           \/ /\ lastMaint' = lastMaint
              /\ pc'["daemon"] = "idle" <=> pc["daemon"] = "idle"
           \/ /\ lastMaint' = now /\ MaintenanceDue
              /\ pc["daemon"] = "idle" /\ pc'["daemon"] # "idle",
           \A p \in Processes : pc'[p] = "delete" => overflowed,
           pc'["daemon"] = "final" => file' <= Cap \/ EventRows(events') = 0
    PROVE  RetentionInv'
<1>1. /\ now \in Nat /\ lastMaint \in Nat /\ lastMaint <= now
      /\ inserted \in Nat /\ file \in Nat
      /\ Missing \in Nat /\ Missing' = Missing
      /\ Interval \in Nat /\ Cap \in Nat /\ now \in Times /\ inserted \in 0..Rate
      /\ restarts \in 0..MaxRestarts /\ failures \in 0..MaxFailures
      /\ overflowed \in BOOLEAN
      /\ events \in [Times -> Nat]
  BY RetentionAssumption DEF RetentionInv, TypeOK, Times, Missing
<1>2. lastMaint' \in 0..now
  BY <1>1
<1>3. TypeOK'
  BY <1>1, <1>2, LiveType DEF TypeOK, Incident
<1>4. Marked'
  BY <1>1 DEF RetentionInv, Marked
<1>5. CapOrEmpty'
  BY DEF CapOrEmpty
<1>6. OnTime'
  BY <1>1 DEF RetentionInv, OnTime
<1>7. /\ EventRows(events) \in Nat /\ EventRows(events') \in Nat
      /\ EventRows(events') <= EventRows(events)
  BY <1>1, EventRowsType, EventRowsMonotone
<1>8. EventsBounded'
  <2>1. Elapsed(Missed, now - lastMaint) = Elapsed(Missed', now' - lastMaint')
    <3>1. CASE lastMaint' = lastMaint /\ (pc'["daemon"] = "idle" <=> pc["daemon"] = "idle")
      BY <1>1, <3>1 DEF Missed
    <3>2. CASE /\ lastMaint' = now /\ MaintenanceDue
               /\ pc["daemon"] = "idle" /\ pc'["daemon"] # "idle"
      <4>1. now - lastMaint = Interval
        BY <1>1, <3>2 DEF RetentionInv, OnTime, MaintenanceDue
      <4>2. now' - lastMaint' = 0 /\ Missed = Missing /\ Missed' = Missing + 1
        BY <1>1, <3>2 DEF Missed
      <4> QED
        BY <1>1, <4>1, <4>2, ElapsedGrows
    <3> QED
      BY <3>1, <3>2
  <2>2. Missed \in Nat /\ now - lastMaint \in Nat
    BY <1>1 DEF Missed
  <2>3. Elapsed(Missed, now - lastMaint) \in Nat
    BY <2>2, ElapsedGrows
  <2>4. EventRows(events) <= Cap + Elapsed(Missed, now - lastMaint) + inserted
    BY DEF RetentionInv, EventsBounded
  <2> DEFINE x == Elapsed(Missed, now - lastMaint)
  <2>5. EventRows(events') <= Cap + x + inserted
    <3> HIDE DEF x
    <3>1. x \in Nat /\ EventRows(events) <= Cap + x + inserted
      BY <2>3, <2>4 DEF x
    <3> QED
      BY <1>1, <1>7, <3>1
  <2> QED
    BY <2>1, <2>5 DEF EventsBounded
<1>9. FootprintBounded'
  <2>1. /\ Rate * (Interval * (Missing + 1) + 1) \in Nat
        /\ Cardinality(Signatures) \in Nat
    <3>1. Elapsed(Missing, Interval) \in Nat /\ Rate \in Nat
      BY <1>1, ElapsedGrows, RetentionAssumption
    <3>2. Rate * (Interval * (Missing + 1) + 1) = Elapsed(Missing, Interval) + Rate
      BY <1>1, AllowanceIs
    <3>3. Cardinality(Signatures) \in Nat
      BY IncidentRowsType
    <3> DEFINE a == Elapsed(Missing, Interval)
               b == Rate * (Interval * (Missing + 1) + 1)
    <3>4. b \in Nat
      <4>1. a \in Nat /\ b = a + Rate
        BY <3>1, <3>2
      <4> HIDE DEF a, b
      <4> QED
        BY <3>1, <4>1
    <3> QED
      BY <3>3, <3>4
  <2>2. Allowance' = Allowance /\ Allowance \in Nat
    BY <1>1, <2>1 DEF Allowance
  <2> QED
    BY <1>1, <2>2 DEF RetentionInv, FootprintBounded
<1> QED
  BY <1>3, <1>4, <1>5, <1>6, <1>8, <1>9 DEF RetentionInv

\* Types, as the steps need them.
LEMMA Basics ==
    ASSUME RetentionInv
    PROVE  /\ now \in Nat /\ now \in Times /\ lastMaint \in Nat /\ lastMaint <= now
           /\ inserted \in Nat /\ inserted <= Rate /\ file \in Nat
           /\ restarts \in 0..MaxRestarts /\ commands \in 0..MaxCommands
           /\ failures \in 0..MaxFailures /\ Missing \in Nat
           /\ overflowed \in BOOLEAN
           /\ events \in [Times -> Nat] /\ incidents \in [Signatures -> Incident]
           /\ \A s \in Signatures :
                 incidents[s].status = "resolved" => s \in Resolvable
           /\ Live(events, incidents) <= file /\ Live(events, incidents) \in Nat
           /\ pc \in [Processes -> {"idle", "size", "delete", "vacuum", "final"}]
           /\ Interval \in Nat /\ Rate \in Nat /\ Cap \in Nat
<1>1. TypeOK
  BY DEF RetentionInv
<1>2. now \in Nat /\ lastMaint \in Nat /\ lastMaint <= now /\ now \in Times
  BY <1>1, RetentionAssumption DEF TypeOK, Times
<1>3. inserted \in Nat /\ inserted <= Rate /\ Missing \in Nat
  BY <1>1, RetentionAssumption DEF TypeOK, Missing
<1>4. Live(events, incidents) <= file /\ Live(events, incidents) \in Nat
  BY <1>1, LiveType DEF TypeOK
<1> QED
  BY <1>1, <1>2, <1>3, <1>4, RetentionAssumption DEF TypeOK, Incident

LEMMA ResolveInv == RetentionInv /\ Resolve => RetentionInv'
<1> SUFFICES ASSUME RetentionInv, Resolve PROVE RetentionInv'
  OBVIOUS
<1>1. PICK s \in Resolvable :
         /\ incidents[s].status = "open"
         /\ incidents' = [incidents EXCEPT ![s].status = "resolved"]
  BY DEF Resolve
<1>2. UNCHANGED <<now, inserted, events, file, lastMaint, pc, restarts, commands,
                  failures, overflowed>>
  BY DEF Resolve, counters
<1>3. s \in Signatures
  BY RetentionAssumption
<1>4. /\ incidents' \in [Signatures -> Incident]
      /\ \A r \in Signatures :
            /\ incidents'[r].status = "resolved" => r \in Resolvable
            /\ incidents'[r].status # "none" => incidents[r].status # "none"
  BY <1>1, <1>3, Basics DEF Incident
<1>5. \A t \in Times : events'[t] <= events[t]
  BY <1>2, Basics
<1>6. Live(events', incidents') <= file'
  <2>1. Live(events, incidents') <= Live(events, incidents)
    BY <1>2, <1>4, <1>5, Basics, LiveMonotone
  <2>2. Live(events, incidents') \in Nat
    BY Basics, LiveType
  <2> QED
    BY <1>2, <2>1, <2>2, Basics
<1>7. /\ \A p \in Processes : pc'[p] = "delete" => overflowed
      /\ pc'["daemon"] = "final" => file' <= Cap \/ EventRows(events') = 0
  BY <1>2 DEF RetentionInv, Marked, CapOrEmpty
<1>8. /\ events' \in [Times -> Nat] /\ file' \in Nat /\ file' <= file
      /\ commands' \in 0..MaxCommands
      /\ pc' \in [Processes -> {"idle", "size", "delete", "vacuum", "final"}]
  BY <1>2, Basics
<1> QED
  BY <1>2, <1>4, <1>5, <1>6, <1>7, <1>8, ShrinkKeeps

LEMMA PruneByAgeInv ==
    ASSUME RetentionInv, NEW p \in Processes, PruneByAge(p) PROVE RetentionInv'
<1>1. /\ pc[p] = "idle"
      /\ \/ p = "daemon" /\ MaintenanceDue /\ lastMaint' = now
            /\ restarts' = restarts /\ commands' = commands
         \/ p = "cli" /\ commands < MaxCommands /\ commands' = commands + 1
            /\ lastMaint' = lastMaint /\ restarts' = restarts
      /\ events' = [t \in Times |-> IF Expired(t) THEN 0 ELSE events[t]]
      /\ incidents' = [s \in Signatures |->
                         IF /\ incidents[s].status = "resolved"
                            /\ incidents[s].last + RetainIncidents < now
                         THEN NoRow ELSE incidents[s]]
      /\ pc' = [pc EXCEPT ![p] = "size"]
      /\ UNCHANGED <<now, inserted, file, failures, overflowed>>
  BY DEF PruneByAge, StartMaintenance, StartCommand, Unexpired
<1>2. events' \in [Times -> Nat] /\ \A t \in Times : events'[t] <= events[t]
  BY <1>1, Basics
<1>3. NoRow \in Incident
  BY RetentionAssumption DEF NoRow, Incident, Times
<1>4. /\ incidents' \in [Signatures -> Incident]
      /\ \A s \in Signatures :
            /\ incidents'[s].status = "resolved" => s \in Resolvable
            /\ incidents'[s].status # "none" => incidents[s].status # "none"
  <2>1. \A s \in Signatures : incidents'[s] = NoRow \/ incidents'[s] = incidents[s]
    BY <1>1
  <2>2. NoRow.status = "none"
    BY DEF NoRow
  <2>3. DOMAIN incidents' = Signatures
        /\ incidents' = [s \in Signatures |-> incidents'[s]]
    BY <1>1
  <2>4. \A s \in Signatures : incidents'[s] \in Incident
    BY <1>3, <2>1, Basics
  <2>5. incidents' \in [Signatures -> Incident]
    BY <2>3, <2>4
  <2> QED
    BY <2>1, <2>2, <2>5, Basics
<1>5. file' \in Nat /\ file' <= file /\ Live(events', incidents') <= file'
  <2>1. Live(events', incidents') <= Live(events, incidents)
    BY <1>2, <1>4, Basics, LiveMonotone
  <2>2. Live(events', incidents') \in Nat
    BY <1>2, LiveType
  <2> QED
    BY <1>1, <2>1, <2>2, Basics
<1>6. commands' \in 0..MaxCommands
  <2>1. commands \in 0..MaxCommands /\ MaxCommands \in Nat
    BY Basics, RetentionAssumption
  <2> QED
    BY <1>1, <2>1
<1>7. /\ pc' \in [Processes -> {"idle", "size", "delete", "vacuum", "final"}]
      /\ pc'[p] = "size"
      /\ \A q \in Processes : q # p => pc'[q] = pc[q]
      /\ "daemon" \in Processes
  BY <1>1, Basics DEF Processes
<1>8. \/ /\ lastMaint' = lastMaint
         /\ pc'["daemon"] = "idle" <=> pc["daemon"] = "idle"
      \/ /\ lastMaint' = now /\ MaintenanceDue
         /\ pc["daemon"] = "idle" /\ pc'["daemon"] # "idle"
  BY <1>1, <1>7
<1>9. /\ \A q \in Processes : pc'[q] = "delete" => overflowed
      /\ restarts' = restarts /\ failures' = failures
  BY <1>1, <1>7 DEF RetentionInv, Marked
<1>10. pc'["daemon"] = "final" => file' <= Cap \/ EventRows(events') = 0
  <2>1. EventRows(events') \in Nat /\ EventRows(events') <= EventRows(events)
        /\ EventRows(events) \in Nat
    BY <1>2, Basics, EventRowsType, EventRowsMonotone
  <2> QED
    BY <1>1, <1>7, <2>1 DEF RetentionInv, CapOrEmpty
<1> QED
  BY <1>1, <1>2, <1>4, <1>5, <1>6, <1>7, <1>8, <1>9, <1>10, ShrinkKeeps

\* A process goes on in prune, and what it does adds nothing.
LEMMA GoKeeps ==
    ASSUME RetentionInv, NEW p \in Processes, NEW from, NEW to, Go(p, from, to),
           from # "idle", to # "idle" \/ p = "cli",
           to \in {"idle", "size", "delete", "vacuum", "final"},
           to = "delete" => overflowed,
           events' \in [Times -> Nat],
           \A t \in Times : events'[t] <= events[t],
           file' \in Nat, file' <= file, Live(events', incidents) <= file',
           to = "final" => file' <= Cap \/ EventRows(events') = 0
                           \/ p = "cli"
    PROVE  RetentionInv'
<1>1. /\ pc[p] = from /\ pc' = [pc EXCEPT ![p] = to]
      /\ UNCHANGED <<now, inserted, incidents, lastMaint, restarts, commands,
                     failures, overflowed>>
  BY DEF Go, counters
<1>2. /\ pc' \in [Processes -> {"idle", "size", "delete", "vacuum", "final"}]
      /\ pc'[p] = to
      /\ \A q \in Processes : q # p => pc'[q] = pc[q]
      /\ "daemon" \in Processes /\ "cli" # "daemon"
  BY <1>1, Basics DEF Processes
<1>3. \A q \in Processes : pc'[q] = "delete" => overflowed
  BY <1>2 DEF RetentionInv, Marked
<1>4. pc'["daemon"] = "final" => file' <= Cap \/ EventRows(events') = 0
  <2>1. CASE p = "daemon"
    BY <1>2, <2>1
  <2>2. CASE p # "daemon"
    <3>1. EventRows(events') \in Nat /\ EventRows(events') <= EventRows(events)
          /\ EventRows(events) \in Nat
      BY Basics, EventRowsType, EventRowsMonotone
    <3>2. pc'["daemon"] = "final" => file <= Cap \/ EventRows(events) = 0
      BY <1>2, <2>2 DEF RetentionInv, CapOrEmpty
    <3> QED
      BY <3>1, <3>2, Basics
  <2> QED
    BY <2>1, <2>2
<1>5. pc'["daemon"] = "idle" <=> pc["daemon"] = "idle"
  BY <1>1, <1>2
<1>6. /\ incidents' \in [Signatures -> Incident]
      /\ \A s \in Signatures :
            /\ incidents'[s].status = "resolved" => s \in Resolvable
            /\ incidents'[s].status # "none" => incidents[s].status # "none"
      /\ commands' \in 0..MaxCommands
  BY <1>1, Basics
<1>7. Live(events', incidents') <= file'
  BY <1>1
<1> QED
  BY <1>1, <1>2, <1>3, <1>4, <1>5, <1>6, <1>7, ShrinkKeeps

LEMMA PruneBySizeInv ==
    ASSUME RetentionInv, NEW p \in Processes,
           SeeOverCap(p) \/ DeleteSlice(p) \/ VacuumPage(p) \/ EndSize(p)
    PROVE  RetentionInv'
<1>1. ASSUME file' = file \/ FreePage, UNCHANGED events
      PROVE  /\ events' \in [Times -> Nat]
             /\ \A t \in Times : events'[t] <= events[t]
             /\ file' \in Nat /\ file' <= file /\ Live(events', incidents) <= file'
  <2>1. /\ \A t \in Times : events[t] \in Nat
        /\ file' \in Nat /\ file' <= file /\ Live(events, incidents) <= file'
    BY <1>1, Basics DEF FreePage
  <2> QED
    BY <1>1, <2>1, Basics
<1>2. CASE SeeOverCap(p)
  <2>1. /\ Go(p, "size", "delete") /\ UNCHANGED <<file, events>> /\ file > Cap
    BY <1>2, Basics DEF SeeOverCap, UnderCap
  <2>2. overflowed
    BY <2>1 DEF RetentionInv, Marked
  <2> QED
    BY <1>1, <2>1, <2>2, GoKeeps
<1>3. CASE DeleteSlice(p)
  <2>1. /\ events' = WithoutOldest(Slice) /\ file' = file
        /\ \/ EventRows(events) = 0 /\ Go(p, "delete", "final")
           \/ Go(p, "delete", "vacuum")
    BY <1>3 DEF DeleteSlice, NothingLeft
  <2>2. events' \in [Times -> Nat] /\ \A t \in Times : events'[t] <= events[t]
    BY <2>1, Basics, SliceType, RetentionAssumption
  <2>3. /\ EventRows(events') \in Nat /\ EventRows(events) \in Nat
        /\ EventRows(events') <= EventRows(events)
    BY <2>2, Basics, EventRowsType, EventRowsMonotone
  <2>4. Live(events', incidents) <= file'
    <3>1. Live(events', incidents) <= Live(events, incidents)
      BY <2>2, Basics, LiveMonotone
    <3>2. Live(events', incidents) \in Nat
      BY <2>2, LiveType
    <3> QED
      BY <2>1, <3>1, <3>2, Basics
  <2>5. file' \in Nat /\ file' <= file
    BY <2>1, Basics
  <2>6. CASE EventRows(events) = 0 /\ Go(p, "delete", "final")
    <3>1. EventRows(events') = 0
      BY <2>3, <2>6
    <3> QED
      BY <2>2, <2>4, <2>5, <2>6, <3>1, GoKeeps
  <2>7. CASE Go(p, "delete", "vacuum")
    BY <2>2, <2>4, <2>5, <2>7, GoKeeps
  <2> QED
    BY <2>1, <2>6, <2>7
<1>4. CASE VacuumPage(p)
  <2>1. Go(p, "vacuum", "size") /\ FreePage /\ UNCHANGED events
    BY <1>4 DEF VacuumPage, FreePage
  <2> QED
    BY <1>1, <2>1, GoKeeps
<1>5. CASE EndSize(p)
  <2>1. Go(p, "size", "final") /\ UNCHANGED <<file, events>> /\ file <= Cap
    BY <1>5 DEF EndSize, UnderCap
  <2> QED
    BY <1>1, <2>1, GoKeeps
<1> QED
  BY <1>2, <1>3, <1>4, <1>5

\* The end of a prune: the daemon's leaves no more events than the cap.
LEMMA EndPruneInv ==
    ASSUME RetentionInv, NEW p \in Processes, EndPrune(p) PROVE RetentionInv'
<1>1. Go(p, "final", "idle") /\ FreePage /\ UNCHANGED events
  BY DEF EndPrune, FreePage
<1>2. /\ events' \in [Times -> Nat]
      /\ \A t \in Times : events'[t] <= events[t]
      /\ file' \in Nat /\ file' <= file /\ Live(events', incidents) <= file'
  <2>1. /\ \A t \in Times : events[t] \in Nat
        /\ file' \in Nat /\ file' <= file /\ Live(events, incidents) <= file'
    BY <1>1, Basics DEF FreePage
  <2> QED
    BY <1>1, <2>1, Basics
<1>3. CASE p = "cli"
  BY <1>1, <1>2, <1>3, GoKeeps
<1>4. CASE p = "daemon"
  <2>1. /\ pc["daemon"] = "final" /\ pc' = [pc EXCEPT !["daemon"] = "idle"]
        /\ UNCHANGED <<now, inserted, incidents, lastMaint, restarts, commands, failures,
                       overflowed, events>>
    BY <1>1, <1>4 DEF Go, counters
  <2>2. /\ pc' \in [Processes -> {"idle", "size", "delete", "vacuum", "final"}]
        /\ pc'["daemon"] = "idle"
        /\ \A q \in Processes : q # "daemon" => pc'[q] = pc[q]
    BY <2>1, Basics DEF Processes
  <2>3. TypeOK'
    BY <1>2, <2>1, <2>2, LiveType DEF RetentionInv, TypeOK
  <2>4. Marked'
    BY <1>2, <2>1, <2>2, Basics DEF RetentionInv, Marked
  <2>5. CapOrEmpty' /\ OnTime'
    BY <2>1, <2>2 DEF RetentionInv, CapOrEmpty, OnTime
  <2>6. EventsBounded'
    <3>1. EventRows(events) \in Nat /\ EventRows(events) <= Cap
      <4>1. EventRows(events) <= Live(events, incidents) /\ EventRows(events) \in Nat
        BY Basics, LiveType, EventRowsType
      <4>2. file <= Cap \/ EventRows(events) = 0
        BY <2>1 DEF RetentionInv, CapOrEmpty
      <4> QED
        BY <4>1, <4>2, Basics
    <3>2. lastMaint = now /\ now - lastMaint = 0 /\ Missed' = Missing
      BY <2>1, <2>2, Basics DEF RetentionInv, OnTime, Missed, Missing
    <3>3. Elapsed(Missing, 0) \in Nat
      BY Basics, ElapsedGrows
    <3> QED
      BY <2>1, <3>1, <3>2, <3>3, Basics DEF EventsBounded
  <2>7. FootprintBounded'
    <3>1. /\ Rate * (Interval * (Missing + 1) + 1) = Elapsed(Missing, Interval) + Rate
          /\ Elapsed(Missing, Interval) \in Nat
      BY Basics, AllowanceIs, ElapsedGrows
    <3>2. Allowance' = Allowance /\ Allowance \in Nat
      <4>1. Cardinality(Signatures) \in Nat
        BY IncidentRowsType
      <4> QED
        BY <2>1, <3>1, <4>1, Basics DEF Allowance, Missing
    <3> QED
      BY <1>2, <3>2, Basics DEF RetentionInv, FootprintBounded
  <2> QED
    BY <2>3, <2>4, <2>5, <2>6, <2>7 DEF RetentionInv
<1> QED
  BY <1>3, <1>4 DEF Processes

LEMMA VacuumInv == RetentionInv /\ Vacuum => RetentionInv'
<1> SUFFICES ASSUME RetentionInv, Vacuum PROVE RetentionInv'
  OBVIOUS
<1>1. /\ commands < MaxCommands /\ commands' = commands + 1
      /\ file' = Live(events, incidents)
      /\ UNCHANGED <<now, inserted, events, incidents, lastMaint, pc, restarts,
                     failures, overflowed>>
  BY DEF Vacuum
<1>2. commands' \in 0..MaxCommands
  <2>1. commands \in 0..MaxCommands /\ MaxCommands \in Nat
    BY Basics, RetentionAssumption
  <2> QED
    BY <1>1, <2>1
<1>3. file' \in Nat /\ file' <= file /\ Live(events', incidents') <= file'
  BY <1>1, Basics
<1>4. /\ events' \in [Times -> Nat]
      /\ \A t \in Times : events'[t] <= events[t]
      /\ incidents' \in [Signatures -> Incident]
      /\ \A s \in Signatures :
            /\ incidents'[s].status = "resolved" => s \in Resolvable
            /\ incidents'[s].status # "none" => incidents[s].status # "none"
      /\ pc' \in [Processes -> {"idle", "size", "delete", "vacuum", "final"}]
  BY <1>1, Basics
<1>5. /\ \A p \in Processes : pc'[p] = "delete" => overflowed
      /\ pc'["daemon"] = "final" => file' <= Cap \/ EventRows(events') = 0
  BY <1>1, <1>3, Basics DEF RetentionInv, Marked, CapOrEmpty
<1> QED
  BY <1>1, <1>2, <1>3, <1>4, <1>5, ShrinkKeeps

\* Events are inserted outside maintenance only.
LEMMA FillKeeps ==
    ASSUME RetentionInv, pc["daemon"] = "idle", inserted < Rate,
           inserted' = inserted + 1,
           UNCHANGED <<now, lastMaint, pc, restarts, commands, failures>>,
           NEW t \in Times, NEW inc \in [Signatures -> Incident],
           \A s \in Signatures : inc[s].status = "resolved" => s \in Resolvable,
           Fill([events EXCEPT ![t] = @ + 1], inc)
    PROVE  RetentionInv'
<1> DEFINE ev == [events EXCEPT ![t] = @ + 1]
           live == Live(ev, inc)
<1>1. /\ events' = ev /\ incidents' = inc /\ file' = Max({file, live})
      /\ overflowed' = (overflowed \/ file' > Cap)
  BY DEF Fill
<1>2. ev \in [Times -> Nat]
  BY Basics
<1>3. EventRows(ev) = EventRows(events) + 1 /\ EventRows(events) \in Nat
  BY Basics, EventRowsAdd, EventRowsType
<1> HIDE DEF ev
<1>4. /\ live \in Nat /\ live <= EventRows(ev) + Cardinality(Signatures)
      /\ Cardinality(Signatures) \in Nat
  BY <1>2, LiveType, IncidentRowsType
<1> HIDE DEF live
<1>5. /\ file' \in Nat /\ file <= file' /\ live <= file' /\ file' \in {file, live}
  BY <1>1, <1>4, Basics, MaxOfTwo
<1>6. TypeOK'
  <2>1. file' >= Live(events', incidents')
    BY <1>1, <1>5, Basics, <1>4 DEF live
  <2>2. overflowed' \in BOOLEAN
    BY <1>1
  <2>3. inserted' \in 0..Rate
    BY Basics
  <2>4. now \in Times /\ lastMaint \in 0..now
    BY Basics
  <2> QED
    BY <1>1, <1>2, <1>5, <2>1, <2>2, <2>3, <2>4, Basics DEF TypeOK, Incident
<1>7. Marked'
  BY <1>1 DEF RetentionInv, Marked
<1>8. CapOrEmpty' /\ OnTime'
  BY DEF CapOrEmpty, OnTime, RetentionInv
<1> DEFINE x == Elapsed(Missing, now - lastMaint)
           y == Elapsed(Missing, Interval)
<1>9. /\ x \in Nat /\ y \in Nat /\ x <= y
      /\ EventRows(events) <= Cap + x + inserted
      /\ Allowance = y + Rate + Cardinality(Signatures)
  <2>1. now - lastMaint \in Nat /\ now - lastMaint <= Interval
    BY Basics DEF RetentionInv, OnTime
  <2>2. x \in Nat /\ y \in Nat /\ x <= y
    BY <2>1, Basics, ElapsedGrows
  <2>3. Missed = Missing
    BY DEF Missed
  <2>4. Allowance = y + Rate + Cardinality(Signatures)
    BY Basics, AllowanceIs DEF Allowance
  <2> QED
    BY <2>2, <2>3, <2>4 DEF RetentionInv, EventsBounded
<1> HIDE DEF x, y
<1>10. EventRows(ev) <= Cap + x + inserted'
  BY <1>3, <1>9, Basics
<1>11. EventsBounded'
  <2>1. Elapsed(Missed, now - lastMaint)' = x
    BY DEF Missed, Missing, Elapsed, x
  <2>2. EventRows(events') <= Cap + x + inserted'
    BY <1>1, <1>10
  <2> QED
    BY <2>1, <2>2 DEF EventsBounded
<1>12. FootprintBounded'
  <2>1. live <= Cap + Allowance
    BY <1>3, <1>4, <1>9, <1>10, Basics
  <2>2. file <= Cap + Allowance
    BY DEF RetentionInv, FootprintBounded
  <2>3. Allowance' = Allowance
    BY DEF Allowance, Missing
  <2> QED
    BY <1>5, <2>1, <2>2, <2>3 DEF FootprintBounded
<1> QED
  BY <1>6, <1>7, <1>8, <1>11, <1>12 DEF RetentionInv

LEMMA InsertInv == RetentionInv /\ Insert => RetentionInv'
<1> SUFFICES ASSUME RetentionInv, Insert PROVE RetentionInv'
  OBVIOUS
<1>1. PICK t \in {now, Max({now, 1}) - 1} :
         LET ev == [events EXCEPT ![t] = @ + 1]
         IN  \/ Fill(ev, incidents)
             \/ \E s \in Signatures :
                   Fill(ev, [incidents EXCEPT
                               ![s] = [last |-> Max({t, @.last}),
                                       status |-> "open"]])
  BY DEF Insert
<1>2. /\ pc["daemon"] = "idle" /\ inserted < Rate /\ inserted' = inserted + 1
      /\ UNCHANGED <<now, lastMaint, pc, restarts, commands, failures>>
  BY DEF Insert, counters
<1>3. t \in Times
  <2>1. /\ now \in Nat /\ now <= MaxTime /\ MaxTime \in Nat
    BY Basics, RetentionAssumption DEF Times
  <2>2. Max({now, 1}) \in {now, 1} /\ 1 <= Max({now, 1}) /\ now <= Max({now, 1})
    BY <2>1, MaxOfTwo
  <2> DEFINE m == Max({now, 1})
  <2> HIDE DEF m
  <2>3. m \in {now, 1} /\ 1 <= m /\ t \in {now, m - 1}
    BY <2>2 DEF m
  <2> QED
    BY <2>1, <2>3 DEF Times
<1>4. CASE Fill([events EXCEPT ![t] = @ + 1], incidents)
  BY <1>2, <1>3, <1>4, Basics, FillKeeps
<1>5. CASE \E s \in Signatures :
             Fill([events EXCEPT ![t] = @ + 1],
                  [incidents EXCEPT ![s] = [last |-> Max({t, @.last}),
                                            status |-> "open"]])
  <2>1. PICK s \in Signatures :
           Fill([events EXCEPT ![t] = @ + 1],
                [incidents EXCEPT ![s] = [last |-> Max({t, @.last}),
                                          status |-> "open"]])
    BY <1>5
  <2> DEFINE z == [last |-> Max({t, incidents[s].last}), status |-> "open"]
             inc == [incidents EXCEPT ![s] = z]
  <2>2. z \in Incident
    <3>1. incidents[s].last \in Times
      <4>1. incidents[s] \in Incident
        BY Basics
      <4> QED
        BY <4>1 DEF Incident
    <3> DEFINE l == incidents[s].last
    <3>2. Max({t, l}) \in {t, l}
      <4>1. t \in Nat /\ l \in Nat
        BY <1>3, <3>1, TimesFinite
      <4> HIDE DEF l
      <4> QED
        BY <4>1, MaxOfTwo
    <3>3. Max({t, l}) \in Times
      BY <1>3, <3>1, <3>2
    <3> QED
      BY <3>3 DEF Incident
  <2>3. z.status = "open"
    OBVIOUS
  <2> HIDE DEF z
  <2>4. inc \in [Signatures -> Incident]
    BY <2>2, Basics
  <2>5. \A r \in Signatures : inc[r].status = "resolved" => r \in Resolvable
    <3>1. \A r \in Signatures : inc[r] = z \/ inc[r] = incidents[r]
      BY Basics
    <3> QED
      BY <2>3, <3>1, Basics
  <2>6. Fill([events EXCEPT ![t] = @ + 1], inc)
    BY <2>1 DEF z
  <2> HIDE DEF inc
  <2> QED
    BY <1>2, <1>3, <2>4, <2>5, <2>6, FillKeeps
<1> QED
  BY <1>1, <1>4, <1>5

LEMMA TickInv == RetentionInv /\ Tick => RetentionInv'
<1> SUFFICES ASSUME RetentionInv, Tick PROVE RetentionInv'
  OBVIOUS
<1>1. /\ now < MaxTime /\ ~MaintenanceDue /\ pc["daemon"] = "idle"
      /\ now' = now + 1 /\ inserted' = 0
      /\ UNCHANGED <<events, incidents, file, lastMaint, pc, restarts, commands,
                     failures, overflowed>>
  BY DEF Tick, counters
<1>2. now' \in Times /\ lastMaint \in 0..now' /\ inserted' \in 0..Rate
  <2>1. now \in Nat /\ lastMaint \in Nat /\ lastMaint <= now /\ Rate \in Nat
    BY Basics
  <2>2. MaxTime \in Nat
    BY RetentionAssumption
  <2> QED
    BY <1>1, <2>1, <2>2 DEF Times
<1>3. TypeOK'
  BY <1>1, <1>2 DEF RetentionInv, TypeOK
<1>4. Marked' /\ CapOrEmpty'
  BY <1>1 DEF RetentionInv, Marked, CapOrEmpty
<1>5. OnTime'
  BY <1>1, Basics DEF OnTime, MaintenanceDue
<1>6. EventsBounded'
  <2> DEFINE d == now - lastMaint
             x == Elapsed(Missing, d)
  <2>1. d \in Nat /\ now' - lastMaint' = d + 1
    BY <1>1, Basics
  <2>2. Missed = Missing /\ Missed' = Missing
    BY <1>1 DEF Missed, Missing
  <2>3. EventRows(events) <= Cap + x + inserted
    BY <2>2 DEF RetentionInv, EventsBounded
  <2>4. EventRows(events) \in Nat
    BY Basics, EventRowsType
  <2> HIDE DEF d
  <2>5. x \in Nat /\ Elapsed(Missing, d + 1) = x + Rate
    BY <2>1, Basics, ElapsedGrows
  <2> HIDE DEF x
  <2>6. EventRows(events) <= Cap + (x + Rate) + 0
    BY <2>3, <2>4, <2>5, Basics
  <2> QED
    BY <1>1, <2>1, <2>2, <2>5, <2>6 DEF EventsBounded
<1>7. FootprintBounded'
  BY <1>1 DEF RetentionInv, FootprintBounded, Allowance, Missing
<1> QED
  BY <1>3, <1>4, <1>5, <1>6, <1>7 DEF RetentionInv

\* A step that puts the daemon's maintenance off by an interval, or counts as if
\* it did: a restart, or a failure.
LEMMA PutOffKeeps ==
    ASSUME RetentionInv, Missing' = Missing + 1,
           restarts' \in 0..MaxRestarts, failures' \in 0..MaxFailures,
           events' \in [Times -> Nat],
           \A t \in Times : events'[t] <= events[t],
           UNCHANGED <<now, inserted, incidents, file, commands, overflowed>>,
           pc' \in [Processes -> {"idle", "size", "delete", "vacuum", "final"}],
           \A p \in Processes : pc'[p] \in {pc[p], "idle"},
           \/ lastMaint' = now /\ pc'["daemon"] = "idle"
           \/ lastMaint' = lastMaint /\ pc'["daemon"] = pc["daemon"]
    PROVE  RetentionInv'
<1>1. /\ lastMaint' \in 0..now /\ "daemon" \in Processes
      /\ EventRows(events) \in Nat /\ EventRows(events') \in Nat
      /\ EventRows(events') <= EventRows(events)
  BY Basics, EventRowsType, EventRowsMonotone DEF Processes
<1>2. Live(events', incidents') <= file' /\ file' \in Nat
  <2>1. Live(events', incidents) <= Live(events, incidents)
    BY Basics, LiveMonotone
  <2>2. Live(events', incidents) \in Nat
    BY LiveType
  <2> QED
    BY <2>1, <2>2, Basics
<1>3. TypeOK'
  BY <1>1, <1>2 DEF RetentionInv, TypeOK
<1>4. Marked'
  BY DEF RetentionInv, Marked
<1>5. CapOrEmpty' /\ OnTime'
  BY <1>1, Basics DEF RetentionInv, CapOrEmpty, OnTime
<1> DEFINE d == now - lastMaint
           x == Elapsed(Missed, d)
           y == Elapsed(Missed', now' - lastMaint')
<1>6. x \in Nat /\ y \in Nat /\ x <= y
  <2>1. d \in Nat /\ d <= Interval /\ Missed \in Nat
    BY Basics DEF RetentionInv, OnTime, Missed
  <2>2. CASE lastMaint' = now /\ pc'["daemon"] = "idle"
    <3>1. y = Elapsed(Missing + 1, 0)
      <4>1. Missed' = Missing + 1 /\ now' - lastMaint' = 0
        BY <2>2, Basics DEF Missed
      <4> QED
        BY <4>1
    <3>2. y = Elapsed(Missing, Interval) /\ y \in Nat
      BY <3>1, Basics, ElapsedGrows
    <3>3. CASE pc["daemon"] = "idle"
      BY <2>1, <3>2, <3>3, Basics, ElapsedGrows DEF Missed
    <3>4. CASE pc["daemon"] # "idle"
      <4>1. d = 0 /\ Missed = Missing + 1
        BY <3>4, Basics DEF RetentionInv, OnTime, Missed
      <4>2. x = y
        BY <3>1, <4>1
      <4> QED
        BY <3>2, <4>2
    <3> QED
      BY <3>3, <3>4
  <2>3. CASE lastMaint' = lastMaint /\ pc'["daemon"] = pc["daemon"]
    <3>1. Missed' = Missed + 1 /\ now' - lastMaint' = d
      BY <2>3, Basics DEF Missed
    <3> HIDE DEF d
    <3>2. y = Elapsed(Missed + 1, d)
      BY <3>1
    <3> HIDE DEF y
    <3>3. /\ Elapsed(Missed, d) \in Nat /\ Elapsed(Missed + 1, d) \in Nat
          /\ Elapsed(Missed, d) <= Elapsed(Missed + 1, d)
      <4>1. Missed + 1 \in Nat
        BY <2>1
      <4> QED
        BY <2>1, <4>1, ElapsedGrows
    <3> QED
      BY <3>2, <3>3
  <2> QED
    BY <2>2, <2>3
<1>7. EventsBounded'
  <2>1. EventRows(events) <= Cap + x + inserted
    BY DEF RetentionInv, EventsBounded
  <2> HIDE DEF x, y
  <2>2. EventRows(events') <= Cap + y + inserted'
    BY <1>1, <1>6, <2>1, Basics
  <2> QED
    BY <2>2 DEF EventsBounded, y
<1>8. FootprintBounded'
  <2> DEFINE a == Elapsed(Missing, Interval)
             b == Elapsed(Missing + 1, Interval)
  <2>1. a \in Nat /\ b \in Nat /\ a <= b
    <3>1. Missing + 1 \in Nat
      BY Basics
    <3> QED
      BY <3>1, Basics, ElapsedGrows
  <2>2. /\ Allowance = a + Rate + Cardinality(Signatures)
        /\ Allowance' = b + Rate + Cardinality(Signatures)
    <3>1. Missing + 1 \in Nat
      BY Basics
    <3> QED
      BY <3>1, Basics, AllowanceIs DEF Allowance
  <2> HIDE DEF a, b
  <2>3. Cardinality(Signatures) \in Nat
    BY IncidentRowsType
  <2>4. Allowance <= Allowance' /\ Allowance \in Nat /\ Allowance' \in Nat
    BY <2>1, <2>2, <2>3, Basics
  <2>5. file <= Cap + Allowance
    BY DEF RetentionInv, FootprintBounded
  <2> QED
    BY <2>4, <2>5, Basics DEF FootprintBounded
<1> QED
  BY <1>3, <1>4, <1>5, <1>7, <1>8 DEF RetentionInv

LEMMA RestartInv == RetentionInv /\ Restart => RetentionInv'
<1> SUFFICES ASSUME RetentionInv, Restart PROVE RetentionInv'
  OBVIOUS
<1>1. /\ restarts < MaxRestarts /\ restarts' = restarts + 1 /\ lastMaint' = now
      /\ pc' = [pc EXCEPT !["daemon"] = "idle"]
      /\ UNCHANGED <<now, inserted, events, incidents, file, commands, failures,
                     overflowed>>
  BY DEF Restart
<1>2. /\ pc' \in [Processes -> {"idle", "size", "delete", "vacuum", "final"}]
      /\ pc'["daemon"] = "idle"
      /\ \A q \in Processes : pc'[q] \in {pc[q], "idle"}
  BY <1>1, Basics DEF Processes
<1>3. /\ restarts' \in 0..MaxRestarts /\ failures' \in 0..MaxFailures
      /\ Missing' = Missing + 1
  BY <1>1, Basics, RetentionAssumption DEF Missing
<1>4. events' \in [Times -> Nat] /\ \A t \in Times : events'[t] <= events[t]
  BY <1>1, Basics
<1> QED
  BY <1>1, <1>2, <1>3, <1>4, PutOffKeeps

LEMMA RaisesIs ==
    ASSUME RetentionInv, Raises
    PROVE  /\ restarts' \in 0..MaxRestarts /\ failures' \in 0..MaxFailures
           /\ Missing' = Missing + 1
           /\ UNCHANGED <<now, inserted, incidents, file, commands, overflowed>>
  BY Basics, RetentionAssumption DEF Raises, Missing

\* The first transaction of maintenance fails, or a later one of either process.
LEMMA FailToStartInv == RetentionInv /\ FailToStart => RetentionInv'
<1> SUFFICES ASSUME RetentionInv, FailToStart PROVE RetentionInv'
  OBVIOUS
<1>1. /\ pc["daemon"] = "idle" /\ lastMaint' = now /\ pc' = pc
      /\ Raises /\ events' \in {events, Unexpired}
  BY DEF FailToStart
<1>2. events' \in [Times -> Nat] /\ \A t \in Times : events'[t] <= events[t]
  <2>1. /\ Unexpired \in [Times -> Nat]
        /\ \A t \in Times : Unexpired[t] <= events[t]
    BY Basics DEF Unexpired
  <2>2. \A t \in Times : events[t] <= events[t]
    BY Basics
  <2> QED
    BY <1>1, <2>1, <2>2, Basics
<1>3. /\ pc' \in [Processes -> {"idle", "size", "delete", "vacuum", "final"}]
      /\ \A p \in Processes : pc'[p] \in {pc[p], "idle"}
  BY <1>1, Basics
<1> QED
  BY <1>1, <1>2, <1>3, RaisesIs, PutOffKeeps

LEMMA FailLaterInv ==
    ASSUME RetentionInv, NEW p \in Processes, FailLater(p) PROVE RetentionInv'
<1>1. /\ pc[p] # "idle" /\ pc' = [pc EXCEPT ![p] = "idle"] /\ lastMaint' = lastMaint
      /\ Raises /\ (events' = events \/ events' = WithoutOldest(Slice))
  BY DEF FailLater
<1>2. events' \in [Times -> Nat] /\ \A t \in Times : events'[t] <= events[t]
  <2>1. /\ WithoutOldest(Slice) \in [Times -> Nat]
        /\ \A t \in Times : WithoutOldest(Slice)[t] <= events[t]
    BY Basics, SliceType, RetentionAssumption
  <2>2. \A t \in Times : events[t] <= events[t]
    BY Basics
  <2> QED
    BY <1>1, <2>1, <2>2, Basics
<1>3. /\ pc' \in [Processes -> {"idle", "size", "delete", "vacuum", "final"}]
      /\ \A q \in Processes : pc'[q] \in {pc[q], "idle"}
  BY <1>1, Basics
<1>4. \/ lastMaint' = now /\ pc'["daemon"] = "idle"
      \/ lastMaint' = lastMaint /\ pc'["daemon"] = pc["daemon"]
  BY <1>1, Basics DEF RetentionInv, OnTime, Processes
<1> QED
  BY <1>1, <1>2, <1>3, <1>4, RaisesIs, PutOffKeeps

LEMMA RetentionNext == RetentionInv /\ [Next]_vars => RetentionInv'
<1> SUFFICES ASSUME RetentionInv, [Next]_vars PROVE RetentionInv'
  OBVIOUS
<1>1. CASE Insert \/ Resolve \/ Tick \/ Restart \/ Vacuum
  BY <1>1, InsertInv, ResolveInv, TickInv, RestartInv, VacuumInv
<1>2. CASE \E p \in Processes : Prune(p)
  BY <1>2, PruneByAgeInv, PruneBySizeInv, EndPruneInv DEF Prune
<1>4. CASE FailToStart \/ \E p \in Processes : FailLater(p)
  BY <1>4, FailToStartInv, FailLaterInv
<1>3. CASE UNCHANGED vars
  BY <1>3 DEF vars, counters, RetentionInv, TypeOK, Marked, CapOrEmpty, OnTime,
     EventsBounded, FootprintBounded, Missed, Missing, Elapsed, Allowance
<1> QED
  BY <1>1, <1>2, <1>3, <1>4 DEF Next

\* The tables, the file and the processes that prune them are of their types, and
\* the file holds what is live.
THEOREM RetentionTypes == Spec => []TypeOK
<1>1. RetentionInv => TypeOK
  BY DEF RetentionInv
<1> QED
  BY <1>1, RetentionInit, RetentionNext, PTL DEF Spec

\* Retention by age and the size cap keep the footprint bounded: the file never
\* outgrows the cap by more than what is inserted from one complete maintenance
\* to the next, which each restart and each failed maintenance puts off by an
\* interval, with prune and vacuum commands at any moment (_maybe_maintain with
\* the exception it catches, Database.prune).
THEOREM FootprintIsBounded == Spec => []FootprintBounded
<1>1. RetentionInv => FootprintBounded
  BY DEF RetentionInv
<1> QED
  BY <1>1, RetentionInit, RetentionNext, PTL DEF Spec

\* Maintenance leaves the file under the cap, or no event to delete, whatever a
\* prune or vacuum command does between its transactions (Database.prune).
THEOREM MaintenanceCaps == Spec => []CapOrEmpty
<1>1. RetentionInv => CapOrEmpty
  BY DEF RetentionInv
<1> QED
  BY <1>1, RetentionInit, RetentionNext, PTL DEF Spec

LEMMA RecentStay ==
    ASSUME RetentionInv, [Next]_vars, NEW t \in Times, events'[t] < events[t]
    PROVE  overflowed \/ t + Retain < now
<1>1. CASE UNCHANGED events
  BY <1>1, Basics
<1>2. CASE Insert
  <2>1. PICK s : events' = [events EXCEPT ![s] = @ + 1]
    BY <1>2 DEF Insert, Fill
  <2>2. \A r \in Times : events[r] \in Nat /\ events'[r] \in {events[r], events[r] + 1}
    BY <2>1, Basics
  <2>3. events[t] \in Nat /\ events'[t] \in {events[t], events[t] + 1}
    BY <2>2
  <2> QED
    BY <2>3
<1>3. ASSUME NEW p \in Processes, PruneByAge(p) PROVE t + Retain < now
  <2>1. events'[t] = (IF Expired(t) THEN 0 ELSE events[t])
    BY <1>3 DEF PruneByAge, Unexpired
  <2> QED
    BY <2>1, Basics DEF Expired
<1>4. ASSUME NEW p \in Processes, DeleteSlice(p) PROVE overflowed
  BY <1>4 DEF DeleteSlice, Go, RetentionInv, Marked
<1>7. CASE FailToStart
  <2>1. events' = Unexpired
    BY <1>7, Basics DEF FailToStart
  <2>2. events'[t] = (IF Expired(t) THEN 0 ELSE events[t])
    BY <2>1 DEF Unexpired
  <2> QED
    BY <2>2, Basics DEF Expired
<1>8. ASSUME NEW p \in Processes, FailLater(p) PROVE overflowed
  <2>1. pc[p] = "delete"
    BY <1>8, Basics DEF FailLater
  <2> QED
    BY <2>1 DEF RetentionInv, Marked
<1>5. CASE Resolve \/ Tick \/ Restart \/ Vacuum \/ UNCHANGED vars
  BY <1>1, <1>5 DEF Resolve, Tick, Restart, Vacuum, vars
<1>6. ASSUME NEW p \in Processes,
             SeeOverCap(p) \/ VacuumPage(p) \/ EndSize(p) \/ EndPrune(p)
      PROVE  UNCHANGED events
  BY <1>6 DEF SeeOverCap, VacuumPage, EndSize, EndPrune, FreePage
<1> QED
  BY <1>1, <1>2, <1>3, <1>4, <1>5, <1>6, <1>7, <1>8 DEF Next, Prune

\* As long as the file has not been over the cap, no event younger than the
\* retention is gone, however maintenance, commands and restarts fall
\* (Database.prune).
THEOREM RecentEventsKept == Spec => RecentKept
<1>1. RetentionInv /\ [Next]_vars
         => [\A t \in Times : events'[t] < events[t]
                => overflowed \/ t + Retain < now]_vars
  BY RecentStay
<1> QED
  BY <1>1, RetentionInit, RetentionNext, PTL DEF Spec, RecentKept
============================================================================
