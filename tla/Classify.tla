------------------------------ MODULE Classify ------------------------------
(***************************************************************************)
(* How an event becomes a problem and problems become incidents.  The same *)
(* death of a service is reported three times, in any order: systemd logs  *)
(* "Main process exited" and "Failed with result", which classify reads,   *)
(* and the unit monitor makes a failure event of `systemctl show`.  An     *)
(* incident is the unit, the kind and the signature, so the reports that   *)
(* agree on those are counted in one place.  They do not tell the same of  *)
(* a death: its exit code or signal, that the OOM killer did it, or only   *)
(* that the unit failed.                                                   *)
(*                                                                         *)
(* The monitor also reports restart loops and recoveries, and services log *)
(* errors, whose text is their key.                                        *)
(*                                                                         *)
(* A text is what the regular expressions of classify.py find in it; that  *)
(* of an error is a sequence of words and numbers.                         *)
(***************************************************************************)
EXTENDS Integers, FiniteSets, Sequences

CONSTANTS
    Units,         \* the services
    Codes,         \* exit codes
    Signals,       \* signal numbers
    ErrorPriority, \* Config.error_priority
    Noise,         \* priorities services log at
    Templates,     \* texts of what they log, with Hole for a number
    Numbers,       \* what they put there
    Width,         \* the 80 characters of a signature, in words
    OomNamed,      \* services whose name the pattern of the OOM killer finds
    MaxDeaths      \* bound: deaths

Nobody == "nobody"

ASSUME ClassifyAssumption ==
    /\ Codes \subseteq Nat /\ 0 \in Codes
    /\ Signals \subseteq Nat \ {0}
    /\ ErrorPriority \in 0..7 /\ Noise \subseteq 0..7
    /\ Nobody \notin Units /\ OomNamed \subseteq Units
    /\ MaxDeaths \in Nat
\* A template shows its numbers as Hole; texts longer than a signature differ
\* in what it keeps.
ASSUME TextAssumption ==
    /\ Width \in Nat
    /\ \A t \in Templates : t \in Seq(STRING \ Numbers)
    /\ \A t, v \in Templates :
          SubSeq(t, 1, IF Len(t) < Width THEN Len(t) ELSE Width)
             = SubSeq(v, 1, IF Len(v) < Width THEN Len(v) ELSE Width) => t = v

VARIABLES
    dead,      \* the service whose death is being reported, or nobody
    cause,     \* of that death
    pending,   \* the reports of it not yet made
    deaths,    \* number of deaths so far
    incidents, \* keys of the rows of incidents
    reported,  \* history: what was told, with the incidents that made
    made       \* history: keys of the incidents made of the death

vars == <<dead, cause, pending, deaths, incidents, reported, made>>

None == -1
NoExit == [code |-> "none", status |-> None]

Causes ==
    [how : {"exited"}, status : Codes]
    \cup [how : {"killed", "dumped"}, status : Signals]
    \cup [how : {"oom"}, status : {9} \cap Signals]
    \cup [how : {"timeout"}, status : {0}]

----------------------------------------------------------------------------
(* What is said, of a death or otherwise. *)

Hole == "#"
Fill(t, n) == [i \in DOMAIN t |-> IF t[i] = Hole THEN n ELSE t[i]]

Plain(u, prio) ==
    [ident |-> "app", own |-> u, about |-> Nobody, priority |-> prio,
     text |-> <<>>, oom |-> FALSE, segfault |-> FALSE, exit |-> NoExit,
     result |-> "none", entered |-> FALSE]

\* The messages of systemd, and those of the monitor, begin with the name of
\* the unit.
BySystemd(u, prio) ==
    [Plain("init.scope", prio) EXCEPT !.ident = "systemd", !.about = u,
                                      !.oom = u \in OomNamed]

ErrorText(u, prio, t, n) == [Plain(u, prio) EXCEPT !.text = Fill(t, n)]

\* _recovery_marker: a notice, without a kind.
RecoveryMarker(u) == [Plain(u, 5) EXCEPT !.text = <<"recovered">>,
                                         !.oom = u \in OomNamed]

\* "Main process exited, code=killed, status=9/KILL"
ExitMessage(u, c) ==
    [BySystemd(u, 5) EXCEPT
        !.exit = [code |-> IF c.how = "oom" THEN "killed" ELSE c.how,
                  status |-> c.status]]

\* Of a unit that failed otherwise, and of a process, by the kernel.
EnteredFailed(u) == [BySystemd(u, 5) EXCEPT !.entered = TRUE]
KernelOom == [Plain(Nobody, 3) EXCEPT !.ident = "kernel", !.oom = TRUE]
KernelSegfault ==
    [Plain(Nobody, 6) EXCEPT !.ident = "kernel", !.segfault = TRUE]

ResultOf(c) ==
    CASE c.how = "oom" -> "oom-kill"
      [] c.how = "killed" -> "signal"
      [] c.how = "dumped" -> "core-dump"
      [] c.how = "timeout" -> "timeout"
      [] OTHER -> IF c.status = 0 THEN "success" ELSE "exit-code"

\* "Failed with result 'signal'."
ResultMessage(u, c) == [BySystemd(u, 4) EXCEPT !.result = ResultOf(c)]

\* Result, ExecMainCode and ExecMainStatus of systemctl show.
Shown(c) ==
    [result |-> ResultOf(c),
     code |-> CASE c.how = "exited" -> 1
                [] c.how = "dumped" -> 3
                [] c.how = "timeout" -> 0
                [] OTHER -> 2,
     status |-> c.status]

----------------------------------------------------------------------------
(* What the program makes of it. *)

\* Wrong variant of PickUnit: who logs, the manager for what systemd says.
PickOwn(m) == m.own

\* _pick_unit: a message of systemd is about UNIT.
PickUnit(m) ==
    IF m.ident = "systemd" /\ m.about # Nobody THEN m.about ELSE m.own

Verdict(kind, code, signal) ==
    [kind |-> kind, exit_code |-> code, signal |-> signal]

\* A death of the main process; a clean exit is no problem at any priority.
DetectExit(x) ==
    IF x.code = "exited" /\ x.status = 0 THEN Verdict("none", 0, None)
    ELSE IF x.code = "exited" THEN Verdict("crash", x.status, None)
    ELSE Verdict("crash", None, x.status)

\* _detect: the first pattern that is found.
Detect(m) ==
    CASE m.oom -> Verdict("oom", None, None)
      [] ~m.oom /\ m.segfault -> Verdict("crash", None, 11)
      [] ~m.oom /\ ~m.segfault /\ m.exit # NoExit -> DetectExit(m.exit)
      [] ~m.oom /\ ~m.segfault /\ m.exit = NoExit /\ m.result # "none" ->
            Verdict(IF m.result = "oom-kill" THEN "oom" ELSE "crash",
                    None, None)
      [] OTHER ->
            Verdict(IF m.entered THEN "failed"
                    ELSE IF m.priority <= ErrorPriority THEN "error"
                    ELSE "none", None, None)

\* Wrong variant of FailureEvent: killed and dumped processes only failed.
FailureByCodeOnly(p) ==
    IF p.result = "oom-kill" THEN Verdict("oom", None, None)
    ELSE IF p.code = 1 /\ p.status # 0 THEN Verdict("crash", p.status, None)
    ELSE Verdict("failed", None, None)

\* UnitMonitor._failure_event.
FailureEvent(p) ==
    CASE p.result = "oom-kill" -> Verdict("oom", None, None)
      [] p.result # "oom-kill" /\ p.code = 1 /\ p.status # 0 ->
            Verdict("crash", p.status, None)
      [] p.result # "oom-kill" /\ p.code \in {2, 3} /\ p.status # 0 ->
            Verdict("crash", None, p.status)
      [] OTHER -> Verdict("failed", None, None)

\* The text without its numbers, cut.
Normal(text) ==
    [i \in 1..(IF Len(text) < Width THEN Len(text) ELSE Width) |->
        IF text[i] \in Numbers THEN Hole ELSE text[i]]

\* _signature
Signature(v, text) ==
    CASE v.kind = "crash" /\ v.signal # None -> <<"crash", "signal", v.signal>>
      [] v.kind = "crash" /\ v.signal = None /\ v.exit_code # None ->
            <<"crash", "exit", v.exit_code>>
      [] v.kind \in {"error", "restart_loop"} -> <<v.kind>> \o Normal(text)
      [] OTHER -> <<v.kind>>

\* classify, then the row _upsert_incident writes for a problem.
Incident(u, v, text) ==
    IF v.kind = "none" THEN {}
    ELSE {[unit |-> u, kind |-> v.kind, signature |-> Signature(v, text)]}

Logged(m) == Incident(PickUnit(m), Detect(m), m.text)
Monitored(u, c) == Incident(u, FailureEvent(Shown(c)), <<>>)

\* _check_restart_loop: "restart loop - 5 restarts"
Looping(u, n) ==
    Incident(u, Verdict("restart_loop", None, None), <<"restart loop", n>>)

----------------------------------------------------------------------------
Init ==
    /\ dead = Nobody /\ cause \in Causes /\ pending = {}
    /\ deaths = 0 /\ incidents = {} /\ reported = {} /\ made = {}

Die(u) ==
    /\ pending = {}
    /\ deaths < MaxDeaths
    /\ deaths' = deaths + 1
    /\ dead' = u
    /\ cause' \in Causes
    /\ pending' = {"result", "monitor"}
                  \cup IF cause'.how = "timeout" THEN {} ELSE {"exit"}
    /\ made' = {}
    /\ UNCHANGED <<incidents, reported>>

Known(problem, keys) == {[problem |-> problem, keys |-> keys]}

\* What is told in a report makes incidents; what is told is {} or one problem.
Tell(keys, told) ==
    /\ incidents' = incidents \cup keys
    /\ reported' = reported \cup UNION {Known(p, keys) : p \in told}

Report(what, keys, told) ==
    /\ what \in pending
    /\ pending' = pending \ {what}
    /\ Tell(keys, told)
    /\ made' = made \cup keys
    /\ UNCHANGED <<dead, cause, deaths>>

\* A death, told by its exit code or signal: killed with or without a core dump
\* is the same.
Problem(u, c) ==
    IF c.how = "exited" THEN <<u, "exit", c.status>>
    ELSE <<u, "signal", c.status>>

\* The other two know the OOM killer; of the rest "Failed with result" gives no
\* code, and the monitor that of a process that ended.
ResultProblem(u, c) == IF c.how = "oom" THEN <<u, "oom">> ELSE <<u, "died">>

MonitorProblem(u, c) ==
    CASE c.how = "oom" -> <<u, "oom">>
      [] c.how = "timeout" -> <<u, "failed">>
      [] OTHER -> Problem(u, c)

\* A clean exit tells no problem.
ReportExit ==
    Report("exit", Logged(ExitMessage(dead, cause)),
           IF cause = [how |-> "exited", status |-> 0] THEN {}
           ELSE {Problem(dead, cause)})

ReportResult ==
    \/ /\ ResultOf(cause) = "success"
       /\ Report("result", {}, {})
    \/ /\ ResultOf(cause) # "success"
       /\ Report("result", Logged(ResultMessage(dead, cause)),
                 {ResultProblem(dead, cause)})

\* A poll finds the unit failed, which it need not.
ReportMonitor ==
    /\ ResultOf(cause) # "success"
    /\ Report("monitor", Monitored(dead, cause), {MonitorProblem(dead, cause)})

\* A report that is not made: the poll comes too late.
NotSeen == Report("monitor", {}, {})

\* Anything that is said besides.
Say(keys, told) ==
    /\ pending = {}
    /\ Tell(keys, told)
    /\ UNCHANGED <<dead, cause, pending, deaths, made>>

\* A service logs, at a priority that makes it a problem or not.
Chatter(u) ==
    \E prio \in Noise, t \in Templates, n \in Numbers :
        Say(Logged(ErrorText(u, prio, t, n)),
            IF prio <= ErrorPriority THEN {<<u, "error", t>>} ELSE {})

EnterFailed(u) == Say(Logged(EnteredFailed(u)), {<<u, "failed">>})
Loop(u) == \E n \in Numbers : Say(Looping(u, n), {<<u, "loop">>})
Recover(u) == Say(Logged(RecoveryMarker(u)), {})

\* Messages of the kernel are of no unit.
Kernel ==
    \/ Say(Logged(KernelOom), {<<Nobody, "oom">>})
    \/ Say(Logged(KernelSegfault), {<<Nobody, "signal", 11>>})

Next ==
    \/ \E u \in Units : \/ Die(u) \/ Chatter(u) \/ EnterFailed(u)
                        \/ Loop(u) \/ Recover(u)
    \/ ReportExit \/ ReportResult \/ ReportMonitor \/ NotSeen
    \/ Kernel

Spec == Init /\ [][Next]_vars

----------------------------------------------------------------------------
(* Properties. *)

Named(u) == u \in OomNamed

\* README: repeated occurrences of the same problem collapse into a single
\* incident.  Two reports make the same incident exactly if they tell the same
\* problem, whoever tells it: systemd in two texts and the monitor, or the
\* kernel, a service, the monitor with whatever numbers; and no incident comes
\* from anything else, a clean exit or a recovery.  (Not so of a service named
\* like the OOM killer, nor of recoveries with an error_priority from their own
\* on.)  What one death is told as is another matter: DeathIsAtMostTwo.
GroupsAsTold ==
    LET ours == {r \in reported : ~Named(r.problem[1])}
    IN  /\ \A r \in ours : Cardinality(r.keys) = 1
        /\ \A r, q \in ours : r.problem = q.problem <=> r.keys = q.keys
        /\ ErrorPriority < 5 =>
              {i \in incidents : ~Named(i.unit)} = UNION {r.keys : r \in ours}

\* The three reports of a death make two incidents at most, in any order and
\* whatever the name of the unit: the monitor finds what one of the lines of
\* systemd told, or there is no first line.  README: a crash loop becomes one
\* incident with a rising count.  It becomes two: the summary "Failed with
\* result" has no code, so a crash is an incident of its code or signal and a
\* second one, "crash"; a death by the OOM killer is one of signal 9 and "oom".
DeathIsAtMostTwo == Cardinality(made) <= 2
============================================================================
