------------------------------ MODULE Watchdog ------------------------------
(***************************************************************************)
(* The life of hblogd under systemd: readiness, the rounds of the main     *)
(* loop, the watchdog they answer, and signals.  Any step may take any     *)
(* time: a poll waits for systemctl without a timeout, a transaction waits *)
(* for SQLite's lock, the size loop of prune runs as long as it has to.    *)
(* Time passes by Tick; an age is the time since something happened.       *)
(*                                                                         *)
(* systemd and its unit file (Type=notify, WatchdogSec, Restart=always)    *)
(* are external.  What the steps do is in the other modules.               *)
(***************************************************************************)
EXTENDS Naturals

CONSTANTS
    Notifies,      \* watchdog = true, and python3-systemd can be imported
    WatchdogSec,   \* of the unit, at least two ticks
    StartTimeout,  \* TimeoutStartSec of the unit
    StopTimeout,   \* TimeoutStopSec of the unit
    Horizon        \* bound: ages stop growing here, past every timeout

ASSUME NotifiesAssumption == Notifies \in BOOLEAN
ASSUME TimeoutAssumption ==
    /\ WatchdogSec \in Nat /\ WatchdogSec >= 2
    /\ StartTimeout \in Nat /\ StopTimeout \in Nat
    /\ Horizon \in Nat
    /\ Horizon > WatchdogSec /\ Horizon > StartTimeout
    /\ Horizon > StopTimeout

VARIABLES
    unit,     \* the service for systemd
    enabled,  \* systemd restarts it
    age,      \* how long the unit is in its state
    heard,    \* since systemd heard READY=1 or WATCHDOG=1
    step,     \* where the main thread is
    stop,     \* Daemon._stop
    handler,  \* the signal handler, which runs on the main thread
    uptime,   \* time.monotonic()
    last,     \* time.monotonic() - _Notifier._last
    round,    \* length of this round so far
    longest   \* history: length of the longest round of this process

systemd == <<unit, enabled, age>>
ages == <<age, heard, uptime, last, round>>
vars == <<systemd, heard, step, stop, handler, uptime, last, round, longest>>

Body == {"drain", "poll", "flush", "maintain"}
Steps == {"init", "up", "loop", "ping", "exit"} \cup Body

TypeOK ==
    /\ unit \in {"dead", "starting", "active", "stopping"}
    /\ enabled \in BOOLEAN /\ stop \in BOOLEAN
    /\ step \in Steps \cup {"none"}
    /\ handler \in {"none", "setting", "stuck"}
    /\ \A a \in {age, heard, uptime, last, round, longest} : a \in 0..Horizon
    /\ unit = "dead" <=> step = "none"
    /\ unit = "active" => Notifies /\ step \notin {"init", "up"}
    /\ step = "none" => ~stop /\ handler = "none"

Init ==
    /\ unit = "dead" /\ enabled = TRUE /\ age = 0 /\ heard = 0
    /\ step = "none" /\ stop = FALSE /\ handler = "none"
    /\ uptime = 0 /\ last = 0 /\ round = 0 /\ longest = 0

----------------------------------------------------------------------------
(* The daemon. *)

\* systemd starts the process.  _last is 0.0, so that the watchdog is first
\* answered for its age since the machine booted.
Start ==
    /\ unit = "dead" /\ enabled
    /\ unit' = "starting" /\ age' = 0 /\ heard' = 0
    /\ step' = "init"
    /\ last' = uptime
    /\ round' = 0 /\ longest' = 0
    /\ UNCHANGED <<enabled, stop, handler, uptime>>

\* The main thread is not in the signal handler.
At(s) == step = s /\ handler = "none"

Goes(from, to) ==
    /\ At(from)
    /\ step' = to
    /\ UNCHANGED <<systemd, heard, stop, handler, uptime, last, round,
                   longest>>

\* Wrong variant of Install: the notifier says READY=1 when it is made.
ReadyWhenMade ==
    /\ At("init")
    /\ step' = "up" /\ unit' = "active"
    /\ UNCHANGED <<enabled, ages, stop, handler, longest>>

\* The constructors, the database opened, up to _install_signals.
Install == Goes("init", "up")

\* The cursor is read, the thread started and READY=1 sent; the main loop
\* begins.
Ready ==
    /\ At("up")
    /\ step' = "loop"
    /\ round' = 0
    /\ \/ /\ Notifies /\ unit = "starting"
          /\ unit' = "active" /\ age' = 0 /\ heard' = 0
       \/ /\ ~Notifies \/ unit = "stopping"
          /\ UNCHANGED <<unit, age, heard>>
    /\ UNCHANGED <<enabled, stop, handler, uptime, last, longest>>

\* Wrong variant of CheckStop: the flag is not looked at.
NoCheckStop == Goes("loop", "drain")

\* while not self._stop.is_set()
CheckStop == Goes("loop", IF stop THEN "exit" ELSE "drain")

\* The calls of one round, and the answer to the watchdog at its end.
Work ==
    \/ Goes("drain", "poll") \/ Goes("poll", "flush")
    \/ Goes("flush", "maintain") \/ Goes("maintain", "ping")

\* An exception nobody handles, of a flush or a transaction of the poll.
Raise == \E s \in {"drain", "poll", "flush"} : Goes(s, "exit")

\* Wrong variant of Interval: answered once per timeout.
WholeInterval == WatchdogSec

\* _Notifier._interval.
Interval == WatchdogSec \div 2

\* Wrong variant of PingStep: another thread answers for the main one.
AnyStep == step \notin {"none", "init", "up"} /\ UNCHANGED <<step, round>>

\* The end of a round, and the next one begins.
PingStep ==
    /\ At("ping")
    /\ step' = "loop"
    /\ round' = 0

\* _Notifier.ping
Ping ==
    /\ PingStep
    /\ \/ /\ Notifies /\ last >= Interval
          /\ last' = 0 /\ heard' = 0
       \/ /\ ~Notifies \/ last < Interval
          /\ UNCHANGED <<last, heard>>
    /\ UNCHANGED <<systemd, stop, handler, uptime, longest>>

\* The process is gone, and with it the flag and the handler.
Ends ==
    /\ unit' = "dead" /\ age' = 0
    /\ step' = "none" /\ stop' = FALSE /\ handler' = "none"
    /\ UNCHANGED <<heard, uptime, last, round, longest>>

\* The finally clause of run: the last flush, and close.
Exit ==
    /\ At("exit")
    /\ Ends
    /\ UNCHANGED enabled

----------------------------------------------------------------------------
(* Signals.  The handler calls Event.set, which holds the lock of the Event  *)
(* while it sets the flag.  The lock is not reentrant.                       *)

\* A signal reaches the process: before run has installed the handlers it is
\* the end; a second one may find the first handler holding the lock.
Deliver ==
    \/ /\ step = "init"
       /\ step' = "none" /\ stop' = FALSE /\ handler' = "none"
    \/ /\ step # "init"
       /\ \/ handler = "none" /\ handler' = "setting"
          \/ handler # "none" /\ handler' \in {handler, "stuck"}
       /\ UNCHANGED <<step, stop>>

\* The handler has set the flag.
HandlerReturns ==
    /\ handler = "setting"
    /\ stop' = TRUE
    /\ handler' = "none"
    /\ UNCHANGED <<systemd, heard, step, uptime, last, round, longest>>

\* Someone sends SIGINT or SIGTERM.
Signal ==
    /\ step # "none"
    /\ Deliver
    /\ unit' = IF step' = "none" THEN "dead" ELSE unit
    /\ age' = IF step' = "none" THEN 0 ELSE age
    /\ UNCHANGED <<enabled, heard, uptime, last, round, longest>>

----------------------------------------------------------------------------
(* systemd. *)

\* Stopping a unit: SIGTERM, and a timeout for what follows.
Terminate ==
    /\ Deliver
    /\ unit' = IF step' = "none" THEN "dead" ELSE "stopping"
    /\ age' = 0
    /\ UNCHANGED <<heard, uptime, last, round, longest>>

\* systemctl stop and systemctl start.
StopUnit ==
    /\ enabled
    /\ enabled' = FALSE
    /\ \/ unit \in {"starting", "active"} /\ Terminate
       \/ unit \in {"dead", "stopping"}
          /\ UNCHANGED <<unit, age, heard, step, stop, handler, uptime, last,
                         round, longest>>

StartUnit ==
    /\ ~enabled
    /\ enabled' = TRUE
    /\ UNCHANGED <<unit, ages, step, stop, handler, longest>>

\* READY=1 has not come.
StartTimesOut ==
    /\ unit = "starting" /\ age >= StartTimeout
    /\ Terminate
    /\ UNCHANGED enabled

\* The daemon has not ended: SIGKILL.
StopTimesOut ==
    /\ unit = "stopping" /\ age >= StopTimeout
    /\ Ends
    /\ UNCHANGED enabled

\* WATCHDOG=1 has not come.
WatchdogKill ==
    /\ unit = "active" /\ heard >= WatchdogSec
    /\ Ends
    /\ UNCHANGED enabled

TimesOut == StartTimesOut \/ StopTimesOut \/ WatchdogKill

Due ==
    \/ unit = "starting" /\ age >= StartTimeout
    \/ unit = "stopping" /\ age >= StopTimeout
    \/ unit = "active" /\ heard >= WatchdogSec

Older(a) == IF a < Horizon THEN a + 1 ELSE Horizon

\* Time passes, up to the next timeout.
Tick ==
    /\ ~Due
    /\ age' = Older(age) /\ heard' = Older(heard) /\ uptime' = Older(uptime)
    /\ last' = Older(last) /\ round' = Older(round)
    /\ longest' = IF round' > longest THEN round' ELSE longest
    /\ UNCHANGED <<unit, enabled, step, stop, handler>>

----------------------------------------------------------------------------
MainStep ==
    \/ Install \/ Ready \/ CheckStop \/ Work \/ Raise \/ Ping \/ Exit
    \/ HandlerReturns
Operator == Signal \/ StopUnit \/ StartUnit

Next == Start \/ MainStep \/ Operator \/ TimesOut \/ Tick

Spec == Init /\ [][Next]_vars

\* Time passes and systemd does its part; of the main thread nothing is said.
FairSpec == Spec /\ WF_vars(Tick) /\ WF_vars(TimesOut)

----------------------------------------------------------------------------
(* Properties. *)

\* The watchdog kills no daemon whose rounds are all within half its timeout,
\* however rounds and the interval of the pings fall, from the first round
\* on, also right after boot when _last = 0.0 is recent.
KilledOnlyWhenSlow ==
    [][WatchdogKill => longest > WatchdogSec - WatchdogSec \div 2]_vars

\* SIGKILL ends a stop, and costs the final flush, only after a round of half
\* the timeout or when a second signal has met the handler of the first.
StopKillOnlyWhenSlow ==
    [][StopTimesOut => handler = "stuck" \/ 2 * longest >= StopTimeout]_vars

\* A main thread that hangs, wherever it does, does not stay: the watchdog is
\* answered by the loop itself, not beside it.
HangEnds ==
    \A s \in Steps : []<>(step # s)

\* A signal ends the process, be it that a second one deadlocks the handler or
\* that the main thread hangs.
SignalEnds == handler # "none" \/ stop ~> step = "none"

\* systemd gives a start up only while the daemon has not come up.  (daemon.py:
\* if the journal binding is missing it keeps running with just the unit
\* monitor; and watchdog = false is a setting.)
ComesUp == [][StartTimesOut => step \in {"init", "up"}]_vars
============================================================================
