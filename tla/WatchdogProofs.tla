--------------------------- MODULE WatchdogProofs ---------------------------
(***************************************************************************)
(* The watchdog spares every daemon whose rounds are short enough, for all *)
(* timeouts.  The invariant that shows it: systemd heard of the daemon at  *)
(* most Interval before this round began.  And an orderly stop ends within *)
(* two rounds, unless a second signal deadlocks the handler.               *)
(***************************************************************************)
EXTENDS Watchdog, TLAPS

\* What a round is behind: at its beginning less than Interval has passed
\* since the last READY=1 or WATCHDOG=1, and unless _last is old the notifier
\* itself counts at least as much.
Answered ==
    /\ longest >= round
    /\ unit = "active" =>
          /\ heard < round + Interval
          /\ last < Interval => heard <= last

\* A stop under way: its signal is on record, and came in this round or in
\* the one before, after which nothing but the end is left to do.
StopHeard ==
    unit = "stopping" /\ handler # "stuck" =>
        /\ stop \/ handler = "setting"
        /\ \/ age <= round
           \/ age <= longest + round /\ step \in {"loop", "exit"}

Inv == TypeOK /\ Answered /\ StopHeard

LEMMA IntervalType ==
    /\ Interval \in Nat /\ Interval >= 1 /\ Interval <= WatchdogSec
    /\ Interval < Horizon
  BY TimeoutAssumption DEF Interval

LEMMA InvInit == Init => Inv
<1> SUFFICES ASSUME Init PROVE Inv
  OBVIOUS
<1>1. 0 \in 0..Horizon
  BY TimeoutAssumption
<1>2. TypeOK
  BY <1>1 DEF Init, TypeOK
<1>3. Answered /\ StopHeard
  BY DEF Init, Answered, StopHeard
<1> QED
  BY <1>2, <1>3 DEF Inv

\* A process that ends leaves a dead unit.
LEMMA EndsInv == ASSUME Inv, Ends, enabled' \in BOOLEAN PROVE Inv'
<1>1. 0 \in 0..Horizon
  BY TimeoutAssumption
<1>2. \A a \in {age', heard', uptime', last', round', longest'} :
         a \in 0..Horizon
  BY <1>1 DEF Inv, TypeOK, Ends
<1>3. TypeOK'
  BY <1>2 DEF Inv, TypeOK, Ends
<1>4. Answered' /\ StopHeard'
  BY DEF Inv, Answered, StopHeard, Ends
<1> QED
  BY <1>3, <1>4 DEF Inv

\* Steps of the main thread that leave every clock alone.
LEMMA GoesInv ==
    ASSUME Inv, NEW from \in Steps, NEW to \in Steps \ {"init", "up"},
           Goes(from, to), from \notin {"init", "up"},
           from = "loop" /\ stop => to = "exit", from # "exit"
    PROVE  Inv'
<1>1. TypeOK'
  BY DEF Inv, TypeOK, Goes, At, systemd, Steps, Body
<1>2. Answered' /\ StopHeard'
  BY DEF Inv, Answered, StopHeard, Goes, At, systemd
<1> QED
  BY <1>1, <1>2 DEF Inv

LEMMA MainInv == Inv /\ MainStep => Inv'
<1> SUFFICES ASSUME Inv, MainStep PROVE Inv'
  OBVIOUS
<1>1. CASE Install
  <2>1. TypeOK'
    BY <1>1 DEF Install, Goes, At, Inv, TypeOK, systemd, Steps, Body
  <2>2. Answered' /\ StopHeard'
    BY <1>1 DEF Install, Goes, At, Inv, Answered, StopHeard, systemd
  <2> QED
    BY <2>1, <2>2 DEF Inv
<1>2. CASE Ready
  <2>1. TypeOK'
    BY <1>2, TimeoutAssumption, NotifiesAssumption
       DEF Ready, At, Inv, TypeOK, Steps, Body
  <2>2. Answered'
    BY <1>2, IntervalType, TimeoutAssumption
       DEF Ready, At, Inv, TypeOK, Answered
  <2>3. StopHeard'
    BY <1>2, TimeoutAssumption
       DEF Ready, At, Inv, TypeOK, Answered, StopHeard
  <2> QED
    BY <2>1, <2>2, <2>3 DEF Inv
<1>3. CASE CheckStop \/ Work \/ Raise
  BY <1>3, GoesInv DEF CheckStop, Work, Raise, Steps, Body
<1>4. CASE Ping
  <2>1. TypeOK'
    BY <1>4, TimeoutAssumption
       DEF Ping, PingStep, At, Inv, TypeOK, systemd, Steps, Body
  <2>2. Answered'
    BY <1>4, IntervalType, TimeoutAssumption
       DEF Ping, PingStep, At, Inv, TypeOK, Answered, systemd
  <2>3. StopHeard'
    BY <1>4, TimeoutAssumption
       DEF Ping, PingStep, At, Inv, TypeOK, Answered, StopHeard, systemd
  <2> QED
    BY <2>1, <2>2, <2>3 DEF Inv
<1>5. CASE Exit
  BY <1>5, EndsInv DEF Exit, Inv, TypeOK
<1>6. CASE HandlerReturns
  <2>1. TypeOK'
    BY <1>6 DEF HandlerReturns, Inv, TypeOK, systemd
  <2>2. Answered' /\ StopHeard'
    BY <1>6 DEF HandlerReturns, Inv, Answered, StopHeard, systemd
  <2> QED
    BY <2>1, <2>2 DEF Inv
<1> QED
  BY <1>1, <1>2, <1>3, <1>4, <1>5, <1>6 DEF MainStep

\* A signal, whoever sends it, ends the process or leaves an active unit
\* active or stopping.
LEMMA DeliverInv ==
    ASSUME Inv, Deliver, step # "none", enabled' \in BOOLEAN,
           age' \in {0, age}, UNCHANGED <<heard, uptime, last, round, longest>>,
           unit' = "dead" <=> step' = "none",
           unit' \in {unit, "stopping", "dead"}, unit' = unit \/ age' = 0
    PROVE  Inv'
<1>1. step' \in {step, "none"} /\ stop' \in BOOLEAN
      /\ handler' \in {"none", "setting", "stuck"}
  BY DEF Inv, TypeOK, Deliver
<1>2. step' = "none" => ~stop' /\ handler' = "none"
  BY DEF Deliver
<1>3. /\ \A a \in {age, heard, uptime, last, round, longest} : a \in 0..Horizon
      /\ 0 \in 0..Horizon
  BY TimeoutAssumption DEF Inv, TypeOK
<1>4. \A a \in {age', heard', uptime', last', round', longest'} :
         a \in 0..Horizon
  BY <1>3
<1>5. TypeOK'
  BY <1>1, <1>2, <1>4 DEF Inv, TypeOK
<1>6. Answered'
  BY DEF Inv, TypeOK, Answered
<1>7. StopHeard'
  BY <1>1, <1>3 DEF Inv, TypeOK, Answered, StopHeard, Deliver
<1> QED
  BY <1>5, <1>6, <1>7 DEF Inv

LEMMA OutsideInv == Inv /\ (Start \/ Operator \/ TimesOut) => Inv'
<1> SUFFICES ASSUME Inv, Start \/ Operator \/ TimesOut PROVE Inv'
  OBVIOUS
<1>1. CASE Start
  <2>1. TypeOK'
    BY <1>1, TimeoutAssumption DEF Start, Inv, TypeOK, Steps, Body
  <2>2. Answered' /\ StopHeard'
    BY <1>1, TimeoutAssumption DEF Start, Inv, Answered, StopHeard
  <2> QED
    BY <2>1, <2>2 DEF Inv
<1>2. CASE Signal
  BY <1>2, DeliverInv DEF Signal, Inv, TypeOK
<1>3. CASE StopUnit
  <2>1. CASE unit \in {"starting", "active"} /\ Terminate
    BY <1>3, <2>1, DeliverInv DEF StopUnit, Terminate, Inv, TypeOK
  <2>2. CASE UNCHANGED <<unit, age, heard, step, stop, handler, uptime, last,
                         round, longest>>
    BY <1>3, <2>2 DEF StopUnit, Inv, TypeOK, Answered, StopHeard
  <2> QED
    BY <1>3, <2>1, <2>2 DEF StopUnit
<1>4. CASE StartUnit
  BY <1>4 DEF StartUnit, Inv, TypeOK, Answered, StopHeard, ages
<1>5. CASE StartTimesOut
  BY <1>5, DeliverInv DEF StartTimesOut, Terminate, Inv, TypeOK
<1>6. CASE StopTimesOut \/ WatchdogKill
  BY <1>6, EndsInv DEF StopTimesOut, WatchdogKill, Inv, TypeOK
<1> QED
  BY <1>1, <1>2, <1>3, <1>4, <1>5, <1>6 DEF Operator, TimesOut

LEMMA TickInv == Inv /\ Tick => Inv'
<1> SUFFICES ASSUME Inv, Tick PROVE Inv'
  OBVIOUS
<1>1. \A a \in 0..Horizon : /\ Older(a) \in 0..Horizon
                            /\ a < Horizon => Older(a) = a + 1
                            /\ a <= Older(a) /\ Older(a) <= a + 1
  BY TimeoutAssumption DEF Older
<1>2. TypeOK'
  BY <1>1 DEF Tick, Inv, TypeOK
<1>3. longest' >= round'
  BY <1>1 DEF Tick, Inv, TypeOK
<1>4. ASSUME unit = "active"
      PROVE  heard' < round' + Interval /\ (last' < Interval => heard' <= last')
  <2>1. /\ heard < WatchdogSec /\ heard' = heard + 1
        /\ heard < round + Interval /\ (last < Interval => heard <= last)
    BY <1>1, <1>4, TimeoutAssumption DEF Tick, Due, Inv, TypeOK, Answered
  <2>2. round' = round + 1 \/ round' = Horizon
    BY <1>1 DEF Tick, Inv, TypeOK, Older
  <2>3. last' = last + 1 \/ (last' = Horizon /\ last = Horizon)
    BY <1>1 DEF Tick, Inv, TypeOK, Older
  <2> QED
    BY <2>1, <2>2, <2>3, IntervalType, TimeoutAssumption DEF Inv, TypeOK
<1>5. StopHeard'
  <2>1. SUFFICES ASSUME unit = "stopping", handler # "stuck"
                 PROVE  \/ age' <= round'
                        \/ age' <= longest' + round' /\ step \in {"loop", "exit"}
    BY DEF Tick, Inv, StopHeard
  <2>2. /\ age < StopTimeout /\ age' = age + 1 /\ longest <= longest'
        /\ \/ age <= round
           \/ age <= longest + round /\ step \in {"loop", "exit"}
    BY <1>1, <2>1, TimeoutAssumption DEF Tick, Due, Inv, TypeOK, StopHeard
  <2>3. round' = round + 1 \/ round' = Horizon
    BY <1>1 DEF Tick, Inv, TypeOK, Older
  <2> QED
    BY <1>2, <2>2, <2>3, TimeoutAssumption DEF Inv, TypeOK
<1> QED
  BY <1>2, <1>3, <1>4, <1>5 DEF Inv, Answered, Tick

LEMMA InvNext == Inv /\ [Next]_vars => Inv'
<1> SUFFICES ASSUME Inv, [Next]_vars PROVE Inv'
  OBVIOUS
<1>1. CASE UNCHANGED vars
  BY <1>1 DEF vars, systemd, Inv, TypeOK, Answered, StopHeard
<1> QED
  BY <1>1, MainInv, OutsideInv, TickInv DEF Next

\* Whatever the timeouts, and whenever the machine booted, the watchdog kills
\* no daemon that comes round within half its timeout (_Notifier.ping).
THEOREM SparesTheQuick == Spec => KilledOnlyWhenSlow
<1>1. Inv /\ WatchdogKill => longest > WatchdogSec - WatchdogSec \div 2
  BY IntervalType, TimeoutAssumption
     DEF Inv, TypeOK, Answered, WatchdogKill, Interval
<1> QED
  BY InvInit, InvNext, <1>1, PTL DEF Spec, KilledOnlyWhenSlow

\* Whatever the timeouts, SIGKILL cuts off the final flush of an orderly stop
\* only after a round of half the timeout, or when a second signal has met the
\* first one's handler (Daemon._install_signals, _main_loop).
THEOREM StopsInTwoRounds == Spec => StopKillOnlyWhenSlow
<1>1. Inv /\ StopTimesOut => handler = "stuck" \/ 2 * longest >= StopTimeout
  BY TimeoutAssumption DEF Inv, TypeOK, Answered, StopHeard, StopTimesOut
<1> QED
  BY InvInit, InvNext, <1>1, PTL DEF Spec, StopKillOnlyWhenSlow

\* The ages saturate and the variables keep their types, for all timeouts.
THEOREM TypeCorrect == Spec => []TypeOK
<1>1. Inv => TypeOK
  BY DEF Inv
<1> QED
  BY <1>1, InvInit, InvNext, PTL DEF Spec
============================================================================
