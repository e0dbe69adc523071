------------------------------- MODULE TimedRelay -------------------------------
(* Relays that are switched for a time: the countdown timers of                *)
(* supla_esp_countdown_timer.c, and supla_esp_gpio.c and supla_esp_devconn.c   *)
(* where they switch relays, start and stop countdowns, configure staircase    *)
(* lights and restore everything after a restart.                              *)
EXTENDS Integers, FiniteSets

CONSTANTS
  Channels,     \* channels of the device, one relay each
  Restored,     \* those whose relay has RELAY_FLAG_RESTORE
  Counting,     \* those with SUPLA_CHANNEL_FLAG_COUNTDOWN_TIMER_SUPPORTED
  Configured,   \* those the server reconfigures while the device runs
  ResetButton,  \* is StaircaseButtonType STAIRCASE_BTN_TYPE_RESET?
  SlotCount,    \* RELAY_MAX_COUNT
  Durations,    \* times the server asks for
  Lights,       \* times of staircase lights
  MinPeriod, MaxPeriod,  \* 50 and 1000 ms between two looks at the countdowns
  Part,         \* 10: the part of the time left after which to look again
  SaveDelay     \* SAVE_STATE_DELAY

ASSUME SlotAssumption ==
  /\ IsFiniteSet(Channels)
  /\ SlotCount \in Nat
  /\ Cardinality(Channels) <= SlotCount

ASSUME TimeAssumption ==
  /\ Durations \subseteq Nat \ {0} /\ Lights \subseteq Nat \ {0}
  /\ MinPeriod \in Nat \ {0} /\ MaxPeriod \in Nat /\ MinPeriod <= MaxPeriod
  /\ Part \in Nat \ {0}
  /\ SaveDelay \in Nat \ {0}

ASSUME ChannelAssumption ==
  /\ Restored \subseteq Channels /\ Counting \subseteq Channels
  /\ Configured \subseteq Channels
  /\ ResetButton \in BOOLEAN

VARIABLES
  relay,      \* Channels -> {0, 1}: the relays
  countdown,  \* Channels -> the slot of the channel, left = 0 if it has none
  timer,      \* the timer of the countdowns: its period, 0 if disarmed, and due
  Time2,      \* supla_esp_cfg.Time2: the time of a staircase light, or 0
  Time2Left,  \* supla_esp_state.Time2Left
  flash,      \* what the state sector holds
  save,       \* the delayed save: 0 if none is pending, 1 if it is due
  quiet       \* history: time since the last request, up to MaxPeriod + 1

vars == <<relay, countdown, timer, Time2, Time2Left, flash, save, quiet>>

Free == [left |-> 0, since |-> 0, target |-> 0]

--------------------------------------------------------------------------------
(* Countdown timers.                                                           *)

Runs(c, ch) == c[ch].left > 0

PeriodFor(left) ==
  IF left \div Part < MinPeriod THEN MinPeriod
  ELSE IF left \div Part > MaxPeriod THEN MaxPeriod ELSE left \div Part

(* The shortest of the periods of the countdowns that run, 0 without one.      *)
PeriodOf(c) ==
  LET periods == {PeriodFor(c[ch].left) : ch \in {x \in Channels : Runs(c, x)}}
  IN  IF periods = {} THEN 0
      ELSE CHOOSE p \in periods : \A q \in periods : p <= q

StartStopLazy(c, t) ==                                 \* mutant of StartStop
  IF t.period > 0 /\ PeriodOf(c) > 0 THEN t
  ELSE [period |-> PeriodOf(c), due |-> PeriodOf(c)]

(* supla_esp_countdown_timer_startstop: the timer is armed anew only if its    *)
(* period changes.                                                             *)
StartStop(c, t) ==
  IF PeriodOf(c) = t.period THEN t
                            ELSE [period |-> PeriodOf(c), due |-> PeriodOf(c)]

DisarmLeavesTarget(c, ch) == [c EXCEPT ![ch].left = 0]    \* mutant of Disarm

Disarm(c, ch) == [c EXCEPT ![ch] = Free]

HasSlot(c, ch) ==
  Runs(c, ch) \/ Cardinality({x \in Channels : Runs(c, x)}) < SlotCount

Start(c, ch, d, target) ==
  [c EXCEPT ![ch] = [left |-> d, since |-> 0, target |-> target]]

TimeAsked(time2, timeLeft, v, d) == d                      \* mutant of TimeFor

(* supla_esp_gpio_relay_set_duration_timer: the time of a countdown for the    *)
(* value v.  A staircase light takes its own time, except when it is restored, *)
(* which is told by d being the time left.                                     *)
TimeFor(time2, timeLeft, v, d) ==
  IF time2 = 0 THEN d
  ELSE IF v = 0 THEN 0
  ELSE IF d = 0 \/ timeLeft # d THEN time2 ELSE d

Counts(ch, v, time) == time > 0 /\ (v = 1 \/ ch \in Counting)

(* The countdown of ch is disarmed, which leaves the timer alone, and a new    *)
(* one started if there is something to count and a slot.                      *)
SetDurationTimer(ch, time2, timeLeft, v, d) ==
  LET time == TimeFor(time2, timeLeft, v, d)
      disarmed == Disarm(countdown, ch)
      starts == Counts(ch, v, time) /\ HasSlot(disarmed, ch)
  IN  /\ countdown' = IF starts THEN Start(disarmed, ch, time, 1 - v)
                                ELSE disarmed
      /\ Time2Left' = [Time2Left EXCEPT ![ch] =
           IF starts THEN time
           ELSE IF Runs(countdown, ch) \/ (time2 > 0 /\ v = 0) THEN 0
           ELSE timeLeft]
      /\ timer' = IF starts THEN StartStop(countdown', timer) ELSE timer

(* Mutant of SaveAfter: only switching on is saved.                            *)
SaveAfterOn(set) ==
  IF {ch \in set \intersect Restored : relay[ch] = 0} = {} THEN save
                                                          ELSE SaveDelay

(* supla_esp_gpio_relay_hi for the relays of the channels in set: restored     *)
(* relays are saved, one second after the last change.                         *)
SaveAfter(set) == IF set \intersect Restored = {} THEN save ELSE SaveDelay

--------------------------------------------------------------------------------
(* Handlers.                                                                   *)

(* Both handlers below end alike: the countdown is set, then the relay.        *)
Order(ch, v, timeLeft, d) ==
  /\ SetDurationTimer(ch, Time2[ch], timeLeft, v, d)
  /\ relay' = [relay EXCEPT ![ch] = v]
  /\ save' = SaveAfter({ch})
  /\ quiet' = 0
  /\ UNCHANGED <<Time2, flash>>

(* A value from the server, for a channel or for a group.                      *)
ServerSet(ch, v, d) == Order(ch, v, Time2Left[ch], d)

(* supla_esp_gpio_relay_switch: the value a button or sensor asks for, 255 to  *)
(* toggle.                                                                     *)
SwitchedTo(ch, hi) ==
  IF Time2[ch] > 0 /\ ResetButton /\ hi # 0 THEN 1
  ELSE IF hi = 255 THEN 1 - relay[ch] ELSE hi

Switch(ch, hi) == Order(ch, SwitchedTo(ch, hi), 0, 0)

(* The server turns a light into a staircase light, or back into a switch.     *)
ChannelConfig(ch, t) ==
  /\ t # Time2[ch]
  /\ Time2' = [Time2 EXCEPT ![ch] = t]
  /\ SetDurationTimer(ch, t, Time2Left[ch], 1, 0)
  /\ quiet' = 0
  /\ UNCHANGED <<relay, flash, save>>

(* supla_esp_countdown_timer_cb.                                               *)
OverEarly(ch) ==                                       \* mutant of Over
  Runs(countdown, ch) /\ countdown[ch].since + 1 >= countdown[ch].left

Over(ch) == Runs(countdown, ch) /\ countdown[ch].since >= countdown[ch].left

LeftNow(ch) ==
  IF Over(ch) THEN 0 ELSE countdown[ch].left - countdown[ch].since

CountdownTimer ==
  /\ timer.period > 0 /\ timer.due = 0
  /\ relay' = [ch \in Channels |->
                 IF Over(ch) THEN countdown[ch].target ELSE relay[ch]]
  /\ countdown' = [ch \in Channels |->
       IF LeftNow(ch) = 0 THEN Free
       ELSE [left |-> LeftNow(ch), since |-> 0,
             target |-> countdown[ch].target]]
  /\ Time2Left' = [ch \in Channels |->
       IF Runs(countdown, ch) THEN LeftNow(ch) ELSE Time2Left[ch]]
  /\ timer' = StartStop(countdown', [timer EXCEPT !.due = timer.period])
  /\ save' = SaveAfter({ch \in Channels : Over(ch)})
  /\ UNCHANGED <<Time2, flash, quiet>>

SaveTimer ==
  /\ save = 1
  /\ save' = 0
  /\ flash' = [relay |-> [ch \in Channels |->
                            IF ch \in Restored THEN relay[ch] ELSE 0],
               left |-> Time2Left]
  /\ UNCHANGED <<relay, countdown, timer, Time2, Time2Left, quiet>>

(* The power is cut and comes back: supla_esp_gpio_init restores the relays.   *)
RestoredAnew(ch) ==                                    \* mutant of RestoredTime
  IF ch \in Restored
  THEN TimeFor(Time2[ch], flash.left[ch], flash.relay[ch], 0)
  ELSE 0

RestoredTime(ch) ==
  IF ch \in Restored
  THEN TimeFor(Time2[ch], flash.left[ch], flash.relay[ch], flash.left[ch])
  ELSE 0

(* Only a relay that is on is counted down again: no relay knows the flags of  *)
(* its channel, and so whether it is Counting, before the device registers.    *)
Resumes(ch) == flash.relay[ch] = 1 /\ RestoredTime(ch) > 0

PowerCycle ==
  /\ relay' = flash.relay
  /\ countdown' = [ch \in Channels |->
       IF Resumes(ch) THEN [left |-> RestoredTime(ch), since |-> 0,
                            target |-> 0]
       ELSE Free]
  /\ Time2Left' = [ch \in Channels |->
       IF Resumes(ch) THEN RestoredTime(ch)
       ELSE IF ch \in Restored /\ Time2[ch] > 0 THEN 0 ELSE flash.left[ch]]
  /\ timer' = StartStop(countdown', [period |-> 0, due |-> 0])
  /\ save' = IF Restored = {} THEN 0 ELSE SaveDelay
  /\ quiet' = 0
  /\ UNCHANGED <<Time2, flash>>

(* Time stands still for a timer that is due.  since stops where it makes no   *)
(* difference any more, to the code and to Punctual.                           *)
TimePasses ==
  /\ timer.period = 0 \/ timer.due > 0
  /\ save # 1
  /\ countdown' = [ch \in Channels |->
       IF /\ Runs(countdown, ch)
          /\ countdown[ch].since < countdown[ch].left + MinPeriod
       THEN [countdown[ch] EXCEPT !.since = @ + 1] ELSE countdown[ch]]
  /\ timer' = IF timer.period = 0 THEN timer ELSE [timer EXCEPT !.due = @ - 1]
  /\ save' = IF save = 0 THEN 0 ELSE save - 1
  /\ quiet' = IF quiet <= MaxPeriod THEN quiet + 1 ELSE quiet
  /\ UNCHANGED <<relay, Time2, Time2Left, flash>>

Init ==
  /\ relay = [ch \in Channels |-> 0]
  /\ countdown = [ch \in Channels |-> Free]
  /\ timer = [period |-> 0, due |-> 0]
  /\ Time2 \in [Channels -> Lights \union {0}]
  /\ Time2Left = [ch \in Channels |-> 0]
  /\ flash = [relay |-> relay, left |-> Time2Left]
  /\ save = 0
  /\ quiet = 0

Next ==
  \/ \E ch \in Channels, v \in {0, 1}, d \in Durations \union {0} :
       ServerSet(ch, v, d)
  \/ \E ch \in Channels, hi \in {0, 1, 255} : Switch(ch, hi)
  \/ \E ch \in Configured, t \in Lights \union {0} : ChannelConfig(ch, t)
  \/ CountdownTimer
  \/ SaveTimer
  \/ PowerCycle
  \/ TimePasses

Spec == Init /\ [][Next]_vars

--------------------------------------------------------------------------------
(* Properties.                                                                 *)

(* A slot in use has time left, and since stays near it; a free one is empty.  *)
Slots == [left : Nat, since : Nat, target : {0, 1}]

CountdownsOK(c) ==
  /\ c \in [Channels -> Slots]
  /\ \A ch \in Channels :
       /\ c[ch].since <= c[ch].left + MinPeriod
       /\ c[ch].left = 0 => c[ch] = Free

(* The timer is armed whenever a countdown runs.                               *)
TimerOK(c, t) ==
  /\ t \in [period : {0} \union MinPeriod .. MaxPeriod, due : 0 .. MaxPeriod]
  /\ t.due <= t.period
  /\ (\E ch \in Channels : Runs(c, ch)) => t.period > 0

(* Values of the variables, with the two above: every countdown that runs is   *)
(* looked at by the timer.                                                     *)
TypeOK ==
  /\ relay \in [Channels -> {0, 1}]
  /\ CountdownsOK(countdown)
  /\ TimerOK(countdown, timer)
  /\ Time2 \in [Channels -> Lights \union {0}]
  /\ Time2Left \in [Channels -> Nat]
  /\ flash \in [relay : [Channels -> {0, 1}], left : [Channels -> Nat]]
  /\ save \in 0 .. SaveDelay
  /\ quiet \in 0 .. MaxPeriod + 1

(* A staircase light that is on is being counted down and will be switched off:*)
(* after requests, new configurations and restarts in any order.               *)
StaircaseGuarded ==
  \A ch \in Channels : Time2[ch] > 0 /\ relay[ch] = 1 =>
    Runs(countdown, ch) /\ countdown[ch].target = 0

(* Once nothing has been asked for one long period, no countdown is overdue by *)
(* a short period or more, whatever the timer was armed for before: the one    *)
(* timer is fast enough for the most urgent of its countdowns.                 *)
Punctual ==
  quiet > MaxPeriod => \A ch \in Channels : Runs(countdown, ch) =>
    countdown[ch].since < countdown[ch].left + MinPeriod

(* With no save pending a restart brings back every relay as it is.            *)
RestartKeepsRelay ==
  save = 0 => \A ch \in Restored : flash.relay[ch] = relay[ch]

(* And it resumes the countdown of every relay that is on, with no less time   *)
(* than is left of it, and starts no other: without a save pending, and apart  *)
(* from the channels that the server reconfigures, for which nothing is saved. *)
(* A countdown that would switch a relay on is not resumed, and leaves the     *)
(* state a time that belongs to none.  If the server then switches the relay   *)
(* on for good, the next restart starts to count it down: the exception.       *)
Stale(ch) == ~Runs(countdown, ch) /\ Time2Left[ch] > 0

RestartKeepsCountdown ==
  save = 0 => \A ch \in Restored \ Configured :
    /\ Runs(countdown, ch) /\ relay[ch] = 1 =>
         /\ Resumes(ch)
         /\ RestoredTime(ch) >= countdown[ch].left - countdown[ch].since
    /\ Resumes(ch) =>
         \/ Runs(countdown, ch)
         \/ ch \in Counting /\ Time2[ch] = 0 /\ Stale(ch)

(* The promise of TimedSwitch: each channel changes only as the last request   *)
(* wants it, never before its time, and no request is left without its plan.   *)
PlanOf(ch) ==
  IF Runs(countdown, ch)
  THEN [in |-> IF countdown[ch].since >= countdown[ch].left THEN 0
               ELSE countdown[ch].left - countdown[ch].since,
        to |-> countdown[ch].target, set |-> TRUE]
  ELSE [in |-> 0, to |-> 0, set |-> FALSE]

Promise == INSTANCE TimedSwitch WITH
  on <- relay,
  light <- Time2,
  Long <- MaxPeriod + 1,
  plan <- [ch \in Channels |-> PlanOf(ch)]

KeepsPlans == Promise!Spec
================================================================================
