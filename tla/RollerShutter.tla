--------------------------- MODULE RollerShutter ---------------------------
(***************************************************************************)
(* One roller shutter or facade blind (src/src/user/supla_esp_rs_fb.c):    *)
(* the relays, position and tilt estimated from running times, calibration *)
(* with given times, automatic calibration with a sensor of the motor,     *)
(* tasks ("go to 40 %, slats at 10 %"), and everybody who moves it:        *)
(* buttons, server, configuration, MQTT.                                   *)
(*                                                                         *)
(* The firmware is an event loop, so a handler is one step.  Handlers are  *)
(* functions from the record rs (supla_roller_shutter_cfg_t and the fields *)
(* of supla_esp_cfg and supla_esp_state it points to) to the next one.     *)
(*                                                                         *)
(* Time passes in ticks, the period of the timer of supla_esp_gpio_rs_     *)
(* timer_cb; times of the clock are ages, which do not wrap (MotorRelays   *)
(* has the clock).  Position and tilt are 0 when unknown and otherwise 1   *)
(* (fully open) to N + 1 (fully closed); a shutter that does not tilt has  *)
(* the tilt 0 or -1.  Running times count N to a tick, so that what takes  *)
(* T ticks from end to end takes T of these for one step.                  *)
(***************************************************************************)
EXTENDS Integers, FiniteSets

CONSTANTS
  N,              (* steps of position and tilt                            *)
  Shutters,       (* the shutters and their users: see IsShutter           *)
  StartDelay,     (* RS_START_DELAY                                        *)
  StopDelay,      (* RS_STOP_DELAY                                         *)
  MinDelay,       (* a delay up to this long is not worth a timer          *)
  Window,         (* 2 s: time for the sensor to see the motor             *)
  FilterTime,     (* RS_AUTOCAL_FILTERING_TIME_MS                          *)
  MinTime,        (* RS_AUTOCAL_MIN_TIME_MS                                *)
  MaxTime,        (* RS_AUTOCAL_MAX_TIME_MS                                *)
  MaxRun,         (* 10 min: a relay is never on for longer                *)
  NearEnd,        (* 5 %: so close to an end the motor may stand           *)
  CommPeriod,     (* 200 ms: how often the server is told                  *)
  TimeWrap        (* 2^32 us: where a time of an unsigned int wraps        *)

TiltTypes == {"none", "keep", "change", "closed"}        \* FB_TILT_TYPE_*

(* A shutter: ticks from end to end, and of the slats (0: not followed);   *)
(* what is_rs_in_move answers; SUPLA_CHANNEL_FLAG_RS_AUTO_CALIBRATION; its *)
(* <<closing, opening>> times, TimeMargins (-1: default) and ways to tilt  *)
(* with the time this takes, that may be configured; where tasks send it,  *)
(* and who uses it.                                                        *)
IsShutter(s) ==
  /\ s.travel \in Nat /\ s.slats \in Nat
  /\ s.sensor \in {"none", "ideal", "any"} /\ s.autoCal \in BOOLEAN
  /\ s.times \subseteq Nat \X Nat /\ s.margins \subseteq -1..100
  /\ s.blinds \subseteq [type : TiltTypes, time : Nat] /\ s.tasks \subseteq 0..N
  /\ s.callers \subseteq {"button", "hold", "server", "task", "recalibrate",
                          "config", "swap", "convert", "power"}

ASSUME ConstantAssumption ==
  /\ N \in Nat \ {0} /\ \A s \in Shutters : IsShutter(s)
  /\ StartDelay \in Nat /\ StopDelay \in Nat
  /\ MinDelay \in Nat \ {0} /\ MinDelay <= StartDelay
  /\ Window \in Nat /\ FilterTime \in Nat /\ MinTime \in Nat \ {0} /\ MaxTime \in Nat
  /\ MaxRun \in Nat /\ NearEnd \in 0..100 /\ CommPeriod \in Nat \ {0}
  /\ TimeWrap \in Nat \ {0}

VARIABLES
  rs,             (* the shutter as the firmware sees it                   *)
  real,           (* the real position, 0 (open) to travel (closed), and   *)
                  (* the real tilt, 0 to slats                             *)
  shutter         (* which of Shutters it is                               *)

vars == <<rs, real, shutter>>

-----------------------------------------------------------------------------
Off == 0                       \* RS_RELAY_OFF, RS_DIRECTION_NONE
Down == 1                      \* RS_RELAY_DOWN
Up == 2                        \* RS_RELAY_UP
Direction == {Down, Up}
Request == {Off, Down, Up}
Opposite(d) == IF d = Up THEN Down ELSE Up

Inactive == "inactive"         \* RS_TASK_INACTIVE
Active == "active"             \* RS_TASK_ACTIVE
Setting == "setting"           \* RS_TASK_SETTING_POSITION
SettingTilt == "tilting"       \* RS_TASK_SETTING_TILT

Disarmed == -1
Unset == -1
Keep == -1                     \* of a task: leave it as it is
Zero == <<0, 0>>
DefaultMargin == 110
Pause == StartDelay + 1 - MinDelay

Open == 1
Closed == N + 1
EndOf(d) == IF d = Up THEN Open ELSE Closed
Known(r) == r.position # 0
Tilts(r) == r.blind.type # "none" /\ r.blind.time # 0  \* is_tilt_supported
Voided(r) == [r EXCEPT !.position = 0, !.tilt = 0]
At(r, end) == [r EXCEPT !.position = end, !.tilt = IF Tilts(r) THEN end ELSE 0]
Percent(p) == (100 * p) \div N

AtMost(limit, n) == IF n > limit THEN limit ELSE n
Older(age, limit) == IF age = Unset THEN Unset ELSE AtMost(limit, age + 1)
LongestRun == N * (MaxRun + CommPeriod + 1)

AutocalEnabled(r) == r.autoCal /\ r.full = Zero
AutocalDone(r) == r.auto[Down] > 0 /\ r.auto[Up] > 0
StepDirection(step) == IF step = 2 THEN Down ELSE Up

(* Mutant of StateSaved: spares the flash, and saves the ends only.        *)
EndsSaved(r) ==
  IF r.position \in {Open, Closed}
  THEN [r EXCEPT !.flash.position = r.position, !.flash.tilt = r.tilt] ELSE r
(* supla_esp_save_state(0) and supla_esp_cfg_save write at once.           *)
StateSaved(r) == [r EXCEPT !.flash.position = r.position, !.flash.tilt = r.tilt]
CfgSaved(r) ==
  [r EXCEPT !.flash = [@ EXCEPT !.full = r.full, !.auto = r.auto, !.blind = r.blind,
                                !.addMargin = r.addMargin, !.swapped = r.swapped]]

-----------------------------------------------------------------------------
(* supla_esp_gpio_relay_hi                                                 *)
RelayHi(r, d, hi) ==
  LET on == IF hi = 1 THEN r.on \cup {d} ELSE r.on \ {d}
  IN  [r EXCEPT !.on = on,
                !.startAge = IF on = {} THEN Unset ELSE IF @ = Unset THEN 0 ELSE @,
                !.stopAge = IF on # {} THEN Unset ELSE IF @ = Unset THEN 0 ELSE @]

AbortedNever(r) == r                                     \* mutant of Aborted
(* A new request stops automatic calibration unless it is a part of it.    *)
Aborted(r) ==
  IF ~r.buttonReq /\ r.step > 0
  THEN Voided([r EXCEPT !.step = 0, !.full = Zero, !.auto = Zero])
  ELSE r

NoTask == [state |-> Inactive, position |-> 0, tilt |-> 0, direction |-> Off]
(* supla_esp_gpio_rs_cancel_task                                           *)
Cancelled(r) ==
  StateSaved([r EXCEPT !.task = NoTask])

Delayed(r, value, wait) ==
  [r EXCEPT !.trigger = [left |-> wait, value |-> value, autoCal |-> r.buttonReq],
            !.buttonReq = FALSE]

StopWait(r, stopDelay) ==
  IF stopDelay = 1 /\ r.startAge # Unset /\ r.startAge < StopDelay
  THEN StopDelay - r.startAge + 1 ELSE 0

StartAtOnce(r) == 0                                      \* mutant of StartWait
StartWait(r) ==
  IF r.startAge = Unset /\ r.stopAge # Unset /\ r.stopAge < StartDelay
  THEN StartDelay - r.stopAge + 1 ELSE 0

(* supla_esp_gpio_rs_set_relay, value = RS_RELAY_OFF                       *)
Stop(r, stopDelay) ==
  LET wait == StopWait(r, stopDelay)
  IN  IF wait > MinDelay THEN Delayed(r, Off, wait)
      ELSE [RelayHi(RelayHi(r, Up, 0), Down, 0) EXCEPT !.buttonReq = FALSE]

Lowered(r, d) == IF Opposite(d) \in r.on THEN RelayHi(r, Opposite(d), 0) ELSE r

Requested(r, d) ==
  [r EXCEPT !.lastDirection = d, !.flags = @ \ {"Failed", "Motor", "Lost"}]

(* supla_esp_gpio_rs_set_relay, value = RS_RELAY_UP or RS_RELAY_DOWN       *)
Start(r, d) ==
  LET low  == Lowered(Requested(r, d), d)
      wait == StartWait(low)
  IN  IF wait > MinDelay THEN Delayed(low, d, wait)
      ELSE IF low.addMargin = 0 /\ low.position = EndOf(d) THEN low
      ELSE [RelayHi(low, d, 1) EXCEPT !.buttonReq = FALSE]

TriggerDisarmed(r) == [r EXCEPT !.trigger.left = Disarmed]

SetRelay(r, value, cancel, stopDelay) ==
  LET s == TriggerDisarmed(IF cancel THEN Cancelled(Aborted(r)) ELSE Aborted(r))
  IN  IF value = Off THEN Stop(s, stopDelay) ELSE Start(s, value)

(* supla_esp_gpio_rs_set_relay_delayed                                     *)
Fired(r) ==
  LET t == r.trigger
  IN  SetRelay([r EXCEPT !.trigger.left = Disarmed, !.trigger.autoCal = FALSE,
                         !.buttonReq = @ \/ t.autoCal], t.value, FALSE, 0)

-----------------------------------------------------------------------------
(* supla_esp_gpio_rs_calibrate: with known times, a run of 110 % reaches   *)
(* the end.                                                                *)
FarBeyond(ran, full) == ran > 3 * full * N               \* mutant of Beyond
Beyond(ran, full) == ran * 10 >= full * N * 11
Calibrated(r, d, full) ==
  IF Known(r) \/ full = 0 THEN r
  ELSE LET s == [r EXCEPT !.flags = @ \cup {"InProgress"}]
       IN  IF ~Beyond(r.ran[d], full) THEN Voided(s)
           ELSE StateSaved(At(s, EndOf(d)))

(* supla_esp_gpio_rs_check_motor                                           *)
Anywhere(r, d) == TRUE                                   \* mutant of FarFromEnd
FarFromEnd(r, d) ==
  IF d = Up THEN Percent(r.position - 1) > NearEnd
  ELSE r.position = 0 \/ Percent(r.position - 1) < 100 - NearEnd
MotorChecked(r, d, inMove) ==
  IF /\ r.ran[d] > 0 /\ r.startAge >= FilterTime
     /\ AutocalDone(r) /\ ~inMove /\ FarFromEnd(r, d)
  THEN [r EXCEPT !.flags = @ \cup {"Motor"}] ELSE r

LostChecked(r, inMove) ==
  IF AutocalDone(r) /\ inMove THEN [r EXCEPT !.flags = @ \cup {"Lost"}] ELSE r

(* supla_esp_gpio_rs_move_position: the slats turn before the shutter      *)
(* moves ("keep"), while it moves ("change"), or only when it is closed.   *)
(* What is left of the full time without the slats is an unsigned int.     *)
Ahead(p, d) == IF d = Up THEN p - Open ELSE Closed - p
Toward(p, d, steps) == IF d = Up THEN p - steps ELSE p + steps
OneAtATime(r) == r.blind.type \in {"keep", "closed"}
TravelTime(r, full) ==
  IF OneAtATime(r) THEN (full - r.blind.time) % TimeWrap ELSE full
SlatsFixed(r) == r.blind.type = "closed" /\ r.position # Closed
SlatSteps(r, d) ==
  IF r.blind.time = 0 \/ SlatsFixed(r) THEN 0
  ELSE AtMost(Ahead(r.tilt, d), r.ran[d] \div r.blind.time)
MovedBeyond(r, d, full) == r.ran[d] \div TravelTime(r, full) \* mutant of MoveSteps
MoveSteps(r, d, full) ==
  IF TravelTime(r, full) = 0 \/ (SlatSteps(r, d) > 0 /\ OneAtATime(r)) THEN 0
  ELSE AtMost(Ahead(r.position, d), r.ran[d] \div TravelTime(r, full))
(* What slats and shutter do at the same time is taken off once.           *)
Spent(r, d, full) ==
  LET turned == SlatSteps(r, d) * r.blind.time
  IN  IF Ahead(r.position, d) = 0 \/ (turned > 0 /\ OneAtATime(r))
      THEN turned ELSE MoveSteps(r, d, full) * TravelTime(r, full)
Moved(r, d, full) ==
  [r EXCEPT !.tilt = Toward(IF SlatsFixed(r) THEN Open ELSE @, d, SlatSteps(r, d)),
            !.position = Toward(@, d, MoveSteps(r, d, full)),
            !.ran[d] = @ - Spent(r, d, full)]

TiltGuessed(r) ==
  IF Tilts(r) /\ r.tilt \notin Open..Closed THEN [r EXCEPT !.tilt = Open] ELSE r
AtEnd(r, d) == r.position = EndOf(d) /\ r.tilt \in {0, Unset, EndOf(d)}
PositionMoved(r, d, full, inMove) ==
  IF ~Known(r) \/ full = 0 THEN r
  ELSE LET g == TiltGuessed(r)
           m == Moved(g, d, full)
           s == IF m.position # g.position \/ m.tilt # g.tilt THEN StateSaved(m) ELSE m
       IN  IF AtEnd(s, d) /\ s.ran[d] * 100 >= full * N * s.margin
           THEN SetRelay(LostChecked(s, inMove), Off, FALSE, 0)
           ELSE s

(* supla_esp_gpio_rs_calibration_failed                                    *)
CalibrationFailed(r) ==
  SetRelay(Voided([r EXCEPT !.step = 0, !.auto = Zero,
                            !.flags = (@ \cup {"Failed"}) \ {"InProgress"}]), Off, TRUE, 0)

(* supla_esp_gpio_rs_autocalibrate: up to the end, down and measure, up    *)
(* and measure.  The motor stands when it has reached the end.             *)
Ready(r) == [r EXCEPT !.buttonReq = TRUE]
Calibration(r) == [r EXCEPT !.flags = @ \cup {"InProgress"}]
EndReached(r) ==
  LET d    == StepDirection(r.step)
      took == r.ran[d] \div N
  IN  IF r.step = 1 THEN SetRelay(Ready([r EXCEPT !.step = 2]), Down, FALSE, 0)
      ELSE IF took < MinTime THEN CalibrationFailed(r)
      ELSE IF r.step = 2
      THEN SetRelay(Ready([r EXCEPT !.step = 3, !.auto[Down] = took]), Up, FALSE, 0)
      ELSE SetRelay(Ready(CfgSaved(StateSaved(At(
             [r EXCEPT !.step = 0, !.auto[Up] = took, !.flags = @ \ {"InProgress"}],
             Open)))), Off, FALSE, 0)
Autocalibrated(r, inMove) ==
  CASE r.step = 0 -> [r EXCEPT !.flags = @ \ {"InProgress"}]
    [] r.step > 0 /\ \A d \in Direction : r.ran[d] < N * FilterTime -> Calibration(r)
    [] OTHER ->
         IF ~inMove THEN EndReached(Calibration(r))
         ELSE IF r.ran[StepDirection(r.step)] > N * MaxTime
              THEN CalibrationFailed(Calibration(r)) ELSE Calibration(r)

(* supla_esp_gpio_rs_start_autoCal                                         *)
AutocalStarted(r) ==
  SetRelay(Ready([r EXCEPT !.perform = FALSE, !.step = 1]), Up, FALSE, 0)

-----------------------------------------------------------------------------
(* supla_esp_gpio_rs_task_processing: first the position, then the tilt.   *)
RawPosition(r) == r.position - 1
RawTilt(r) == IF r.tilt \in Open..Closed THEN r.tilt - 1 ELSE 0

(* A blind that moves while it tilts goes where tilting will take it from. *)
(* Positions are multiplied by the full time, and tilts by that of tilting.*)
Tilting(r) ==
  r.blind.type = "change" /\ r.task.tilt # Keep
    /\ (r.task.state = Setting \/ r.task.position # Keep)
Scale(r, full, d) == IF Tilting(r) THEN full[d] ELSE 1
Beside(r, full, d) == (RawPosition(r) - r.task.position) * Scale(r, full, d)
TaskStarted(r, full) ==
  LET s     == [r EXCEPT !.task.state = Setting]
      turn  == IF Tilting(r) THEN r.task.tilt - RawTilt(r) ELSE 0
      past  == Beside(r, full, IF turn > 0 THEN Down ELSE Up) + turn * r.blind.time
      go(d) == SetRelay([s EXCEPT !.task.direction = d], d, FALSE, 0)
  IN  CASE r.task.position # Keep /\ past > 0 -> go(Up)
        [] r.task.position # Keep /\ past < 0 -> go(Down)
        [] OTHER -> s

TaskDone(r) ==
  SetRelay([r EXCEPT !.task.state = Inactive, !.task.direction = Off], Off, FALSE, 0)
TiltStarted(r) ==
  LET s == [r EXCEPT !.task.state = SettingTilt]
      go(d) == SetRelay([s EXCEPT !.task.direction = d], d, FALSE, 0)
  IN  CASE r.task.tilt # Keep /\ RawTilt(r) > r.task.tilt -> go(Up)
        [] r.task.tilt # Keep /\ RawTilt(r) < r.task.tilt -> go(Down)
        [] OTHER -> TaskDone(s)

(* The end positions are passed by a margin before the motor stops.        *)
TaskMargin(r, inMove) ==
  IF r.margin >= DefaultMargin THEN 5
  ELSE IF inMove /\ r.margin < 50 THEN 50 ELSE r.margin
FreeOfTilt(r) == r.blind.type \in {"none", "change"}
RunsOn(r, full, inMove) ==
  \E d \in Direction :
    /\ r.position = EndOf(d) /\ (d = Down => FreeOfTilt(r) \/ RawTilt(r) = N)
    /\ full[d] > 0 /\ r.ran[d] * 100 < TaskMargin(r, inMove) * full[d] * N
NoneAhead(r, d, full) == 0                               \* mutant of AheadOfTilt
AheadOfTilt(r, d, full) ==
  CASE ~Tilting(r) -> 0
    [] Tilting(r) /\ d = Up ->
         AtMost(r.task.position * full[Down], r.task.tilt * r.blind.time)
    [] Tilting(r) /\ d = Down ->
         AtMost((N - r.task.position) * full[Up], (N - r.task.tilt) * r.blind.time)
Passed(r, full) ==                                       \* mutant of Reached
  \/ r.task.direction = Up /\ RawPosition(r) < r.task.position
  \/ r.task.direction = Down /\ RawPosition(r) > r.task.position
Reached(r, full) ==
  \/ r.task.direction = Up /\ Beside(r, full, Down) <= -AheadOfTilt(r, Up, full)
  \/ r.task.direction = Down /\ Beside(r, full, Up) >= AheadOfTilt(r, Down, full)
PositionSet(r, inMove) ==
  LET whole == \/ r.task.position = 0
               \/ r.task.position = N /\ (FreeOfTilt(r) \/ r.task.tilt = N)
      s == [IF whole THEN LostChecked(r, inMove) ELSE r EXCEPT !.task.direction = Off]
  IN  IF Tilts(r) THEN s ELSE SetRelay(s, Off, FALSE, 0)
TiltReached(r) ==
  \/ r.task.direction = Up /\ RawTilt(r) <= r.task.tilt
  \/ r.task.direction = Down /\ RawTilt(r) >= r.task.tilt

NothingLeft(r) == r.step > 0                             \* mutant of NothingToDo
NothingToDo(r) == r.task.state = Inactive \/ r.step > 0

TaskProcessed(r, full, inMove) ==
  LET a == IF r.task.state = Active THEN TaskStarted(r, full) ELSE r
      b == IF a.task.state = Setting /\ a.task.direction = Off THEN TiltStarted(a) ELSE a
      c == IF b.task.state = Setting /\ Reached(b, full) /\ ~RunsOn(b, full, inMove)
           THEN PositionSet(b, inMove) ELSE b
      nearer == IF Percent(r.task.position) < 50 THEN Up ELSE Down
  IN  IF NothingToDo(r) THEN r
      ELSE CASE r.perform -> AutocalStarted(r)
             [] ~r.perform /\ ~Known(r) ->
                  IF r.on = {} /\ full[Up] > 0 /\ full[Down] > 0
                  THEN SetRelay(r, nearer, FALSE, 0) ELSE r
             [] ~r.perform /\ Known(r) ->
                  IF c.task.state = SettingTilt /\ TiltReached(c) THEN TaskDone(c) ELSE c

-----------------------------------------------------------------------------
(* supla_esp_gpio_rs_timer_cb.  First, positions of other times are void.  *)
TimesSelected(r) ==
  IF AutocalEnabled(r)
  THEN IF r.auto = Zero THEN Voided(r) ELSE r
  ELSE IF r.auto # Zero \/ r.step # 0
       THEN Voided([r EXCEPT !.auto = Zero, !.step = 0]) ELSE r

(* Until the sensor has seen the motor the time does not count.            *)
PowerDetected(r, inMove) ==
  IF r.on = {} THEN [r EXCEPT !.detected = FALSE]
  ELSE IF AutocalEnabled(r) THEN [r EXCEPT !.detected = @ \/ inMove] ELSE r
Counted(r) ==
  IF AutocalEnabled(r) /\ ~r.detected /\ r.startAge < Window THEN 0 ELSE N

(* A time that was just measured replaces the one read at the beginning.   *)
InForce(r, full) == [d \in Direction |-> IF r.auto[d] > 0 THEN r.auto[d] ELSE full[d]]

Running(r, d, full, inMove) ==
  LET a == [r EXCEPT !.ran[d] = AtMost(LongestRun, @ + Counted(r)), !.ran[Opposite(d)] = 0]
      b == MotorChecked(a, d, inMove)
      c == Autocalibrated(b, inMove)
      f == InForce(c, full)[d]
  IN  PositionMoved(Calibrated(c, d, f), d, f, inMove)

Standing(r) ==
  [r EXCEPT !.ran = Zero,
            !.flags = IF r.step = 0 THEN @ \ {"InProgress"} ELSE @]

(* check_if_autocal_is_needed                                              *)
AutocalChecked(r) ==
  IF AutocalEnabled(r) /\ ~AutocalDone(r) /\ r.step = 0
  THEN [r EXCEPT !.perform = TRUE] ELSE r

RanTooLong(r) == \E d \in Direction : r.ran[d] > N * MaxRun

CurrentTilt(r) == IF Tilts(r) THEN RawTilt(r) ELSE Unset \* get_current_tilt
(* The server is told when one of these has changed.                       *)
ValueOf(r) == [position |-> r.position, tilt |-> r.tilt, flags |-> r.flags]
SentMoving(r) ==                                         \* mutant of Sent
  IF r.on = {} THEN r ELSE [r EXCEPT !.sent = ValueOf(r)]
Sent(r) == [r EXCEPT !.sent = ValueOf(r)]
Reported(r) ==
  IF r.comm < CommPeriod - 1 THEN [r EXCEPT !.comm = @ + 1]
  ELSE LET s == Sent([r EXCEPT !.comm = 0])
       IN  IF RanTooLong(r) THEN SetRelay(s, Off, FALSE, 0) ELSE s

TimerCb(r, inMove) ==
  LET s    == TimesSelected(r)
      full == IF AutocalEnabled(r) THEN s.auto ELSE s.full
      p    == PowerDetected(s, inMove)
      m    == CASE Up \in p.on -> Running(p, Up, full, inMove)
                [] p.on = {Down} -> Running(p, Down, full, inMove)
                [] OTHER -> Standing(p)
  IN  Reported(TaskProcessed(AutocalChecked(m), InForce(m, full), inMove))

-----------------------------------------------------------------------------
(* supla_esp_gpio_rs_apply_new__times                                      *)
TimesReset(r, t) ==
  IF ~r.autoCal THEN t # r.full
  ELSE IF t # Zero THEN AutocalEnabled(r) \/ t # r.full ELSE ~AutocalEnabled(r)
(* Mutant of Retimed: the position is still believed.                      *)
RetimedKnown(r, t) == [r EXCEPT !.full = t, !.auto = Zero]
Retimed(r, t) == Voided([r EXCEPT !.full = t, !.auto = Zero])

TimesApplied(r, t) ==
  LET s == IF TimesReset(r, t) THEN Retimed(r, t) ELSE r
  IN  CfgSaved(StateSaved([s EXCEPT !.perform = @ /\ s.full = Zero]))

(* supla_esp_gpio_rs_add_task: going where the shutter is asks nothing,    *)
(* and what a new task leaves as it is, is left as the running one has it. *)
AsAsked(r, p, t) ==
  /\ p \in {Keep, RawPosition(r)}
  /\ ~Tilts(r) \/ t \in {Keep, CurrentTilt(r)}
TaskAdded(r, p, t) ==
  LET runs  == r.task.state # Inactive
      tilt  == IF t = Keep /\ runs THEN r.task.tilt ELSE t
      kept  == IF p = Keep /\ r.task.state \in {Active, Setting} THEN r.task.position ELSE p
      fixed == r.blind.type = "closed"
      pos   == IF fixed /\ kept = Keep /\ tilt # Keep THEN N ELSE kept
      free  == pos = N \/ (pos = Keep /\ r.position = Closed)
  IN  IF AsAsked(r, p, t) THEN r
      ELSE StateSaved([r EXCEPT !.task =
             [state |-> Active, position |-> pos, direction |-> Off,
              tilt |-> IF fixed /\ ~free THEN 0 ELSE tilt]])

(* supla_esp_gpio_rs_apply_new_config                                      *)
MotorSwapped(r) ==
  [r EXCEPT !.on = {Opposite(d) : d \in @}, !.swapped = ~@]
MarginApplied(r, m) ==
  IF m = r.addMargin THEN r
  ELSE [r EXCEPT !.addMargin = m, !.margin = IF m >= 0 THEN m ELSE DefaultMargin]

(* supla_esp_gpio_rs_get_value                                             *)
Value(r) == IF Up \in r.on THEN Up ELSE IF Down \in r.on THEN Down ELSE Off

(* DOWN-OR-STOP and UP-OR-STOP of the server                               *)
OrStop(r, d) == IF Value(r) = Off THEN d ELSE Off
(* STEP BY STEP: against the last direction, when there was one.           *)
StepByStep(r) ==
  LET last == IF r.lastDirection # Off THEN r.lastDirection
              ELSE IF Percent(r.position - 1) > 50 THEN Down ELSE Up
  IN  SetRelay(IF Value(r) = Off THEN [r EXCEPT !.lastDirection = last] ELSE r,
               OrStop(r, Opposite(last)), TRUE, 0)

-----------------------------------------------------------------------------
(* supla_esp_gpio_init after a power cut or a restart, from the flash.     *)
Booted(f, autoCal) ==
  LET tilts == f.blind.type # "none" /\ f.blind.time # 0
  IN  [on |-> {}, startAge |-> Unset, stopAge |-> 0,
       trigger |-> [left |-> Disarmed, value |-> Off, autoCal |-> FALSE],
       ran |-> Zero, position |-> f.position, tilt |-> IF tilts THEN f.tilt ELSE Unset,
       task |-> NoTask, step |-> 0, perform |-> FALSE, buttonReq |-> FALSE,
       detected |-> FALSE, lastDirection |-> Off, flags |-> {}, full |-> f.full,
       auto |-> f.auto, autoCal |-> autoCal, blind |-> f.blind,
       addMargin |-> f.addMargin, margin |-> DefaultMargin, swapped |-> f.swapped,
       comm |-> 0, sent |-> [position |-> 0, tilt |-> 0, flags |-> {}], flash |-> f]

(* An estimate is the real thing, each on its own scale.                   *)
Agrees(p, x, travel) == travel > 0 => (p - Open) * travel = x * N
BothAgree(f, x) ==
  f.position # 0 =>
    /\ Agrees(f.position, x.position, shutter.travel)
    /\ f.tilt \in Open..Closed => Agrees(f.tilt, x.tilt, shutter.slats)

Init ==
  /\ shutter \in Shutters
  /\ \E p \in 0..Closed, y \in 0..Closed, t \in shutter.times, m \in shutter.margins,
        b \in shutter.blinds :
       LET f == [position |-> p, tilt |-> y, full |-> t, auto |-> Zero, blind |-> b,
                 addMargin |-> m, swapped |-> FALSE]
       IN  /\ p # 0 => t # Zero
           /\ (y # 0) <=> (p # 0 /\ b.time # 0)
           /\ b.type = "closed" /\ p # Closed => y <= Open
           /\ rs = Booted(f, shutter.autoCal)
           /\ real \in [position : 0..shutter.travel, tilt : 0..shutter.slats]
           /\ b.type = "closed" /\ real.position # shutter.travel => real.tilt = 0
           /\ BothAgree(f, real)

By(caller, next) ==
  caller \in shutter.callers /\ rs' = next /\ UNCHANGED <<real, shutter>>

(* A bistable button, or a monostable one at the beginning of a hold.      *)
ButtonPressed(d) == By("button", SetRelay(rs, d, TRUE, 1))

(* A bistable button is released: it stops its own movement only, and a    *)
(* facade blind at once.                                                   *)
ButtonReleased(d) ==
  /\ \/ Value(rs) = d
     \/ Value(rs) = Off /\ rs.trigger.value = d
  /\ By("button", SetRelay(rs, Off, TRUE, IF rs.blind.type = "none" THEN 1 ELSE 0))

(* A monostable button stops a shutter that moves.                         *)
ButtonClicked(d) == By("button", SetRelay(rs, OrStop(rs, d), TRUE, 1))

(* The end of a hold, which does not cancel the task.                      *)
HoldReleased == By("hold", SetRelay(rs, Off, FALSE, 0))

(* supla_esp_channel_set_value: times first, then the movement.            *)
ServerMoves(value, t) ==
  By("server", SetRelay(TimesApplied(rs, t), value, TRUE, 0))
ServerOrStop(d, t) ==
  LET r == TimesApplied(rs, t) IN By("server", SetRelay(r, OrStop(r, d), TRUE, 0))
ServerSteps(t) == By("server", StepByStep(TimesApplied(rs, t)))
(* A tilt is sent to a facade blind only.                                  *)
ServerTask(p, y, t) ==
  /\ p = Keep \/ y # Keep => rs.blind.type # "none"
  /\ By("task", TaskAdded(TimesApplied(rs, t), p, y))

(* Recalibration asked by the server, times given or not, or over MQTT.    *)
Recalibrate(t) ==
  LET void == Voided([rs EXCEPT !.step = 0, !.auto = Zero])
  IN  \/ /\ rs.blind.type = "none"
         /\ By("recalibrate", TaskAdded(TimesApplied(void, t), 0, 0))
      \/ By("recalibrate", TaskAdded(void, 0, 0))
      \/ By("recalibrate",
            TaskAdded(TimesApplied([void EXCEPT !.tilt = rs.tilt], rs.full), 0, 0))

(* A new configuration of the channel: direction, margin, way to tilt and  *)
(* times (supla_esp_gpio_rs_apply_new_config or ..._fb_apply_new_config).  *)
Configure(swap, m, t, b) ==
  /\ swap => "swap" \in shutter.callers
  /\ b # rs.blind => "convert" \in shutter.callers
  /\ LET s == IF swap THEN MotorSwapped(rs) ELSE rs
     IN  By("config", TimesApplied([MarginApplied(s, m) EXCEPT !.blind = b], t))

PowerCycle == By("power", Booted(rs.flash, rs.autoCal))

TriggerFires == rs.trigger.left = 0 /\ rs' = Fired(rs) /\ UNCHANGED <<real, shutter>>

(* A tick: the motor turns, timers come closer, and timer_cb runs.  The    *)
(* blind is built as its configuration says.                               *)
Driven(d, x, end) ==
  IF d = Up THEN (IF x > 0 THEN x - 1 ELSE 0) ELSE (IF x < end THEN x + 1 ELSE end)
DrivenTo(d, x) ==
  LET position == [x EXCEPT !.position = Driven(d, @, shutter.travel)]
      tilt     == [x EXCEPT !.tilt = Driven(d, @, shutter.slats)]
      slats    == /\ tilt # x /\ rs.blind.type # "none"
                  /\ rs.blind.type = "closed" => x.position = shutter.travel
  IN  CASE slats /\ rs.blind.type = "change" -> [position EXCEPT !.tilt = tilt.tilt]
        [] slats /\ rs.blind.type # "change" -> tilt
        [] OTHER -> position
Turned ==
  CASE Up \in rs.on -> DrivenTo(Up, real)
    [] rs.on = {Down} -> DrivenTo(Down, real)
    [] OTHER -> real
(* An ideal sensor sees a motor that has not reached the end, and every    *)
(* run for one tick at least.                                              *)
Seen ==
  /\ Turned # real
  /\ Turned.position \in {0, shutter.travel} => rs.startAge = 0
InMove ==
  CASE shutter.sensor = "any" -> BOOLEAN
    [] shutter.sensor = "none" -> {FALSE}
    [] shutter.sensor = "ideal" -> {Seen}
Aged(r) ==
  [r EXCEPT !.startAge = Older(@, Window + StopDelay + FilterTime),
            !.stopAge = Older(@, StartDelay),
            !.trigger.left = IF @ > 0 THEN @ - 1 ELSE @]
Tick ==
  /\ \E inMove \in InMove : rs' = TimerCb(Aged(rs), inMove)
  /\ real' = Turned /\ UNCHANGED shutter

Ask ==
  \/ \E d \in Direction : ButtonPressed(d) \/ ButtonReleased(d) \/ ButtonClicked(d)
  \/ HoldReleased
  \/ \E t \in shutter.times :
       \/ \E value \in Request : ServerMoves(value, t)
       \/ \E d \in Direction : ServerOrStop(d, t)
       \/ ServerSteps(t)
       \/ \E p, y \in shutter.tasks \cup {Keep} : ServerTask(p, y, t)
       \/ Recalibrate(t)
       \/ \E swap \in BOOLEAN, m \in shutter.margins, b \in shutter.blinds :
            Configure(swap, m, t, b)
  \/ PowerCycle

Next == Ask \/ TriggerFires \/ Tick

Spec == Init /\ [][Next]_vars

-----------------------------------------------------------------------------
(* Every field has its type.                                               *)
Flags == {"InProgress", "Failed", "Motor", "Lost"}
Timing == [Direction -> Nat]
Blind == [type : TiltTypes, time : Nat]
Trigger == [left : Nat \cup {Disarmed}, value : Request, autoCal : BOOLEAN]
Task ==
  [state : {Inactive, Active, Setting, SettingTilt}, position : Keep..N, tilt : Keep..N,
   direction : Request]
Told == [position : 0..Closed, tilt : Unset..Closed, flags : SUBSET Flags]
Flash ==
  [position : 0..Closed, tilt : Unset..Closed, full : Timing, auto : Timing, blind : Blind,
   addMargin : -1..100, swapped : BOOLEAN]
State ==
  [on : SUBSET Direction, startAge : Nat \cup {Unset}, stopAge : Nat \cup {Unset},
   trigger : Trigger, ran : Timing, position : 0..Closed, tilt : Unset..Closed,
   task : Task, step : 0..3, perform : BOOLEAN, buttonReq : BOOLEAN, detected : BOOLEAN,
   lastDirection : Request, flags : SUBSET Flags, full : Timing, auto : Timing,
   autoCal : BOOLEAN, blind : Blind, addMargin : -1..100,
   margin : -1..100 \cup {DefaultMargin}, swapped : BOOLEAN, comm : 0..(CommPeriod - 1),
   sent : Told, flash : Flash]
TypeOK ==
  /\ rs \in State
  /\ shutter \in Shutters
  /\ real \in [position : 0..shutter.travel, tilt : 0..shutter.slats]

(* Automatic calibration never hangs between its steps: the motor runs in  *)
(* the direction of the step or a start of its own is pending.             *)
AutocalDrives ==
  LET d == StepDirection(rs.step)
  IN  rs.step > 0 => \/ rs.on = {d}
                     \/ rs.trigger.left # Disarmed /\ rs.trigger.autoCal /\ rs.trigger.value = d

(* The estimated position and tilt are the real ones, as long as the times *)
(* are: after stops, reversals, aborted calibrations, changes of the       *)
(* configuration and power cuts.                                           *)
PositionAgrees == BothAgree(rs, real)

(* Automatic calibration measures the real travel time.                    *)
MeasuredAgrees == AutocalDone(rs) => \A d \in Direction : rs.auto[d] = shutter.travel

(* A task that ends by itself has done what it was asked, if the times     *)
(* stay.  A blind runs on for another tick between position and tilt, and  *)
(* one that moves while it tilts may lack the room for both at its ends.   *)
Near(x, y, steps) == x - y \in -steps..steps
Room(asked) ==
  rs.blind.type = "change" /\ asked.tilt # Keep =>
    /\ asked.position * rs.full[Down] >= asked.tilt * rs.blind.time
    /\ (N - asked.position) * rs.full[Up] >= (N - asked.tilt) * rs.blind.time
TaskReaches ==
  [][LET slack == IF Tilts(rs) THEN 1 ELSE 0
         asked == rs.task
     IN  /\ asked.state # Inactive /\ rs'.task.state = Inactive
         /\ Known(rs') /\ shutter.times = {rs.full} /\ Tick
         => /\ asked.position # Keep /\ Room(asked) =>
                 Near(RawPosition(rs'), asked.position, slack)
            /\ Tilts(rs) /\ asked.tilt # Keep => Near(RawTilt(rs'), asked.tilt, slack)]_vars

(* "This time margin starts counting time when RS reach either 0 or 100%": *)
(* the motor of a roller shutter that stands at its end does not run on    *)
(* for longer.                                                             *)
EndStops ==
  rs.blind.type = "none" =>
    \A d \in rs.on : rs.position = EndOf(d) => rs.ran[d] * 100 < N * rs.full[d] * rs.margin

(* A sound motor raises no alarm.                                          *)
NoFalseAlarm == rs.flags \cap {"Failed", "Motor", "Lost"} = {}

(* The configuration does not change to given times and back to automatic  *)
(* calibration between two ticks, 10 ms apart.                             *)
OneRetimingPerTick ==
  ~(rs.step > 0 /\ ~AutocalEnabled(rs) /\ rs'.step > 0 /\ AutocalEnabled(rs'))

(* A position never outlives the times it was measured with.               *)
TimesVoidPosition ==
  [][rs'.full # rs.full \/ rs'.auto # rs.auto =>
       ~Known(rs') \/ (rs.step = 3 /\ rs'.position = Open) \/ PowerCycle]_vars

(* A shutter with no task, no calibration and no pending start does not    *)
(* move by itself.                                                         *)
Quiet(r) ==
  /\ r.task.state = Inactive /\ r.step = 0
  /\ r.trigger.left # Disarmed => r.trigger.value = Off
QuietStays ==
  [][Quiet(rs) /\ (Tick \/ TriggerFires) => Quiet(rs') /\ rs'.on \subseteq rs.on]_vars

(* The handlers implement Motor: the wiring does not move when the         *)
(* direction is swapped, and a tick may pass within the step of a start.   *)
M == INSTANCE Motor WITH
       Contacts <- Direction, MaxStep <- 1,
       closed <- IF rs.swapped THEN {Opposite(d) : d \in rs.on} ELSE rs.on,
       rest <- IF rs.stopAge = Unset THEN 0 ELSE AtMost(Pause, rs.stopAge)
MotorSafe == M!Spec

(* With nothing more asked, the motor comes to rest.                       *)
MotorStops == <>[](rs.on = {})

(* Every task ends.                                                        *)
TaskEnds == <>[](rs.task.state = Inactive)

(* Automatic calibration ends, with success or failure.                    *)
AutocalEnds == rs.step > 0 ~> rs.step = 0

(* "5. Execute last stored task": a task that automatic calibration put    *)
(* off is done in the end.                                                 *)
StoredTaskDone == rs.step > 0 /\ rs.task.state # Inactive ~> rs.task.state = Inactive

(* The server learns the position and the flags the shutter ends with.     *)
ServerLearns == <>[](rs.sent = ValueOf(rs))
=============================================================================
