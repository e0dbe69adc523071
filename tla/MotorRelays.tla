---------------------------- MODULE MotorRelays ----------------------------
(***************************************************************************)
(* The two relays of one roller shutter under supla_esp_gpio_rs_set_relay  *)
(* (src/src/user/supla_esp_rs_fb.c), with the 32-bit microsecond clock     *)
(* the delays are computed from kept at its width: system_get_time() wraps *)
(* around, and the fields start_time and stop_time use 0 for "not set".    *)
(*                                                                         *)
(* Who asks for a movement and where the shutter stands is left to the     *)
(* environment here; RollerShutter has the callers and the position.       *)
(* One unit of time is one millisecond of the delays.                      *)
(***************************************************************************)
EXTENDS Integers, FiniteSets

CONSTANTS
  StartDelay,   (* RS_START_DELAY: pause before a direction is energised   *)
  StopDelay,    (* RS_STOP_DELAY: shortest run when a button stops it      *)
  MinDelay,     (* a delay up to this long is not worth a timer            *)
  BusyWait,     (* os_delay_us after the opposite relay was lowered        *)
  ClockWrap     (* system_get_time() counts modulo this                    *)

ASSUME DelayAssumption ==
  /\ StartDelay \in Nat /\ StopDelay \in Nat
  /\ MinDelay \in Nat \ {0} /\ BusyWait \in Nat
  /\ BusyWait + MinDelay <= StartDelay
  /\ ClockWrap \in Nat /\ ClockWrap > BusyWait /\ ClockWrap > 1

VARIABLES
  now,          (* system_get_time()                                       *)
  motor,        (* [on, startTime, stopTime] of supla_roller_shutter_cfg_t *)
  trigger,      (* delayed_trigger: [left, value]                          *)
  rest,         (* history: real time since both relays are low            *)
  wrapped       (* history: 1 when the clock passed 0 since both are low    *)

vars == <<now, motor, trigger, rest, wrapped>>

-----------------------------------------------------------------------------
Off == 0                       \* RS_RELAY_OFF
Down == 1                      \* RS_RELAY_DOWN
Up == 2                        \* RS_RELAY_UP
Direction == {Down, Up}
Request == {Off, Down, Up}
Opposite(d) == IF d = Up THEN Down ELSE Up

(* One period of the clock; a reading d units after t.                     *)
Clock == 0..(ClockWrap - 1)
Later(t, d) == (t + d) % ClockWrap

Disarmed == -1
Pause == StartDelay + 1 - MinDelay
Saturated(r) == IF r > Pause THEN Pause ELSE r

(* Mutant of RelayHi: a start does not clear stop_time.                    *)
RelayHiKeepsStop(m, d, hi, t) ==
  LET on == IF hi = 1 THEN m.on \cup {d} ELSE m.on \ {d}
  IN  [on        |-> on,
       startTime |-> IF on = {} THEN 0
                     ELSE IF m.startTime = 0 THEN t ELSE m.startTime,
       stopTime  |-> IF on # {} \/ m.stopTime # 0 THEN m.stopTime ELSE t]

(* supla_esp_gpio_relay_hi: raise or lower one relay at time t and note    *)
(* when the motor started or stopped.                                      *)
RelayHi(m, d, hi, t) ==
  LET on == IF hi = 1 THEN m.on \cup {d} ELSE m.on \ {d}
  IN  [on        |-> on,
       startTime |-> IF on = {} THEN 0
                     ELSE IF m.startTime = 0 THEN t ELSE m.startTime,
       stopTime  |-> IF on # {} THEN 0
                     ELSE IF m.stopTime = 0 THEN t ELSE m.stopTime]

(* The delay of a stop: a button must not stop a motor it just started.    *)
StopWait(m, t, stopDelay) ==
  IF /\ StopDelay > 0 /\ stopDelay = 1
     /\ m.startTime > 0 /\ m.stopTime = 0
     /\ t >= m.startTime
     /\ t - m.startTime < StopDelay
  THEN StopDelay - (t - m.startTime) + 1
  ELSE 0

(* Mutant of StartWait: that the pause may be over already is not asked,   *)
(* and the unsigned rest of it wraps.                                      *)
StartWaitAlways(m, t) ==
  IF /\ StartDelay > 0
     /\ m.startTime = 0 /\ m.stopTime > 0
     /\ t >= m.stopTime
  THEN (StartDelay - (t - m.stopTime) + 1) % ClockWrap
  ELSE 0

(* The delay of a start: the motor must have rested.                       *)
StartWait(m, t) ==
  IF /\ StartDelay > 0
     /\ m.startTime = 0 /\ m.stopTime > 0
     /\ t >= m.stopTime
     /\ t - m.stopTime < StartDelay
  THEN StartDelay - (t - m.stopTime) + 1
  ELSE 0

(* The first half of a start: lower the opposite relay, and wait a moment  *)
(* when it was high.                                                       *)
Reverses(m, d) == Opposite(d) \in m.on
LoweredSelf(m, d, t) == RelayHi(m, d, 0, t)              \* mutant of Lowered
Lowered(m, d, t) == IF Reverses(m, d) THEN RelayHi(m, Opposite(d), 0, t) ELSE m
Elapsed(m, d) == IF Reverses(m, d) THEN BusyWait ELSE 0

(* os_timer_disarm, then os_timer_arm when the request has to wait.        *)
ScheduleAlways(wait, value) ==                           \* mutant of Schedule
  trigger' = IF wait > MinDelay THEN [left |-> wait, value |-> value] ELSE trigger
Schedule(wait, value) ==
  trigger' = IF wait > MinDelay THEN [left |-> wait, value |-> value]
             ELSE [trigger EXCEPT !.left = Disarmed]

(* The history variables follow a step that took d units of time.  A stop  *)
(* precedes the time the step takes.                                       *)
Remember(d) ==
  /\ rest' = IF motor'.on # {} THEN 0
             ELSE Saturated((IF motor.on = {} THEN rest ELSE 0) + d)
  /\ wrapped' = IF motor'.on # {} THEN 0
                ELSE IF now' < now \/ (motor.on # {} /\ now = 0) THEN 1
                ELSE IF motor.on = {} THEN wrapped ELSE 0

(* supla_esp_gpio_rs_set_relay: atEnd tells that the shutter already is    *)
(* where the request leads and no additional time margin is configured.    *)
Stop(stopDelay) ==
  LET wait == StopWait(motor, now, stopDelay)
  IN  /\ Schedule(wait, Off)
      /\ motor' = IF wait > MinDelay THEN motor
                  ELSE RelayHi(RelayHi(motor, Up, 0, now), Down, 0, now)
      /\ now' = now

Start(d, atEnd) ==
  LET low  == Lowered(motor, d, now)
      t    == Later(now, Elapsed(motor, d))
      wait == StartWait(low, t)
  IN  /\ Schedule(wait, d)
      /\ motor' = IF wait > MinDelay \/ atEnd THEN low ELSE RelayHi(low, d, 1, t)
      /\ now' = t

SetRelay(value, stopDelay, atEnd) ==
  \/ value = Off /\ Stop(stopDelay) /\ Remember(0)
  \/ value \in Direction /\ Start(value, atEnd) /\ Remember(Elapsed(motor, value))

-----------------------------------------------------------------------------
Init ==
  /\ now \in Clock \ {0}
  /\ motor = [on |-> {}, startTime |-> 0, stopTime |-> now]
  /\ trigger = [left |-> Disarmed, value |-> Off]
  /\ rest = 0
  /\ wrapped = 0

(* A button, the server, a task or the calibration asks for a movement.    *)
Ask(value, stopDelay, atEnd) ==
  SetRelay(value, stopDelay, atEnd)

(* supla_esp_gpio_rs_set_relay_delayed                                     *)
TriggerFires(atEnd) ==
  /\ trigger.left = 0
  /\ SetRelay(trigger.value, 0, atEnd)

(* One unit of time; a due timer may be late.                              *)
TimePasses ==
  /\ now' = Later(now, 1)
  /\ trigger' = [trigger EXCEPT !.left = IF @ > 0 THEN @ - 1 ELSE @]
  /\ UNCHANGED motor
  /\ Remember(1)

Next ==
  \/ \E value \in Request, stopDelay \in {0, 1}, atEnd \in BOOLEAN : Ask(value, stopDelay, atEnd)
  \/ \E atEnd \in BOOLEAN : TriggerFires(atEnd)
  \/ TimePasses

Spec == Init /\ [][Next]_vars

-----------------------------------------------------------------------------
(* Every variable has its type, and no request waits longer than its delay *)
(* whatever the clock shows: a longer one would move the shutter long      *)
(* after anybody asked for it.                                             *)
LongestWait(value) == IF value = Off THEN StopDelay + 1 ELSE StartDelay + 1

TypeOK ==
  /\ now \in Clock
  /\ motor \in [on : SUBSET Direction, startTime : Clock, stopTime : Clock]
  /\ trigger \in [left : {Disarmed} \cup Nat, value : Request]
  /\ trigger.left <= LongestWait(trigger.value)
  /\ rest \in 0..Pause
  /\ wrapped \in {0, 1}

(* The windings of the motor are never fed together: whatever sequence of  *)
(* requests, pending starts and pending stops set_relay sees, the opposite *)
(* relay is low before one is raised.                                      *)
Interlock == motor.on # {Up, Down}

(* A start is only ever pending while both relays are low and a stop only  *)
(* while the motor runs: set_relay disarms delayed_trigger before anything *)
(* else, so a pending request never outlives the one that replaced it.     *)
PendingMatchesMotor ==
  trigger.left # Disarmed => (trigger.value = Off <=> motor.on # {})

(* RS_START_DELAY: a relay is raised only after both were low for the      *)
(* pause, never straight after the opposite one, as long as the clock did  *)
(* not pass zero in between.                                               *)
PauseKept ==
  [][motor'.on \ motor.on # {} =>
       \/ motor.on = {} /\ rest >= Pause
       \/ wrapped = 1 \/ now = 0 \/ now' < now]_vars
=============================================================================
