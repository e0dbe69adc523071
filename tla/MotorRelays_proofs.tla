------------------------- MODULE MotorRelays_proofs -------------------------
(***************************************************************************)
(* The relay layer is safe for every value of the delays and every width   *)
(* of the clock: the interlock always holds, and the pause is kept unless  *)
(* the clock wrapped.                                                      *)
(***************************************************************************)
EXTENDS MotorRelays, TLAPS

(* What the fields start_time and stop_time mean.  The clause on rest is   *)
(* what breaks when the clock wraps.                                       *)
ClockInv ==
  /\ motor.on = {} => motor.startTime = 0
  /\ motor.on # {} => motor.stopTime = 0
  /\ motor.on = {} /\ wrapped = 0 =>
       /\ motor.stopTime > 0
       /\ motor.stopTime <= now
       /\ rest = Saturated(now - motor.stopTime)

IInv == TypeOK /\ Interlock /\ PendingMatchesMotor /\ ClockInv

(* A request that waits, or none.                                          *)
TriggerOK(r) ==
  r \in [left : {Disarmed} \cup Nat, value : Request] /\ r.left <= LongestWait(r.value)

(* Reading the clock less than a period later, with and without a wrap.    *)
LEMMA LaterCases ==
  ASSUME NEW t \in Clock, NEW d \in Nat, d < ClockWrap
  PROVE  /\ Later(t, d) \in Clock
         /\ Later(t, d) >= t => Later(t, d) = t + d
BY DelayAssumption, SMTT(60) DEF Later, Clock


(* What relay_hi returns: the relays it is asked for, and times that agree *)
(* with them.                                                              *)
LEMMA RelayHiResult ==
  ASSUME NEW m \in [on : SUBSET Direction, startTime : Clock, stopTime : Clock],
         NEW d \in Direction, NEW hi \in {0, 1}, NEW t \in Clock
  PROVE  LET r == RelayHi(m, d, hi, t)
         IN  /\ r \in [on : SUBSET Direction, startTime : Clock, stopTime : Clock]
             /\ r.on = IF hi = 1 THEN m.on \cup {d} ELSE m.on \ {d}
             /\ r.on = {} => r.startTime = 0
             /\ r.on # {} => r.stopTime = 0
             /\ r.on = {} => r.stopTime = IF m.stopTime = 0 THEN t ELSE m.stopTime
BY DelayAssumption DEF RelayHi, Clock, Direction

(* The halves of set_relay that decide when to act.                        *)
LEMMA WaitResult ==
  ASSUME NEW m \in [on : SUBSET Direction, startTime : Clock, stopTime : Clock],
         NEW t \in Clock, NEW stopDelay \in {0, 1}
  PROVE  /\ StopWait(m, t, stopDelay) \in 0 .. StopDelay + 1
         /\ StopWait(m, t, stopDelay) > MinDelay => m.startTime > 0
         /\ StartWait(m, t) \in 0 .. StartDelay + 1
         /\ StartWait(m, t) > MinDelay => m.startTime = 0 /\ m.stopTime > 0
         /\ m.startTime = 0 /\ m.stopTime > 0 /\ t >= m.stopTime
              /\ StartWait(m, t) <= MinDelay
            => t - m.stopTime >= Pause
BY DelayAssumption DEF StopWait, StartWait, Pause, Clock

LEMMA LoweredResult ==
  ASSUME TypeOK, ClockInv, Interlock, NEW d \in Direction
  PROVE  LET low == Lowered(motor, d, now)
         IN  /\ low \in [on : SUBSET Direction, startTime : Clock, stopTime : Clock]
             /\ low.on = motor.on \ {Opposite(d)}
             /\ low.on = {} => low.startTime = 0
             /\ low.on # {} => low.stopTime = 0
             /\ Reverses(motor, d) => low.on = {} /\ low.stopTime = now
             /\ ~Reverses(motor, d) => low = motor
             /\ Elapsed(motor, d) \in {0, BusyWait}
<1> DEFINE low == Lowered(motor, d, now)
<1>1. Opposite(d) \in Direction /\ Opposite(d) # d
  BY DEF Opposite, Direction, Up, Down
<1>2. CASE Reverses(motor, d)
  <2>1. low = RelayHi(motor, Opposite(d), 0, now)
    BY <1>2 DEF Lowered
  <2>2. motor.on = {Opposite(d)} /\ motor.stopTime = 0
    BY <1>1, <1>2 DEF Reverses, TypeOK, Interlock, ClockInv, Direction, Opposite
  <2>3. QED
    BY <1>1, <1>2, <2>1, <2>2, RelayHiResult DEF TypeOK, Elapsed
<1>3. CASE ~Reverses(motor, d)
  BY <1>3 DEF Lowered, Reverses, Elapsed, TypeOK, ClockInv
<1>4. QED
  BY <1>2, <1>3

-----------------------------------------------------------------------------
LEMMA StopStep ==
  ASSUME IInv, NEW stopDelay \in {0, 1}, Stop(stopDelay), Remember(0)
  PROVE  IInv'
<1> DEFINE wait == StopWait(motor, now, stopDelay)
           both == RelayHi(RelayHi(motor, Up, 0, now), Down, 0, now)
<1> USE DEF IInv
<1>1. /\ wait \in Nat /\ wait <= StopDelay + 1
      /\ wait > MinDelay => motor.startTime > 0
  BY WaitResult, DelayAssumption DEF TypeOK
<1>2. CASE wait > MinDelay
  <2>1. motor' = motor /\ now' = now /\ trigger' = [left |-> wait, value |-> Off]
    BY <1>2 DEF Stop, Schedule
  <2>2. motor.on # {}
    BY <1>1, <1>2 DEF ClockInv, TypeOK, Clock
  <2>3. rest' = 0 /\ wrapped' = 0
    BY <2>1, <2>2 DEF Remember
  <2>4. QED
    BY <1>1, <2>1, <2>2, <2>3, DelayAssumption
       DEF TypeOK, Interlock, PendingMatchesMotor, ClockInv, Request, Off, Pause, LongestWait
<1>3. CASE ~(wait > MinDelay)
  <2> DEFINE one == RelayHi(motor, Up, 0, now)
  <2>1. motor' = both /\ now' = now /\ trigger' = [trigger EXCEPT !.left = Disarmed]
    BY <1>3 DEF Stop, Schedule
  <2>2. /\ one \in [on : SUBSET Direction, startTime : Clock, stopTime : Clock]
        /\ one.on = motor.on \ {Up}
        /\ one.on # {} => one.stopTime = 0
        /\ one.on = {} => one.stopTime = IF motor.stopTime = 0 THEN now ELSE motor.stopTime
    BY RelayHiResult DEF TypeOK, Direction
  <2>3. /\ both \in [on : SUBSET Direction, startTime : Clock, stopTime : Clock]
        /\ both.on = one.on \ {Down}
        /\ both.on = {} => both.startTime = 0
        /\ both.on = {} => both.stopTime = IF one.stopTime = 0 THEN now ELSE one.stopTime
    BY <2>2, RelayHiResult DEF TypeOK, Direction
  <2>4. both.on = {}
    BY <2>2, <2>3 DEF TypeOK, Direction
  <2>5. both.stopTime = IF motor.stopTime = 0 THEN now ELSE motor.stopTime
    <3>1. CASE one.on = {}
      BY <2>2, <2>3, <2>4, <3>1
    <3>2. CASE one.on # {}
      BY <2>2, <2>3, <2>4, <3>2 DEF ClockInv
    <3>3. QED BY <3>1, <3>2
  <2>6. /\ rest' = Saturated((IF motor.on = {} THEN rest ELSE 0) + 0)
        /\ wrapped' = IF motor.on = {} THEN wrapped ELSE IF now = 0 THEN 1 ELSE 0
    BY <2>1, <2>4 DEF Remember, TypeOK, Clock
  <2>7. TypeOK'
    BY <2>1, <2>3, <2>6, DelayAssumption
       DEF TypeOK, Clock, Pause, Saturated, Disarmed, LongestWait
  <2>8. ClockInv'
    <3>1. CASE motor.on = {}
      BY <2>1, <2>3, <2>4, <2>5, <2>6, <3>1, DelayAssumption
         DEF TypeOK, ClockInv, Clock, Pause, Saturated
    <3>2. CASE motor.on # {}
      BY <2>1, <2>3, <2>4, <2>5, <2>6, <3>2, DelayAssumption
         DEF TypeOK, ClockInv, Clock, Pause, Saturated
    <3>3. QED BY <3>1, <3>2
  <2>9. Interlock' /\ PendingMatchesMotor'
    BY <2>1, <2>4 DEF Interlock, PendingMatchesMotor, Disarmed, TypeOK
  <2>10. QED
    BY <2>7, <2>8, <2>9
<1>4. QED
  BY <1>2, <1>3

LEMMA StartStep ==
  ASSUME IInv, NEW d \in Direction, NEW atEnd \in BOOLEAN,
         Start(d, atEnd), Remember(Elapsed(motor, d))
  PROVE  /\ IInv'
         /\ motor'.on \ motor.on # {} =>
              \/ motor.on = {} /\ rest >= Pause
              \/ wrapped = 1 \/ now = 0 \/ now' < now
<1> DEFINE low  == Lowered(motor, d, now)
           e    == Elapsed(motor, d)
           t    == Later(now, e)
           wait == StartWait(low, t)
           up   == RelayHi(low, d, 1, t)
<1> USE DEF IInv
<1>1. /\ low \in [on : SUBSET Direction, startTime : Clock, stopTime : Clock]
      /\ low.on = motor.on \ {Opposite(d)}
      /\ low.on = {} => low.startTime = 0
      /\ low.on # {} => low.stopTime = 0
      /\ Reverses(motor, d) => low.on = {} /\ low.stopTime = now
      /\ ~Reverses(motor, d) => low = motor
      /\ e \in {0, BusyWait}
  BY LoweredResult
<1>2. /\ e \in Nat /\ e < ClockWrap /\ t \in Clock
      /\ t >= now => t = now + e
  BY <1>1, LaterCases, DelayAssumption DEF TypeOK
<1>3. /\ wait \in Nat /\ wait <= StartDelay + 1
      /\ wait > MinDelay => low.startTime = 0 /\ low.stopTime > 0
      /\ low.startTime = 0 /\ low.stopTime > 0 /\ t >= low.stopTime /\ wait <= MinDelay
           => t - low.stopTime >= Pause
  BY <1>1, <1>2, WaitResult, DelayAssumption
<1>4. now' = t /\ (motor' = low \/ (motor' = up /\ ~(wait > MinDelay)))
  <2>1. CASE wait > MinDelay \/ atEnd
    <3>1. now' = t /\ motor' = IF wait > MinDelay \/ atEnd THEN low ELSE up
      BY DEF Start
    <3>2. QED BY <2>1, <3>1
  <2>2. CASE ~(wait > MinDelay \/ atEnd)
    BY <2>2 DEF Start
  <2>3. QED BY <2>1, <2>2
<1>5. /\ up \in [on : SUBSET Direction, startTime : Clock, stopTime : Clock]
      /\ up.on = low.on \cup {d}
      /\ up.on # {} /\ up.stopTime = 0
  BY <1>1, <1>2, RelayHiResult
<1>6. low.on # {Up, Down} /\ up.on = {d}
  BY <1>1, <1>5 DEF Opposite, Direction, TypeOK, Up, Down
<1>7. \/ wait > MinDelay /\ trigger' = [left |-> wait, value |-> d] /\ motor' = low
      \/ ~(wait > MinDelay) /\ trigger' = [trigger EXCEPT !.left = Disarmed]
  BY DEF Start, Schedule
<1>8. wait > MinDelay => low.on = {}
  BY <1>1, <1>3 DEF Clock
<1>9. PendingMatchesMotor' /\ TriggerOK(trigger')
  BY <1>3, <1>7, <1>8, DelayAssumption
     DEF PendingMatchesMotor, TypeOK, TriggerOK, LongestWait, Disarmed, Request,
         Direction, Off, Up, Down
<1>10. Interlock'
  BY <1>4, <1>6 DEF Interlock, Direction, Up, Down
<1>11. rest' = IF motor'.on # {} THEN 0
               ELSE Saturated((IF motor.on = {} THEN rest ELSE 0) + e)
  BY DEF Remember
<1>12. wrapped' = IF motor'.on # {} THEN 0
                  ELSE IF now' < now \/ (motor.on # {} /\ now = 0) THEN 1
                  ELSE IF motor.on = {} THEN wrapped ELSE 0
  BY DEF Remember
<1>13. TypeOK'
  <2>1. rest' \in 0..Pause
    BY <1>2, <1>11, DelayAssumption DEF TypeOK, Pause, Saturated
  <2>2. QED
    BY <1>1, <1>2, <1>4, <1>5, <1>9, <1>12, <2>1, DelayAssumption DEF TypeOK, TriggerOK
<1>14. ClockInv'
  <2>1. CASE motor' = up
    BY <1>5, <2>1 DEF ClockInv
  <2>2. CASE motor' = low
    <3>1. CASE low.on # {}
      BY <1>1, <2>2, <3>1 DEF ClockInv
    <3>2. CASE low.on = {} /\ Reverses(motor, d)
      <4>1. motor.on # {}
        BY <3>2 DEF Reverses
      <4>2. rest' = Saturated(0 + e) /\ wrapped' = IF now' < now \/ now = 0 THEN 1 ELSE 0
        BY <1>11, <1>12, <2>2, <3>2, <4>1
      <4>3. low.startTime = 0 /\ low.stopTime = now
        BY <1>1, <3>2
      <4>4. wrapped' = 0 => now > 0 /\ t = now + e
        BY <1>2, <1>4, <4>2 DEF TypeOK, Clock
      <4>5. QED
        BY <1>2, <1>4, <2>2, <3>2, <4>2, <4>3, <4>4, DelayAssumption
           DEF ClockInv, TypeOK, Clock
    <3>3. CASE low.on = {} /\ ~Reverses(motor, d)
      <4>1. low = motor /\ e = 0
        BY <1>1, <3>3 DEF Elapsed
      <4>2. /\ rest' = Saturated(rest + 0)
            /\ wrapped' = IF now' < now THEN 1 ELSE wrapped
        BY <1>11, <1>12, <2>2, <3>3, <4>1
      <4>3. wrapped' = 0 => now' = now /\ wrapped = 0
        BY <1>2, <1>4, <4>1, <4>2 DEF TypeOK, Clock
      <4>4. rest' = rest
        BY <4>2, DelayAssumption DEF TypeOK, Saturated, Pause
      <4>5. QED
        BY <2>2, <3>3, <4>1, <4>3, <4>4 DEF ClockInv
    <3>4. QED BY <3>1, <3>2, <3>3
  <2>3. QED BY <1>4, <2>1, <2>2
<1>15. ASSUME motor'.on \ motor.on # {}, wrapped = 0, now # 0, ~(now' < now)
       PROVE  motor.on = {} /\ rest >= Pause
  <2>1. motor' = up /\ wait <= MinDelay
    BY <1>1, <1>3, <1>4, <1>15, DelayAssumption
  <2>2. t = now + e
    BY <1>2, <1>4, <1>15 DEF TypeOK, Clock
  <2>3. ~Reverses(motor, d)
    <3>1. SUFFICES ASSUME Reverses(motor, d) PROVE FALSE
      OBVIOUS
    <3>2. low.startTime = 0 /\ low.stopTime = now /\ e = BusyWait
      BY <1>1, <3>1 DEF Elapsed
    <3>3. t - now >= Pause
      BY <1>2, <1>3, <1>15, <2>1, <2>2, <3>2, DelayAssumption DEF TypeOK, Clock
    <3>4. QED
      BY <2>2, <3>2, <3>3, DelayAssumption DEF Pause, TypeOK, Clock
  <2>4. low = motor /\ e = 0 /\ t = now
    BY <1>1, <1>2, <2>2, <2>3 DEF Elapsed, TypeOK, Clock
  <2>5. motor.on = {}
    BY <1>5, <1>6, <1>15, <2>1, <2>3, <2>4
       DEF Reverses, Opposite, Direction, TypeOK, Up, Down
  <2>6. now - motor.stopTime >= Pause
    BY <1>3, <1>15, <2>1, <2>4, <2>5 DEF ClockInv
  <2>7. QED
    BY <1>15, <2>5, <2>6, DelayAssumption DEF ClockInv, Saturated, TypeOK, Clock, Pause
<1>16. IInv'
  BY <1>9, <1>10, <1>13, <1>14
<1>17. QED
  BY <1>15, <1>16 DEF TypeOK

LEMMA SetRelayStep ==
  ASSUME IInv, NEW value \in Request, NEW stopDelay \in {0, 1}, NEW atEnd \in BOOLEAN,
         SetRelay(value, stopDelay, atEnd)
  PROVE  /\ IInv'
         /\ motor'.on \ motor.on # {} =>
              \/ motor.on = {} /\ rest >= Pause
              \/ wrapped = 1 \/ now = 0 \/ now' < now
<1>1. CASE value = Off /\ Stop(stopDelay) /\ Remember(0)
  <2>1. motor'.on \subseteq motor.on
    BY <1>1, RelayHiResult DEF Stop, IInv, TypeOK, RelayHi
  <2>2. QED BY <1>1, <2>1, StopStep
<1>2. CASE value \in Direction /\ Start(value, atEnd) /\ Remember(Elapsed(motor, value))
  BY <1>2, StartStep
<1>3. QED
  BY <1>1, <1>2 DEF SetRelay

LEMMA TimeStep ==
  ASSUME IInv, TimePasses
  PROVE  IInv'
<1> USE DEF IInv
<1>1. /\ now' \in Clock
      /\ now' >= now => now' = now + 1
  BY LaterCases, DelayAssumption DEF TimePasses, TypeOK
<1>2. motor' = motor
  BY DEF TimePasses
<1>3. /\ trigger'.value = trigger.value
      /\ trigger.left = Disarmed => trigger'.left = Disarmed
      /\ TriggerOK(trigger')
  BY DelayAssumption DEF TimePasses, TypeOK, TriggerOK, LongestWait, Disarmed
<1>4. /\ rest' = IF motor.on # {} THEN 0 ELSE Saturated(rest + 1)
      /\ wrapped' = IF motor.on # {} THEN 0 ELSE IF now' < now THEN 1 ELSE wrapped
  BY <1>2 DEF TimePasses, Remember
<1>5. TypeOK'
  BY <1>1, <1>2, <1>3, <1>4, DelayAssumption DEF TypeOK, TriggerOK, Saturated, Pause
<1>6. Interlock' /\ PendingMatchesMotor'
  BY <1>2, <1>3 DEF Interlock, PendingMatchesMotor
<1>7. ClockInv'
  BY <1>1, <1>2, <1>4, DelayAssumption DEF ClockInv, TypeOK, Saturated, Pause, Clock
<1>8. QED
  BY <1>5, <1>6, <1>7

-----------------------------------------------------------------------------
LEMMA InitIInv == Init => IInv
BY DelayAssumption
   DEF Init, IInv, TypeOK, Interlock, PendingMatchesMotor, ClockInv, Request,
       Direction, Clock, Pause, Saturated, Disarmed, Off, Up, Down, LongestWait

LEMMA NextIInv == IInv /\ [Next]_vars => IInv'
<1> SUFFICES ASSUME IInv, [Next]_vars PROVE IInv'
  OBVIOUS
<1>1. ASSUME NEW value \in Request, NEW stopDelay \in {0, 1}, NEW atEnd \in BOOLEAN,
             Ask(value, stopDelay, atEnd)
      PROVE  IInv'
  BY <1>1, SetRelayStep DEF Ask
<1>2. ASSUME NEW atEnd \in BOOLEAN, TriggerFires(atEnd)
      PROVE  IInv'
  <2>1. trigger.value \in Request
    BY DEF IInv, TypeOK
  <2>2. QED BY <1>2, <2>1, SetRelayStep DEF TriggerFires
<1>3. CASE TimePasses
  BY <1>3, TimeStep
<1>4. CASE UNCHANGED vars
  BY <1>4 DEF vars, IInv, TypeOK, Interlock, PendingMatchesMotor, ClockInv
<1>5. QED
  BY <1>1, <1>2, <1>3, <1>4 DEF Next

(* The strengthened invariant holds in every reachable state.              *)
THEOREM Invariance == Spec => []IInv
<1>1. QED BY InitIInv, NextIInv, PTL DEF Spec

(* Every variable keeps its type.                                          *)
THEOREM TypeCorrect == Spec => []TypeOK
<1>1. IInv => TypeOK BY DEF IInv
<1>2. QED BY <1>1, Invariance, PTL

(* set_relay never feeds both windings of the motor, for every value of    *)
(* the delays and every width of the clock.                                *)
THEOREM InterlockHolds == Spec => []Interlock
<1>1. IInv => Interlock BY DEF IInv
<1>2. QED BY <1>1, Invariance, PTL

(* A pending start or stop always belongs to the state the relays are in.  *)
THEOREM PendingHolds == Spec => []PendingMatchesMotor
<1>1. IInv => PendingMatchesMotor BY DEF IInv
<1>2. QED BY <1>1, Invariance, PTL

(* A relay rises only after the pause, unless the clock passed zero.       *)
THEOREM PauseHolds == Spec => PauseKept
<1> DEFINE Kept == motor'.on \ motor.on # {} =>
                     \/ motor.on = {} /\ rest >= Pause
                     \/ wrapped = 1 \/ now = 0 \/ now' < now
<1>1. IInv /\ [Next]_vars => [Kept]_vars
  <2> SUFFICES ASSUME IInv, Next PROVE Kept
    OBVIOUS
  <2>1. ASSUME NEW value \in Request, NEW stopDelay \in {0, 1}, NEW atEnd \in BOOLEAN,
               Ask(value, stopDelay, atEnd)
        PROVE  Kept
    BY <2>1, SetRelayStep DEF Ask
  <2>2. ASSUME NEW atEnd \in BOOLEAN, TriggerFires(atEnd)
        PROVE  Kept
    <3>1. trigger.value \in Request
      BY DEF IInv, TypeOK
    <3>2. QED BY <2>2, <3>1, SetRelayStep DEF TriggerFires
  <2>3. CASE TimePasses
    BY <2>3 DEF TimePasses
  <2>4. QED
    BY <2>1, <2>2, <2>3 DEF Next
<1>2. QED
  BY <1>1, Invariance, PTL DEF Spec, PauseKept

=============================================================================
