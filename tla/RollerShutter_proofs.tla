------------------------ MODULE RollerShutter_proofs ------------------------
(***************************************************************************)
(* The shutter is safe for its motor, for every number of steps, every     *)
(* delay and whoever uses it: handlers, ticks and restarts, in any order,  *)
(* implement Motor.  A shutter of which nothing is asked does not move by  *)
(* itself.  Every field keeps its type, automatic calibration never hangs, *)
(* and no position outlives the times it was measured with.                *)
(***************************************************************************)
EXTENDS RollerShutter, TLAPS

(* What the handlers have to do with the motor is little: the relays, the  *)
(* two ages and the trigger.  All they do to the estimates, the tasks, the *)
(* calibration and the flash is only known to leave these as they are.     *)
Fields ==
  {"on", "startAge", "stopAge", "trigger", "ran", "position", "tilt", "task", "step",
   "perform", "buttonReq", "detected", "lastDirection", "flags", "full", "auto", "autoCal",
   "blind", "addMargin", "margin", "swapped", "comm", "sent", "flash"}

Shaped(r) ==
  /\ r = [x \in Fields |-> r[x]]
  /\ r.trigger = [x \in {"left", "value", "autoCal"} |-> r.trigger[x]]
  /\ r.trigger.value \in Request

(* One relay at most is on, and the ages tell since when, or since when    *)
(* none is.                                                                *)
AgesTell(r) ==
  /\ r.on \in {{}, {Up}, {Down}}
  /\ r.on = {} => r.startAge = Unset /\ r.stopAge \in Nat
  /\ r.on # {} => r.startAge \in Nat /\ r.stopAge = Unset

Good(r) == Shaped(r) /\ AgesTell(r)

IInv == Good(rs)

(* What one call after the other may make of the relays, within one step:  *)
(* nothing, open both, or close one that was open for the whole pause.     *)
SameDrive(r, s) == s.on = r.on /\ s.startAge = r.startAge /\ s.stopAge = r.stopAge
Leads(r, s) ==
  /\ s.swapped = r.swapped
  /\ \/ SameDrive(r, s)
     \/ s.on = {} /\ s.stopAge = 0
     \/ r.on = {} /\ r.stopAge >= Pause /\ s.on # {} /\ s.startAge = 0

(* What a call that has nothing to do with the relays leaves alone.        *)
Aside(r, s) ==
  /\ Shaped(s)
  /\ SameDrive(r, s) /\ s.swapped = r.swapped /\ s.trigger = r.trigger

(* And the requests under way.                                             *)
Unasked(r, s) == s.task = r.task /\ s.step = r.step

(* What leaves the relays alone keeps them good, and leads.                *)
LEMMA AsideGood ==
  ASSUME NEW r, NEW s, Good(r), Aside(r, s)
  PROVE  Good(s) /\ Leads(r, s)
BY DEF Good, Aside, AgesTell, Leads, SameDrive

(* Two such calls are one.                                                 *)
LEMMA AsideTwice ==
  ASSUME NEW r, NEW s, NEW t, Aside(r, s), Aside(s, t)
  PROVE  Aside(r, t)
BY DEF Aside, SameDrive

(* And so are two that lead: what the first opened is too young to be      *)
(* closed again by the second.                                             *)
LEMMA LeadsTwice ==
  ASSUME NEW r, NEW s, NEW t, Good(s), Leads(r, s), Leads(s, t)
  PROVE  Leads(r, t)
BY ConstantAssumption DEF Good, AgesTell, Leads, SameDrive, Pause, Unset

-----------------------------------------------------------------------------
(* Calls that have nothing to do with the relays.                          *)
LEMMA SavedAside ==
  ASSUME NEW r, Shaped(r)
  PROVE  /\ Aside(r, StateSaved(r)) /\ Unasked(r, StateSaved(r))
         /\ Aside(r, CfgSaved(r)) /\ Unasked(r, CfgSaved(r))
         /\ Aside(r, Voided(r)) /\ Unasked(r, Voided(r))
BY DEF Shaped, Aside, SameDrive, Unasked, StateSaved, CfgSaved, Voided, Fields

(* Nor does noting that an end was reached.                                *)
LEMMA AtAside ==
  ASSUME NEW r, Shaped(r), NEW end
  PROVE  Aside(r, At(r, end)) /\ Unasked(r, At(r, end))
BY DEF Shaped, Aside, SameDrive, Unasked, At, Fields

(* A record that keeps what a call aside may not touch.                    *)
LEMMA Untouched ==
  ASSUME NEW r, NEW s, Shaped(r), s = [x \in Fields |-> s[x]], SameDrive(r, s),
         s.swapped = r.swapped, s.trigger = r.trigger
  PROVE  Aside(r, s)
BY DEF Aside, Shaped

-----------------------------------------------------------------------------
(* The relays.                                                             *)

(* A relay goes low: if it was the one that was on, both are open now.     *)
LEMMA RelayLow ==
  ASSUME NEW r, Good(r), NEW d \in Direction
  PROVE  LET s == RelayHi(r, d, 0)
         IN  /\ Good(s) /\ Unasked(r, s)
             /\ s.trigger = r.trigger /\ s.swapped = r.swapped
             /\ s.on = r.on \ {d}
             /\ SameDrive(r, s) \/ (s.on = {} /\ s.stopAge = 0)
<1> DEFINE s == RelayHi(r, d, 0)
<1>1. d = Up \/ d = Down
  BY DEF Direction
<1>2. /\ r = [x \in Fields |-> r[x]]
      /\ s = [r EXCEPT !.on = r.on \ {d},
                !.startAge = IF r.on \ {d} = {} THEN Unset
                             ELSE IF @ = Unset THEN 0 ELSE @,
                !.stopAge = IF r.on \ {d} # {} THEN Unset
                            ELSE IF @ = Unset THEN 0 ELSE @]
  BY DEF RelayHi, Good, Shaped
<1>3. /\ s = [x \in Fields |-> s[x]] /\ s.trigger = r.trigger /\ s.swapped = r.swapped
      /\ s.on = r.on \ {d} /\ Unasked(r, s)
      /\ s.startAge = IF r.on \ {d} = {} THEN Unset
                      ELSE IF r.startAge = Unset THEN 0 ELSE r.startAge
      /\ s.stopAge = IF r.on \ {d} # {} THEN Unset
                     ELSE IF r.stopAge = Unset THEN 0 ELSE r.stopAge
  BY <1>2 DEF Fields, Unasked
<1> HIDE DEF s
<1>4. ASSUME r.on \ {d} = {}, r.on # {}
      PROVE  Good(s) /\ s.on = {} /\ s.stopAge = 0
  BY <1>3, <1>4, SMTT(40) DEF Good, AgesTell, Shaped, Unset
<1>5. ASSUME r.on \ {d} = r.on
      PROVE  Good(s) /\ SameDrive(r, s)
  BY <1>3, <1>5, SMTT(40) DEF Good, AgesTell, Shaped, SameDrive, Unset
<1>6. r.on \ {d} = r.on \/ (r.on \ {d} = {} /\ r.on # {})
  BY <1>1 DEF Good, AgesTell, Up, Down
<1>7. /\ Good(s) /\ Unasked(r, s)
      /\ s.trigger = r.trigger /\ s.swapped = r.swapped
      /\ s.on = r.on \ {d}
      /\ SameDrive(r, s) \/ (s.on = {} /\ s.stopAge = 0)
  <2>1. CASE r.on \ {d} = r.on
    BY <1>3, <1>5, <2>1
  <2>2. CASE r.on \ {d} = {} /\ r.on # {}
    BY <1>3, <1>4, <2>2
  <2>3. QED
    BY <1>6, <2>1, <2>2
<1>8. QED
  BY <1>7 DEF s

(* A relay goes high while the other one is low.                           *)
LEMMA RelayHigh ==
  ASSUME NEW r, Good(r), NEW d \in Direction, Opposite(d) \notin r.on
  PROVE  LET s == RelayHi(r, d, 1)
         IN  /\ Good(s) /\ Unasked(r, s)
             /\ s.trigger = r.trigger /\ s.swapped = r.swapped
             /\ s.on = {d}
             /\ r.on # {} => SameDrive(r, s)
             /\ r.on = {} => s.startAge = 0
<1> DEFINE s == RelayHi(r, d, 1)
<1>1. (d = Up /\ Opposite(d) = Down) \/ (d = Down /\ Opposite(d) = Up)
  BY DEF Direction, Opposite, Up, Down
<1>2. r.on \cup {d} = {d}
  BY <1>1 DEF Good, AgesTell, Up, Down
<1>3. /\ r = [x \in Fields |-> r[x]]
      /\ s = [r EXCEPT !.on = {d},
                !.startAge = IF @ = Unset THEN 0 ELSE @, !.stopAge = Unset]
  BY <1>2 DEF RelayHi, Good, Shaped
<1>4. /\ s = [x \in Fields |-> s[x]] /\ s.trigger = r.trigger /\ s.swapped = r.swapped
      /\ s.on = {d} /\ Unasked(r, s) /\ s.stopAge = Unset
      /\ s.startAge = IF r.startAge = Unset THEN 0 ELSE r.startAge
  BY <1>3, ZenonT(40) DEF Fields, Unasked
<1> HIDE DEF s
<1>5. Good(s)
  BY <1>1, <1>4 DEF Good, AgesTell, Shaped, Unset
<1>6. ASSUME r.on # {} PROVE SameDrive(r, s)
  BY <1>1, <1>4, <1>6 DEF Good, AgesTell, SameDrive, Up, Down, Unset
<1>7. r.on = {} => s.startAge = 0
  BY <1>4 DEF Good, AgesTell
<1>8. QED
  BY <1>4, <1>5, <1>6, <1>7 DEF s

(* A call has kept the motor safe; and it has not woken a quiet shutter.   *)
Calm(r, s) == Quiet(r) => Quiet(s) /\ s.on \subseteq r.on

(* Two calls that are calm are one,                                        *)
LEMMA CalmTwice ==
  ASSUME NEW r, NEW s, NEW t, Calm(r, s), Calm(s, t)
  PROVE  Calm(r, t)
BY DEF Calm

(* and what leaves relays and requests alone is calm.                      *)
LEMMA AsideCalm ==
  ASSUME NEW r, NEW s, Aside(r, s), Unasked(r, s)
  PROVE  Calm(r, s)
BY DEF Aside, SameDrive, Unasked, Calm, Quiet

(* Both relays go low.                                                     *)
LEMMA BothLow ==
  ASSUME NEW r, Good(r)
  PROVE  LET s == RelayHi(RelayHi(r, Up, 0), Down, 0)
         IN  /\ Good(s) /\ Unasked(r, s) /\ Leads(r, s)
             /\ s.trigger = r.trigger /\ s.on = {}
<1> DEFINE one == RelayHi(r, Up, 0)
           s == RelayHi(one, Down, 0)
<1>1. Up \in Direction /\ Down \in Direction
  BY DEF Direction
<1>2. /\ Good(one) /\ Unasked(r, one) /\ one.trigger = r.trigger
      /\ one.swapped = r.swapped /\ one.on = r.on \ {Up}
      /\ SameDrive(r, one) \/ (one.on = {} /\ one.stopAge = 0)
  BY <1>1, RelayLow
<1> HIDE DEF one
<1>3. /\ Good(s) /\ Unasked(one, s) /\ s.trigger = one.trigger
      /\ s.swapped = one.swapped /\ s.on = one.on \ {Down}
      /\ SameDrive(one, s) \/ (s.on = {} /\ s.stopAge = 0)
  BY <1>1, <1>2, RelayLow
<1> HIDE DEF s
<1>4. s.on = {}
  BY <1>2, <1>3 DEF Good, AgesTell
<1>5. Leads(r, one) /\ Leads(one, s)
  BY <1>2, <1>3 DEF Leads
<1>6. Leads(r, s)
  BY <1>2, <1>5, LeadsTwice
<1>7. QED
  BY <1>2, <1>3, <1>4, <1>6 DEF Unasked, s, one

-----------------------------------------------------------------------------
(* supla_esp_gpio_rs_set_relay.                                            *)

(* Breaking off a calibration concerns times and position only.            *)
LEMMA AbortedAside ==
  ASSUME NEW r, Shaped(r)
  PROVE  Aside(r, Aborted(r)) /\ Calm(r, Aborted(r))
<1> DEFINE t == [r EXCEPT !.step = 0, !.full = Zero, !.auto = Zero]
<1>1. CASE ~r.buttonReq /\ r.step > 0
  <2>1. Aside(r, t)
    BY DEF Shaped, Aside, SameDrive, Fields
  <2>2. Aside(t, Voided(t))
    BY <2>1, SavedAside DEF Aside
  <2>3. Aside(r, Aborted(r))
    BY <1>1, <2>1, <2>2, AsideTwice DEF Aborted
  <2>4. Calm(r, Aborted(r))
    BY <1>1 DEF Calm, Quiet
  <2>5. QED
    BY <2>3, <2>4
<1>2. CASE ~(~r.buttonReq /\ r.step > 0)
  BY <1>2 DEF Aborted, Aside, SameDrive, Calm
<1>3. QED
  BY <1>1, <1>2

(* Cancelling a task concerns the task only.                               *)
LEMMA CancelledAside ==
  ASSUME NEW r, Shaped(r)
  PROVE  Aside(r, Cancelled(r)) /\ Calm(r, Cancelled(r))
<1> DEFINE t == [r EXCEPT !.task = NoTask]
<1>1. Aside(r, t) /\ t.task = NoTask /\ t.step = r.step
  BY DEF Shaped, Aside, SameDrive, Fields
<1>2. Aside(t, Cancelled(r)) /\ Unasked(t, Cancelled(r))
  BY <1>1, SavedAside DEF Cancelled, Aside
<1>3. Aside(r, Cancelled(r))
  BY <1>1, <1>2, AsideTwice
<1>4. Cancelled(r).task.state = Inactive /\ Cancelled(r).step = r.step
  BY <1>1, <1>2 DEF Unasked, NoTask
<1>5. QED
  BY <1>3, <1>4 DEF Calm, Quiet, Aside, SameDrive

(* The trigger alone changes.                                              *)
LEMMA TriggerGood ==
  ASSUME NEW r, Good(r), NEW s, s = [x \in Fields |-> s[x]], SameDrive(r, s),
         s.swapped = r.swapped,
         s.trigger = [x \in {"left", "value", "autoCal"} |-> s.trigger[x]],
         s.trigger.value \in Request
  PROVE  Good(s) /\ Leads(r, s)
BY DEF Good, Shaped, AgesTell, SameDrive, Leads

(* Disarming it keeps its value.                                           *)
LEMMA DisarmedGood ==
  ASSUME NEW r, Good(r)
  PROVE  LET s == TriggerDisarmed(r)
         IN  Good(s) /\ Leads(r, s) /\ Calm(r, s)
<1> DEFINE s == TriggerDisarmed(r)
<1>1. /\ s = [x \in Fields |-> s[x]] /\ SameDrive(r, s) /\ s.swapped = r.swapped
      /\ s.trigger = [r.trigger EXCEPT !.left = Disarmed] /\ Unasked(r, s)
  BY DEF Good, Shaped, SameDrive, TriggerDisarmed, Unasked, Fields
<1> HIDE DEF s
<1>2. /\ s.trigger = [x \in {"left", "value", "autoCal"} |-> s.trigger[x]]
      /\ s.trigger.value = r.trigger.value /\ s.trigger.left = Disarmed
  BY <1>1 DEF Good, Shaped
<1>3. Good(s) /\ Leads(r, s)
  BY <1>1, <1>2, TriggerGood DEF Good, Shaped
<1>4. Calm(r, s)
  BY <1>1, <1>2 DEF Calm, Quiet, Unasked, SameDrive
<1>5. QED
  BY <1>3, <1>4 DEF s

(* Arming it as well.                                                      *)
LEMMA DelayedGood ==
  ASSUME NEW r, Good(r), NEW value \in Request, NEW wait
  PROVE  LET s == Delayed(r, value, wait)
         IN  Good(s) /\ Leads(r, s) /\ (value = Off => Calm(r, s))
<1> DEFINE s == Delayed(r, value, wait)
<1>1. /\ s = [x \in Fields |-> s[x]] /\ SameDrive(r, s) /\ s.swapped = r.swapped
      /\ s.trigger = [left |-> wait, value |-> value, autoCal |-> r.buttonReq]
      /\ Unasked(r, s)
  BY DEF Good, Shaped, SameDrive, Delayed, Unasked, Fields
<1> HIDE DEF s
<1>2. /\ s.trigger = [x \in {"left", "value", "autoCal"} |-> s.trigger[x]]
      /\ s.trigger.value = value
  BY <1>1
<1>3. Good(s) /\ Leads(r, s)
  BY <1>1, <1>2, TriggerGood
<1>4. value = Off => Calm(r, s)
  BY <1>1, <1>2 DEF Calm, Quiet, Unasked, SameDrive
<1>5. QED
  BY <1>3, <1>4 DEF s

(* The end of a call that acts at once.                                    *)
LEMMA UnreadyAside ==
  ASSUME NEW r, Shaped(r), NEW value
  PROVE  LET s == [r EXCEPT !.buttonReq = value]
         IN  Aside(r, s) /\ Unasked(r, s)
BY DEF Shaped, Aside, SameDrive, Unasked, Fields

(* Switching off leads.                                                    *)
LEMMA StopGood ==
  ASSUME NEW r, Good(r), NEW stopDelay
  PROVE  LET s == Stop(r, stopDelay)
         IN  Good(s) /\ Leads(r, s) /\ Calm(r, s)
<1> DEFINE wait == StopWait(r, stopDelay)
           low == RelayHi(RelayHi(r, Up, 0), Down, 0)
           unready == [low EXCEPT !.buttonReq = FALSE]
<1>1. CASE wait > MinDelay
  <2>1. Off \in Request
    BY DEF Request
  <2>2. QED
    BY <1>1, <2>1, DelayedGood DEF Stop
<1>2. CASE ~(wait > MinDelay)
  <2>1. Stop(r, stopDelay) = unready
    BY <1>2 DEF Stop
  <2>2. /\ Good(low) /\ Unasked(r, low) /\ Leads(r, low)
        /\ low.trigger = r.trigger /\ low.on = {}
    BY BothLow
  <2> HIDE DEF low
  <2>3. Aside(low, unready) /\ Unasked(low, unready)
    BY <2>2, UnreadyAside DEF Good
  <2> HIDE DEF unready
  <2>4. Good(unready) /\ Leads(low, unready) /\ Calm(low, unready)
    BY <2>2, <2>3, AsideGood, AsideCalm
  <2>5. Calm(r, low)
    BY <2>2 DEF Calm, Quiet, Unasked
  <2>6. QED
    BY <2>1, <2>2, <2>4, <2>5, LeadsTwice, CalmTwice
<1>3. QED
  BY <1>1, <1>2

(* Opening the opposite relay before a start leads.                        *)
LEMMA LoweredGood ==
  ASSUME NEW r, Good(r), NEW d \in Direction
  PROVE  LET s == Lowered(r, d)
         IN  /\ Good(s) /\ Leads(r, s) /\ Opposite(d) \notin s.on
<1>1. Opposite(d) \in Direction
  BY DEF Direction, Opposite
<1>2. CASE Opposite(d) \in r.on
  <2> DEFINE s == RelayHi(r, Opposite(d), 0)
  <2>1. Lowered(r, d) = s
    BY <1>2 DEF Lowered
  <2>2. /\ Good(s) /\ s.swapped = r.swapped /\ s.on = r.on \ {Opposite(d)}
        /\ SameDrive(r, s) \/ (s.on = {} /\ s.stopAge = 0)
    BY <1>1, RelayLow
  <2>3. QED
    BY <2>1, <2>2 DEF Leads
<1>3. CASE Opposite(d) \notin r.on
  BY <1>3 DEF Lowered, Leads, SameDrive
<1>4. QED
  BY <1>2, <1>3

(* A start that does not wait has a motor that rested.                     *)
LEMMA StartWaits ==
  ASSUME NEW r, Good(r), ~(StartWait(r) > MinDelay), r.on = {}
  PROVE  r.stopAge >= Pause
<1>1. r.startAge = Unset /\ r.stopAge \in Nat
  BY DEF Good, AgesTell
<1>2. CASE r.stopAge < StartDelay
  <2>1. StartWait(r) = StartDelay - r.stopAge + 1
    BY <1>1, <1>2 DEF StartWait, Unset
  <2>2. QED
    BY <1>1, <2>1, ConstantAssumption DEF Pause
<1>3. CASE ~(r.stopAge < StartDelay)
  BY <1>1, <1>3, ConstantAssumption DEF Pause
<1>4. QED
  BY <1>2, <1>3

(* A start leads: it waits, or closes the one relay when the pause is      *)
(* over.                                                                   *)
LEMMA StartGood ==
  ASSUME NEW r, Good(r), NEW d \in Direction
  PROVE  LET s == Start(r, d) IN  Good(s) /\ Leads(r, s)
<1> DEFINE asked == Requested(r, d)
           low == Lowered(asked, d)
           wait == StartWait(low)
           high == RelayHi(low, d, 1)
           unready == [high EXCEPT !.buttonReq = FALSE]
<1>1. Aside(r, asked)
  BY DEF Good, Shaped, Aside, SameDrive, Requested, Fields
<1>2. Good(asked) /\ Leads(r, asked)
  BY <1>1, AsideGood
<1> HIDE DEF asked
<1>3. Good(low) /\ Leads(asked, low) /\ Opposite(d) \notin low.on
  BY <1>2, LoweredGood
<1> HIDE DEF low
<1>4. Leads(r, low)
  BY <1>2, <1>3, LeadsTwice
<1>5. Start(r, d) = IF wait > MinDelay THEN Delayed(low, d, wait)
                    ELSE IF low.addMargin = 0 /\ low.position = EndOf(d) THEN low
                    ELSE unready
  BY DEF Start, asked, low
<1>6. CASE wait > MinDelay
  <2>1. d \in Request
    BY DEF Request, Direction
  <2>2. Good(Delayed(low, d, wait)) /\ Leads(low, Delayed(low, d, wait))
    BY <1>3, <2>1, DelayedGood
  <2>3. QED
    BY <1>3, <1>4, <1>5, <1>6, <2>2, LeadsTwice
<1>7. CASE ~(wait > MinDelay)
  <2>1. /\ Good(high) /\ high.swapped = low.swapped /\ high.on = {d}
        /\ low.on # {} => SameDrive(low, high)
        /\ low.on = {} => high.startAge = 0
    BY <1>3, RelayHigh
  <2> HIDE DEF high
  <2>2. Leads(low, high)
    BY <1>3, <1>7, <2>1, StartWaits DEF Leads
  <2>3. Aside(high, unready)
    BY <2>1, UnreadyAside DEF Good
  <2>4. Good(unready) /\ Leads(high, unready)
    BY <2>1, <2>3, AsideGood
  <2>5. Leads(low, unready)
    BY <2>1, <2>2, <2>4, LeadsTwice
  <2>6. Leads(r, unready)
    BY <1>3, <1>4, <2>5, LeadsTwice
  <2>7. QED
    BY <1>3, <1>4, <1>5, <1>7, <2>4, <2>6
<1>8. QED
  BY <1>6, <1>7

(* Whatever is asked of set_relay leads.                                   *)
LEMMA SetRelayGood ==
  ASSUME NEW r, Good(r), NEW value \in Request, NEW cancel, NEW stopDelay
  PROVE  LET s == SetRelay(r, value, cancel, stopDelay)
         IN  Good(s) /\ Leads(r, s) /\ (value = Off => Calm(r, s))
<1> DEFINE a == Aborted(r)
           c == IF cancel THEN Cancelled(a) ELSE a
           t == TriggerDisarmed(c)
           s == IF value = Off THEN Stop(t, stopDelay) ELSE Start(t, value)
<1>1. SetRelay(r, value, cancel, stopDelay) = s
  BY DEF SetRelay
<1>2. Aside(r, a) /\ Calm(r, a)
  BY AbortedAside DEF Good
<1> HIDE DEF a
<1>3. Aside(a, c) /\ Calm(a, c)
  <2>1. CASE cancel
    BY <1>2, <2>1, CancelledAside DEF Aside
  <2>2. CASE ~cancel
    BY <1>2, <2>2 DEF Aside, SameDrive, Calm
  <2>3. QED
    BY <2>1, <2>2
<1> HIDE DEF c
<1>4. Good(c) /\ Leads(r, c) /\ Calm(r, c)
  BY <1>2, <1>3, AsideTwice, AsideGood, CalmTwice
<1>5. Good(t) /\ Leads(c, t) /\ Calm(c, t)
  BY <1>4, DisarmedGood
<1> HIDE DEF t
<1>6. Leads(r, t) /\ Calm(r, t)
  BY <1>4, <1>5, LeadsTwice, CalmTwice
<1>7. Good(s) /\ Leads(t, s) /\ (value = Off => Calm(t, s))
  <2>1. CASE value = Off
    BY <1>5, <2>1, StopGood
  <2>2. CASE value # Off
    <3>1. value \in Direction
      BY <2>2 DEF Request, Direction
    <3>2. QED
      BY <1>5, <2>2, <3>1, StartGood
  <2>3. QED
    BY <2>1, <2>2
<1> HIDE DEF s
<1>8. QED
  BY <1>1, <1>5, <1>6, <1>7, LeadsTwice, CalmTwice

(* And so does the delayed trigger.                                        *)
LEMMA FiredGood ==
  ASSUME NEW r, Good(r)
  PROVE  /\ Good(Fired(r)) /\ Leads(r, Fired(r))
         /\ r.trigger.value = Off => Calm(r, Fired(r))
<1> DEFINE t == r.trigger
           s == [r EXCEPT !.trigger.left = Disarmed, !.trigger.autoCal = FALSE,
                          !.buttonReq = @ \/ t.autoCal]
<1>1. /\ s = [x \in Fields |-> s[x]] /\ SameDrive(r, s) /\ s.swapped = r.swapped
      /\ s.trigger = [r.trigger EXCEPT !.left = Disarmed, !.autoCal = FALSE]
      /\ Unasked(r, s)
  BY DEF Good, Shaped, SameDrive, Unasked, Fields
<1> HIDE DEF s
<1>2. /\ s.trigger = [x \in {"left", "value", "autoCal"} |-> s.trigger[x]]
      /\ s.trigger.value = r.trigger.value /\ s.trigger.left = Disarmed
      /\ r.trigger.value \in Request
  BY <1>1 DEF Good, Shaped
<1>3. Good(s) /\ Leads(r, s)
  BY <1>1, <1>2, TriggerGood
<1>4. Calm(r, s)
  BY <1>1, <1>2 DEF Calm, Quiet, Unasked, SameDrive
<1>5. Fired(r) = SetRelay(s, r.trigger.value, FALSE, 0)
  BY DEF Fired, s
<1>6. /\ Good(Fired(r)) /\ Leads(s, Fired(r))
      /\ r.trigger.value = Off => Calm(s, Fired(r))
  BY <1>2, <1>3, <1>5, SetRelayGood
<1>7. QED
  BY <1>3, <1>4, <1>6, LeadsTwice, CalmTwice

-----------------------------------------------------------------------------
(* The tick of supla_esp_gpio_rs_timer_cb, call by call.  A call is safe   *)
(* for the motor and keeps a quiet shutter quiet.                          *)
Safe(r, s) == Good(s) /\ Leads(r, s)
Sound(r, s) == Safe(r, s) /\ Calm(r, s)

(* Two safe calls are one safe call.                                       *)
LEMMA SafeTwice ==
  ASSUME NEW r, NEW s, NEW t, Safe(r, s), Safe(s, t)
  PROVE  Safe(r, t)
BY LeadsTwice DEF Safe

(* And two that leave a quiet shutter quiet are one.                       *)
LEMMA SoundTwice ==
  ASSUME NEW r, NEW s, NEW t, Sound(r, s), Sound(s, t)
  PROVE  Sound(r, t)
BY SafeTwice, CalmTwice DEF Sound

(* What leaves the relays alone is safe.                                   *)
LEMMA AsideSafe ==
  ASSUME NEW r, NEW s, Good(r), Aside(r, s)
  PROVE  Safe(r, s)
BY AsideGood DEF Safe

(* And sound, if it asks for nothing.                                      *)
LEMMA AsideSound ==
  ASSUME NEW r, NEW s, Good(r), Aside(r, s), Unasked(r, s)
  PROVE  Sound(r, s)
BY AsideSafe, AsideCalm DEF Sound

(* So is doing nothing.                                                    *)
LEMMA SameSound ==
  ASSUME NEW r, Good(r)
  PROVE  Sound(r, r)
BY DEF Sound, Safe, Good, Leads, SameDrive, Calm

(* A call of set_relay is safe.                                            *)
LEMMA SetRelaySafe ==
  ASSUME NEW r, Good(r), NEW value \in Request, NEW cancel, NEW stopDelay
  PROVE  Safe(r, SetRelay(r, value, cancel, stopDelay))
BY SetRelayGood DEF Safe

(* Switching off asks for nothing.                                         *)
LEMMA OffSound ==
  ASSUME NEW r, Good(r), NEW cancel, NEW stopDelay
  PROVE  Sound(r, SetRelay(r, Off, cancel, stopDelay))
<1>1. Off \in Request
  BY DEF Request
<1>2. QED
  BY <1>1, SetRelayGood DEF Safe, Sound

(* Turning to the flags, times and estimates.                              *)
LEMMA EstimateAside ==
  ASSUME NEW r, Shaped(r), NEW d, NEW full, NEW inMove
  PROVE  /\ Aside(r, MotorChecked(r, d, inMove)) /\ Unasked(r, MotorChecked(r, d, inMove))
         /\ Aside(r, LostChecked(r, inMove)) /\ Unasked(r, LostChecked(r, inMove))
         /\ Aside(r, TiltGuessed(r)) /\ Unasked(r, TiltGuessed(r))
         /\ Aside(r, Moved(r, d, full)) /\ Unasked(r, Moved(r, d, full))
         /\ Aside(r, Calibration(r)) /\ Unasked(r, Calibration(r))
         /\ Aside(r, Ready(r)) /\ Unasked(r, Ready(r))
         /\ Aside(r, Standing(r)) /\ Unasked(r, Standing(r))
         /\ Aside(r, PowerDetected(r, inMove)) /\ Unasked(r, PowerDetected(r, inMove))
         /\ Aside(r, AutocalChecked(r)) /\ Unasked(r, AutocalChecked(r))
<1>1. Aside(r, MotorChecked(r, d, inMove)) /\ Unasked(r, MotorChecked(r, d, inMove))
  BY DEF Shaped, Aside, SameDrive, Unasked, MotorChecked, Fields
<1>2. Aside(r, LostChecked(r, inMove)) /\ Unasked(r, LostChecked(r, inMove))
  BY DEF Shaped, Aside, SameDrive, Unasked, LostChecked, Fields
<1>3. Aside(r, TiltGuessed(r)) /\ Unasked(r, TiltGuessed(r))
  BY DEF Shaped, Aside, SameDrive, Unasked, TiltGuessed, Fields
<1>4. Aside(r, Moved(r, d, full)) /\ Unasked(r, Moved(r, d, full))
  BY DEF Shaped, Aside, SameDrive, Unasked, Moved, Fields
<1>5. /\ Aside(r, Calibration(r)) /\ Unasked(r, Calibration(r))
      /\ Aside(r, Ready(r)) /\ Unasked(r, Ready(r))
      /\ Aside(r, Standing(r)) /\ Unasked(r, Standing(r))
  BY DEF Shaped, Aside, SameDrive, Unasked, Calibration, Ready, Standing, Fields
<1>6. Aside(r, PowerDetected(r, inMove)) /\ Unasked(r, PowerDetected(r, inMove))
  BY DEF Shaped, Aside, SameDrive, Unasked, PowerDetected, Fields
<1>7. Aside(r, AutocalChecked(r)) /\ Unasked(r, AutocalChecked(r))
  BY DEF Shaped, Aside, SameDrive, Unasked, AutocalChecked, Fields
<1>8. QED
  BY <1>1, <1>2, <1>3, <1>4, <1>5, <1>6, <1>7

(* Nor does choosing the times in force.                                   *)
LEMMA TimesSelectedSound ==
  ASSUME NEW r, Good(r)
  PROVE  Sound(r, TimesSelected(r))
<1> DEFINE t == [r EXCEPT !.auto = Zero, !.step = 0]
<1>1. Sound(r, Voided(r))
  BY SavedAside, AsideSound DEF Good
<1>2. Aside(r, t) /\ t.task = r.task /\ t.step = 0
  BY DEF Good, Shaped, Aside, SameDrive, Fields
<1>3. Sound(r, t)
  BY <1>2, AsideSafe DEF Sound, Calm, Quiet, Aside, SameDrive
<1> HIDE DEF t
<1>4. Sound(t, Voided(t))
  BY <1>3, SavedAside, AsideSound DEF Sound, Safe, Good
<1>5. Sound(r, Voided(t))
  BY <1>3, <1>4, SoundTwice
<1>6. QED
  BY <1>1, <1>5, SameSound DEF TimesSelected, t

(* Nor does resetting the position at an end.                              *)
LEMMA CalibratedSound ==
  ASSUME NEW r, Good(r), NEW d, NEW full
  PROVE  Sound(r, Calibrated(r, d, full))
<1> DEFINE s == [r EXCEPT !.flags = @ \cup {"InProgress"}]
           end == At(s, EndOf(d))
<1>1. s = Calibration(r)
  BY DEF Calibration
<1>2. Sound(r, s)
  BY <1>1, EstimateAside, AsideSound DEF Good
<1>3. Calibrated(r, d, full) \in {r, Voided(s), StateSaved(end)}
  BY DEF Calibrated
<1> HIDE DEF s
<1>4. Sound(s, Voided(s)) /\ Sound(s, end)
  BY <1>2, SavedAside, AtAside, AsideSound DEF Sound, Safe, Good
<1> HIDE DEF end
<1>5. Sound(end, StateSaved(end))
  BY <1>4, SavedAside, AsideSound DEF Sound, Safe, Good
<1>6. Sound(s, StateSaved(end))
  BY <1>4, <1>5, SoundTwice
<1>7. Sound(r, Voided(s)) /\ Sound(r, StateSaved(end))
  BY <1>2, <1>4, <1>6, SoundTwice
<1>8. QED
  BY <1>3, <1>7, SameSound

(* Moving position and tilt may switch off, and asks for nothing.          *)
LEMMA PositionMovedSound ==
  ASSUME NEW r, Good(r), NEW d, NEW full, NEW inMove
  PROVE  Sound(r, PositionMoved(r, d, full, inMove))
<1> DEFINE g == TiltGuessed(r)
           m == Moved(g, d, full)
           s == IF m.position # g.position \/ m.tilt # g.tilt THEN StateSaved(m) ELSE m
           lost == LostChecked(s, inMove)
           stopped == SetRelay(lost, Off, FALSE, 0)
<1>1. PositionMoved(r, d, full, inMove) \in {r, s, stopped}
  BY DEF PositionMoved
<1>2. Sound(r, g)
  BY EstimateAside, AsideSound DEF Good
<1> HIDE DEF g
<1>3. Sound(g, m)
  BY <1>2, EstimateAside, AsideSound DEF Sound, Safe, Good
<1> HIDE DEF m
<1>4. Sound(m, s)
  BY <1>3, SavedAside, AsideSound, SameSound DEF Sound, Safe, Good
<1>5. Sound(r, s)
  <2>1. Sound(r, m)
    BY <1>2, <1>3, SoundTwice
  <2>2. QED
    BY <1>4, <2>1, SoundTwice
<1> HIDE DEF s
<1>6. Sound(s, lost)
  BY <1>5, EstimateAside, AsideSound DEF Sound, Safe, Good
<1> HIDE DEF lost
<1>7. Sound(lost, stopped)
  BY <1>6, OffSound DEF Sound, Safe
<1>8. Sound(r, stopped)
  <2>1. Sound(r, lost)
    BY <1>5, <1>6, SoundTwice
  <2>2. QED
    BY <1>7, <2>1, SoundTwice
<1>9. QED
  BY <1>1, <1>5, <1>8, SameSound

(* A change of the calibration leaves the relays alone.                    *)
LEMMA CalibrationFailedSafe ==
  ASSUME NEW r, Good(r)
  PROVE  Safe(r, CalibrationFailed(r))
<1> DEFINE t == [r EXCEPT !.step = 0, !.auto = Zero,
                          !.flags = (@ \cup {"Failed"}) \ {"InProgress"}]
           v == Voided(t)
<1>1. Aside(r, t)
  BY DEF Good, Shaped, Aside, SameDrive, Fields
<1> HIDE DEF t
<1>2. Aside(t, v)
  BY <1>1, SavedAside DEF Aside
<1> HIDE DEF v
<1>3. Safe(r, v)
  BY <1>1, <1>2, AsideTwice, AsideSafe
<1>4. Sound(v, SetRelay(v, Off, TRUE, 0))
  BY <1>3, OffSound DEF Safe
<1>5. CalibrationFailed(r) = SetRelay(v, Off, TRUE, 0)
  BY DEF CalibrationFailed, v, t
<1>6. QED
  BY <1>3, <1>4, <1>5, SafeTwice DEF Sound

(* A calibration that is ready, whatever was noted before, may set relays. *)
LEMMA ReadySafe ==
  ASSUME NEW r, NEW s, Good(r), Aside(r, s), NEW value \in Request
  PROVE  Safe(r, SetRelay(Ready(s), value, FALSE, 0))
<1>1. Aside(s, Ready(s))
  BY EstimateAside DEF Aside
<1>2. Safe(r, Ready(s))
  BY <1>1, AsideTwice, AsideSafe
<1>3. Safe(Ready(s), SetRelay(Ready(s), value, FALSE, 0))
  BY <1>2, SetRelaySafe DEF Safe
<1>4. QED
  BY <1>2, <1>3, SafeTwice

(* At an end the calibration goes on in the other direction.               *)
LEMMA EndReachedSafe ==
  ASSUME NEW r, Good(r)
  PROVE  Safe(r, EndReached(r))
<1> DEFINE took == r.ran[StepDirection(r.step)] \div N
           one == [r EXCEPT !.step = 2]
           two == [r EXCEPT !.step = 3, !.auto[Down] = took]
           three == [r EXCEPT !.step = 0, !.auto[Up] = took, !.flags = @ \ {"InProgress"}]
           end == At(three, Open)
           kept == StateSaved(end)
           saved == CfgSaved(kept)
<1>1. Off \in Request /\ Down \in Request /\ Up \in Request
  BY DEF Request
<1>2. EndReached(r) \in {SetRelay(Ready(one), Down, FALSE, 0), CalibrationFailed(r),
                         SetRelay(Ready(two), Up, FALSE, 0),
                         SetRelay(Ready(saved), Off, FALSE, 0)}
  BY DEF EndReached
<1>3. Aside(r, one)
  BY DEF Good, Shaped, Aside, SameDrive, Fields
<1>4. Aside(r, two)
  BY DEF Good, Shaped, Aside, SameDrive, Fields
<1>5. Aside(r, three)
  BY DEF Good, Shaped, Aside, SameDrive, Fields
<1> HIDE DEF one, two, three
<1>6. Aside(three, end)
  BY <1>5, AtAside DEF Aside
<1> HIDE DEF end
<1>7. Aside(end, kept)
  BY <1>6, SavedAside DEF Aside
<1> HIDE DEF kept
<1>8. Aside(kept, saved)
  BY <1>7, SavedAside DEF Aside
<1> HIDE DEF saved
<1>9. Aside(r, saved)
  <2>1. Aside(r, end)
    BY <1>5, <1>6, AsideTwice
  <2>2. Aside(r, kept)
    BY <1>7, <2>1, AsideTwice
  <2>3. QED
    BY <1>8, <2>2, AsideTwice
<1>10. /\ Safe(r, SetRelay(Ready(one), Down, FALSE, 0))
       /\ Safe(r, SetRelay(Ready(two), Up, FALSE, 0))
       /\ Safe(r, SetRelay(Ready(saved), Off, FALSE, 0))
  BY <1>1, <1>3, <1>4, <1>9, ReadySafe
<1>11. QED
  BY <1>2, <1>10, CalibrationFailedSafe

(* Calibration drives safely, and only while it is under way.              *)
LEMMA AutocalibratedSound ==
  ASSUME NEW r, Good(r), NEW inMove
  PROVE  Sound(r, Autocalibrated(r, inMove))
<1> DEFINE c == Calibration(r)
           done == [r EXCEPT !.flags = @ \ {"InProgress"}]
<1>1. CASE r.step = 0
  <2>1. Autocalibrated(r, inMove) = done
    BY <1>1 DEF Autocalibrated
  <2>2. Aside(r, done) /\ Unasked(r, done)
    BY DEF Good, Shaped, Aside, SameDrive, Unasked, Fields
  <2>3. QED
    BY <2>1, <2>2, AsideSound
<1>2. CASE r.step # 0
  <2>1. Autocalibrated(r, inMove) \in {c, EndReached(c), CalibrationFailed(c)}
    BY <1>2 DEF Autocalibrated
  <2>2. Safe(r, c)
    BY EstimateAside, AsideSound DEF Good, Sound
  <2> HIDE DEF c
  <2>3. Safe(c, EndReached(c)) /\ Safe(c, CalibrationFailed(c))
    BY <2>2, EndReachedSafe, CalibrationFailedSafe DEF Safe
  <2>4. Safe(r, Autocalibrated(r, inMove))
    BY <2>1, <2>2, <2>3, SafeTwice
  <2>5. ~Quiet(r)
    BY <1>2 DEF Quiet
  <2>6. QED
    BY <2>4, <2>5 DEF Sound, Calm
<1>3. QED
  BY <1>1, <1>2

(* What the timer does in one direction asks for nothing of its own.       *)
LEMMA RunningSound ==
  ASSUME NEW r, Good(r), NEW d, NEW full, NEW inMove
  PROVE  Sound(r, Running(r, d, full, inMove))
<1> DEFINE a == [r EXCEPT !.ran[d] = AtMost(LongestRun, @ + Counted(r)),
                          !.ran[Opposite(d)] = 0]
           b == MotorChecked(a, d, inMove)
           c == Autocalibrated(b, inMove)
           f == InForce(c, full)[d]
           k == Calibrated(c, d, f)
           m == PositionMoved(k, d, f, inMove)
<1>1. Running(r, d, full, inMove) = m
  BY DEF Running
<1>2. Aside(r, a) /\ Unasked(r, a)
  BY DEF Good, Shaped, Aside, SameDrive, Unasked, Fields
<1>3. Sound(r, a)
  BY <1>2, AsideSound
<1> HIDE DEF a
<1>4. Sound(a, b)
  BY <1>3, EstimateAside, AsideSound DEF Sound, Safe, Good
<1> HIDE DEF b
<1>5. Sound(b, c)
  BY <1>4, AutocalibratedSound DEF Sound, Safe
<1> HIDE DEF c, f
<1>6. Sound(c, k)
  BY <1>5, CalibratedSound DEF Sound, Safe
<1> HIDE DEF k
<1>7. Sound(k, m)
  BY <1>6, PositionMovedSound DEF Sound, Safe
<1> HIDE DEF m
<1>8. Sound(r, b) /\ Sound(b, k)
  BY <1>3, <1>4, <1>5, <1>6, SoundTwice
<1>9. Sound(r, k)
  BY <1>8, SoundTwice
<1>10. QED
  BY <1>1, <1>7, <1>9, SoundTwice

(* A task is written down, and the relays are set for it.                  *)
LEMMA GoSafe ==
  ASSUME NEW r, NEW s, Good(r), Aside(r, s), NEW d \in Request
  PROVE  Safe(r, SetRelay([s EXCEPT !.task.direction = d], d, FALSE, 0))
<1> DEFINE t == [s EXCEPT !.task.direction = d]
<1>1. Aside(s, t)
  BY DEF Shaped, Aside, SameDrive, Fields
<1> HIDE DEF t
<1>2. Safe(r, t)
  BY <1>1, AsideTwice, AsideSafe
<1>3. Safe(t, SetRelay(t, d, FALSE, 0))
  BY <1>2, SetRelaySafe DEF Safe
<1>4. Safe(r, SetRelay(t, d, FALSE, 0))
  BY <1>2, <1>3, SafeTwice
<1>5. QED
  BY <1>4 DEF t

(* Its own state is nothing to the relays.                                 *)
LEMMA TaskStateAside ==
  ASSUME NEW r, Shaped(r), NEW state, NEW d
  PROVE  /\ Aside(r, [r EXCEPT !.task.state = state])
         /\ Aside(r, [r EXCEPT !.task.direction = d])
         /\ Aside(r, [r EXCEPT !.task.state = state, !.task.direction = d])
BY DEF Shaped, Aside, SameDrive, Fields

(* The end of a task switches off.                                         *)
LEMMA TaskDoneSafe ==
  ASSUME NEW r, Good(r)
  PROVE  Safe(r, TaskDone(r))
<1> DEFINE t == [r EXCEPT !.task.state = Inactive, !.task.direction = Off]
<1>1. Safe(r, t)
  BY TaskStateAside, AsideSafe DEF Good
<1> HIDE DEF t
<1>2. Safe(t, SetRelay(t, Off, FALSE, 0))
  BY <1>1, OffSound DEF Safe, Sound
<1>3. Safe(r, SetRelay(t, Off, FALSE, 0))
  BY <1>1, <1>2, SafeTwice
<1>4. QED
  BY <1>3 DEF TaskDone, t

(* A task starts towards its position,                                     *)
LEMMA TaskStartedSafe ==
  ASSUME NEW r, Good(r), NEW full
  PROVE  Safe(r, TaskStarted(r, full))
<1> DEFINE s == [r EXCEPT !.task.state = Setting]
           go(d) == SetRelay([s EXCEPT !.task.direction = d], d, FALSE, 0)
<1>1. TaskStarted(r, full) \in {go(Up), go(Down), s}
  BY DEF TaskStarted
<1>2. Aside(r, s)
  BY TaskStateAside DEF Good
<1> HIDE DEF s
<1>3. Up \in Request /\ Down \in Request
  BY DEF Request
<1>4. Safe(r, go(Up)) /\ Safe(r, go(Down)) /\ Safe(r, s)
  BY <1>2, <1>3, GoSafe, AsideSafe
<1>5. QED
  BY <1>1, <1>4

(* or towards its tilt.                                                    *)
LEMMA TiltStartedSafe ==
  ASSUME NEW r, Good(r)
  PROVE  Safe(r, TiltStarted(r))
<1> DEFINE s == [r EXCEPT !.task.state = SettingTilt]
           go(d) == SetRelay([s EXCEPT !.task.direction = d], d, FALSE, 0)
<1>1. TiltStarted(r) \in {go(Up), go(Down), TaskDone(s)}
  BY DEF TiltStarted
<1>2. Aside(r, s)
  BY TaskStateAside DEF Good
<1> HIDE DEF s
<1>3. Up \in Request /\ Down \in Request
  BY DEF Request
<1>4. Safe(r, go(Up)) /\ Safe(r, go(Down)) /\ Safe(r, s)
  BY <1>2, <1>3, GoSafe, AsideSafe
<1>5. Safe(r, TaskDone(s))
  BY <1>4, TaskDoneSafe, SafeTwice DEF Safe
<1>6. QED
  BY <1>1, <1>4, <1>5

(* When the position is reached, the tilt is set.                          *)
LEMMA PositionSetSafe ==
  ASSUME NEW r, Good(r), NEW inMove
  PROVE  Safe(r, PositionSet(r, inMove))
<1> DEFINE whole == \/ r.task.position = 0
                    \/ r.task.position = N /\ (FreeOfTilt(r) \/ r.task.tilt = N)
           l == IF whole THEN LostChecked(r, inMove) ELSE r
           s == [l EXCEPT !.task.direction = Off]
<1>1. PositionSet(r, inMove) \in {s, SetRelay(s, Off, FALSE, 0)}
  BY DEF PositionSet
<1>2. Safe(r, l)
  BY EstimateAside, AsideSafe, SameSound DEF Good, Sound
<1> HIDE DEF l
<1>3. Safe(l, s)
  BY <1>2, TaskStateAside, AsideSafe DEF Safe, Good
<1>4. Safe(r, s)
  BY <1>2, <1>3, SafeTwice
<1> HIDE DEF s
<1>5. Safe(s, SetRelay(s, Off, FALSE, 0))
  BY <1>4, OffSound DEF Sound, Safe
<1>6. Safe(r, SetRelay(s, Off, FALSE, 0))
  BY <1>4, <1>5, SafeTwice
<1>7. QED
  BY <1>1, <1>4, <1>6

(* A calibration starts through set_relay.                                 *)
LEMMA AutocalStartedSafe ==
  ASSUME NEW r, Good(r)
  PROVE  Safe(r, AutocalStarted(r))
<1> DEFINE t == [r EXCEPT !.perform = FALSE, !.step = 1]
<1>1. Aside(r, t)
  BY DEF Good, Shaped, Aside, SameDrive, Fields
<1> HIDE DEF t
<1>2. Up \in Request
  BY DEF Request
<1>3. Safe(r, SetRelay(Ready(t), Up, FALSE, 0))
  BY <1>1, <1>2, ReadySafe
<1>4. QED
  BY <1>3 DEF AutocalStarted, t

(* Without a task nothing is driven.                                       *)
LEMMA TaskProcessedSound ==
  ASSUME NEW r, Good(r), NEW full, NEW inMove
  PROVE  Sound(r, TaskProcessed(r, full, inMove))
<1> DEFINE a == IF r.task.state = Active THEN TaskStarted(r, full) ELSE r
           b == IF a.task.state = Setting /\ a.task.direction = Off
                THEN TiltStarted(a) ELSE a
           c == IF b.task.state = Setting /\ Reached(b, full) /\ ~RunsOn(b, full, inMove)
                THEN PositionSet(b, inMove) ELSE b
           nearer == IF Percent(r.task.position) < 50 THEN Up ELSE Down
           near == SetRelay(r, nearer, FALSE, 0)
<1>1. CASE NothingToDo(r)
  BY <1>1, SameSound DEF TaskProcessed
<1>2. CASE ~NothingToDo(r)
  <2>1. TaskProcessed(r, full, inMove) \in {r, AutocalStarted(r), near, c, TaskDone(c)}
    BY <1>2 DEF TaskProcessed
  <2>2. Safe(r, r)
    BY SameSound DEF Sound
  <2>3. Safe(r, a)
    BY <2>2, TaskStartedSafe
  <2> HIDE DEF a
  <2>4. Safe(a, b)
    BY <2>3, TiltStartedSafe, SameSound DEF Safe, Sound
  <2> HIDE DEF b
  <2>5. Safe(b, c)
    BY <2>4, PositionSetSafe, SameSound DEF Safe, Sound
  <2> HIDE DEF c
  <2>6. Safe(c, TaskDone(c))
    BY <2>5, TaskDoneSafe DEF Safe
  <2>7. Safe(r, b)
    BY <2>3, <2>4, SafeTwice
  <2>8. Safe(r, c)
    BY <2>5, <2>7, SafeTwice
  <2>9. nearer \in Request
    BY DEF Request
  <2>10. Safe(r, near)
    BY <2>9, SetRelaySafe
  <2>11. Safe(r, TaskDone(c))
    BY <2>6, <2>8, SafeTwice
  <2>12. Safe(r, TaskProcessed(r, full, inMove))
    BY <2>1, <2>2, <2>8, <2>10, <2>11, AutocalStartedSafe
  <2>13. ~Quiet(r)
    BY <1>2 DEF NothingToDo, Quiet
  <2>14. QED
    BY <2>12, <2>13 DEF Sound, Calm
<1>3. QED
  BY <1>1, <1>2

(* Telling the server asks for nothing.                                    *)
LEMMA ReportedSound ==
  ASSUME NEW r, Good(r)
  PROVE  Sound(r, Reported(r))
<1> DEFINE early == [r EXCEPT !.comm = @ + 1]
           s == Sent([r EXCEPT !.comm = 0])
<1>1. Reported(r) \in {early, s, SetRelay(s, Off, FALSE, 0)}
  BY DEF Reported
<1>2. Aside(r, early) /\ Unasked(r, early) /\ Aside(r, s) /\ Unasked(r, s)
  BY DEF Good, Shaped, Aside, SameDrive, Unasked, Sent, Fields
<1> HIDE DEF early, s
<1>3. Sound(r, early) /\ Sound(r, s)
  BY <1>2, AsideSound
<1>4. Sound(s, SetRelay(s, Off, FALSE, 0))
  BY <1>3, OffSound DEF Sound, Safe
<1>5. Sound(r, SetRelay(s, Off, FALSE, 0))
  BY <1>3, <1>4, SoundTwice
<1>6. QED
  BY <1>1, <1>3, <1>5

(* The whole timer: safe, and sound when there is nothing to do.           *)
LEMMA TimerCbSound ==
  ASSUME NEW r, Good(r), NEW inMove
  PROVE  Sound(r, TimerCb(r, inMove))
<1> DEFINE s    == TimesSelected(r)
           full == IF AutocalEnabled(r) THEN s.auto ELSE s.full
           p    == PowerDetected(s, inMove)
           m    == CASE Up \in p.on -> Running(p, Up, full, inMove)
                     [] p.on = {Down} -> Running(p, Down, full, inMove)
                     [] OTHER -> Standing(p)
           c    == AutocalChecked(m)
           g    == InForce(m, full)
           t    == TaskProcessed(c, g, inMove)
<1>1. TimerCb(r, inMove) = Reported(t)
  BY DEF TimerCb
<1>2. Sound(r, s)
  BY TimesSelectedSound
<1> HIDE DEF s, full
<1>3. Sound(s, p)
  BY <1>2, EstimateAside, AsideSound DEF Sound, Safe, Good
<1> HIDE DEF p
<1>4. Sound(p, m)
  <2>1. Good(p)
    BY <1>3 DEF Sound, Safe
  <2>2. m \in {Running(p, Up, full, inMove), Running(p, Down, full, inMove), Standing(p)}
    OBVIOUS
  <2>3. Sound(p, Standing(p))
    BY <2>1, EstimateAside, AsideSound DEF Good
  <2>4. QED
    BY <2>1, <2>2, <2>3, RunningSound
<1> HIDE DEF m, g
<1>5. Sound(m, c)
  BY <1>4, EstimateAside, AsideSound DEF Sound, Safe, Good
<1> HIDE DEF c
<1>6. Sound(c, t)
  BY <1>5, TaskProcessedSound DEF Sound, Safe
<1> HIDE DEF t
<1>7. Sound(t, Reported(t))
  BY <1>6, ReportedSound DEF Sound, Safe
<1>8. Sound(r, p)
  BY <1>2, <1>3, SoundTwice
<1>9. Sound(p, c)
  BY <1>4, <1>5, SoundTwice
<1>10. Sound(r, c)
  BY <1>8, <1>9, SoundTwice
<1>11. Sound(r, t)
  BY <1>6, <1>10, SoundTwice
<1>12. QED
  BY <1>1, <1>7, <1>11, SoundTwice

-----------------------------------------------------------------------------
(* What the shutter is asked.                                              *)
LEMMA TimesAppliedAside ==
  ASSUME NEW r, Shaped(r), NEW t
  PROVE  Aside(r, TimesApplied(r, t))
<1> DEFINE u == [r EXCEPT !.full = t, !.auto = Zero]
           s == IF TimesReset(r, t) THEN Retimed(r, t) ELSE r
           p == [s EXCEPT !.perform = @ /\ s.full = Zero]
           k == StateSaved(p)
<1>1. Aside(r, u)
  BY DEF Shaped, Aside, SameDrive, Fields
<1>2. Aside(u, Voided(u))
  BY <1>1, SavedAside DEF Aside
<1>3. Aside(r, r)
  BY DEF Aside, SameDrive
<1>4. Aside(r, s)
  BY <1>1, <1>2, <1>3, AsideTwice DEF Retimed
<1> HIDE DEF s
<1>5. Aside(s, p)
  BY <1>4 DEF Shaped, Aside, SameDrive, Fields
<1>6. TimesApplied(r, t) = CfgSaved(k)
  BY DEF TimesApplied, s
<1> HIDE DEF p
<1>7. Aside(p, k)
  BY <1>5, SavedAside DEF Aside
<1> HIDE DEF k
<1>8. Aside(k, CfgSaved(k))
  BY <1>7, SavedAside DEF Aside
<1>9. Aside(r, p) /\ Aside(p, CfgSaved(k))
  BY <1>4, <1>5, <1>7, <1>8, AsideTwice
<1>10. QED
  BY <1>6, <1>9, AsideTwice

(* Nor does adding a task.                                                 *)
LEMMA TaskAddedAside ==
  ASSUME NEW r, Shaped(r), NEW p, NEW t
  PROVE  Aside(r, TaskAdded(r, p, t))
<1>1. PICK task : TaskAdded(r, p, t) \in {r, StateSaved([r EXCEPT !.task = task])}
  BY DEF TaskAdded
<1> DEFINE s == [r EXCEPT !.task = task]
<1>2. Aside(r, s)
  BY DEF Shaped, Aside, SameDrive, Fields
<1> HIDE DEF s
<1>3. Aside(s, StateSaved(s))
  BY <1>2, SavedAside DEF Aside
<1>4. Aside(r, StateSaved(s)) /\ Aside(r, r)
  BY <1>2, <1>3, AsideTwice DEF Aside, SameDrive
<1>5. QED
  BY <1>1, <1>4 DEF s

(* Moving step by step is a call of set_relay or a task.                   *)
LEMMA StepByStepSafe ==
  ASSUME NEW r, Good(r)
  PROVE  Safe(r, StepByStep(r))
<1> DEFINE last == IF r.lastDirection # Off THEN r.lastDirection
                   ELSE IF Percent(r.position - 1) > 50 THEN Down ELSE Up
           s == IF Value(r) = Off THEN [r EXCEPT !.lastDirection = last] ELSE r
           d == Opposite(last)
<1>1. StepByStep(r) = SetRelay(s, OrStop(r, d), TRUE, 0)
  BY DEF StepByStep
<1>2. Aside(r, s)
  BY DEF Good, Shaped, Aside, SameDrive, Fields
<1> HIDE DEF s
<1>3. Safe(r, s)
  BY <1>2, AsideSafe
<1>4. OrStop(r, d) \in Request
  BY DEF OrStop, Opposite, Request
<1> HIDE DEF d
<1>5. Safe(s, SetRelay(s, OrStop(r, d), TRUE, 0))
  BY <1>3, <1>4, SetRelaySafe DEF Safe
<1>6. Safe(r, SetRelay(s, OrStop(r, d), TRUE, 0))
  BY <1>3, <1>5, SafeTwice
<1>7. QED
  BY <1>1, <1>6

(* The relays are wired to the motor one way or the other.                 *)
Wired(r) == IF r.swapped THEN {Opposite(d) : d \in r.on} ELSE r.on
Rest(r) == IF r.stopAge = Unset THEN 0 ELSE AtMost(Pause, r.stopAge)

(* One contact is closed or none, whichever way the relays are wired.      *)
LEMMA WiredIs ==
  ASSUME NEW r, Good(r)
  PROVE  /\ r.on = {} => Wired(r) = {}
         /\ r.on # {} => \E c \in Direction : Wired(r) = {c}
<1>1. CASE r.on = {}
  BY <1>1 DEF Wired
<1>2. CASE r.on = {Up}
  BY <1>2 DEF Wired, Direction, Opposite
<1>3. CASE r.on = {Down}
  BY <1>3 DEF Wired, Direction, Opposite
<1>4. QED
  BY <1>1, <1>2, <1>3 DEF Good, AgesTell

(* Swapping the direction leaves the contacts as they are.                 *)
LEMMA SwappedGood ==
  ASSUME NEW r, Good(r)
  PROVE  LET s == MotorSwapped(r)
         IN  /\ Good(s) /\ Wired(s) = Wired(r)
             /\ ((s.on = {}) <=> (r.on = {})) /\ s.stopAge = r.stopAge
<1> DEFINE s == MotorSwapped(r)
           over == {Opposite(d) : d \in r.on}
<1>1. /\ s = [x \in Fields |-> s[x]] /\ s.trigger = r.trigger
      /\ s.on = over /\ s.swapped = ~r.swapped
      /\ s.startAge = r.startAge /\ s.stopAge = r.stopAge
  BY DEF Good, Shaped, MotorSwapped, Fields
<1>2. /\ r.on = {} => over = {}
      /\ r.on = {Up} => over = {Down}
      /\ r.on = {Down} => over = {Up}
  BY DEF Opposite, Up, Down
<1>3. {Opposite(d) : d \in over} = r.on
  BY <1>2 DEF Good, AgesTell, Opposite, Up, Down
<1> HIDE DEF s, over
<1>4. Good(s) /\ (s.on = {} <=> r.on = {})
  BY <1>1, <1>2 DEF Good, Shaped, AgesTell
<1>5. Wired(s) = Wired(r)
  BY <1>1, <1>3 DEF Wired, over
<1>6. QED
  BY <1>1, <1>4, <1>5 DEF s

(* A tick of the clock ages both ages.                                     *)
LEMMA AgedGood ==
  ASSUME NEW r, Good(r)
  PROVE  LET s == Aged(r)
         IN  /\ Good(s) /\ s.swapped = r.swapped /\ s.on = r.on /\ Calm(r, s)
             /\ s.on = {} => s.stopAge <= r.stopAge + 1
<1> DEFINE s == Aged(r)
           longest == Window + StopDelay + FilterTime
<1>1. /\ s = [x \in Fields |-> s[x]] /\ s.on = r.on /\ s.swapped = r.swapped
      /\ s.startAge = Older(r.startAge, longest)
      /\ s.stopAge = Older(r.stopAge, StartDelay)
      /\ s.trigger = [r.trigger EXCEPT !.left = IF @ > 0 THEN @ - 1 ELSE @]
      /\ Unasked(r, s)
  BY DEF Good, Shaped, Aged, Unasked, Fields
<1>2. /\ s.trigger = [x \in {"left", "value", "autoCal"} |-> s.trigger[x]]
      /\ s.trigger.value = r.trigger.value
      /\ r.trigger.left = Disarmed => s.trigger.left = Disarmed
  BY <1>1 DEF Good, Shaped, Disarmed
<1>3. longest \in Nat /\ StartDelay \in Nat
  BY ConstantAssumption
<1> HIDE DEF s, longest
<1>4. r.on = {} => /\ s.startAge = Unset /\ s.stopAge \in Nat
                   /\ s.stopAge <= r.stopAge + 1
  BY <1>1, <1>3 DEF Good, AgesTell, Older, AtMost, Unset
<1>5. r.on # {} => s.startAge \in Nat /\ s.stopAge = Unset
  BY <1>1, <1>3 DEF Good, AgesTell, Older, AtMost, Unset
<1>6. Good(s)
  BY <1>1, <1>2, <1>4, <1>5 DEF Good, Shaped, AgesTell
<1>7. Calm(r, s)
  BY <1>1, <1>2 DEF Calm, Quiet, Unasked
<1>8. QED
  BY <1>1, <1>4, <1>6, <1>7 DEF s

-----------------------------------------------------------------------------
(* A step of the shutter is one of the motor or none, from the record at   *)
(* its beginning or the same one a tick older, or seen the other way up.   *)
LEMMA MotorStep ==
  ASSUME Good(rs), Good(rs'), NEW r, Good(r), Wired(r) = Wired(rs),
         (r.on = {}) <=> (rs.on = {}), r.on = {} => r.stopAge <= rs.stopAge + 1,
         Leads(r, rs') \/ (rs'.on = {} /\ rs'.stopAge = 0)
  PROVE  [M!Next]_(M!vars)
<1> DEFINE closed == Wired(rs)
           rest == Rest(rs)
           closed1 == Wired(rs')
           rest1 == Rest(rs')
<1>1. Pause \in Nat \ {0}
  BY ConstantAssumption DEF Pause
<1>2. /\ rest \in Nat /\ rest1 \in Nat
      /\ rs.on # {} => rest = 0
      /\ rs'.on # {} => rest1 = 0
  BY <1>1 DEF Good, AgesTell, Rest, AtMost, Unset
<1>3. /\ rs.on = {} => closed = {}
      /\ rs.on # {} => closed # {}
      /\ rs'.on = {} => closed1 = {}
      /\ rs'.on # {} => \E c \in Direction : closed1 = {c}
  BY WiredIs
<1>4. CASE SameDrive(r, rs') /\ rs'.swapped = r.swapped
  <2>1. closed1 = closed /\ (rs'.on = {} <=> rs.on = {})
    BY <1>4 DEF SameDrive, Wired
  <2>2. CASE rs.on # {}
    BY <1>2, <2>1, <2>2 DEF M!vars, Wired, Rest
  <2>3. CASE rs.on = {}
    <3>1. rs'.stopAge <= rs.stopAge + 1 /\ rs.stopAge \in Nat /\ rs'.stopAge \in Nat
      BY <1>4, <2>1, <2>3 DEF SameDrive, Good, AgesTell
    <3>2. rest1 <= rest + 1
      BY <1>1, <3>1 DEF Rest, AtMost, Unset
    <3>3. M!Wait
      BY <1>2, <1>3, <2>1, <2>3, <3>2 DEF M!Wait, Wired, Rest
    <3>4. QED
      BY <3>3 DEF M!Next
  <2>4. QED
    BY <2>2, <2>3
<1>5. CASE rs'.on = {} /\ rs'.stopAge = 0
  <2>1. closed1 = {} /\ rest1 = 0
    BY <1>1, <1>3, <1>5 DEF Rest, AtMost, Unset
  <2>2. CASE rs.on # {}
    <3>1. M!Stop
      BY <1>3, <2>1, <2>2 DEF M!Stop, Wired, Rest
    <3>2. QED
      BY <3>1 DEF M!Next
  <2>3. CASE rs.on = {}
    <3>1. M!Wait
      BY <1>2, <1>3, <2>1, <2>3 DEF M!Wait, Wired, Rest
    <3>2. QED
      BY <3>1 DEF M!Next
  <2>4. QED
    BY <2>2, <2>3
<1>6. CASE r.on = {} /\ r.stopAge >= Pause /\ rs'.on # {}
  <2>1. PICK c \in Direction : closed1 = {c}
    BY <1>3, <1>6
  <2>2. rs.stopAge \in Nat /\ r.stopAge \in Nat /\ rs.stopAge + 1 >= Pause
    BY <1>1, <1>6 DEF Good, AgesTell
  <2>3. rest + 1 >= Pause
    BY <1>1, <2>2 DEF Rest, AtMost, Unset
  <2>4. M!Start(c)
    BY <1>2, <1>3, <1>6, <2>1, <2>3 DEF M!Start, Wired, Rest
  <2>5. QED
    BY <2>4 DEF M!Next
<1>7. QED
  BY <1>4, <1>5, <1>6 DEF Leads

(* What a handler does, as the motor sees it.                              *)
LEMMA HandlerStep ==
  ASSUME IInv, Safe(rs, rs')
  PROVE  IInv' /\ [M!Next]_(M!vars)
<1>1. rs.on = {} => rs.stopAge <= rs.stopAge + 1
  BY DEF IInv, Good, AgesTell
<1>2. QED
  BY <1>1, MotorStep DEF IInv, Safe

(* A restart opens both relays.                                            *)
LEMMA BootedGood ==
  ASSUME NEW f, NEW autoCal
  PROVE  Good(Booted(f, autoCal))
<1> DEFINE s == Booted(f, autoCal)
<1>1. /\ s = [x \in Fields |-> s[x]]
      /\ s.on = {} /\ s.startAge = Unset /\ s.stopAge = 0
      /\ s.trigger = [left |-> Disarmed, value |-> Off, autoCal |-> FALSE]
  BY DEF Booted, Fields
<1> HIDE DEF s
<1>2. Good(s)
  BY <1>1 DEF Good, Shaped, AgesTell, Request
<1>3. QED
  BY <1>2 DEF s

(* The power cut as a step of Motor.                                       *)
LEMMA PowerStep ==
  ASSUME IInv, PowerCycle
  PROVE  IInv' /\ [M!Next]_(M!vars)
<1>1. rs' = Booted(rs.flash, rs.autoCal)
  BY DEF PowerCycle, By
<1>2. Good(rs')
  BY <1>1, BootedGood
<1>3. rs'.on = {} /\ rs'.stopAge = 0
  BY <1>1 DEF Booted
<1>4. rs.on = {} => rs.stopAge <= rs.stopAge + 1
  BY DEF IInv, Good, AgesTell
<1>5. QED
  BY <1>2, <1>3, <1>4, MotorStep DEF IInv

(* The delayed trigger as a step of Motor.                                 *)
LEMMA TriggerStep ==
  ASSUME IInv, TriggerFires
  PROVE  IInv' /\ [M!Next]_(M!vars) /\ Calm(rs, rs')
<1>1. rs' = Fired(rs) /\ rs.trigger.left = 0
  BY DEF TriggerFires
<1>2. Safe(rs, rs') /\ (rs.trigger.value = Off => Calm(rs, rs'))
  BY <1>1, FiredGood DEF IInv, Safe
<1>3. Quiet(rs) => rs.trigger.value = Off
  BY <1>1 DEF Quiet, Disarmed
<1>4. Calm(rs, rs')
  BY <1>2, <1>3 DEF Calm
<1>5. QED
  BY <1>2, <1>4, HandlerStep

(* The tick, as a step of Motor and without a request.                     *)
LEMMA TickStep ==
  ASSUME IInv, Tick
  PROVE  IInv' /\ [M!Next]_(M!vars) /\ Calm(rs, rs')
<1> DEFINE a == Aged(rs)
<1>1. PICK inMove \in InMove : rs' = TimerCb(a, inMove)
  BY DEF Tick
<1>2. /\ Good(a) /\ a.swapped = rs.swapped /\ a.on = rs.on /\ Calm(rs, a)
      /\ a.on = {} => a.stopAge <= rs.stopAge + 1
  BY AgedGood DEF IInv
<1> HIDE DEF a
<1>3. Sound(a, rs')
  BY <1>1, <1>2, TimerCbSound
<1>4. Wired(a) = Wired(rs)
  BY <1>2 DEF Wired
<1>5. Calm(rs, rs')
  BY <1>2, <1>3, CalmTwice DEF Sound
<1>6. QED
  BY <1>2, <1>3, <1>4, <1>5, MotorStep DEF IInv, Sound, Safe

(* The handlers of requests.                                               *)
LEMMA MovesSafe ==
  ASSUME NEW r, Good(r), NEW t, NEW value \in Request
  PROVE  Safe(r, SetRelay(TimesApplied(r, t), value, TRUE, 0))
<1>1. Safe(r, TimesApplied(r, t))
  BY TimesAppliedAside, AsideSafe DEF Good
<1>2. Safe(TimesApplied(r, t), SetRelay(TimesApplied(r, t), value, TRUE, 0))
  BY <1>1, SetRelaySafe DEF Safe
<1>3. QED
  BY <1>1, <1>2, SafeTwice

(* What recalibration asks for.                                            *)
LEMMA RecalibrateSafe ==
  ASSUME IInv, NEW t, Recalibrate(t)
  PROVE  Safe(rs, rs')
<1> DEFINE w == [rs EXCEPT !.step = 0, !.auto = Zero]
           void == Voided(w)
           back == [void EXCEPT !.tilt = rs.tilt]
           one == TimesApplied(void, t)
           two == TimesApplied(back, rs.full)
<1>1. rs' \in {TaskAdded(one, 0, 0), TaskAdded(void, 0, 0), TaskAdded(two, 0, 0)}
  BY DEF Recalibrate, By
<1>2. Aside(rs, w)
  BY DEF IInv, Good, Shaped, Aside, SameDrive, Fields
<1> HIDE DEF w
<1>3. Aside(w, void)
  BY <1>2, SavedAside DEF Aside
<1>4. Aside(rs, void)
  BY <1>2, <1>3, AsideTwice
<1> HIDE DEF void
<1>5. Aside(void, back)
  BY <1>4 DEF Shaped, Aside, SameDrive, Fields
<1> HIDE DEF back
<1>6. Aside(void, one) /\ Aside(back, two)
  BY <1>4, <1>5, TimesAppliedAside DEF Aside
<1>7. Aside(rs, one) /\ Aside(void, two)
  BY <1>4, <1>5, <1>6, AsideTwice
<1>8. Aside(rs, two)
  BY <1>4, <1>7, AsideTwice
<1> HIDE DEF one, two
<1>9. /\ Aside(one, TaskAdded(one, 0, 0)) /\ Aside(void, TaskAdded(void, 0, 0))
      /\ Aside(two, TaskAdded(two, 0, 0))
  BY <1>4, <1>7, <1>8, TaskAddedAside DEF Aside
<1>10. /\ Aside(rs, TaskAdded(one, 0, 0)) /\ Aside(rs, TaskAdded(void, 0, 0))
       /\ Aside(rs, TaskAdded(two, 0, 0))
  BY <1>4, <1>7, <1>8, <1>9, AsideTwice
<1>11. Aside(rs, rs')
  BY <1>1, <1>10
<1>12. QED
  BY <1>11, AsideSafe DEF IInv

(* A configuration as a step of Motor.                                     *)
LEMMA ConfigureStep ==
  ASSUME IInv, NEW swap, NEW m, NEW t, NEW b, Configure(swap, m, t, b)
  PROVE  IInv' /\ [M!Next]_(M!vars)
<1> DEFINE s == IF swap THEN MotorSwapped(rs) ELSE rs
           k == MarginApplied(s, m)
           u == [k EXCEPT !.blind = b]
<1>1. rs' = TimesApplied(u, t)
  BY DEF Configure, By
<1>2. /\ Good(s) /\ Wired(s) = Wired(rs)
      /\ ((s.on = {}) <=> (rs.on = {})) /\ s.stopAge = rs.stopAge
  BY SwappedGood DEF IInv
<1>3. s.on = {} => s.stopAge <= rs.stopAge + 1
  BY <1>2 DEF Good, AgesTell
<1> HIDE DEF s
<1>4. Aside(s, k)
  BY <1>2 DEF Good, Shaped, Aside, SameDrive, MarginApplied, Fields
<1> HIDE DEF k
<1>5. Aside(k, u)
  BY <1>4 DEF Shaped, Aside, SameDrive, Fields
<1> HIDE DEF u
<1>6. Aside(u, rs')
  BY <1>1, <1>5, TimesAppliedAside DEF Aside
<1>7. Aside(s, u)
  BY <1>4, <1>5, AsideTwice
<1>8. Aside(s, rs')
  BY <1>6, <1>7, AsideTwice
<1>9. Good(rs') /\ Leads(s, rs')
  BY <1>2, <1>8, AsideGood
<1>10. QED
  BY <1>2, <1>3, <1>9, MotorStep DEF IInv

(* Every request as a step of Motor.                                       *)
LEMMA AskStep ==
  ASSUME IInv, Ask
  PROVE  IInv' /\ [M!Next]_(M!vars)
<1> USE DEF IInv
<1>1. ASSUME NEW d \in Direction,
             ButtonPressed(d) \/ ButtonReleased(d) \/ ButtonClicked(d)
      PROVE  Safe(rs, rs')
  <2>1. d \in Request /\ Off \in Request /\ OrStop(rs, d) \in Request
    BY DEF Request, Direction, OrStop
  <2>2. rs' \in {SetRelay(rs, d, TRUE, 1), SetRelay(rs, Off, TRUE, 1),
                 SetRelay(rs, Off, TRUE, 0), SetRelay(rs, OrStop(rs, d), TRUE, 1)}
    BY <1>1 DEF ButtonPressed, ButtonReleased, ButtonClicked, By
  <2>3. QED
    BY <2>1, <2>2, SetRelaySafe
<1>2. CASE HoldReleased
  <2>1. rs' = SetRelay(rs, Off, FALSE, 0)
    BY <1>2 DEF HoldReleased, By
  <2>2. Safe(rs, rs')
    BY <2>1, OffSound DEF Sound
  <2>3. QED
    BY <2>2, HandlerStep
<1>3. ASSUME NEW t \in shutter.times, NEW value \in Request, ServerMoves(value, t)
      PROVE  Safe(rs, rs')
  BY <1>3, MovesSafe DEF ServerMoves, By
<1>4. ASSUME NEW t \in shutter.times, NEW d \in Direction, ServerOrStop(d, t)
      PROVE  Safe(rs, rs')
  <2> DEFINE r == TimesApplied(rs, t)
  <2>1. OrStop(r, d) \in Request
    BY DEF Request, Direction, OrStop
  <2>2. rs' = SetRelay(r, OrStop(r, d), TRUE, 0)
    BY <1>4 DEF ServerOrStop, By
  <2>3. QED
    BY <2>1, <2>2, MovesSafe
<1>5. ASSUME NEW t \in shutter.times, ServerSteps(t)
      PROVE  Safe(rs, rs')
  <2> DEFINE r == TimesApplied(rs, t)
  <2>1. rs' = StepByStep(r)
    BY <1>5 DEF ServerSteps, By
  <2>2. Safe(rs, r)
    BY TimesAppliedAside, AsideSafe DEF Good
  <2> HIDE DEF r
  <2>3. Safe(r, rs')
    BY <2>1, <2>2, StepByStepSafe DEF Safe
  <2>4. QED
    BY <2>2, <2>3, SafeTwice
<1>6. ASSUME NEW t \in shutter.times, NEW p \in shutter.tasks \cup {Keep},
             NEW y \in shutter.tasks \cup {Keep}, ServerTask(p, y, t)
      PROVE  Safe(rs, rs')
  <2> DEFINE r == TimesApplied(rs, t)
  <2>1. rs' = TaskAdded(r, p, y)
    BY <1>6 DEF ServerTask, By
  <2>2. Aside(rs, r)
    BY TimesAppliedAside DEF Good
  <2> HIDE DEF r
  <2>3. Aside(r, rs')
    BY <2>1, <2>2, TaskAddedAside DEF Aside
  <2>4. QED
    BY <2>2, <2>3, AsideTwice, AsideSafe
<1>7. ASSUME NEW t \in shutter.times, Recalibrate(t)
      PROVE  Safe(rs, rs')
  BY <1>7, RecalibrateSafe
<1>8. ASSUME NEW t \in shutter.times, NEW swap \in BOOLEAN, NEW m \in shutter.margins,
             NEW b \in shutter.blinds, Configure(swap, m, t, b)
      PROVE  IInv' /\ [M!Next]_(M!vars)
  BY <1>8, ConfigureStep
<1>9. CASE PowerCycle
  BY <1>9, PowerStep
<1>10. QED
  BY <1>1, <1>2, <1>3, <1>4, <1>5, <1>6, <1>7, <1>8, <1>9, HandlerStep DEF Ask

-----------------------------------------------------------------------------
(* The theorems.                                                           *)

(* The inductive invariant at the start.                                   *)
LEMMA InitGood == Init => IInv /\ M!Init
<1> SUFFICES ASSUME Init PROVE IInv /\ M!Init
  OBVIOUS
<1>1. PICK f : rs = Booted(f, shutter.autoCal)
  BY DEF Init
<1>2. Good(rs)
  BY <1>1, BootedGood
<1>3. rs.on = {} /\ rs.stopAge = 0
  BY <1>1 DEF Booted
<1>4. Pause \in Nat \ {0}
  BY ConstantAssumption DEF Pause
<1>5. Wired(rs) = {} /\ Rest(rs) = 0
  BY <1>2, <1>3, <1>4, WiredIs DEF Rest, AtMost, Unset
<1>6. QED
  BY <1>2, <1>5 DEF IInv, M!Init, Wired, Rest

(* It is inductive, and every step implements Motor.                       *)
LEMMA NextGood == IInv /\ [Next]_vars => IInv' /\ [M!Next]_(M!vars)
<1> SUFFICES ASSUME IInv, [Next]_vars PROVE IInv' /\ [M!Next]_(M!vars)
  OBVIOUS
<1>1. CASE Ask
  BY <1>1, AskStep
<1>2. CASE TriggerFires
  BY <1>2, TriggerStep
<1>3. CASE Tick
  BY <1>3, TickStep
<1>4. CASE UNCHANGED vars
  BY <1>4 DEF vars, M!vars, IInv, Good, Shaped, AgesTell
<1>5. QED
  BY <1>1, <1>2, <1>3, <1>4 DEF Next

(* One relay at most is on, and the two times say since when the relays    *)
(* are as they are: what every handler finds and leaves.                   *)
THEOREM Invariance == Spec => []IInv
<1>1. Init => IInv
  BY InitGood
<1>2. IInv /\ [Next]_vars => IInv'
  BY NextGood
<1>3. QED
  BY <1>1, <1>2, PTL DEF Spec

(* Buttons, server, tasks, calibration, configuration and restarts, in any *)
(* order and at any time, never feed both windings and never close a       *)
(* contact before the pause is over, and swapping the direction does not   *)
(* move the contacts: set_relay, its delayed trigger and the timer         *)
(* implement Motor.                                                        *)
THEOREM MotorIsSafe == Spec => MotorSafe
<1>1. Init => M!Init
  BY InitGood
<1>2. IInv /\ [Next]_vars => [M!Next]_(M!vars)
  BY NextGood
<1>3. QED
  BY <1>1, <1>2, Invariance, PTL DEF Spec, MotorSafe, M!Spec

(* With no task, no calibration and no pending start, no tick and no       *)
(* trigger starts a motor: what timer_cb does to the estimates never turns *)
(* into a movement.                                                        *)
THEOREM QuietRemains == Spec => QuietStays
<1> DEFINE Stays == Quiet(rs) /\ (Tick \/ TriggerFires) =>
                      Quiet(rs') /\ rs'.on \subseteq rs.on
<1>1. IInv /\ [Next]_vars => [Stays]_vars
  BY TickStep, TriggerStep DEF Calm
<1>2. QED
  BY <1>1, Invariance, PTL DEF Spec, QuietStays

-----------------------------------------------------------------------------
(* Every call leaves a shutter of the right type.                          *)

(* The bounds of positions and requests.                                   *)
LEMMA Ranges ==
  /\ Off \in Request /\ Down \in Request /\ Up \in Request
  /\ Down \in Direction /\ Up \in Direction
  /\ Direction \subseteq Request /\ Down # Up
  /\ N \in Nat /\ 1 <= N /\ Closed = N + 1
  /\ 0 \in 0..Closed /\ 0 \in Unset..Closed /\ Unset \in Unset..Closed
  /\ 0..Closed \subseteq Unset..Closed
  /\ Open \in 1..Closed /\ Closed \in 1..Closed
  /\ 0 \in Keep..N /\ N \in Keep..N /\ Keep \in Keep..N
  /\ Zero \in Timing
<1>1. N \in Nat /\ 1 <= N
  BY ConstantAssumption
<1>2. Zero \in Timing
  BY DEF Zero, Timing, Direction, Up, Down
<1>3. QED
  BY <1>1, <1>2 DEF Request, Direction, Off, Up, Down, Open, Closed, Unset, Keep

(* The two directions and their ends.                                      *)
LEMMA TimingIs ==
  ASSUME NEW t \in Timing
  PROVE  /\ t[Up] \in Nat /\ t[Down] \in Nat
         /\ \A d \in Direction : t[d] \in Nat /\ Opposite(d) \in Direction
                                 /\ EndOf(d) \in 1..Closed
BY Ranges DEF Timing, Opposite, EndOf

(* Saving state or configuration.                                          *)
LEMMA SavedTyped ==
  ASSUME NEW r \in State
  PROVE  StateSaved(r) \in State /\ CfgSaved(r) \in State
<1>1. [r.flash EXCEPT !.position = r.position, !.tilt = r.tilt] \in Flash
  BY DEF State, Flash
<1>2. [r.flash EXCEPT !.full = r.full, !.auto = r.auto, !.blind = r.blind,
                      !.addMargin = r.addMargin, !.swapped = r.swapped] \in Flash
  BY DEF State, Flash
<1>3. QED
  BY <1>1, <1>2, ZenonT(60) DEF State, StateSaved, CfgSaved

(* A position and a tilt in range may be noted.                            *)
LEMMA PlacedTyped ==
  ASSUME NEW r \in State, NEW p \in 0..Closed, NEW t \in Unset..Closed
  PROVE  [r EXCEPT !.position = p, !.tilt = t] \in State
BY DEF State

(* Forgetting both.                                                        *)
LEMMA VoidedTyped ==
  ASSUME NEW r \in State
  PROVE  Voided(r) \in State
BY Ranges, PlacedTyped DEF Voided

(* Noting that an end was reached.                                         *)
LEMMA AtTyped ==
  ASSUME NEW r \in State, NEW end \in 1..Closed
  PROVE  At(r, end) \in State
<1>1. end \in 0..Closed /\ (IF Tilts(r) THEN end ELSE 0) \in Unset..Closed
  BY Ranges
<1>2. QED
  BY <1>1, PlacedTyped DEF At

(* What a call may write into a field.                                     *)
LEMMA FieldTyped ==
  ASSUME NEW r \in State
  PROVE  /\ \A x \in 0..3 : [r EXCEPT !.step = x] \in State
         /\ \A x \in BOOLEAN : /\ [r EXCEPT !.buttonReq = x] \in State
                               /\ [r EXCEPT !.perform = x] \in State
                               /\ [r EXCEPT !.detected = x] \in State
         /\ \A x \in SUBSET Flags : [r EXCEPT !.flags = x] \in State
         /\ \A x \in Task : [r EXCEPT !.task = x] \in State
         /\ \A x \in Trigger : [r EXCEPT !.trigger = x] \in State
         /\ \A x \in Timing : /\ [r EXCEPT !.ran = x] \in State
                              /\ [r EXCEPT !.auto = x] \in State
                              /\ [r EXCEPT !.full = x] \in State
         /\ \A x \in Request : [r EXCEPT !.lastDirection = x] \in State
<1>1. ASSUME NEW x \in 0..3 PROVE [r EXCEPT !.step = x] \in State
  BY DEF State
<1>2. ASSUME NEW x \in BOOLEAN
      PROVE  /\ [r EXCEPT !.buttonReq = x] \in State
             /\ [r EXCEPT !.perform = x] \in State
             /\ [r EXCEPT !.detected = x] \in State
  BY DEF State
<1>3. ASSUME NEW x \in SUBSET Flags PROVE [r EXCEPT !.flags = x] \in State
  BY DEF State
<1>4. ASSUME NEW x \in Task PROVE [r EXCEPT !.task = x] \in State
  BY DEF State
<1>5. ASSUME NEW x \in Trigger PROVE [r EXCEPT !.trigger = x] \in State
  BY DEF State
<1>6. ASSUME NEW x \in Timing
      PROVE  /\ [r EXCEPT !.ran = x] \in State
             /\ [r EXCEPT !.auto = x] \in State
             /\ [r EXCEPT !.full = x] \in State
  BY DEF State
<1>7. ASSUME NEW x \in Request PROVE [r EXCEPT !.lastDirection = x] \in State
  BY DEF State
<1>8. QED
  BY <1>1, <1>2, <1>3, <1>4, <1>5, <1>6, <1>7

(* The relays.                                                             *)
LEMMA RelayTyped ==
  ASSUME NEW r \in State, NEW d \in Direction, NEW hi
  PROVE  RelayHi(r, d, hi) \in State
<1> DEFINE on == IF hi = 1 THEN r.on \cup {d} ELSE r.on \ {d}
           start == IF on = {} THEN Unset ELSE IF r.startAge = Unset THEN 0 ELSE r.startAge
           stop == IF on # {} THEN Unset ELSE IF r.stopAge = Unset THEN 0 ELSE r.stopAge
<1>1. RelayHi(r, d, hi) = [r EXCEPT !.on = on, !.startAge = start, !.stopAge = stop]
  BY DEF RelayHi
<1>2. on \in SUBSET Direction
  BY DEF State
<1> HIDE DEF on
<1>3. start \in Nat \cup {Unset} /\ stop \in Nat \cup {Unset}
  BY DEF State
<1> HIDE DEF start, stop
<1>4. [r EXCEPT !.on = on, !.startAge = start, !.stopAge = stop] \in State
  BY <1>2, <1>3 DEF State
<1>5. QED
  BY <1>1, <1>4

(* A calibration is broken off.                                            *)
LEMMA AbortedTyped ==
  ASSUME NEW r \in State
  PROVE  Aborted(r) \in State
<1> DEFINE s == [r EXCEPT !.step = 0, !.full = Zero, !.auto = Zero]
<1>1. 0 \in 0..3 /\ Zero \in Timing
  BY Ranges
<1>2. s \in State
  BY <1>1 DEF State
<1> HIDE DEF s
<1>3. Voided(s) \in State
  BY <1>2, VoidedTyped
<1>4. QED
  BY <1>3 DEF Aborted, s

(* A task is cancelled.                                                    *)
LEMMA CancelledTyped ==
  ASSUME NEW r \in State
  PROVE  Cancelled(r) \in State
<1>1. NoTask \in Task
  BY Ranges DEF Task, NoTask
<1>2. [r EXCEPT !.task = NoTask] \in State
  BY <1>1, FieldTyped
<1>3. QED
  BY <1>2, SavedTyped DEF Cancelled

(* The delayed trigger is disarmed,                                        *)
LEMMA DisarmedTyped ==
  ASSUME NEW r \in State
  PROVE  TriggerDisarmed(r) \in State
<1>1. [r.trigger EXCEPT !.left = Disarmed] \in Trigger
  BY DEF State, Trigger
<1>2. QED
  BY <1>1, FieldTyped DEF TriggerDisarmed

(* or armed.                                                               *)
LEMMA DelayedTyped ==
  ASSUME NEW r \in State, NEW value \in Request, NEW wait \in Nat
  PROVE  Delayed(r, value, wait) \in State
<1> DEFINE t == [left |-> wait, value |-> value, autoCal |-> r.buttonReq]
<1>1. t \in Trigger
  BY DEF State, Trigger
<1> HIDE DEF t
<1>2. [r EXCEPT !.trigger = t, !.buttonReq = FALSE] \in State
  BY <1>1 DEF State
<1>3. QED
  BY <1>2 DEF Delayed, t

(* The motor is switched off,                                              *)
LEMMA StopTyped ==
  ASSUME NEW r \in State, NEW stopDelay
  PROVE  Stop(r, stopDelay) \in State
<1> DEFINE low == RelayHi(RelayHi(r, Up, 0), Down, 0)
<1>1. StopWait(r, stopDelay) \in Nat
  BY ConstantAssumption DEF State, StopWait
<1>2. low \in State
  BY Ranges, RelayTyped
<1> HIDE DEF low
<1>3. [low EXCEPT !.buttonReq = FALSE] \in State
  BY <1>2, FieldTyped
<1>4. QED
  BY <1>1, <1>3, Ranges, DelayedTyped DEF Stop, low

(* or on, at once or by the trigger.                                       *)
LEMMA StartTyped ==
  ASSUME NEW r \in State, NEW d \in Direction
  PROVE  Start(r, d) \in State
<1> DEFINE asked == Requested(r, d)
           low == Lowered(asked, d)
           high == RelayHi(low, d, 1)
<1>1. d \in Request /\ Opposite(d) \in Direction /\ r.flags \in SUBSET Flags
  BY Ranges DEF Opposite, State
<1>2. asked \in State
  BY <1>1 DEF State, Requested
<1> HIDE DEF asked
<1>3. low \in State
  BY <1>1, <1>2, RelayTyped DEF Lowered
<1> HIDE DEF low
<1>4. StartWait(low) \in Nat
  BY <1>3, ConstantAssumption DEF State, StartWait
<1>5. high \in State
  BY <1>3, RelayTyped
<1> HIDE DEF high
<1>6. [high EXCEPT !.buttonReq = FALSE] \in State
  BY <1>5, FieldTyped
<1>7. QED
  BY <1>1, <1>3, <1>4, <1>6, DelayedTyped DEF Start, low, asked, high

(* The whole of set_relay.                                                 *)
LEMMA SetRelayTyped ==
  ASSUME NEW r \in State, NEW value \in Request, NEW cancel, NEW stopDelay
  PROVE  SetRelay(r, value, cancel, stopDelay) \in State
<1> DEFINE a == Aborted(r)
           c == IF cancel THEN Cancelled(a) ELSE a
           t == TriggerDisarmed(c)
<1>1. a \in State
  BY AbortedTyped
<1> HIDE DEF a
<1>2. c \in State
  BY <1>1, CancelledTyped
<1> HIDE DEF c
<1>3. t \in State
  BY <1>2, DisarmedTyped
<1> HIDE DEF t
<1>4. value = Off \/ value \in Direction
  BY DEF Request, Direction
<1>5. QED
  BY <1>3, <1>4, StopTyped, StartTyped DEF SetRelay, t, c, a

(* The delayed trigger is due.                                             *)
LEMMA FiredTyped ==
  ASSUME NEW r \in State
  PROVE  Fired(r) \in State
<1> DEFINE g == [r.trigger EXCEPT !.left = Disarmed, !.autoCal = FALSE]
           b == r.buttonReq \/ r.trigger.autoCal
           s == [r EXCEPT !.trigger = g, !.buttonReq = b]
<1>1. r.trigger \in Trigger /\ r.trigger.value \in Request
  BY DEF State, Trigger
<1>2. g \in Trigger /\ b \in BOOLEAN
  BY <1>1 DEF Trigger
<1>3. s = [r EXCEPT !.trigger.left = Disarmed, !.trigger.autoCal = FALSE,
                    !.buttonReq = @ \/ r.trigger.autoCal]
  BY <1>1 DEF Trigger, State
<1>4. Fired(r) = SetRelay(s, r.trigger.value, FALSE, 0)
  BY <1>3 DEF Fired
<1> HIDE DEF g, b
<1>5. s \in State
  BY <1>2 DEF State
<1>6. QED
  BY <1>1, <1>4, <1>5, SetRelayTyped

(* Numbers.                                                                *)
LEMMA AtMostIs ==
  ASSUME NEW limit \in Int, NEW n \in Int
  PROVE  /\ AtMost(limit, n) \in {limit, n}
         /\ AtMost(limit, n) <= limit /\ AtMost(limit, n) <= n
BY DEF AtMost

(* Counted times are natural numbers.                                      *)
LEMMA TimesNat ==
  ASSUME NEW a \in Nat, NEW b \in Nat
  PROVE  a * b \in Nat
<1>1. a * b \in Int /\ a * b >= 0
  BY SMT
<1>2. QED
  BY <1>1

(* No more steps are taken than the time that has passed is enough for.    *)
LEMMA QuotientIs ==
  ASSUME NEW n \in Nat, NEW t \in Nat \ {0}
  PROVE  n \div t \in Nat /\ (n \div t) * t <= n
<1>1. n \div t \in Int /\ n \div t >= 0
  OBVIOUS
<1>2. (n \div t) * t <= n
  OBVIOUS
<1>3. QED
  BY <1>1, <1>2

(* As many steps as that or fewer.                                         *)
LEMMA FewerSteps ==
  ASSUME NEW n \in Nat, NEW t \in Nat \ {0}, NEW k \in Int, k <= n \div t
  PROVE  k * t <= n
<1>1. PICK q \in Nat : q = n \div t /\ q * t <= n
  BY QuotientIs
<1>2. k * t <= q * t
  BY <1>1
<1>3. k * t \in Int /\ q * t \in Int
  BY <1>1
<1>4. QED
  BY <1>1, <1>2, <1>3

(* Position and tilt.                                                      *)
LEMMA FlaggedTyped ==
  ASSUME NEW r \in State, NEW d, NEW inMove
  PROVE  /\ MotorChecked(r, d, inMove) \in State
         /\ LostChecked(r, inMove) \in State
         /\ Calibration(r) \in State /\ Ready(r) \in State
         /\ Standing(r) \in State
         /\ AutocalChecked(r) \in State
<1>1. r.flags \in SUBSET Flags
  BY DEF State
<1>2. /\ r.flags \cup {"Motor"} \in SUBSET Flags /\ r.flags \cup {"Lost"} \in SUBSET Flags
      /\ r.flags \cup {"InProgress"} \in SUBSET Flags
      /\ r.flags \ {"InProgress"} \in SUBSET Flags
  BY <1>1 DEF Flags
<1>3. /\ MotorChecked(r, d, inMove) \in State /\ LostChecked(r, inMove) \in State
      /\ Calibration(r) \in State
  BY <1>2, FieldTyped DEF MotorChecked, LostChecked, Calibration
<1>4. Ready(r) \in State /\ AutocalChecked(r) \in State
  BY FieldTyped DEF Ready, AutocalChecked
<1>5. Standing(r) \in State
  <2>1. PICK f \in SUBSET Flags : f = IF r.step = 0 THEN r.flags \ {"InProgress"} ELSE r.flags
    BY <1>1, <1>2
  <2>2. Zero \in Timing
    BY Ranges
  <2>3. [r EXCEPT !.ran = Zero, !.flags = f] \in State
    BY <2>2 DEF State
  <2>4. QED
    BY <2>1, <2>3 DEF Standing
<1>6. QED
  BY <1>3, <1>4, <1>5

(* The motor was seen to run.                                              *)
LEMMA PowerDetectedTyped ==
  ASSUME NEW r \in State, NEW inMove \in BOOLEAN
  PROVE  PowerDetected(r, inMove) \in State
<1>1. r.detected \/ inMove \in BOOLEAN
  BY DEF State
<1>2. QED
  BY <1>1, FieldTyped DEF PowerDetected

(* The motor has run long enough to be at its end.                         *)
LEMMA CalibratedTyped ==
  ASSUME NEW r \in State, NEW d \in Direction, NEW full
  PROVE  Calibrated(r, d, full) \in State
<1> DEFINE s == Calibration(r)
           end == At(s, EndOf(d))
<1>1. Calibrated(r, d, full) \in {r, Voided(s), StateSaved(end)}
  BY DEF Calibrated, Calibration
<1>2. s \in State
  BY FlaggedTyped
<1> HIDE DEF s
<1>3. EndOf(d) \in 1..Closed
  BY Ranges DEF EndOf
<1>4. end \in State
  BY <1>2, <1>3, AtTyped
<1> HIDE DEF end
<1>5. Voided(s) \in State /\ StateSaved(end) \in State
  BY <1>2, <1>4, VoidedTyped, SavedTyped
<1>6. QED
  BY <1>1, <1>5

(* The position after a start from an unknown place.                       *)
LEMMA GuessedTyped ==
  ASSUME NEW r \in State
  PROVE  TiltGuessed(r) \in State
<1>1. Open \in Unset..Closed
  BY Ranges
<1>2. [r EXCEPT !.tilt = Open] \in State
  BY <1>1 DEF State
<1>3. QED
  BY <1>2 DEF TiltGuessed

(* A step towards an end does not pass it.                                 *)
LEMMA TowardStays ==
  ASSUME NEW p \in Unset..Closed, NEW d \in Direction, NEW n \in Nat
  PROVE  LET q == Toward(p, d, AtMost(Ahead(p, d), n))
         IN  q \in Unset..Closed /\ (p \in Open..Closed => q \in Open..Closed)
<1>1. d = Up \/ (d = Down /\ Down # Up)
  BY DEF Direction, Up, Down
<1>2. p \in Int /\ -1 <= p /\ p <= Closed /\ Closed \in Nat /\ 1 <= Closed
  BY Ranges DEF Unset
<1>3. CASE d = Up
  BY <1>2, <1>3 DEF Toward, Ahead, AtMost, Open, Unset
<1>4. CASE d = Down /\ Down # Up
  BY <1>2, <1>4 DEF Toward, Ahead, AtMost, Open, Unset
<1>5. QED
  BY <1>1, <1>3, <1>4

(* No step is no movement.                                                 *)
LEMMA NoSteps ==
  ASSUME NEW p \in Int, NEW d
  PROVE  Toward(p, d, 0) = p
BY DEF Toward

(* The steps of a tick fit into the time that has been counted.            *)
LEMMA SlatStepsFit ==
  ASSUME NEW r \in State, NEW d \in Direction
  PROVE  /\ SlatSteps(r, d) * r.blind.time <= r.ran[d]
         /\ SlatSteps(r, d) * r.blind.time \in Int
         /\ Toward(IF SlatsFixed(r) THEN Open ELSE r.tilt, d, SlatSteps(r, d)) \in Unset..Closed
<1>1. PICK n \in Nat : n = r.ran[d]
  BY TimingIs DEF State
<1>2. PICK t \in Nat : t = r.blind.time
  BY DEF State, Blind
<1>3. PICK p \in Unset..Closed : p = r.tilt
  BY DEF State
<1>4. CASE t = 0 \/ SlatsFixed(r)
  <2>1. SlatSteps(r, d) = 0
    BY <1>2, <1>4 DEF SlatSteps
  <2>2. Open \in Unset..Closed /\ Open \in Int /\ p \in Int
    BY Ranges DEF Open
  <2>3. 0 * t = 0
    OBVIOUS
  <2>4. QED
    BY <1>1, <1>2, <1>3, <2>1, <2>2, <2>3, NoSteps
<1>5. CASE t # 0 /\ ~SlatsFixed(r)
  <2>1. PICK q \in Nat : q = n \div t
    BY <1>5, QuotientIs
  <2>2. SlatSteps(r, d) = AtMost(Ahead(p, d), q)
    BY <1>1, <1>2, <1>3, <1>5, <2>1 DEF SlatSteps
  <2>3. Ahead(p, d) \in Int
    BY Ranges DEF Ahead, Open
  <2>4. PICK k \in Int : k = AtMost(Ahead(p, d), q) /\ k <= q
    BY <2>3, AtMostIs
  <2>5. k * t <= n /\ k * t \in Int
    BY <1>5, <2>1, <2>4, FewerSteps
  <2>6. Toward(p, d, AtMost(Ahead(p, d), q)) \in Unset..Closed
    BY TowardStays
  <2>7. QED
    BY <1>1, <1>2, <1>3, <1>5, <2>2, <2>4, <2>5, <2>6
<1>6. QED
  BY <1>4, <1>5

(* Tilt first, then position: together they fit as well.                   *)
LEMMA MoveStepsFit ==
  ASSUME NEW r \in State, NEW d \in Direction, NEW full \in Nat, r.position \in Open..Closed
  PROVE  /\ MoveSteps(r, d, full) * TravelTime(r, full) <= r.ran[d]
         /\ MoveSteps(r, d, full) * TravelTime(r, full) \in Int
         /\ Toward(r.position, d, MoveSteps(r, d, full)) \in Open..Closed
<1>1. PICK n \in Nat : n = r.ran[d]
  BY TimingIs DEF State
<1>2. PICK t \in Nat : t = TravelTime(r, full)
  <2>1. PICK b \in Nat : b = r.blind.time
    BY DEF State, Blind
  <2>2. (full - b) % TimeWrap \in Nat
    BY ConstantAssumption
  <2>3. QED
    BY <2>1, <2>2 DEF TravelTime, OneAtATime
<1>3. PICK p \in Open..Closed : p = r.position
  OBVIOUS
<1>4. p \in Unset..Closed /\ p \in Int
  BY Ranges DEF Open, Unset
<1>5. CASE MoveSteps(r, d, full) = 0
  <2>1. 0 * t = 0
    OBVIOUS
  <2>2. QED
    BY <1>1, <1>2, <1>3, <1>4, <1>5, <2>1, NoSteps
<1>6. CASE MoveSteps(r, d, full) # 0
  <2>1. t # 0
    BY <1>2, <1>6 DEF MoveSteps
  <2>2. PICK q \in Nat : q = n \div t
    BY <2>1, QuotientIs
  <2>3. MoveSteps(r, d, full) = AtMost(Ahead(p, d), q)
    BY <1>1, <1>2, <1>3, <1>6, <2>2 DEF MoveSteps
  <2>4. Ahead(p, d) \in Int
    BY <1>4, Ranges DEF Ahead, Open
  <2>5. PICK k \in Int : k = AtMost(Ahead(p, d), q) /\ k <= q
    BY <2>4, AtMostIs
  <2>6. k * t <= n /\ k * t \in Int
    BY <2>1, <2>2, <2>5, FewerSteps
  <2>7. Toward(p, d, AtMost(Ahead(p, d), q)) \in Open..Closed
    BY <1>4, TowardStays
  <2>8. QED
    BY <1>1, <1>2, <1>3, <2>3, <2>5, <2>6, <2>7
<1>7. QED
  BY <1>5, <1>6

(* The position after the steps of a tick.                                 *)
LEMMA MovedTyped ==
  ASSUME NEW r \in State, NEW d \in Direction, NEW full \in Nat, r.position \in Open..Closed
  PROVE  /\ Moved(r, d, full) \in State
         /\ Moved(r, d, full).position = Toward(r.position, d, MoveSteps(r, d, full))
         /\ Moved(r, d, full).position \in Open..Closed
<1> DEFINE spent == Spent(r, d, full)
<1>1. PICK n \in Nat : n = r.ran[d]
  BY TimingIs DEF State
<1>2. PICK x \in Int : x = SlatSteps(r, d) * r.blind.time /\ x <= n
  BY <1>1, SlatStepsFit
<1>3. PICK y \in Int : y = MoveSteps(r, d, full) * TravelTime(r, full) /\ y <= n
  BY <1>1, MoveStepsFit
<1>4. spent \in {x, y}
  BY <1>2, <1>3 DEF Spent
<1>5. PICK left \in Nat : left = n - spent
  BY <1>2, <1>3, <1>4
<1> HIDE DEF spent
<1>6. PICK tilt \in Unset..Closed :
        tilt = Toward(IF SlatsFixed(r) THEN Open ELSE r.tilt, d, SlatSteps(r, d))
  BY SlatStepsFit
<1>7. PICK p \in Open..Closed : p = Toward(r.position, d, MoveSteps(r, d, full))
  BY MoveStepsFit
<1>8. p \in 0..Closed
  BY DEF Open
<1>9. PICK ran \in Timing : ran = [r.ran EXCEPT ![d] = left]
  BY DEF State, Timing
<1>10. Moved(r, d, full) = [r EXCEPT !.tilt = tilt, !.position = p, !.ran = ran]
  BY <1>1, <1>5, <1>6, <1>7, <1>9 DEF Moved, spent, State
<1>11. [r EXCEPT !.tilt = tilt, !.position = p, !.ran = ran] \in State
  BY <1>8 DEF State
<1>12. Moved(r, d, full).position = p
  BY <1>10 DEF State
<1>13. QED
  BY <1>7, <1>10, <1>11, <1>12

(* The whole of move_position: what is counted stays in range, and so do   *)
(* position and tilt.                                                      *)
LEMMA PositionMovedTyped ==
  ASSUME NEW r \in State, NEW d \in Direction, NEW full \in Nat, NEW inMove
  PROVE  PositionMoved(r, d, full, inMove) \in State
<1> DEFINE g == TiltGuessed(r)
           m == Moved(g, d, full)
           s == IF m.position # g.position \/ m.tilt # g.tilt THEN StateSaved(m) ELSE m
           lost == LostChecked(s, inMove)
           stopped == SetRelay(lost, Off, FALSE, 0)
<1>1. CASE ~Known(r) \/ full = 0
  BY <1>1 DEF PositionMoved
<1>2. CASE Known(r) /\ full # 0
  <2>1. PositionMoved(r, d, full, inMove) \in {s, stopped}
    BY <1>2 DEF PositionMoved
  <2>2. g \in State /\ g.position = r.position
    BY GuessedTyped DEF TiltGuessed, State
  <2>3. g.position \in Open..Closed
    BY <1>2, <2>2, Ranges DEF Known, State, Open
  <2> HIDE DEF g
  <2>4. m \in State
    BY <2>2, <2>3, MovedTyped
  <2> HIDE DEF m
  <2>5. s \in State
    BY <2>4, SavedTyped
  <2> HIDE DEF s
  <2>6. lost \in State
    BY <2>5, FlaggedTyped
  <2> HIDE DEF lost
  <2>7. stopped \in State
    BY <2>6, Ranges, SetRelayTyped
  <2>8. QED
    BY <2>1, <2>5, <2>7
<1>3. QED
  BY <1>1, <1>2

(* Automatic calibration.                                                  *)
LEMMA CalibrationFailedTyped ==
  ASSUME NEW r \in State
  PROVE  CalibrationFailed(r) \in State
<1> DEFINE f == (r.flags \cup {"Failed"}) \ {"InProgress"}
           t == [r EXCEPT !.step = 0, !.auto = Zero, !.flags = f]
           v == Voided(t)
<1>1. CalibrationFailed(r) = SetRelay(v, Off, TRUE, 0)
  BY DEF CalibrationFailed
<1>2. f \in SUBSET Flags
  BY DEF State, Flags
<1>3. 0 \in 0..3 /\ Zero \in Timing
  BY Ranges
<1> HIDE DEF f
<1>4. t \in State
  BY <1>2, <1>3 DEF State
<1> HIDE DEF t
<1>5. v \in State
  BY <1>4, VoidedTyped
<1>6. QED
  BY <1>1, <1>5, Ranges, SetRelayTyped

(* It is done,                                                             *)
LEMMA ReadyTyped ==
  ASSUME NEW r \in State, NEW value \in Request
  PROVE  SetRelay(Ready(r), value, FALSE, 0) \in State
BY FlaggedTyped, SetRelayTyped

(* has measured the time of one direction,                                 *)
LEMMA MeasuredTyped ==
  ASSUME NEW r \in State, NEW n \in Nat, NEW d
  PROVE  [r.auto EXCEPT ![d] = n] \in Timing
<1>1. r.auto \in Timing
  BY DEF State
<1>2. QED
  BY <1>1 DEF Timing

(* and goes on to its next step.                                           *)
LEMMA EndReachedTyped ==
  ASSUME NEW r \in State
  PROVE  EndReached(r) \in State
<1> DEFINE took == r.ran[StepDirection(r.step)] \div N
           one == [r EXCEPT !.step = 2]
           two == [r EXCEPT !.step = 3, !.auto[Down] = took]
           three == [r EXCEPT !.step = 0, !.auto[Up] = took, !.flags = @ \ {"InProgress"}]
           end == At(three, Open)
           saved == CfgSaved(StateSaved(end))
<1>1. EndReached(r) \in {SetRelay(Ready(one), Down, FALSE, 0), CalibrationFailed(r),
                         SetRelay(Ready(two), Up, FALSE, 0),
                         SetRelay(Ready(saved), Off, FALSE, 0)}
  BY DEF EndReached
<1>2. took \in Nat
  <2>1. StepDirection(r.step) \in Direction
    BY Ranges DEF StepDirection
  <2>2. PICK n \in Nat : n = r.ran[StepDirection(r.step)]
    BY <2>1, TimingIs DEF State
  <2>3. N \in Nat \ {0}
    BY ConstantAssumption
  <2>4. QED
    BY <2>2, <2>3, QuotientIs
<1> HIDE DEF took
<1>3. one \in State
  <2>1. 2 \in 0..3
    OBVIOUS
  <2>2. QED
    BY <2>1, FieldTyped
<1>4. two \in State
  <2>1. [r.auto EXCEPT ![Down] = took] \in Timing /\ 3 \in 0..3
    BY <1>2, MeasuredTyped
  <2>2. QED
    BY <2>1 DEF State
<1>5. three \in State
  <2>1. [r.auto EXCEPT ![Up] = took] \in Timing /\ 0 \in 0..3
    BY <1>2, MeasuredTyped
  <2>2. r.flags \ {"InProgress"} \in SUBSET Flags
    BY DEF State
  <2>3. QED
    BY <2>1, <2>2 DEF State
<1> HIDE DEF one, two, three
<1>6. end \in State
  BY <1>5, Ranges, AtTyped
<1> HIDE DEF end
<1>7. saved \in State
  BY <1>6, SavedTyped
<1> HIDE DEF saved
<1>8. QED
  BY <1>1, <1>3, <1>4, <1>7, Ranges, ReadyTyped, CalibrationFailedTyped

(* What calibration does in a tick.                                        *)
LEMMA AutocalibratedTyped ==
  ASSUME NEW r \in State, NEW inMove
  PROVE  Autocalibrated(r, inMove) \in State
<1> DEFINE c == Calibration(r)
           done == [r EXCEPT !.flags = @ \ {"InProgress"}]
<1>1. CASE r.step = 0
  <2>1. Autocalibrated(r, inMove) = done
    BY <1>1 DEF Autocalibrated
  <2>2. r.flags \ {"InProgress"} \in SUBSET Flags
    BY DEF State
  <2>3. QED
    BY <2>1, <2>2, FieldTyped
<1>2. CASE r.step # 0
  <2>1. r.step > 0
    BY <1>2 DEF State
  <2>2. Autocalibrated(r, inMove) \in {c, EndReached(c), CalibrationFailed(c)}
    BY <1>2, <2>1 DEF Autocalibrated
  <2>3. c \in State
    BY FlaggedTyped
  <2> HIDE DEF c
  <2>4. QED
    BY <2>2, <2>3, EndReachedTyped, CalibrationFailedTyped
<1>3. QED
  BY <1>1, <1>2

(* It is started by the first task of a shutter without times.             *)
LEMMA AutocalStartedTyped ==
  ASSUME NEW r \in State
  PROVE  AutocalStarted(r) \in State
<1>1. 1 \in 0..3
  OBVIOUS
<1>2. [r EXCEPT !.perform = FALSE, !.step = 1] \in State
  BY <1>1 DEF State
<1>3. QED
  BY <1>2, Ranges, ReadyTyped DEF AutocalStarted

(* Whose times are in force, the given or the measured ones,               *)
LEMMA TimesSelectedTyped ==
  ASSUME NEW r \in State
  PROVE  TimesSelected(r) \in State
<1> DEFINE s == [r EXCEPT !.auto = Zero, !.step = 0]
<1>1. Zero \in Timing /\ 0 \in 0..3
  BY Ranges
<1>2. s \in State
  BY <1>1 DEF State
<1> HIDE DEF s
<1>3. Voided(r) \in State /\ Voided(s) \in State
  BY <1>2, VoidedTyped
<1>4. QED
  BY <1>3 DEF TimesSelected, s

(* they are times.                                                         *)
LEMMA InForceIs ==
  ASSUME NEW r \in State, NEW full \in Timing
  PROVE  InForce(r, full) \in Timing
BY DEF InForce, State, Timing

(* All that the timer does for the direction in which the motor runs.      *)
LEMMA RunningTyped ==
  ASSUME NEW r \in State, NEW d \in Direction, NEW full \in Timing, NEW inMove
  PROVE  Running(r, d, full, inMove) \in State
<1> DEFINE more == AtMost(LongestRun, r.ran[d] + Counted(r))
           a == [r EXCEPT !.ran[d] = more, !.ran[Opposite(d)] = 0]
           b == MotorChecked(a, d, inMove)
           c == Autocalibrated(b, inMove)
           f == InForce(c, full)[d]
           k == Calibrated(c, d, f)
<1>1. Running(r, d, full, inMove) = PositionMoved(k, d, f, inMove)
  BY DEF Running
<1>2. more \in Nat
  <2>1. PICK n \in Nat : n = r.ran[d]
    BY TimingIs DEF State
  <2>2. PICK e \in Nat : e = Counted(r)
    BY Ranges DEF Counted
  <2>3. MaxRun + CommPeriod + 1 \in Nat
    BY ConstantAssumption
  <2>4. LongestRun \in Nat
    BY <2>3, Ranges, TimesNat DEF LongestRun
  <2>5. QED
    BY <2>1, <2>2, <2>4 DEF AtMost
<1> HIDE DEF more
<1>3. a \in State
  <2>1. PICK ran \in Timing : ran = [r.ran EXCEPT ![d] = more, ![Opposite(d)] = 0]
    BY <1>2 DEF State, Timing
  <2>2. a = [r EXCEPT !.ran = ran]
    BY <2>1 DEF State
  <2>3. QED
    BY <2>2, FieldTyped
<1> HIDE DEF a
<1>4. b \in State
  BY <1>3, FlaggedTyped
<1> HIDE DEF b
<1>5. c \in State
  BY <1>4, AutocalibratedTyped
<1> HIDE DEF c
<1>6. f \in Nat
  BY <1>5, InForceIs, TimingIs
<1> HIDE DEF f
<1>7. k \in State
  BY <1>5, CalibratedTyped
<1> HIDE DEF k
<1>8. QED
  BY <1>1, <1>6, <1>7, PositionMovedTyped

(* Tasks.                                                                  *)
LEMMA TaskWritten ==
  ASSUME NEW r \in State
  PROVE  /\ \A x \in {Inactive, Active, Setting, SettingTilt} :
              [r EXCEPT !.task.state = x] \in State
         /\ \A d \in Request : [r EXCEPT !.task.direction = d] \in State
<1>1. r.task \in Task
  BY DEF State
<1>2. ASSUME NEW x \in {Inactive, Active, Setting, SettingTilt}
      PROVE  [r EXCEPT !.task.state = x] \in State
  <2>1. PICK t \in Task : t = [r.task EXCEPT !.state = x]
    BY <1>1 DEF Task
  <2>2. [r EXCEPT !.task = t] \in State
    BY FieldTyped
  <2>3. QED
    BY <2>1, <2>2
<1>3. ASSUME NEW d \in Request PROVE [r EXCEPT !.task.direction = d] \in State
  <2>1. PICK t \in Task : t = [r.task EXCEPT !.direction = d]
    BY <1>1 DEF Task
  <2>2. [r EXCEPT !.task = t] \in State
    BY FieldTyped
  <2>3. QED
    BY <2>1, <2>2
<1>4. QED
  BY <1>2, <1>3

(* A task asks for a direction.                                            *)
LEMMA GoTyped ==
  ASSUME NEW r \in State, NEW d \in Request
  PROVE  SetRelay([r EXCEPT !.task.direction = d], d, FALSE, 0) \in State
BY TaskWritten, SetRelayTyped

(* It ends,                                                                *)
LEMMA TaskDoneTyped ==
  ASSUME NEW r \in State
  PROVE  TaskDone(r) \in State
<1> DEFINE s == [r EXCEPT !.task.state = Inactive]
<1>1. s \in State
  BY TaskWritten
<1>2. [r EXCEPT !.task.state = Inactive, !.task.direction = Off]
        = [s EXCEPT !.task.direction = Off]
  BY DEF State, Task
<1>3. TaskDone(r) = SetRelay([s EXCEPT !.task.direction = Off], Off, FALSE, 0)
  BY <1>2 DEF TaskDone
<1> HIDE DEF s
<1>4. QED
  BY <1>1, <1>3, Ranges, GoTyped

(* starts,                                                                 *)
LEMMA TaskStartedTyped ==
  ASSUME NEW r \in State, NEW full
  PROVE  TaskStarted(r, full) \in State
<1> DEFINE s == [r EXCEPT !.task.state = Setting]
           go(d) == SetRelay([s EXCEPT !.task.direction = d], d, FALSE, 0)
<1>1. TaskStarted(r, full) \in {s, go(Up), go(Down)}
  BY DEF TaskStarted
<1>2. s \in State
  BY TaskWritten
<1> HIDE DEF s
<1>3. go(Up) \in State /\ go(Down) \in State
  BY <1>2, Ranges, GoTyped
<1>4. QED
  BY <1>1, <1>2, <1>3

(* goes on with the tilt,                                                  *)
LEMMA TiltStartedTyped ==
  ASSUME NEW r \in State
  PROVE  TiltStarted(r) \in State
<1> DEFINE s == [r EXCEPT !.task.state = SettingTilt]
           go(d) == SetRelay([s EXCEPT !.task.direction = d], d, FALSE, 0)
<1>1. TiltStarted(r) \in {TaskDone(s), go(Up), go(Down)}
  BY DEF TiltStarted
<1>2. s \in State
  BY TaskWritten
<1> HIDE DEF s
<1>3. go(Up) \in State /\ go(Down) \in State
  BY <1>2, Ranges, GoTyped
<1>4. QED
  BY <1>1, <1>2, <1>3, TaskDoneTyped

(* or has set the position.                                                *)
LEMMA PositionSetTyped ==
  ASSUME NEW r \in State, NEW inMove
  PROVE  PositionSet(r, inMove) \in State
<1> DEFINE whole == \/ r.task.position = 0
                    \/ r.task.position = N /\ (FreeOfTilt(r) \/ r.task.tilt = N)
           l == IF whole THEN LostChecked(r, inMove) ELSE r
           s == [l EXCEPT !.task.direction = Off]
<1>1. PositionSet(r, inMove) \in {s, SetRelay(s, Off, FALSE, 0)}
  BY DEF PositionSet
<1>2. l \in State
  BY FlaggedTyped
<1> HIDE DEF l
<1>3. s \in State
  BY <1>2, Ranges, TaskWritten
<1> HIDE DEF s
<1>4. QED
  BY <1>1, <1>3, Ranges, SetRelayTyped

(* What the timer does about a task.                                       *)
LEMMA TaskProcessedTyped ==
  ASSUME NEW r \in State, NEW full, NEW inMove
  PROVE  TaskProcessed(r, full, inMove) \in State
<1> DEFINE a == IF r.task.state = Active THEN TaskStarted(r, full) ELSE r
           b == IF a.task.state = Setting /\ a.task.direction = Off
                THEN TiltStarted(a) ELSE a
           c == IF b.task.state = Setting /\ Reached(b, full) /\ ~RunsOn(b, full, inMove)
                THEN PositionSet(b, inMove) ELSE b
           nearer == IF Percent(r.task.position) < 50 THEN Up ELSE Down
<1>1. TaskProcessed(r, full, inMove)
        \in {r, AutocalStarted(r), SetRelay(r, nearer, FALSE, 0), TaskDone(c), c}
  <2>1. r.perform \in BOOLEAN
    BY DEF State
  <2>2. QED
    BY <2>1 DEF TaskProcessed
<1>2. a \in State
  BY TaskStartedTyped
<1> HIDE DEF a
<1>3. b \in State
  BY <1>2, TiltStartedTyped
<1> HIDE DEF b
<1>4. c \in State
  BY <1>3, PositionSetTyped
<1> HIDE DEF c
<1>5. SetRelay(r, nearer, FALSE, 0) \in State
  BY Ranges, SetRelayTyped
<1>6. QED
  BY <1>1, <1>4, <1>5, AutocalStartedTyped, TaskDoneTyped

(* The server is told.                                                     *)
LEMMA ReportedTyped ==
  ASSUME NEW r \in State
  PROVE  Reported(r) \in State
<1>1. CommPeriod \in Nat /\ CommPeriod > 0
  BY ConstantAssumption
<1>2. PICK n \in 0..(CommPeriod - 1) : n = r.comm
  BY DEF State
<1>3. CASE r.comm < CommPeriod - 1
  <2>1. PICK c \in 0..(CommPeriod - 1) : c = r.comm + 1
    BY <1>1, <1>2, <1>3
  <2>2. [r EXCEPT !.comm = c] \in State
    BY DEF State
  <2>3. QED
    BY <1>3, <2>1, <2>2 DEF Reported
<1>4. CASE ~(r.comm < CommPeriod - 1)
  <2> DEFINE z == [r EXCEPT !.comm = 0]
             s == Sent(z)
  <2>1. 0 \in 0..(CommPeriod - 1)
    BY <1>1
  <2>2. z \in State
    BY <2>1 DEF State
  <2> HIDE DEF z
  <2>3. ValueOf(z) \in Told
    BY <2>2 DEF ValueOf, Told, State
  <2>4. s \in State
    BY <2>2, <2>3 DEF State, Sent
  <2> HIDE DEF s
  <2>5. Reported(r) \in {s, SetRelay(s, Off, FALSE, 0)}
    BY <1>4 DEF Reported, s, z
  <2>6. QED
    BY <2>4, <2>5, Ranges, SetRelayTyped
<1>5. QED
  BY <1>3, <1>4

(* The whole of timer_cb.                                                  *)
LEMMA TimerCbTyped ==
  ASSUME NEW r \in State, NEW inMove \in BOOLEAN
  PROVE  TimerCb(r, inMove) \in State
<1> DEFINE s    == TimesSelected(r)
           full == IF AutocalEnabled(r) THEN s.auto ELSE s.full
           p    == PowerDetected(s, inMove)
           m    == CASE Up \in p.on -> Running(p, Up, full, inMove)
                     [] p.on = {Down} -> Running(p, Down, full, inMove)
                     [] OTHER -> Standing(p)
           c    == AutocalChecked(m)
           g    == InForce(m, full)
           t    == TaskProcessed(c, g, inMove)
<1>1. TimerCb(r, inMove) = Reported(t)
  BY DEF TimerCb
<1>2. s \in State
  BY TimesSelectedTyped
<1> HIDE DEF s
<1>3. full \in Timing
  BY <1>2 DEF State
<1> HIDE DEF full
<1>4. p \in State
  BY <1>2, PowerDetectedTyped
<1> HIDE DEF p
<1>5. m \in {Running(p, Up, full, inMove), Running(p, Down, full, inMove), Standing(p)}
  BY <1>4 DEF State, Direction
<1>6. m \in State
  BY <1>3, <1>4, <1>5, Ranges, RunningTyped, FlaggedTyped
<1> HIDE DEF m
<1>7. c \in State
  BY <1>6, FlaggedTyped
<1> HIDE DEF c, g
<1>8. t \in State
  BY <1>7, TaskProcessedTyped
<1> HIDE DEF t
<1>9. QED
  BY <1>1, <1>8, ReportedTyped

(* Requests, and what is asked for.                                        *)
LEMMA TimesAppliedTyped ==
  ASSUME NEW r \in State, NEW t \in Timing
  PROVE  TimesApplied(r, t) \in State
<1> DEFINE w == [r EXCEPT !.full = t, !.auto = Zero]
           s == IF TimesReset(r, t) THEN Retimed(r, t) ELSE r
           y == s.perform /\ s.full = Zero
           p == [s EXCEPT !.perform = y]
<1>1. Zero \in Timing
  BY Ranges
<1>2. w \in State
  BY <1>1 DEF State
<1>3. Retimed(r, t) = Voided(w)
  BY DEF Retimed
<1> HIDE DEF w
<1>4. s \in State
  BY <1>2, <1>3, VoidedTyped
<1> HIDE DEF s
<1>5. y \in BOOLEAN
  BY <1>4 DEF State
<1>6. TimesApplied(r, t) = CfgSaved(StateSaved(p))
  BY DEF TimesApplied, s
<1> HIDE DEF y
<1>7. p \in State
  BY <1>4, <1>5, FieldTyped
<1> HIDE DEF p
<1>8. QED
  BY <1>6, <1>7, SavedTyped

(* A task is added.                                                        *)
LEMMA TaskAddedTyped ==
  ASSUME NEW r \in State, NEW p \in Keep..N, NEW t \in Keep..N
  PROVE  TaskAdded(r, p, t) \in State
<1> DEFINE runs  == r.task.state # Inactive
           tilt  == IF t = Keep /\ runs THEN r.task.tilt ELSE t
           kept  == IF p = Keep /\ r.task.state \in {Active, Setting}
                    THEN r.task.position ELSE p
           fixed == r.blind.type = "closed"
           pos   == IF fixed /\ kept = Keep /\ tilt # Keep THEN N ELSE kept
           free  == pos = N \/ (pos = Keep /\ r.position = Closed)
           k     == [state |-> Active, position |-> pos, direction |-> Off,
                     tilt |-> IF fixed /\ ~free THEN 0 ELSE tilt]
<1>1. TaskAdded(r, p, t) \in {r, StateSaved([r EXCEPT !.task = k])}
  BY DEF TaskAdded
<1>2. r.task.tilt \in Keep..N /\ r.task.position \in Keep..N
  BY DEF State, Task
<1>3. N \in Keep..N /\ 0 \in Keep..N /\ Off \in Request
  BY Ranges
<1>4. tilt \in Keep..N /\ kept \in Keep..N
  BY <1>2
<1> HIDE DEF tilt, kept
<1>5. pos \in Keep..N
  BY <1>3, <1>4
<1> HIDE DEF pos
<1>6. (IF fixed /\ ~free THEN 0 ELSE tilt) \in Keep..N
  BY <1>3, <1>4
<1>7. k \in Task
  BY <1>3, <1>5, <1>6 DEF Task
<1> HIDE DEF k
<1>8. [r EXCEPT !.task = k] \in State
  BY <1>7, FieldTyped
<1>9. QED
  BY <1>1, <1>8, SavedTyped

(* What may be asked for.                                                  *)
LEMMA RequestIs ==
  ASSUME NEW r, NEW d \in Direction
  PROVE  OrStop(r, d) \in Request /\ Opposite(d) \in Direction
BY Ranges DEF OrStop, Opposite

(* The shutter is moved step by step.                                      *)
LEMMA StepByStepTyped ==
  ASSUME NEW r \in State
  PROVE  StepByStep(r) \in State
<1> DEFINE last == IF r.lastDirection # Off THEN r.lastDirection
                   ELSE IF Percent(r.position - 1) > 50 THEN Down ELSE Up
           s == IF Value(r) = Off THEN [r EXCEPT !.lastDirection = last] ELSE r
<1>1. last \in Direction
  BY Ranges DEF State, Request, Direction
<1>2. StepByStep(r) = SetRelay(s, OrStop(r, Opposite(last)), TRUE, 0)
  BY DEF StepByStep
<1> HIDE DEF last
<1>3. last \in Request /\ OrStop(r, Opposite(last)) \in Request
  BY <1>1, Ranges, RequestIs
<1>4. s \in State
  BY <1>3, FieldTyped
<1> HIDE DEF s
<1>5. QED
  BY <1>2, <1>3, <1>4, SetRelayTyped

(* The direction is swapped.                                               *)
LEMMA SwappedTyped ==
  ASSUME NEW r \in State
  PROVE  MotorSwapped(r) \in State
<1> DEFINE over == {Opposite(d) : d \in r.on}
<1>1. over \in SUBSET Direction
  BY RequestIs DEF State
<1>2. MotorSwapped(r) = [r EXCEPT !.on = over, !.swapped = ~r.swapped]
  BY DEF MotorSwapped
<1> HIDE DEF over
<1>3. PICK b \in BOOLEAN : b = ~r.swapped
  OBVIOUS
<1>4. [r EXCEPT !.on = over, !.swapped = b] \in State
  BY <1>1 DEF State
<1>5. QED
  BY <1>2, <1>3, <1>4

(* The time margin is set.                                                 *)
LEMMA MarginTyped ==
  ASSUME NEW r \in State, NEW m \in -1..100
  PROVE  MarginApplied(r, m) \in State
<1>1. PICK k \in -1..100 \cup {DefaultMargin} : k = IF m >= 0 THEN m ELSE DefaultMargin
  OBVIOUS
<1>2. [r EXCEPT !.addMargin = m, !.margin = k] \in State
  BY DEF State
<1>3. QED
  BY <1>1, <1>2 DEF MarginApplied

(* The restart: everything from flash has its type.                        *)
LEMMA BootedTyped ==
  ASSUME NEW f \in Flash, NEW autoCal \in BOOLEAN
  PROVE  Booted(f, autoCal) \in State
<1> DEFINE none == [left |-> Disarmed, value |-> Off, autoCal |-> FALSE]
           sent == [position |-> 0, tilt |-> 0, flags |-> {}]
           tilt == IF f.blind.type # "none" /\ f.blind.time # 0 THEN f.tilt ELSE Unset
<1>1. none \in Trigger
  BY Ranges DEF Trigger
<1>2. sent \in Told
  BY Ranges DEF Told
<1>3. NoTask \in Task
  BY Ranges DEF Task, NoTask
<1>4. tilt \in Unset..Closed
  BY Ranges DEF Flash
<1>5. DefaultMargin \in -1..100 \cup {DefaultMargin} /\ Off \in Request
      /\ 0 \in 0..(CommPeriod - 1) /\ 0 \in 0..3 /\ 0 \in Nat \cup {Unset}
  BY Ranges, ConstantAssumption
<1>6. Zero \in Timing
  BY Ranges
<1> HIDE DEF none, sent, tilt
<1>7. [on |-> {}, startAge |-> Unset, stopAge |-> 0, trigger |-> none,
       ran |-> Zero, position |-> f.position, tilt |-> tilt,
       task |-> NoTask, step |-> 0, perform |-> FALSE, buttonReq |-> FALSE,
       detected |-> FALSE, lastDirection |-> Off, flags |-> {}, full |-> f.full,
       auto |-> f.auto, autoCal |-> autoCal, blind |-> f.blind,
       addMargin |-> f.addMargin, margin |-> DefaultMargin, swapped |-> f.swapped,
       comm |-> 0, sent |-> sent, flash |-> f] \in State
  BY <1>1, <1>2, <1>3, <1>4, <1>5, <1>6 DEF State, Flash
<1>8. QED
  BY <1>7 DEF Booted, none, sent, tilt

(* A tick of the clock.                                                    *)
LEMMA AgedTyped ==
  ASSUME NEW r \in State
  PROVE  Aged(r) \in State
<1> DEFINE start == Older(r.startAge, Window + StopDelay + FilterTime)
           stop == Older(r.stopAge, StartDelay)
           left == IF r.trigger.left > 0 THEN r.trigger.left - 1 ELSE r.trigger.left
           t == [r.trigger EXCEPT !.left = left]
<1>1. r.trigger \in Trigger /\ r.trigger.left \in Nat \cup {Disarmed}
  BY DEF State, Trigger
<1>2. left \in Nat \cup {Disarmed}
  BY <1>1 DEF Disarmed
<1> HIDE DEF left
<1>3. t \in Trigger
  BY <1>1, <1>2 DEF Trigger
<1>4. start \in Nat \cup {Unset} /\ stop \in Nat \cup {Unset}
  <2>1. r.startAge \in Nat \cup {Unset} /\ r.stopAge \in Nat \cup {Unset}
    BY DEF State
  <2>2. Window + StopDelay + FilterTime \in Nat /\ StartDelay \in Nat
    BY ConstantAssumption
  <2>3. \A age \in Nat \cup {Unset} : \A limit \in Nat : Older(age, limit) \in Nat \cup {Unset}
    BY DEF Older, AtMost, Unset
  <2>4. QED
    BY <2>1, <2>2, <2>3
<1>5. Aged(r) = [r EXCEPT !.startAge = start, !.stopAge = stop, !.trigger = t]
  BY <1>1 DEF Aged, left, Trigger, State
<1> HIDE DEF start, stop, t
<1>6. [r EXCEPT !.startAge = start, !.stopAge = stop, !.trigger = t] \in State
  BY <1>3, <1>4 DEF State
<1>7. QED
  BY <1>5, <1>6

(* The motor does not leave its way.                                       *)
Places(s) == [position : 0..s.travel, tilt : 0..s.slats]

(* The real motor runs in one of the two directions or in none.            *)
LEMMA DrivenIs ==
  ASSUME NEW end \in Nat, NEW x \in 0..end, NEW d
  PROVE  Driven(d, x, end) \in 0..end
BY DEF Driven

(* The real shutter stays between its ends.                                *)
LEMMA TurnedIs ==
  ASSUME shutter \in Shutters, real \in Places(shutter)
  PROVE  Turned \in Places(shutter)
<1>1. PICK travel \in Nat, slats \in Nat : travel = shutter.travel /\ slats = shutter.slats
  BY ConstantAssumption DEF IsShutter
<1>2. ASSUME NEW d PROVE DrivenTo(d, real) \in Places(shutter)
  <2> DEFINE p == Driven(d, real.position, travel)
             t == Driven(d, real.tilt, slats)
  <2>1. p \in 0..travel /\ t \in 0..slats
    BY <1>1, DrivenIs DEF Places
  <2> HIDE DEF p, t
  <2>2. /\ [real EXCEPT !.position = p] \in Places(shutter)
        /\ [real EXCEPT !.tilt = t] \in Places(shutter)
        /\ [[real EXCEPT !.position = p] EXCEPT !.tilt = t] \in Places(shutter)
    BY <1>1, <2>1 DEF Places
  <2>3. [real EXCEPT !.tilt = t].tilt = t
    BY DEF Places
  <2>4. DrivenTo(d, real) \in {[[real EXCEPT !.position = p] EXCEPT !.tilt = t],
                               [real EXCEPT !.tilt = t], [real EXCEPT !.position = p]}
    BY <1>1, <2>3 DEF DrivenTo, p, t
  <2>5. QED
    BY <2>2, <2>4
<1>3. QED
  BY <1>2 DEF Turned

(* The times, margins, blinds and tasks of a shutter have their types.     *)
LEMMA AskedIs ==
  ASSUME shutter \in Shutters
  PROVE  /\ shutter.times \subseteq Timing
         /\ shutter.margins \subseteq -1..100
         /\ shutter.blinds \subseteq Blind
         /\ shutter.tasks \cup {Keep} \subseteq Keep..N
         /\ shutter.autoCal \in BOOLEAN
<1>1. IsShutter(shutter)
  BY ConstantAssumption
<1>2. ASSUME NEW t \in Nat \X Nat PROVE t \in Timing
  BY DEF Timing, Direction, Up, Down
<1>3. QED
  BY <1>1, <1>2, Ranges DEF IsShutter, Blind, Keep

(* Recalibration is asked for.                                             *)
LEMMA RecalibrateTyped ==
  ASSUME TypeOK, NEW t \in Timing, Recalibrate(t)
  PROVE  rs' \in State
<1> DEFINE w == [rs EXCEPT !.step = 0, !.auto = Zero]
           void == Voided(w)
           back == [void EXCEPT !.tilt = rs.tilt]
<1>1. rs' \in {TaskAdded(TimesApplied(void, t), 0, 0), TaskAdded(void, 0, 0),
               TaskAdded(TimesApplied(back, rs.full), 0, 0)}
  BY DEF Recalibrate, By
<1>2. rs \in State /\ rs.tilt \in Unset..Closed /\ rs.full \in Timing
  BY DEF TypeOK, State
<1>3. 0 \in 0..3 /\ Zero \in Timing
  BY Ranges
<1>4. w \in State
  BY <1>2, <1>3 DEF State
<1> HIDE DEF w
<1>5. void \in State
  BY <1>4, VoidedTyped
<1> HIDE DEF void
<1>6. back \in State
  BY <1>2, <1>5 DEF State
<1> HIDE DEF back
<1>7. TimesApplied(void, t) \in State /\ TimesApplied(back, rs.full) \in State
  BY <1>2, <1>5, <1>6, TimesAppliedTyped
<1>8. QED
  BY <1>1, <1>5, <1>7, Ranges, TaskAddedTyped

(* A configuration arrives.                                                *)
LEMMA ConfigureTyped ==
  ASSUME TypeOK, NEW swap, NEW m \in -1..100, NEW t \in Timing, NEW b \in Blind,
         Configure(swap, m, t, b)
  PROVE  rs' \in State
<1> DEFINE s == IF swap THEN MotorSwapped(rs) ELSE rs
           k == MarginApplied(s, m)
           u == [k EXCEPT !.blind = b]
<1>1. rs' = TimesApplied(u, t)
  BY DEF Configure, By
<1>2. s \in State
  BY SwappedTyped DEF TypeOK
<1> HIDE DEF s
<1>3. k \in State
  BY <1>2, MarginTyped
<1> HIDE DEF k
<1>4. u \in State
  BY <1>3 DEF State
<1> HIDE DEF u
<1>5. QED
  BY <1>1, <1>4, TimesAppliedTyped

(* Every request.                                                          *)
LEMMA AskTyped ==
  ASSUME TypeOK, Ask
  PROVE  rs' \in State
<1>1. rs \in State /\ shutter \in Shutters
  BY DEF TypeOK
<1>2. ASSUME NEW d \in Direction,
             ButtonPressed(d) \/ ButtonReleased(d) \/ ButtonClicked(d)
      PROVE  rs' \in State
  <2>1. OrStop(rs, d) \in Request /\ d \in Request /\ Off \in Request
    BY Ranges, RequestIs
  <2>2. rs' \in {SetRelay(rs, d, TRUE, 1), SetRelay(rs, Off, TRUE, 1),
                 SetRelay(rs, Off, TRUE, 0), SetRelay(rs, OrStop(rs, d), TRUE, 1)}
    BY <1>2 DEF ButtonPressed, ButtonReleased, ButtonClicked, By
  <2>3. QED
    BY <1>1, <2>1, <2>2, SetRelayTyped
<1>3. ASSUME HoldReleased PROVE rs' \in State
  BY <1>1, <1>3, Ranges, SetRelayTyped DEF HoldReleased, By
<1>4. ASSUME NEW t \in shutter.times,
             \/ \E value \in Request : ServerMoves(value, t)
             \/ \E d \in Direction : ServerOrStop(d, t)
             \/ ServerSteps(t)
             \/ \E p, y \in shutter.tasks \cup {Keep} : ServerTask(p, y, t)
             \/ Recalibrate(t)
             \/ \E swap \in BOOLEAN, m \in shutter.margins, b \in shutter.blinds :
                  Configure(swap, m, t, b)
      PROVE  rs' \in State
  <2> DEFINE r == TimesApplied(rs, t)
  <2>1. t \in Timing
    BY <1>1, AskedIs
  <2>2. r \in State
    BY <1>1, <2>1, TimesAppliedTyped
  <2>3. CASE \E value \in Request : ServerMoves(value, t)
    <3>1. PICK value \in Request : rs' = SetRelay(r, value, TRUE, 0)
      BY <2>3 DEF ServerMoves, By
    <3> HIDE DEF r
    <3>2. QED
      BY <2>2, <3>1, SetRelayTyped
  <2>4. CASE \E d \in Direction : ServerOrStop(d, t)
    <3>1. PICK d \in Direction : rs' = SetRelay(r, OrStop(r, d), TRUE, 0)
      BY <2>4 DEF ServerOrStop, By
    <3> HIDE DEF r
    <3>2. QED
      BY <2>2, <3>1, RequestIs, SetRelayTyped
  <2>5. CASE ServerSteps(t)
    <3>1. rs' = StepByStep(r)
      BY <2>5 DEF ServerSteps, By
    <3> HIDE DEF r
    <3>2. QED
      BY <2>2, <3>1, StepByStepTyped
  <2>6. CASE \E p, y \in shutter.tasks \cup {Keep} : ServerTask(p, y, t)
    <3>1. PICK p \in Keep..N, y \in Keep..N : rs' = TaskAdded(r, p, y)
      BY <1>1, <2>6, AskedIs DEF ServerTask, By
    <3> HIDE DEF r
    <3>2. QED
      BY <2>2, <3>1, TaskAddedTyped
  <2>7. CASE Recalibrate(t)
    BY <2>1, <2>7, RecalibrateTyped
  <2>8. CASE \E swap \in BOOLEAN, m \in shutter.margins, b \in shutter.blinds :
               Configure(swap, m, t, b)
    <3>1. PICK swap \in BOOLEAN, m \in -1..100, b \in Blind : Configure(swap, m, t, b)
      BY <1>1, <2>8, AskedIs
    <3>2. QED
      BY <2>1, <3>1, ConfigureTyped
  <2>9. QED
    BY <1>4, <2>3, <2>4, <2>5, <2>6, <2>7, <2>8
<1>5. ASSUME PowerCycle PROVE rs' \in State
  <2>1. rs.flash \in Flash /\ rs.autoCal \in BOOLEAN
    BY <1>1 DEF State
  <2>2. QED
    BY <1>5, <2>1, BootedTyped DEF PowerCycle, By
<1>6. QED
  BY <1>2, <1>3, <1>4, <1>5 DEF Ask

(* Every step keeps the types of the device and of the real shutter.       *)
LEMMA TypeStep == TypeOK /\ [Next]_vars => TypeOK'
<1> SUFFICES ASSUME TypeOK, [Next]_vars PROVE TypeOK'
  OBVIOUS
<1>1. rs \in State /\ shutter \in Shutters /\ real \in Places(shutter)
  BY DEF TypeOK, Places
<1>2. CASE Ask
  <2>1. UNCHANGED <<real, shutter>>
    BY <1>2 DEF Ask, ButtonPressed, ButtonReleased, ButtonClicked, HoldReleased, ServerMoves,
                ServerOrStop, ServerSteps, ServerTask, Recalibrate, Configure, PowerCycle, By
  <2>2. QED
    BY <1>1, <1>2, <2>1, AskTyped DEF TypeOK
<1>3. CASE TriggerFires
  BY <1>1, <1>3, FiredTyped DEF TypeOK, TriggerFires
<1>4. CASE Tick
  <2>1. PICK inMove \in InMove : rs' = TimerCb(Aged(rs), inMove)
    BY <1>4 DEF Tick
  <2>2. inMove \in BOOLEAN
    <3>1. Seen \in BOOLEAN
      BY DEF Seen
    <3>2. shutter.sensor \in {"none", "ideal", "any"}
      BY <1>1, ConstantAssumption DEF IsShutter
    <3>3. QED
      BY <3>1, <3>2 DEF InMove
  <2>3. rs' \in State
    BY <1>1, <2>1, <2>2, AgedTyped, TimerCbTyped
  <2>4. real' \in Places(shutter) /\ shutter' = shutter
    BY <1>1, <1>4, TurnedIs DEF Tick
  <2>5. QED
    BY <1>1, <2>3, <2>4 DEF TypeOK, Places
<1>5. CASE UNCHANGED vars
  BY <1>5 DEF TypeOK, vars
<1>6. QED
  BY <1>2, <1>3, <1>4, <1>5 DEF Next

(* They are right at the start.                                            *)
LEMMA TypeInit == Init => TypeOK
<1> SUFFICES ASSUME Init PROVE TypeOK
  OBVIOUS
<1>1. shutter \in Shutters /\ real \in Places(shutter)
  BY DEF Init, Places
<1>2. PICK p \in 0..Closed, y \in 0..Closed, t \in shutter.times, m \in shutter.margins,
           b \in shutter.blinds :
        rs = Booted([position |-> p, tilt |-> y, full |-> t, auto |-> Zero, blind |-> b,
                     addMargin |-> m, swapped |-> FALSE], shutter.autoCal)
  BY ZenonT(60) DEF Init
<1>3. /\ t \in Timing /\ m \in -1..100 /\ b \in Blind /\ shutter.autoCal \in BOOLEAN
      /\ Zero \in Timing /\ y \in Unset..Closed
  BY <1>1, AskedIs, Ranges
<1>4. [position |-> p, tilt |-> y, full |-> t, auto |-> Zero, blind |-> b,
       addMargin |-> m, swapped |-> FALSE] \in Flash
  BY <1>3 DEF Flash
<1>5. rs \in State
  BY <1>2, <1>3, <1>4, BootedTyped
<1>6. QED
  BY <1>1, <1>5 DEF TypeOK, Places

(* Whatever is asked for, and in whatever order, every field of a shutter  *)
(* has its type: position and tilt stay between their ends, no time is     *)
(* counted below zero, and a task never points outside 0..100 %.           *)
THEOREM TypeCorrect == Spec => []TypeOK
<1>1. Init => TypeOK
  BY TypeInit
<1>2. TypeOK /\ [Next]_vars => TypeOK'
  BY TypeStep
<1>3. QED
  BY <1>1, <1>2, PTL DEF Spec
-----------------------------------------------------------------------------
(* Automatic calibration.  What is to be shown about the position, the     *)
(* times and the calibration is told by these fields.                      *)
Sane(r) == r \in State /\ Good(r)
Alike(r, s) ==
  /\ s.position = r.position /\ s.full = r.full /\ s.auto = r.auto
  /\ s.perform = r.perform /\ s.step = r.step /\ s.autoCal = r.autoCal
  /\ s.flash.auto = r.flash.auto /\ s.ran = r.ran

(* Most calls leave them alone.                                            *)
LEMMA AlikeTwice ==
  ASSUME NEW r, NEW s, NEW t, Alike(r, s), Alike(s, t)
  PROVE  Alike(r, t)
BY DEF Alike

(* The flash keeps what is saved.                                          *)
LEMMA SavedAlike ==
  ASSUME NEW r \in State
  PROVE  Alike(r, StateSaved(r)) /\ StateSaved(r).buttonReq = r.buttonReq
<1>1. r.flash \in Flash
  BY DEF State
<1>2. [r.flash EXCEPT !.position = r.position, !.tilt = r.tilt].auto = r.flash.auto
  BY <1>1 DEF Flash
<1>3. StateSaved(r) = [r EXCEPT !.flash = [r.flash EXCEPT !.position = r.position,
                                                        !.tilt = r.tilt]]
  BY DEF StateSaved, State
<1>4. QED
  BY <1>2, <1>3 DEF Alike, State

(* A relay is set.                                                         *)
LEMMA RelayAlike ==
  ASSUME NEW r \in State, NEW d, NEW hi
  PROVE  LET s == RelayHi(r, d, hi)
         IN  /\ Alike(r, s) /\ s.trigger = r.trigger /\ s.addMargin = r.addMargin
             /\ s.buttonReq = r.buttonReq
BY DEF RelayHi, Alike, State

(* The trigger is armed.                                                   *)
LEMMA DelayedIs ==
  ASSUME NEW r \in State, NEW value, NEW wait
  PROVE  LET s == Delayed(r, value, wait)
         IN  /\ Alike(r, s) /\ ~s.buttonReq /\ s.on = r.on
             /\ s.trigger = [left |-> wait, value |-> value, autoCal |-> r.buttonReq]
BY DEF Delayed, Alike, State

(* How set_relay ends when it switches off: at once, or later if the       *)
(* motor has just started and the caller asks for that.                    *)
LEMMA StopIs ==
  ASSUME NEW r, Sane(r), NEW stopDelay
  PROVE  LET s == Stop(r, stopDelay)
         IN  /\ Sane(s) /\ Alike(r, s) /\ ~s.buttonReq
             /\ \/ s.on = {} /\ s.trigger = r.trigger
                \/ stopDelay = 1 /\ s.trigger.autoCal = r.buttonReq
<1> DEFINE one == RelayHi(r, Up, 0)
           low == RelayHi(one, Down, 0)
           s == [low EXCEPT !.buttonReq = FALSE]
<1>1. Sane(Stop(r, stopDelay))
  BY StopTyped, StopGood DEF Sane
<1>2. CASE StopWait(r, stopDelay) > MinDelay
  <2>1. stopDelay = 1
    BY <1>2, ConstantAssumption DEF StopWait
  <2>2. Stop(r, stopDelay) = Delayed(r, Off, StopWait(r, stopDelay))
    BY <1>2 DEF Stop
  <2>3. LET t == Delayed(r, Off, StopWait(r, stopDelay))
        IN  /\ Alike(r, t) /\ ~t.buttonReq
            /\ t.trigger = [left |-> StopWait(r, stopDelay), value |-> Off,
                            autoCal |-> r.buttonReq]
    BY DelayedIs DEF Sane
  <2>4. QED
    BY <1>1, <2>1, <2>2, <2>3
<1>3. CASE ~(StopWait(r, stopDelay) > MinDelay)
  <2>1. one \in State /\ Alike(r, one) /\ one.trigger = r.trigger
    BY Ranges, RelayTyped, RelayAlike DEF Sane
  <2>2. low \in State /\ Alike(one, low) /\ low.trigger = one.trigger
    BY <2>1, Ranges, RelayTyped, RelayAlike
  <2>3. low.on = {}
    BY BothLow DEF Sane
  <2> HIDE DEF low, one
  <2>4. Alike(low, s) /\ ~s.buttonReq /\ s.on = low.on /\ s.trigger = low.trigger
    BY <2>2 DEF Alike, State
  <2>5. Stop(r, stopDelay) = s
    BY <1>3 DEF Stop, low, one
  <2> HIDE DEF s
  <2>6. QED
    BY <1>1, <2>1, <2>2, <2>3, <2>4, <2>5, AlikeTwice
<1>4. QED
  BY <1>2, <1>3

(* How it ends when it starts the motor: the start is put off, or the      *)
(* shutter is there already and has no margin, or the relay is on.         *)
LEMMA StartIs ==
  ASSUME NEW r, Sane(r), NEW d \in Direction
  PROVE  LET s == Start(r, d)
         IN  /\ Sane(s) /\ Alike(r, s)
             /\ \/ /\ ~s.buttonReq /\ s.on = {} /\ s.trigger.left # Disarmed
                   /\ s.trigger.value = d /\ s.trigger.autoCal = r.buttonReq
                \/ /\ r.position = EndOf(d) /\ s.buttonReq = r.buttonReq
                   /\ s.trigger = r.trigger
                \/ ~s.buttonReq /\ s.on = {d} /\ s.trigger = r.trigger
<1> DEFINE q == Requested(r, d)
           low == Lowered(q, d)
           wait == StartWait(low)
           high == RelayHi(low, d, 1)
           s == [high EXCEPT !.buttonReq = FALSE]
<1>1. Sane(Start(r, d))
  BY StartTyped, StartGood DEF Sane
<1>2. /\ q \in State /\ Alike(r, q) /\ q.trigger = r.trigger /\ q.buttonReq = r.buttonReq
  <2>1. r.flags \ {"Failed", "Motor", "Lost"} \in SUBSET Flags /\ d \in Request
    BY Ranges DEF Sane, State
  <2>2. QED
    BY <2>1 DEF Requested, Alike, State, Sane
<1>3. Good(q)
  BY DEF Sane, Good, Requested, Shaped, AgesTell, Fields
<1>4. /\ low \in State /\ Alike(q, low) /\ low.trigger = q.trigger
      /\ low.buttonReq = q.buttonReq
  <2>1. Opposite(d) \in Direction
    BY Ranges DEF Opposite
  <2>2. QED
    BY <1>2, <2>1, RelayTyped, RelayAlike DEF Lowered, Alike
<1>5. Good(low) /\ Opposite(d) \notin low.on
  BY <1>3, LoweredGood
<1> HIDE DEF q
<1>6. Start(r, d) = IF wait > MinDelay THEN Delayed(low, d, wait)
                    ELSE IF low.addMargin = 0 /\ low.position = EndOf(d) THEN low ELSE s
  BY DEF Start, q
<1> HIDE DEF low
<1>7. Alike(r, low) /\ low.trigger = r.trigger /\ low.buttonReq = r.buttonReq
  BY <1>2, <1>4, AlikeTwice
<1>8. CASE wait > MinDelay
  <2>1. low.startAge = Unset /\ wait # Disarmed
    BY <1>8, ConstantAssumption DEF StartWait, Disarmed
  <2>2. low.on = {}
    BY <1>5, <2>1 DEF Good, AgesTell, Unset
  <2>3. LET t == Delayed(low, d, wait)
        IN  /\ Alike(low, t) /\ ~t.buttonReq /\ t.on = low.on
            /\ t.trigger = [left |-> wait, value |-> d, autoCal |-> low.buttonReq]
    BY <1>4, DelayedIs
  <2>4. QED
    BY <1>1, <1>6, <1>7, <1>8, <2>1, <2>2, <2>3, AlikeTwice
<1>9. CASE ~(wait > MinDelay) /\ low.addMargin = 0 /\ low.position = EndOf(d)
  <2>1. r.position = EndOf(d)
    BY <1>7, <1>9 DEF Alike
  <2>2. QED
    BY <1>1, <1>6, <1>7, <1>9, <2>1
<1>10. CASE ~(wait > MinDelay) /\ ~(low.addMargin = 0 /\ low.position = EndOf(d))
  <2>1. high \in State /\ Alike(low, high) /\ high.trigger = low.trigger
    BY <1>4, RelayTyped, RelayAlike
  <2>2. high.on = {d}
    BY <1>5, RelayHigh
  <2> HIDE DEF high
  <2>3. Alike(high, s) /\ ~s.buttonReq /\ s.on = high.on /\ s.trigger = high.trigger
    BY <2>1 DEF Alike, State
  <2>4. Start(r, d) = s
    BY <1>6, <1>10
  <2> HIDE DEF s
  <2>5. QED
    BY <1>1, <1>7, <2>1, <2>2, <2>3, <2>4, AlikeTwice
<1>11. QED
  BY <1>8, <1>9, <1>10

(* What set_relay does before: a calibration under way is broken off if    *)
(* the call is not a part of it, a task may be cancelled, and the trigger  *)
(* is disarmed.                                                            *)
Broken(s) == s.position = 0 /\ s.full = Zero /\ s.auto = Zero /\ s.step = 0
Kept(r, s) ==
  /\ s.perform = r.perform /\ s.autoCal = r.autoCal
  /\ s.flash.auto = r.flash.auto /\ s.ran = r.ran

(* A calibration under way is broken off, unless the call is a part of it. *)
LEMMA AbortedIs ==
  ASSUME NEW r, Sane(r)
  PROVE  LET s == Aborted(r)
         IN  /\ Sane(s) /\ s.buttonReq = r.buttonReq /\ s.trigger = r.trigger
             /\ r.buttonReq \/ ~(r.step > 0) => s = r
             /\ ~r.buttonReq /\ r.step > 0 => Broken(s) /\ Kept(r, s)
<1> DEFINE s == Aborted(r)
<1>1. Aside(r, s)
  BY AbortedAside DEF Sane, Good
<1>2. Sane(s) /\ s.trigger = r.trigger
  BY <1>1, AbortedTyped, AsideGood DEF Sane, Aside
<1>3. CASE r.buttonReq \/ ~(r.step > 0)
  <2>1. s = r
    BY <1>3 DEF Aborted
  <2>2. QED
    BY <1>2, <1>3, <2>1
<1>4. CASE ~r.buttonReq /\ r.step > 0
  <2>1. s = [[r EXCEPT !.step = 0, !.full = Zero, !.auto = Zero]
               EXCEPT !.position = 0, !.tilt = 0]
    BY <1>4 DEF Aborted, Voided
  <2>2. Broken(s) /\ Kept(r, s) /\ s.buttonReq = r.buttonReq
    BY <2>1 DEF Broken, Kept, Sane, State
  <2>3. QED
    BY <1>2, <1>4, <2>2
<1>5. QED
  BY <1>3, <1>4

(* A task is cancelled without touching calibration, times or position.    *)
LEMMA CancelledIs ==
  ASSUME NEW r, Sane(r)
  PROVE  LET s == Cancelled(r)
         IN  Sane(s) /\ Alike(r, s) /\ s.buttonReq = r.buttonReq /\ s.trigger = r.trigger
<1> DEFINE s == Cancelled(r)
           c == [r EXCEPT !.task = NoTask]
<1>1. Aside(r, s)
  BY CancelledAside DEF Sane, Good
<1>2. Sane(s) /\ s.trigger = r.trigger
  BY <1>1, CancelledTyped, AsideGood DEF Sane, Aside
<1>3. Alike(r, c) /\ c.buttonReq = r.buttonReq /\ c \in State
  <2>1. NoTask \in Task
    BY Ranges DEF Task, NoTask
  <2>2. QED
    BY <2>1 DEF Alike, Sane, State
<1>4. s = StateSaved(c)
  BY DEF Cancelled
<1> HIDE DEF c
<1>5. Alike(c, s) /\ s.buttonReq = c.buttonReq
  BY <1>3, <1>4, SavedAlike
<1>6. QED
  BY <1>2, <1>3, <1>5, AlikeTwice

(* So is the trigger disarmed.                                             *)
LEMMA DisarmedIs ==
  ASSUME NEW r, Sane(r)
  PROVE  LET s == TriggerDisarmed(r)
         IN  /\ Sane(s) /\ Alike(r, s) /\ s.buttonReq = r.buttonReq
             /\ s.trigger = [r.trigger EXCEPT !.left = Disarmed]
             /\ s.trigger.left = Disarmed
<1> DEFINE s == TriggerDisarmed(r)
<1>1. Sane(s)
  BY DisarmedTyped, DisarmedGood DEF Sane
<1>2. r.trigger \in Trigger
  BY DEF Sane, State
<1>3. [r.trigger EXCEPT !.left = Disarmed].left = Disarmed
  BY <1>2 DEF Trigger
<1>4. /\ Alike(r, s) /\ s.buttonReq = r.buttonReq
      /\ s.trigger = [r.trigger EXCEPT !.left = Disarmed]
  BY DEF TriggerDisarmed, Alike, Sane, State
<1>5. QED
  BY <1>1, <1>3, <1>4

(* A call that is not a part of calibration: it ends one that is under     *)
(* way, with the position and the times it had, and changes neither        *)
(* otherwise.                                                              *)
Free(s) ==
  ~s.buttonReq /\ s.step = 0 /\ (s.trigger.left = Disarmed \/ ~s.trigger.autoCal)

(* Nothing of a calibration is left after such a call.                     *)
LEMMA SetRelayFrees ==
  ASSUME NEW r, Sane(r), ~r.buttonReq, NEW value \in Request, NEW cancel, NEW stopDelay
  PROVE  LET s == SetRelay(r, value, cancel, stopDelay)
         IN  /\ Sane(s) /\ Free(s) /\ Kept(r, s)
             /\ r.step = 0 => Alike(r, s)
             /\ r.step > 0 => Broken(s)
<1> DEFINE a == Aborted(r)
           c == IF cancel THEN Cancelled(a) ELSE a
           t == TriggerDisarmed(c)
           s == SetRelay(r, value, cancel, stopDelay)
<1>1. /\ Sane(a) /\ ~a.buttonReq /\ Kept(r, a) /\ a.step = 0
      /\ r.step = 0 => a = r
      /\ r.step > 0 => Broken(a)
  <2>1. r.step \in 0..3
    BY DEF Sane, State
  <2>2. QED
    BY <2>1, AbortedIs DEF Kept, Broken
<1> HIDE DEF a
<1>2. Sane(c) /\ Alike(a, c) /\ ~c.buttonReq
  BY <1>1, CancelledIs DEF Alike
<1> HIDE DEF c
<1>3. Sane(t) /\ Alike(c, t) /\ ~t.buttonReq /\ t.trigger.left = Disarmed
  BY <1>2, DisarmedIs
<1>4. s = IF value = Off THEN Stop(t, stopDelay) ELSE Start(t, value)
  BY DEF SetRelay, t, c, a
<1> HIDE DEF t
<1>5. /\ Sane(s) /\ Alike(t, s) /\ ~s.buttonReq
      /\ s.trigger.left = Disarmed \/ ~s.trigger.autoCal
  <2>1. CASE value = Off
    BY <1>3, <1>4, <2>1, StopIs
  <2>2. CASE value # Off
    <3>1. value \in Direction
      BY <2>2 DEF Request, Direction, Off
    <3>2. s = Start(t, value)
      BY <1>4, <2>2
    <3>3. QED
      BY <1>3, <3>1, <3>2, StartIs
  <2>3. QED
    BY <2>1, <2>2
<1> HIDE DEF s
<1>6. Alike(a, s)
  BY <1>2, <1>3, <1>5, AlikeTwice
<1>7. QED
  BY <1>1, <1>5, <1>6 DEF Alike, Kept, Broken, Free, s

(* A call that is a part of it, before there is a position, drives on.     *)
Drives(r, d) ==
  \/ r.on = {d} /\ r.trigger.left = Disarmed
  \/ /\ r.on = {} /\ r.trigger.left # Disarmed
     /\ r.trigger.autoCal /\ r.trigger.value = d

(* Its start is the one of the direction, at once or put off.              *)
LEMMA SetRelayDrives ==
  ASSUME NEW r, Sane(r), r.buttonReq, r.position = 0, NEW d \in Direction
  PROVE  LET s == SetRelay(r, d, FALSE, 0)
         IN  Sane(s) /\ Alike(r, s) /\ ~s.buttonReq /\ Drives(s, d)
<1> DEFINE t == TriggerDisarmed(r)
           s == SetRelay(r, d, FALSE, 0)
<1>1. Aborted(r) = r
  BY AbortedIs
<1>2. /\ Sane(t) /\ Alike(r, t) /\ t.buttonReq = r.buttonReq
      /\ t.trigger.left = Disarmed
  BY DisarmedIs
<1>3. s = Start(t, d)
  <2>1. d # Off
    BY DEF Direction, Up, Down, Off
  <2>2. QED
    BY <1>1, <2>1 DEF SetRelay
<1> HIDE DEF t, s
<1>4. t.position # EndOf(d)
  BY <1>2, Ranges DEF Alike, EndOf, Open, Closed
<1>5. /\ Sane(s) /\ Alike(t, s) /\ ~s.buttonReq
      /\ \/ /\ s.on = {} /\ s.trigger.left # Disarmed
            /\ s.trigger.value = d /\ s.trigger.autoCal
         \/ s.on = {d} /\ s.trigger.left = Disarmed
  BY <1>2, <1>3, <1>4, StartIs
<1>6. QED
  BY <1>2, <1>5, AlikeTwice DEF Drives, s

(* And so does its end: it stops the motor at once.                        *)
LEMMA SetRelayRests ==
  ASSUME NEW r, Sane(r), r.buttonReq
  PROVE  LET s == SetRelay(r, Off, FALSE, 0)
         IN  /\ Sane(s) /\ Alike(r, s) /\ ~s.buttonReq
             /\ s.on = {} /\ s.trigger.left = Disarmed
<1> DEFINE t == TriggerDisarmed(r)
           s == SetRelay(r, Off, FALSE, 0)
<1>1. Aborted(r) = r
  BY AbortedIs
<1>2. /\ Sane(t) /\ Alike(r, t) /\ t.buttonReq = r.buttonReq
      /\ t.trigger.left = Disarmed
  BY DisarmedIs
<1>3. s = Stop(t, 0)
  BY <1>1 DEF SetRelay
<1> HIDE DEF t, s
<1>4. Sane(s) /\ Alike(t, s) /\ ~s.buttonReq /\ s.on = {} /\ s.trigger = t.trigger
  BY <1>2, <1>3, StopIs
<1>5. QED
  BY <1>2, <1>4, AlikeTwice DEF s

(* What calibration keeps true: as long as it is under way there is no     *)
(* position, a position measured by it has its times, and times that are   *)
(* given leave none that were measured.                                    *)
Held(r) ==
  r.trigger.left # Disarmed /\ r.trigger.autoCal => r.on = {} /\ r.position = 0
Based(r) ==
  /\ ~r.buttonReq
  /\ ~r.autoCal => r.auto = Zero /\ r.step = 0 /\ ~r.perform /\ r.flash.auto = Zero
  /\ r.full # Zero => r.auto = Zero
  /\ r.perform => r.full = Zero /\ r.auto = Zero /\ r.position = 0 /\ r.step = 0
  /\ r.step > 0 => r.position = 0
  /\ r.step = 0 /\ r.full = Zero => r.auto = Zero \/ AutocalDone(r)
  /\ r.position # 0 /\ r.autoCal /\ r.full = Zero => AutocalDone(r)
  /\ Held(r)

(* Each of its steps drives in its direction; the last one has measured    *)
(* the way down, in whole ticks, and none has measured more.               *)
Measured(r) ==
  IF r.step = 3 THEN r.auto[Down] > 0 /\ r.auto[Up] = 0 ELSE r.auto = Zero
Whole(n) == \E k \in Nat : n = k * N
Steady(r) ==
  r.step > 0 => /\ Drives(r, StepDirection(r.step))
                /\ r.full = Zero => Measured(r)
                /\ r.step = 2 => Whole(r.ran[Down])
Cal(r) == Sane(r) /\ Based(r) /\ Steady(r)

(* What changes the times leaves no position, if more calls follow.        *)
Rests(r, s) ==
  s.position = 0 \/ (s.position = r.position /\ s.full = r.full /\ s.auto = r.auto)

(* One such call after the other.                                          *)
LEMMA RestsTwice ==
  ASSUME NEW r, NEW s, NEW t, Rests(r, s), Rests(s, t)
  PROVE  Rests(r, t)
BY DEF Rests

(* Marks and the flash.                                                    *)
Marked(r, s) ==
  /\ Alike(r, s) /\ s.buttonReq = r.buttonReq /\ s.on = r.on /\ s.trigger = r.trigger

(* Two that mark are one.                                                  *)
LEMMA MarkedTwice ==
  ASSUME NEW r, NEW s, NEW t, Marked(r, s), Marked(s, t)
  PROVE  Marked(r, t)
BY AlikeTwice DEF Marked

(* What is only marked keeps the calibration as it was.                    *)
LEMMA MarkedKeeps ==
  ASSUME NEW r, NEW s, Sane(s), Marked(r, s)
  PROVE  /\ Based(r) => Based(s)
         /\ Cal(r) => Cal(s) /\ Rests(r, s)
BY DEF Cal, Marked, Alike, Based, Held, Steady, Measured, Drives, Rests, AutocalDone

(* Saving the state only marks.                                            *)
LEMMA SavedMarked ==
  ASSUME NEW r, Sane(r)
  PROVE  Sane(StateSaved(r)) /\ Marked(r, StateSaved(r))
<1>1. Aside(r, StateSaved(r))
  BY SavedAside DEF Sane, Good
<1>2. QED
  BY <1>1, SavedTyped, SavedAlike, AsideGood DEF Marked, Sane, Aside, SameDrive

(* A call from outside ends the calibration.                               *)
LEMMA FreesKeeps ==
  ASSUME NEW r, Sane(r), Based(r), NEW value \in Request, NEW cancel, NEW stopDelay
  PROVE  LET s == SetRelay(r, value, cancel, stopDelay)
         IN  /\ Cal(s) /\ s.step = 0 /\ Rests(r, s) /\ Kept(r, s)
             /\ r.step = 0 => Alike(r, s)
<1> DEFINE s == SetRelay(r, value, cancel, stopDelay)
<1>1. /\ Sane(s) /\ Free(s) /\ Kept(r, s)
      /\ r.step = 0 => Alike(r, s)
      /\ r.step > 0 => Broken(s)
  BY SetRelayFrees DEF Based
<1> HIDE DEF s
<1>2. r.step \in 0..3
  BY DEF Sane, State
<1>3. Steady(s)
  BY <1>1 DEF Steady, Free
<1>4. Held(s)
  BY <1>1 DEF Held, Free
<1>5. Based(s) /\ Rests(r, s)
  <2>1. CASE r.step = 0
    BY <1>1, <1>4, <2>1 DEF Based, Alike, Free, AutocalDone, Rests
  <2>2. CASE r.step > 0
    BY <1>1, <1>4, <2>2 DEF Based, Broken, Kept, Free, Rests
  <2>3. QED
    BY <1>2, <2>1, <2>2
<1>6. QED
  BY <1>1, <1>3, <1>5 DEF Cal, Free, s

(* The tick begins: a calibration that the configuration ended is over.    *)
LEMMA VoidedIs ==
  ASSUME NEW r, Sane(r)
  PROVE  LET s == Voided(r)
         IN  /\ Sane(s) /\ s.position = 0 /\ s.full = r.full /\ s.auto = r.auto
             /\ s.step = r.step /\ s.buttonReq = r.buttonReq /\ s.on = r.on
             /\ s.trigger = r.trigger /\ Kept(r, s)
<1> DEFINE s == Voided(r)
<1>1. Aside(r, s) /\ s \in State
  BY SavedAside, VoidedTyped DEF Sane, Good
<1>2. Sane(s)
  BY <1>1, AsideGood DEF Sane
<1>3. QED
  BY <1>2 DEF Voided, Kept, Sane, State

(* Choosing the times in force voids a position of other times, and the    *)
(* step of a calibration that the configuration ended.                     *)
LEMMA SelectedKeeps ==
  ASSUME NEW r, Cal(r)
  PROVE  LET s == TimesSelected(r)
         IN  /\ Cal(s) /\ Rests(r, s) /\ s.full = r.full /\ s.auto = r.auto
             /\ s.autoCal = r.autoCal /\ s.step \in {r.step, 0}
             /\ s.step > 0 => AutocalEnabled(s)
<1> DEFINE s == TimesSelected(r)
           z == [r EXCEPT !.auto = Zero, !.step = 0]
<1>1. r \in State /\ Good(r) /\ Based(r) /\ Steady(r) /\ r.step \in 0..3
  BY DEF Cal, Sane, State
<1>2. Voided(r) = [r EXCEPT !.position = 0, !.tilt = 0]
  BY DEF Voided
<1>3. CASE AutocalEnabled(r) /\ r.auto = Zero
  <2>1. s = Voided(r)
    BY <1>3 DEF TimesSelected
  <2>2. /\ Sane(s) /\ s.position = 0 /\ s.full = r.full /\ s.auto = r.auto
        /\ s.step = r.step /\ s.buttonReq = r.buttonReq /\ s.on = r.on
        /\ s.trigger = r.trigger /\ Kept(r, s)
    BY <1>1, <2>1, VoidedIs DEF Sane
  <2> HIDE DEF s
  <2>3. r.position = 0
    BY <1>1, <1>3 DEF Based, AutocalDone, AutocalEnabled, Zero, Up, Down
  <2>4. Marked(r, s)
    BY <2>2, <2>3 DEF Marked, Alike, Kept
  <2>5. QED
    BY <1>3, <2>2, <2>4, MarkedKeeps DEF s, AutocalEnabled, Kept
<1>4. CASE AutocalEnabled(r) /\ r.auto # Zero
  <2>1. s = r
    BY <1>4 DEF TimesSelected
  <2>2. QED
    BY <1>4, <2>1 DEF Rests
<1>5. CASE ~AutocalEnabled(r) /\ (r.auto # Zero \/ r.step # 0)
  <2>1. s = Voided(z)
    BY <1>5 DEF TimesSelected
  <2>2. r.auto = Zero /\ r.autoCal /\ r.full # Zero /\ ~r.perform
    BY <1>1, <1>5 DEF Based, AutocalEnabled
  <2>3. z = [r EXCEPT !.step = 0]
    BY <1>1, <2>2 DEF State
  <2>4. z \in State /\ Aside(r, z)
    <3>1. 0 \in 0..3
      OBVIOUS
    <3>2. z \in State
      BY <1>1, <2>3, <3>1, FieldTyped
    <3>3. Aside(r, z)
      BY <1>1, <2>3 DEF Aside, SameDrive, Good, Shaped, Fields
    <3>4. QED
      BY <3>2, <3>3
  <2>5. Sane(z)
    BY <1>1, <2>4, AsideGood DEF Sane
  <2>6. /\ z.full = r.full /\ z.auto = r.auto /\ z.step = 0 /\ z.buttonReq = r.buttonReq
        /\ z.on = r.on /\ z.trigger = r.trigger /\ Kept(r, z)
    BY <1>1, <2>3 DEF State, Kept
  <2> HIDE DEF z
  <2>7. /\ Sane(s) /\ s.position = 0 /\ s.full = z.full /\ s.auto = z.auto
        /\ s.step = z.step /\ s.buttonReq = z.buttonReq /\ s.on = z.on
        /\ s.trigger = z.trigger /\ Kept(z, s)
    BY <2>1, <2>5, VoidedIs
  <2> HIDE DEF s
  <2>8. Held(s)
    BY <1>1, <2>6, <2>7 DEF Based, Held
  <2>9. Based(s) /\ Steady(s)
    BY <1>1, <2>2, <2>6, <2>7, <2>8 DEF Based, Kept, Steady
  <2>10. QED
    BY <2>6, <2>7, <2>9 DEF Cal, Rests, Kept, s
<1>6. CASE ~AutocalEnabled(r) /\ ~(r.auto # Zero \/ r.step # 0)
  <2>1. s = r
    BY <1>6 DEF TimesSelected
  <2>2. QED
    BY <1>6, <2>1 DEF Rests
<1>7. QED
  BY <1>3, <1>4, <1>5, <1>6

(* Nothing that only marks: the flags, and what the sensor has seen.       *)
LEMMA FlagsMarked ==
  ASSUME NEW r, Sane(r), NEW d, NEW inMove
  PROVE  /\ Sane(MotorChecked(r, d, inMove)) /\ Marked(r, MotorChecked(r, d, inMove))
         /\ Sane(LostChecked(r, inMove)) /\ Marked(r, LostChecked(r, inMove))
         /\ Sane(Calibration(r)) /\ Marked(r, Calibration(r))
         /\ \A f \in SUBSET Flags :
              LET s == [r EXCEPT !.flags = f] IN  Sane(s) /\ Marked(r, s)
<1>1. ASSUME NEW f \in SUBSET Flags
      PROVE  LET s == [r EXCEPT !.flags = f] IN  Sane(s) /\ Marked(r, s)
  <2> DEFINE s == [r EXCEPT !.flags = f]
  <2>1. s \in State
    BY FieldTyped DEF Sane
  <2>2. Marked(r, s)
    BY DEF Marked, Alike, Sane, State
  <2>3. Aside(r, s)
    BY DEF Aside, SameDrive, Sane, Good, Shaped, Fields
  <2>4. QED
    BY <2>1, <2>2, <2>3, AsideGood DEF Sane
<1>2. r.flags \in SUBSET Flags /\ Marked(r, r)
  BY DEF Sane, State, Marked, Alike
<1>3. /\ r.flags \cup {"Motor"} \in SUBSET Flags
      /\ r.flags \cup {"Lost"} \in SUBSET Flags
      /\ r.flags \cup {"InProgress"} \in SUBSET Flags
  BY <1>2 DEF Flags
<1>4. Sane(MotorChecked(r, d, inMove)) /\ Marked(r, MotorChecked(r, d, inMove))
  BY <1>1, <1>2, <1>3 DEF MotorChecked
<1>5. Sane(LostChecked(r, inMove)) /\ Marked(r, LostChecked(r, inMove))
  BY <1>1, <1>2, <1>3 DEF LostChecked
<1>6. Sane(Calibration(r)) /\ Marked(r, Calibration(r))
  BY <1>1, <1>3 DEF Calibration
<1>7. QED
  BY <1>1, <1>4, <1>5, <1>6

(* That the sensor has seen the motor is only marked.                      *)
LEMMA DetectedMarked ==
  ASSUME NEW r, Sane(r), NEW inMove \in BOOLEAN
  PROVE  Sane(PowerDetected(r, inMove)) /\ Marked(r, PowerDetected(r, inMove))
<1>1. Aside(r, PowerDetected(r, inMove))
  BY EstimateAside DEF Sane, Good
<1>2. Sane(PowerDetected(r, inMove))
  BY <1>1, PowerDetectedTyped, AsideGood DEF Sane
<1>3. Marked(r, PowerDetected(r, inMove))
  BY DEF PowerDetected, Marked, Alike, Sane, State
<1>4. QED
  BY <1>2, <1>3

(* A motor that stands has not run.                                        *)
LEMMA StandingKeeps ==
  ASSUME NEW r, Cal(r)
  PROVE  LET s == Standing(r)
         IN  /\ Cal(s) /\ Rests(r, s) /\ s.full = r.full /\ s.auto = r.auto
             /\ s.autoCal = r.autoCal
<1> DEFINE s == Standing(r)
<1>1. Aside(r, s) /\ s \in State
  BY EstimateAside, FlaggedTyped DEF Cal, Sane, Good
<1>2. Sane(s)
  BY <1>1, AsideGood DEF Cal, Sane
<1>3. /\ s.position = r.position /\ s.full = r.full /\ s.auto = r.auto
      /\ s.perform = r.perform /\ s.step = r.step /\ s.autoCal = r.autoCal
      /\ s.flash.auto = r.flash.auto /\ s.ran = Zero /\ s.buttonReq = r.buttonReq
      /\ s.on = r.on /\ s.trigger = r.trigger
  BY DEF Standing, Cal, Sane, State
<1>4. Whole(s.ran[Down])
  <2>1. s.ran[Down] = 0 * N /\ 0 \in Nat
    BY <1>3, ConstantAssumption DEF Zero, Down
  <2>2. QED
    BY <2>1 DEF Whole
<1> HIDE DEF s
<1>5. Based(s)
  BY <1>3 DEF Cal, Based, Held, AutocalDone
<1>6. Steady(s)
  BY <1>3, <1>4 DEF Cal, Steady, Drives, Measured
<1>7. QED
  BY <1>2, <1>3, <1>5, <1>6 DEF Cal, Rests, s

(* A shutter that has no position yet is at the end it runs to, when it    *)
(* has run for so long with known times.                                   *)
LEMMA CalibratedIs ==
  ASSUME NEW r, Sane(r), NEW d \in Direction, NEW full
  PROVE  LET s == Calibrated(r, d, full)
         IN  /\ Sane(s) /\ s.full = r.full /\ s.auto = r.auto /\ s.perform = r.perform
             /\ s.step = r.step /\ s.autoCal = r.autoCal /\ s.flash.auto = r.flash.auto
             /\ s.ran = r.ran /\ s.buttonReq = r.buttonReq /\ s.on = r.on
             /\ s.trigger = r.trigger
             /\ Known(r) \/ full = 0 => s = r
             /\ full # 0 /\ ~Known(r) /\ ~Beyond(r.ran[d], full) => s.position = 0
<1> DEFINE s == Calibrated(r, d, full)
           f == [r EXCEPT !.flags = r.flags \cup {"InProgress"}]
           e == At(f, EndOf(d))
<1>1. Sane(s)
  <2>1. Good(r) /\ r \in State
    BY DEF Sane
  <2>2. Good(s)
    BY <2>1, CalibratedSound DEF Sound, Safe
  <2>3. QED
    BY <2>1, <2>2, CalibratedTyped DEF Sane
<1>2. s = IF Known(r) \/ full = 0 THEN r
          ELSE IF ~Beyond(r.ran[d], full) THEN Voided(f) ELSE StateSaved(e)
  BY DEF Calibrated, Sane, State
<1>3. f \in State /\ Marked(r, f) /\ Sane(f)
  <2>1. r.flags \cup {"InProgress"} \in SUBSET Flags
    BY DEF Sane, State, Flags
  <2>2. QED
    BY <2>1, FlagsMarked DEF Sane
<1> HIDE DEF f
<1>4. LET v == Voided(f)
      IN  /\ v.position = 0 /\ v.full = f.full /\ v.auto = f.auto /\ v.step = f.step
          /\ v.buttonReq = f.buttonReq /\ v.on = f.on /\ v.trigger = f.trigger /\ Kept(f, v)
  BY <1>3, VoidedIs
<1>5. /\ e \in State /\ e.full = f.full /\ e.auto = f.auto /\ e.step = f.step
      /\ e.buttonReq = f.buttonReq /\ e.on = f.on /\ e.trigger = f.trigger /\ Kept(f, e)
  <2>1. EndOf(d) \in 1..Closed
    BY Ranges DEF EndOf
  <2>2. e \in State
    BY <1>3, <2>1, AtTyped
  <2>3. QED
    BY <1>3, <2>2 DEF At, State, Kept
<1>6. Aside(f, e)
  BY <1>3, AtAside DEF Sane, Good
<1> HIDE DEF e
<1>7. Marked(e, StateSaved(e))
  BY <1>3, <1>5, <1>6, AsideGood, SavedMarked DEF Sane
<1> HIDE DEF s
<1>8. CASE Known(r) \/ full = 0
  <2>1. s = r
    BY <1>2, <1>8
  <2>2. QED
    BY <1>1, <1>8, <2>1 DEF s, Known
<1>9. CASE ~(Known(r) \/ full = 0) /\ ~Beyond(r.ran[d], full)
  <2>1. s = Voided(f)
    BY <1>2, <1>9
  <2>2. QED
    BY <1>1, <1>3, <1>4, <1>9, <2>1 DEF Marked, Alike, Kept, s
<1>10. CASE ~(Known(r) \/ full = 0) /\ Beyond(r.ran[d], full)
  <2>1. s = StateSaved(e)
    BY <1>2, <1>10
  <2>2. QED
    BY <1>1, <1>3, <1>5, <1>7, <1>10, <2>1 DEF Marked, Alike, Kept, s
<1>11. QED
  BY <1>8, <1>9, <1>10

(* What moves the position leaves the times alone, and may stop the motor. *)
LEMMA MovedIs ==
  ASSUME NEW r, Sane(r), NEW d \in Direction, NEW full \in Nat, NEW inMove, Known(r)
  PROVE  LET s == Moved(TiltGuessed(r), d, full)
         IN  /\ Sane(s) /\ s.full = r.full /\ s.auto = r.auto /\ s.perform = r.perform
             /\ s.step = r.step /\ s.autoCal = r.autoCal /\ s.flash.auto = r.flash.auto
             /\ s.buttonReq = r.buttonReq /\ s.on = r.on /\ s.trigger = r.trigger
             /\ r.position = EndOf(d) => s.position = EndOf(d)
<1> DEFINE g == TiltGuessed(r)
           s == Moved(g, d, full)
<1>1. g \in State /\ g.position = r.position /\ Marked(r, g)
  BY GuessedTyped DEF TiltGuessed, Marked, Alike, Sane, State
<1>2. Aside(r, g)
  BY EstimateAside DEF Sane, Good
<1>3. Sane(g)
  BY <1>1, <1>2, AsideGood DEF Sane
<1> HIDE DEF g
<1>4. g.position \in Open..Closed
  BY <1>1, Ranges DEF Known, State, Open
<1>5. s \in State /\ s.position = Toward(g.position, d, MoveSteps(g, d, full))
  BY <1>1, <1>4, MovedTyped
<1>6. Aside(g, s)
  BY <1>3, EstimateAside DEF Sane, Good
<1>7. Sane(s)
  BY <1>3, <1>5, <1>6, AsideGood DEF Sane
<1>8. /\ s.full = g.full /\ s.auto = g.auto /\ s.perform = g.perform
      /\ s.step = g.step /\ s.autoCal = g.autoCal /\ s.flash.auto = g.flash.auto
      /\ s.buttonReq = g.buttonReq /\ s.on = g.on /\ s.trigger = g.trigger
  BY <1>1 DEF Moved, State
<1>9. ASSUME r.position = EndOf(d) PROVE s.position = EndOf(d)
  <2>1. Ahead(g.position, d) = 0
    BY <1>1, <1>9, Ranges DEF Ahead, EndOf, Open
  <2>2. MoveSteps(g, d, full) = 0
    <3>1. PICK t \in Nat : t = TravelTime(g, full)
      <4>1. PICK b \in Nat : b = g.blind.time
        BY <1>1 DEF State, Blind
      <4>2. (full - b) % TimeWrap \in Nat
        BY ConstantAssumption
      <4>3. QED
        BY <4>1, <4>2 DEF TravelTime, OneAtATime
    <3>2. PICK n \in Nat : n = g.ran[d]
      BY <1>1, TimingIs DEF State
    <3>3. CASE t = 0 \/ (SlatSteps(g, d) > 0 /\ OneAtATime(g))
      BY <3>1, <3>3 DEF MoveSteps
    <3>4. CASE ~(t = 0 \/ (SlatSteps(g, d) > 0 /\ OneAtATime(g)))
      <4>1. PICK q \in Nat : q = n \div t
        BY <3>4, QuotientIs
      <4>2. MoveSteps(g, d, full) = AtMost(0, q)
        BY <2>1, <3>1, <3>2, <3>4, <4>1 DEF MoveSteps
      <4>3. QED
        BY <4>2 DEF AtMost
    <3>5. QED
      BY <3>3, <3>4
  <2>3. g.position = EndOf(d) /\ g.position \in Int
    BY <1>1, <1>4, <1>9, Ranges DEF Open
  <2>4. QED
    BY <1>5, <2>2, <2>3, NoSteps
<1> HIDE DEF s
<1>10. QED
  BY <1>1, <1>7, <1>8, <1>9 DEF Marked, Alike, s, g

(* So does the whole of move_position; a shutter at the end it runs to     *)
(* stays there.                                                            *)
LEMMA PositionMovedIs ==
  ASSUME NEW r, Sane(r), NEW d \in Direction, NEW full \in Nat, NEW inMove
  PROVE  LET s == PositionMoved(r, d, full, inMove)
         IN  /\ ~Known(r) \/ full = 0 => s = r
             /\ Known(r) /\ r.step = 0 /\ Based(r) =>
                  /\ Cal(s) /\ s.full = r.full /\ s.auto = r.auto /\ s.step = 0
                  /\ s.autoCal = r.autoCal
                  /\ r.position = EndOf(d) => s.position = EndOf(d)
<1> DEFINE s == PositionMoved(r, d, full, inMove)
           g == TiltGuessed(r)
           m == Moved(g, d, full)
           v == IF m.position # g.position \/ m.tilt # g.tilt THEN StateSaved(m) ELSE m
           l == LostChecked(v, inMove)
           stop == SetRelay(l, Off, FALSE, 0)
<1>1. ASSUME ~Known(r) \/ full = 0 PROVE s = r
  BY <1>1 DEF PositionMoved
<1>2. SUFFICES ASSUME Known(r), full # 0, r.step = 0, Based(r)
               PROVE  /\ Cal(s) /\ s.full = r.full /\ s.auto = r.auto /\ s.step = 0
                      /\ s.autoCal = r.autoCal
                      /\ r.position = EndOf(d) => s.position = EndOf(d)
  <2>1. r.step = 0 => Steady(r)
    BY DEF Steady
  <2>2. QED
    BY <1>1, <2>1 DEF Cal
<1>3. s = IF AtEnd(v, d) /\ v.ran[d] * 100 >= full * N * v.margin THEN stop ELSE v
  BY <1>2 DEF PositionMoved
<1>4. /\ Sane(m) /\ m.full = r.full /\ m.auto = r.auto /\ m.perform = r.perform
      /\ m.step = r.step /\ m.autoCal = r.autoCal /\ m.flash.auto = r.flash.auto
      /\ m.buttonReq = r.buttonReq /\ m.on = r.on /\ m.trigger = r.trigger
      /\ r.position = EndOf(d) => m.position = EndOf(d)
  BY <1>2, MovedIs
<1> HIDE DEF m
<1>5. Based(m)
  BY <1>2, <1>4 DEF Based, Held, AutocalDone, Known
<1>6. Sane(v) /\ Marked(m, v)
  BY <1>4, SavedMarked DEF Marked, Alike
<1> HIDE DEF v
<1>7. Based(v)
  BY <1>5, <1>6, MarkedKeeps
<1>8. Sane(l) /\ Marked(v, l)
  BY <1>6, FlagsMarked
<1> HIDE DEF l
<1>9. Based(l)
  BY <1>7, <1>8, MarkedKeeps
<1>10. CASE AtEnd(v, d) /\ v.ran[d] * 100 >= full * N * v.margin
  <2>1. s = stop
    BY <1>3, <1>10
  <2>2. l.step = 0
    BY <1>2, <1>4, <1>6, <1>8 DEF Marked, Alike
  <2>3. Cal(stop) /\ stop.step = 0 /\ Alike(l, stop)
    <3>1. Off \in Request
      BY Ranges
    <3>2. QED
      BY <1>8, <1>9, <2>2, <3>1, FreesKeeps
  <2> HIDE DEF stop
  <2>4. QED
    BY <1>4, <1>6, <1>8, <2>1, <2>3 DEF Marked, Alike
<1>11. CASE ~(AtEnd(v, d) /\ v.ran[d] * 100 >= full * N * v.margin)
  <2>1. s = v
    BY <1>3, <1>11
  <2>2. v.step = 0 /\ Steady(v)
    BY <1>2, <1>4, <1>6 DEF Marked, Alike, Steady
  <2>3. QED
    BY <1>4, <1>6, <1>7, <2>1, <2>2 DEF Marked, Alike, Cal
<1>12. QED
  BY <1>10, <1>11

(* A record of the right type has the shape of a shutter.                  *)
LEMMA StateShaped ==
  ASSUME NEW r \in State
  PROVE  Shaped(r)
<1>1. r = [x \in Fields |-> r[x]]
  BY DEF State, Fields
<1>2. r.trigger \in Trigger
  BY DEF State
<1>3. r.trigger = [x \in {"left", "value", "autoCal"} |-> r.trigger[x]]
  BY <1>2 DEF Trigger
<1>4. r.trigger.value \in Request
  BY <1>2 DEF Trigger
<1>5. QED
  BY <1>1, <1>3, <1>4 DEF Shaped

(* What leaves relays and ages alone, and has its type, is sane.           *)
LEMMA SaneKept ==
  ASSUME NEW r, Sane(r), NEW s \in State, SameDrive(r, s)
  PROVE  Sane(s)
BY StateShaped DEF Sane, Good, AgesTell, SameDrive

(* The fields that a step of calibration writes.                           *)
LEMMA ReadyIs ==
  ASSUME NEW r \in State
  PROVE  LET s == Ready(r)
         IN  s \in State /\ SameDrive(r, s) /\ Alike(r, s) /\ s.buttonReq
<1>1. Ready(r) \in State
  BY FlaggedTyped
<1>2. Ready(r).buttonReq /\ Alike(r, Ready(r))
  BY DEF Ready, Alike, State
<1>3. SameDrive(r, Ready(r))
  BY DEF Ready, SameDrive, State
<1>4. QED
  BY <1>1, <1>2, <1>3
Stepped(r, step, auto) == [r EXCEPT !.step = step, !.auto = auto]
Ended(r, auto, flags) == [r EXCEPT !.step = 0, !.auto = auto, !.flags = flags]

(* The next step is written with what was measured.                        *)
LEMMA StepWritten ==
  ASSUME NEW r \in State, NEW step \in 0..3, NEW auto \in Timing
  PROVE  LET s == Stepped(r, step, auto)
         IN  /\ s \in State /\ SameDrive(r, s) /\ s.trigger = r.trigger /\ Kept(r, s)
             /\ s.step = step /\ s.auto = auto /\ s.full = r.full
             /\ s.position = r.position /\ s.buttonReq = r.buttonReq
<1>1. Stepped(r, step, auto) \in State
  BY DEF State, Stepped
<1>2. QED
  BY <1>1 DEF SameDrive, Kept, State, Stepped

(* The last one is ended with its flags.                                   *)
LEMMA StepEnded ==
  ASSUME NEW r \in State, NEW auto \in Timing, NEW flags \in SUBSET Flags
  PROVE  LET s == Ended(r, auto, flags)
         IN  /\ s \in State /\ SameDrive(r, s) /\ s.trigger = r.trigger /\ Kept(r, s)
             /\ s.step = 0 /\ s.auto = auto /\ s.full = r.full
             /\ s.position = r.position /\ s.buttonReq = r.buttonReq
<1>1. 0 \in 0..3
  OBVIOUS
<1>2. Ended(r, auto, flags) \in State
  BY <1>1 DEF State, Ended
<1>3. QED
  BY <1>2 DEF SameDrive, Kept, State, Ended

(* A measurement that fails leaves neither position nor times.             *)
LEMMA FailedKeeps ==
  ASSUME NEW r, Cal(r), AutocalEnabled(r)
  PROVE  LET s == CalibrationFailed(r)
         IN  /\ Cal(s) /\ s.position = 0 /\ s.auto = Zero /\ s.full = Zero
             /\ s.autoCal = r.autoCal /\ s.step = 0
<1> DEFINE flags == (r.flags \cup {"Failed"}) \ {"InProgress"}
           z == Ended(r, Zero, flags)
           v == Voided(z)
           s == SetRelay(v, Off, TRUE, 0)
<1>1. r \in State /\ Sane(r) /\ Based(r) /\ r.full = Zero /\ r.autoCal
  BY DEF Cal, Sane, AutocalEnabled
<1>2. CalibrationFailed(r) = s
  BY <1>1 DEF CalibrationFailed, State, Ended
<1>3. flags \in SUBSET Flags /\ Zero \in Timing
  BY <1>1, Ranges DEF State, Flags
<1> HIDE DEF flags
<1>4. /\ z \in State /\ SameDrive(r, z) /\ z.trigger = r.trigger /\ z.step = 0
      /\ z.auto = Zero /\ z.full = r.full /\ z.buttonReq = r.buttonReq /\ Kept(r, z)
  BY <1>1, <1>3, StepEnded
<1> HIDE DEF z
<1>5. Sane(z)
  BY <1>1, <1>4, SaneKept
<1>6. /\ Sane(v) /\ v.position = 0 /\ v.full = z.full /\ v.auto = z.auto
      /\ v.step = z.step /\ v.buttonReq = z.buttonReq /\ v.on = z.on
      /\ v.trigger = z.trigger /\ Kept(z, v)
  BY <1>5, VoidedIs
<1> HIDE DEF v
<1>7. Based(v)
  BY <1>1, <1>4, <1>6 DEF Based, Kept, Held, SameDrive
<1>8. Off \in Request
  BY Ranges
<1>9. Cal(s) /\ s.step = 0 /\ Alike(v, s)
  BY <1>4, <1>6, <1>7, <1>8, FreesKeeps
<1> HIDE DEF s
<1>10. QED
  BY <1>1, <1>2, <1>4, <1>6, <1>9 DEF Alike, Kept

(* What a step of calibration finds when it is under way.                  *)
Calibrates(r) ==
  /\ Cal(r) /\ r.step > 0 /\ AutocalEnabled(r)
  /\ r.on = {StepDirection(r.step)} /\ r.trigger.left = Disarmed
  /\ r.step = 1 => r.ran[Down] = 0

(* The next direction: set_relay as a part of calibration.                 *)
Expected(r, step, auto) ==
  IF step = 3 THEN auto[Down] > 0 /\ auto[Up] = 0 ELSE auto = Zero /\ Whole(r.ran[Down])

(* The next step is under way, with what was measured before it.           *)
LEMMA NextDirection ==
  ASSUME NEW r, Calibrates(r), NEW step \in 2..3, NEW auto \in Timing,
         Expected(r, step, auto)
  PROVE  LET z == Stepped(r, step, auto)
             s == SetRelay(Ready(z), StepDirection(step), FALSE, 0)
         IN  /\ Cal(s) /\ s.position = 0 /\ s.auto = auto /\ s.full = Zero
             /\ s.autoCal = r.autoCal /\ s.step = step /\ s.ran = r.ran
<1> DEFINE d == StepDirection(step)
           z == Stepped(r, step, auto)
           y == Ready(z)
           s == SetRelay(y, d, FALSE, 0)
<1>1. /\ r \in State /\ Sane(r) /\ Based(r) /\ r.full = Zero /\ r.autoCal /\ r.position = 0
      /\ ~r.perform
  BY DEF Calibrates, Cal, Sane, AutocalEnabled, Based
<1>2. step \in 0..3
  OBVIOUS
<1>3. /\ z \in State /\ SameDrive(r, z) /\ z.step = step /\ z.auto = auto
      /\ z.full = Zero /\ Kept(r, z) /\ z.position = 0
  BY <1>1, <1>2, StepWritten, SMTT(60)
<1> HIDE DEF z
<1>4. /\ y \in State /\ SameDrive(z, y) /\ Alike(z, y) /\ y.buttonReq
  BY <1>3, ReadyIs
<1>5. Sane(y)
  BY <1>1, <1>3, <1>4, SaneKept DEF SameDrive
<1> HIDE DEF y
<1>6. y.position = 0
  BY <1>3, <1>4 DEF Alike
<1>7. d \in Direction
  BY Ranges DEF StepDirection
<1> HIDE DEF d
<1>8. Sane(s) /\ Alike(y, s) /\ ~s.buttonReq /\ Drives(s, d)
  BY <1>4, <1>5, <1>6, <1>7, SetRelayDrives
<1> HIDE DEF s
<1>9. /\ s.position = 0 /\ s.auto = auto /\ s.full = Zero /\ s.autoCal = r.autoCal
      /\ s.step = step /\ s.ran = r.ran /\ s.perform = r.perform
  BY <1>3, <1>4, <1>6, <1>8 DEF Alike, Kept
<1>10. Held(s)
  BY <1>8, <1>9 DEF Held, Drives
<1>11. Based(s)
  BY <1>1, <1>8, <1>9, <1>10 DEF Based
<1>12. Steady(s)
  BY <1>8, <1>9 DEF Steady, Measured, Expected, d
<1>13. QED
  BY <1>8, <1>9, <1>11, <1>12 DEF Cal, s, y, z, d

(* The last one is over: the shutter is open, with both times.             *)
LEMMA LastDirection ==
  ASSUME NEW r, Calibrates(r), r.step = 3, NEW auto \in Timing,
         auto[Down] > 0, auto[Up] > 0
  PROVE  LET z == Ended(r, auto, r.flags \ {"InProgress"})
             s == SetRelay(Ready(CfgSaved(StateSaved(At(z, Open)))), Off, FALSE, 0)
         IN  /\ Cal(s) /\ s.position = Open /\ s.auto = auto /\ s.full = Zero
             /\ s.autoCal = r.autoCal /\ s.step = 0
<1> DEFINE flags == r.flags \ {"InProgress"}
           z == Ended(r, auto, flags)
           e == At(z, Open)
           v == StateSaved(e)
           w == CfgSaved(v)
           y == Ready(w)
           s == SetRelay(y, Off, FALSE, 0)
<1>1. /\ r \in State /\ Sane(r) /\ Based(r) /\ r.full = Zero /\ r.autoCal /\ ~r.perform
  BY DEF Calibrates, Cal, Sane, AutocalEnabled, Based
<1>2. flags \in SUBSET Flags
  BY <1>1 DEF State
<1> HIDE DEF flags
<1>3. /\ z \in State /\ SameDrive(r, z) /\ z.step = 0 /\ z.auto = auto
      /\ z.full = Zero /\ Kept(r, z)
  BY <1>1, <1>2, StepEnded
<1> HIDE DEF z
<1>4. /\ e \in State /\ SameDrive(z, e) /\ e.step = z.step /\ e.auto = z.auto
      /\ e.full = z.full /\ e.autoCal = z.autoCal /\ e.perform = z.perform
      /\ e.position = Open
  <2>1. e \in State
    BY <1>3, Ranges, AtTyped
  <2>2. QED
    BY <1>3, <2>1 DEF At, SameDrive, State
<1> HIDE DEF e
<1>5. /\ v \in State /\ SameDrive(e, v) /\ v.step = e.step /\ v.auto = e.auto
      /\ v.full = e.full /\ v.autoCal = e.autoCal /\ v.perform = e.perform
      /\ v.position = e.position
  <2>1. v \in State
    BY <1>4, SavedTyped
  <2>2. QED
    BY <1>4, <2>1 DEF StateSaved, SameDrive, State
<1> HIDE DEF v
<1>6. /\ w \in State /\ SameDrive(v, w) /\ w.step = v.step /\ w.auto = v.auto
      /\ w.full = v.full /\ w.autoCal = v.autoCal /\ w.perform = v.perform
      /\ w.position = v.position
  <2>1. w \in State
    BY <1>5, SavedTyped
  <2>2. QED
    BY <1>5, <2>1 DEF CfgSaved, SameDrive, State
<1> HIDE DEF w
<1>7. /\ y \in State /\ SameDrive(w, y) /\ Alike(w, y) /\ y.buttonReq
  BY <1>6, ReadyIs
<1>8. Sane(y)
  <2>1. SameDrive(r, y)
    BY <1>3, <1>4, <1>5, <1>6, <1>7 DEF SameDrive
  <2>2. QED
    BY <1>1, <1>7, <2>1, SaneKept
<1> HIDE DEF y
<1>9. Sane(s) /\ Alike(y, s) /\ ~s.buttonReq /\ s.on = {} /\ s.trigger.left = Disarmed
  BY <1>7, <1>8, SetRelayRests
<1> HIDE DEF s
<1>10. /\ s.position = Open /\ s.auto = auto /\ s.full = Zero /\ s.autoCal = r.autoCal
       /\ s.step = 0 /\ ~s.perform
  BY <1>1, <1>3, <1>4, <1>5, <1>6, <1>7, <1>9 DEF Alike, Kept
<1>11. Based(s)
  BY <1>1, <1>9, <1>10 DEF Based, Held, AutocalDone
<1>12. Steady(s)
  BY <1>10 DEF Steady
<1>13. QED
  BY <1>9, <1>10, <1>11, <1>12 DEF Cal, s, y, w, v, e, z, flags

(* The end of a direction was reached: calibration goes on, or has failed, *)
(* or is over.                                                             *)
Unmeasured(r, s) ==
  /\ Cal(s) /\ s.position = 0 /\ s.full = Zero /\ s.autoCal = r.autoCal
  /\ s.auto[StepDirection(r.step)] = 0
DownMeasured(r, s) ==
  /\ Cal(s) /\ s.position = 0 /\ s.full = Zero /\ s.autoCal = r.autoCal
  /\ r.step = 2 /\ Whole(s.ran[Down])
  /\ s.auto[Down] = s.ran[Down] \div N /\ s.auto[Down] > 0
UpMeasured(r, s) ==
  /\ Cal(s) /\ s.position = Open /\ s.full = Zero /\ s.autoCal = r.autoCal
  /\ r.step = 3 /\ s.step = 0

(* One of the three, whatever the step.                                    *)
LEMMA EndReachedIs ==
  ASSUME NEW r, Calibrates(r)
  PROVE  LET s == EndReached(r)
         IN  Unmeasured(r, s) \/ DownMeasured(r, s) \/ UpMeasured(r, s)
<1> DEFINE d == StepDirection(r.step)
           s == EndReached(r)
<1>1. /\ r \in State /\ r.step \in 1..3 /\ Cal(r) /\ AutocalEnabled(r) /\ r.full = Zero
      /\ Measured(r)
      /\ r.step = 2 => Whole(r.ran[Down])
  BY DEF Calibrates, Cal, Sane, State, Steady, AutocalEnabled
<1>2. PICK n \in Nat : n = r.ran[d]
  BY <1>1, TimingIs, Ranges DEF State, StepDirection
<1>3. PICK took \in Nat : took = n \div N
  BY Ranges, QuotientIs
<1>4. r.auto \in Timing
  BY <1>1 DEF State
<1>5. CASE r.step = 1
  <2>1. r.auto = Zero /\ Zero \in Timing
    BY <1>1, <1>5, Ranges DEF Measured
  <2>2. [r EXCEPT !.step = 2] = Stepped(r, 2, Zero)
    BY <1>1, <2>1 DEF Stepped, State
  <2>3. Whole(r.ran[Down])
    <3>1. r.ran[Down] = 0 * N /\ 0 \in Nat
      BY <1>5, Ranges DEF Calibrates
    <3>2. QED
      BY <3>1 DEF Whole
  <2>4. s = SetRelay(Ready(Stepped(r, 2, Zero)), StepDirection(2), FALSE, 0)
    BY <1>5, <2>2 DEF EndReached, StepDirection
  <2>5. /\ Cal(s) /\ s.position = 0 /\ s.auto = Zero /\ s.full = Zero
        /\ s.autoCal = r.autoCal
    <3>1. 2 \in 2..3 /\ Expected(r, 2, Zero) /\ Zero \in Timing
      BY <2>1, <2>3 DEF Expected
    <3> HIDE DEF s
    <3>2. QED
      BY <2>4, <3>1, NextDirection, ZenonT(60)
  <2> HIDE DEF s
  <2>6. s.auto[StepDirection(r.step)] = 0
    BY <2>5 DEF Zero, StepDirection, Up, Down
  <2>7. QED
    BY <2>5, <2>6 DEF Unmeasured, s
<1>6. CASE r.step # 1 /\ took < MinTime
  <2>1. s = CalibrationFailed(r)
    BY <1>2, <1>3, <1>6 DEF EndReached
  <2>2. /\ Cal(s) /\ s.position = 0 /\ s.auto = Zero /\ s.full = Zero
        /\ s.autoCal = r.autoCal
    BY <1>1, <2>1, FailedKeeps
  <2> HIDE DEF s
  <2>3. s.auto[StepDirection(r.step)] = 0
    BY <2>2 DEF Zero, StepDirection, Up, Down
  <2>4. QED
    BY <2>2, <2>3 DEF Unmeasured, s
<1>7. CASE r.step = 2 /\ ~(took < MinTime)
  <2>1. took > 0
    BY <1>7, ConstantAssumption
  <2>2. PICK auto \in Timing : auto = [r.auto EXCEPT ![Down] = took]
    BY <1>1, MeasuredTyped
  <2>3. auto[Down] = took /\ auto[Up] = 0
    <3>1. r.auto = Zero
      BY <1>1, <1>7 DEF Measured
    <3>2. QED
      BY <2>2, <3>1 DEF Zero, Up, Down
  <2>4. [r EXCEPT !.step = 3, !.auto[Down] = r.ran[d] \div N] = Stepped(r, 3, auto)
    BY <1>1, <1>2, <1>3, <2>2 DEF Stepped, State
  <2>5. s = SetRelay(Ready(Stepped(r, 3, auto)), StepDirection(3), FALSE, 0)
    <3>1. StepDirection(3) = Up
      BY DEF StepDirection
    <3>2. ~(n \div N < MinTime) /\ r.step = 2
      BY <1>3, <1>7
    <3>3. s = SetRelay(Ready([r EXCEPT !.step = 3, !.auto[Down] = r.ran[d] \div N]),
                       Up, FALSE, 0)
      BY <1>2, <3>2 DEF EndReached
    <3>4. QED
      BY <2>4, <3>1, <3>3
  <2>6. /\ Cal(s) /\ s.position = 0 /\ s.auto = auto /\ s.full = Zero
        /\ s.autoCal = r.autoCal /\ s.ran = r.ran
    <3>1. 3 \in 2..3 /\ Expected(r, 3, auto)
      BY <2>1, <2>3 DEF Expected
    <3> HIDE DEF s
    <3>2. QED
      BY <2>5, <3>1, NextDirection, ZenonT(60)
  <2> HIDE DEF s
  <2>7. n = s.ran[Down]
    BY <1>2, <1>7, <2>6 DEF StepDirection
  <2>8. QED
    BY <1>1, <1>3, <1>7, <2>1, <2>3, <2>6, <2>7 DEF DownMeasured, s
<1>8. CASE r.step = 3 /\ ~(took < MinTime)
  <2>1. took > 0
    BY <1>8, ConstantAssumption
  <2>2. PICK auto \in Timing : auto = [r.auto EXCEPT ![Up] = took]
    BY <1>1, MeasuredTyped
  <2>3. auto[Down] > 0 /\ auto[Up] = took
    <3>1. r.auto[Down] > 0
      BY <1>1, <1>8 DEF Measured
    <3>2. QED
      BY <1>4, <2>2, <3>1 DEF Timing, Direction, Up, Down
  <2>4. [r EXCEPT !.step = 0, !.auto[Up] = took, !.flags = @ \ {"InProgress"}]
          = Ended(r, auto, r.flags \ {"InProgress"})
    BY <1>1, <2>2 DEF Ended, State
  <2>5. s = SetRelay(Ready(CfgSaved(StateSaved(At(
              Ended(r, auto, r.flags \ {"InProgress"}), Open)))), Off, FALSE, 0)
    BY <1>2, <1>3, <1>8, <2>4 DEF EndReached
  <2>6. /\ Cal(s) /\ s.position = Open /\ s.full = Zero /\ s.autoCal = r.autoCal
        /\ s.step = 0
    <3> HIDE DEF s
    <3>1. auto[Up] > 0 /\ r.step = 3
      BY <1>8, <2>1, <2>3
    <3>2. QED
      BY <2>3, <2>5, <3>1, LastDirection
  <2> HIDE DEF s
  <2>7. QED
    BY <1>8, <2>6 DEF UpMeasured, s
<1>9. QED
  BY <1>1, <1>5, <1>6, <1>7, <1>8

(* What calibration makes of a tick.                                       *)
LEMMA AutocalibratedIs ==
  ASSUME NEW r, Calibrates(r), NEW inMove
  PROVE  LET s == Autocalibrated(r, inMove)
         IN  Unmeasured(r, s) \/ DownMeasured(r, s) \/ UpMeasured(r, s)
<1> DEFINE s == Autocalibrated(r, inMove)
           c == Calibration(r)
<1>1. /\ Cal(r) /\ Sane(r) /\ r.step \in 1..3 /\ AutocalEnabled(r) /\ r.full = Zero
      /\ r.position = 0 /\ r.autoCal /\ Measured(r)
  BY DEF Calibrates, Cal, Sane, State, AutocalEnabled, Based, Steady
<1>2. Sane(c) /\ Marked(r, c) /\ Cal(c)
  BY <1>1, FlagsMarked, MarkedKeeps
<1> HIDE DEF c
<1>3. Calibrates(c) /\ AutocalEnabled(c)
  BY <1>1, <1>2 DEF Calibrates, Marked, Alike, AutocalEnabled
<1>4. s = c \/ s = EndReached(c) \/ s = CalibrationFailed(c)
  BY <1>1 DEF Autocalibrated, c
<1>5. c.step = r.step /\ c.autoCal = r.autoCal /\ c.auto = r.auto /\ c.full = r.full
      /\ c.position = r.position
  BY <1>2 DEF Marked, Alike
<1> HIDE DEF s
<1>6. CASE s = c
  <2>1. r.auto[StepDirection(r.step)] = 0
    BY <1>1 DEF Measured, StepDirection, Zero, Up, Down
  <2>2. QED
    BY <1>1, <1>2, <1>5, <1>6, <2>1 DEF Unmeasured, s
<1>7. CASE s = EndReached(c)
  <2>1. Unmeasured(c, s) \/ DownMeasured(c, s) \/ UpMeasured(c, s)
    BY <1>3, <1>7, EndReachedIs
  <2>2. QED
    BY <1>5, <2>1 DEF Unmeasured, DownMeasured, UpMeasured, s
<1>8. CASE s = CalibrationFailed(c)
  <2>1. /\ Cal(s) /\ s.position = 0 /\ s.auto = Zero /\ s.full = Zero
        /\ s.autoCal = c.autoCal
    BY <1>2, <1>3, <1>8, FailedKeeps
  <2>2. s.auto[StepDirection(r.step)] = 0
    BY <2>1 DEF Zero, StepDirection, Up, Down
  <2>3. QED
    BY <1>5, <2>1, <2>2 DEF Unmeasured, s
<1>9. QED
  BY <1>4, <1>6, <1>7, <1>8

(* The time in force for a direction.                                      *)
LEMMA InForceOf ==
  ASSUME NEW r, NEW full, NEW d \in Direction
  PROVE  InForce(r, full)[d] = IF r.auto[d] > 0 THEN r.auto[d] ELSE full[d]
BY DEF InForce

(* What is known of a run of whole ticks is not beyond their number.       *)
LEMMA NotBeyond ==
  ASSUME NEW n, Whole(n), n \div N > 0
  PROVE  ~Beyond(n, n \div N)
<1>1. PICK k \in Nat : n = k * N
  BY DEF Whole
<1>2. N \in Nat \ {0}
  BY ConstantAssumption
<1>3. (k * N) \div N = k
  BY <1>2
<1>4. k > 0 /\ n \div N = k
  BY <1>1, <1>3
<1>5. k * N > 0
  BY <1>2, <1>4
<1>6. PICK m \in Nat : m = k * N /\ m > 0
  BY <1>2, <1>5
<1>7. n * 10 < k * N * 11
  BY <1>1, <1>6
<1>8. n * 10 \in Nat /\ k * N * 11 \in Nat
  BY <1>1, <1>6
<1>9. QED
  BY <1>4, <1>7, <1>8 DEF Beyond

(* The motor runs: its time counts, in whole ticks, and that of the other  *)
(* direction is gone.                                                      *)
RanOn(r, d) ==
  [r EXCEPT !.ran[d] = AtMost(LongestRun, @ + Counted(r)), !.ran[Opposite(d)] = 0]

(* Only the two running times change.                                      *)
LEMMA RanOnIs ==
  ASSUME NEW r \in State, NEW d \in Direction
  PROVE  LET s == RanOn(r, d)
         IN  /\ s \in State /\ SameDrive(r, s) /\ s.trigger = r.trigger
             /\ s.position = r.position /\ s.full = r.full /\ s.auto = r.auto
             /\ s.perform = r.perform /\ s.step = r.step /\ s.autoCal = r.autoCal
             /\ s.flash.auto = r.flash.auto /\ s.buttonReq = r.buttonReq
             /\ s.ran[d] = AtMost(LongestRun, r.ran[d] + Counted(r))
             /\ s.ran[Opposite(d)] = 0
<1> DEFINE more == AtMost(LongestRun, r.ran[d] + Counted(r))
           s == RanOn(r, d)
<1>1. more \in Nat
  <2>1. PICK n \in Nat : n = r.ran[d]
    BY TimingIs DEF State
  <2>2. PICK e \in Nat : e = Counted(r)
    BY Ranges DEF Counted
  <2>3. MaxRun + CommPeriod + 1 \in Nat
    BY ConstantAssumption
  <2>4. LongestRun \in Nat
    BY <2>3, Ranges, TimesNat DEF LongestRun
  <2>5. QED
    BY <2>1, <2>2, <2>4 DEF AtMost
<1> HIDE DEF more
<1>2. r.ran \in [Direction -> Nat]
  BY DEF State, Timing
<1>3. Opposite(d) \in Direction /\ Opposite(d) # d
  BY Ranges DEF Opposite, Direction
<1>4. PICK ran \in Timing : ran = [r.ran EXCEPT ![d] = more, ![Opposite(d)] = 0]
  BY <1>1, <1>2 DEF Timing
<1>5. ran[d] = more /\ ran[Opposite(d)] = 0
  BY <1>2, <1>3, <1>4
<1>6. s = [r EXCEPT !.ran = ran]
  BY <1>4 DEF State, RanOn, more
<1>7. s \in State
  BY <1>6, FieldTyped
<1>8. QED
  BY <1>5, <1>6, <1>7 DEF SameDrive, State, more

(* Calibration does not mind: the way down is still measured in whole      *)
(* ticks.                                                                  *)
LEMMA RanOnKeeps ==
  ASSUME NEW r, Cal(r), NEW d \in Direction, d \in r.on
  PROVE  LET s == RanOn(r, d)
         IN  /\ Cal(s) /\ s.position = r.position /\ s.full = r.full /\ s.auto = r.auto
             /\ s.step = r.step /\ s.autoCal = r.autoCal /\ s.on = r.on
             /\ s.ran[Opposite(d)] = 0
<1> DEFINE s == RanOn(r, d)
<1>1. r \in State /\ Sane(r) /\ Based(r) /\ Steady(r)
  BY DEF Cal, Sane
<1>2. /\ s \in State /\ SameDrive(r, s) /\ s.trigger = r.trigger
      /\ s.position = r.position /\ s.full = r.full /\ s.auto = r.auto
      /\ s.perform = r.perform /\ s.step = r.step /\ s.autoCal = r.autoCal
      /\ s.flash.auto = r.flash.auto /\ s.buttonReq = r.buttonReq
      /\ s.ran[d] = AtMost(LongestRun, r.ran[d] + Counted(r))
      /\ s.ran[Opposite(d)] = 0
  BY <1>1, RanOnIs
<1> HIDE DEF s
<1>3. Sane(s)
  BY <1>1, <1>2, SaneKept
<1>4. Based(s)
  BY <1>1, <1>2 DEF Based, Held, AutocalDone, SameDrive
<1>5. ASSUME r.step = 2 PROVE Whole(s.ran[Down])
  <2>1. Drives(r, Down) /\ Whole(r.ran[Down])
    BY <1>1, <1>5 DEF Steady, StepDirection
  <2>2. d = Down
    BY <2>1 DEF Drives
  <2>3. PICK k \in Nat : r.ran[Down] = k * N
    BY <2>1 DEF Whole
  <2>4. N \in Nat
    BY Ranges
  <2>5. PICK longest \in Nat : longest = MaxRun + CommPeriod + 1
    BY ConstantAssumption
  <2>6. LongestRun = longest * N
    BY <2>4, <2>5 DEF LongestRun
  <2>7. PICK e \in 0..1 : Counted(r) = e * N
    BY <2>4 DEF Counted
  <2>8. r.ran[Down] + Counted(r) = (k + e) * N
    BY <2>3, <2>4, <2>7
  <2>9. s.ran[Down] \in {longest * N, (k + e) * N}
    BY <1>2, <2>2, <2>6, <2>8 DEF AtMost
  <2>10. longest \in Nat /\ k + e \in Nat
    BY <2>3, <2>5, <2>7
  <2>11. QED
    BY <2>9, <2>10 DEF Whole
<1>6. Steady(s)
  BY <1>1, <1>2, <1>5 DEF Steady, Drives, Measured, SameDrive
<1>7. QED
  BY <1>2, <1>3, <1>4, <1>6 DEF Cal, SameDrive, s

(* What a run may make of position and times.                              *)
Ticked(r, s) ==
  \/ s.position = 0
  \/ s.full = r.full /\ s.auto = r.auto
  \/ r.step = 3 /\ s.position = Open

(* A shutter that does not calibrate itself: times are given or were       *)
(* measured, or there are none.                                            *)
LEMMA FreeRun ==
  ASSUME NEW r, Cal(r), r.step = 0, NEW d \in Direction, d \in r.on, NEW full \in Timing,
         full = IF AutocalEnabled(r) THEN r.auto ELSE r.full, NEW inMove
  PROVE  LET f == InForce(r, full)[d]
             s == PositionMoved(Calibrated(r, d, f), d, f, inMove)
         IN  /\ Cal(s) /\ s.full = r.full /\ s.auto = r.auto /\ s.step = 0
             /\ s.autoCal = r.autoCal
<1> DEFINE f == InForce(r, full)[d]
           k == Calibrated(r, d, f)
           s == PositionMoved(k, d, f, inMove)
<1>1. r \in State /\ Sane(r) /\ Based(r) /\ Steady(r) /\ r.auto \in Timing
  BY DEF Cal, Sane, State
<1>2. f = IF r.auto[d] > 0 THEN r.auto[d] ELSE full[d]
  BY InForceOf
<1>3. f \in Nat
  BY <1>1, <1>2, TimingIs
<1>4. f # 0 => /\ ~r.perform
               /\ r.autoCal /\ r.full = Zero => AutocalDone(r)
  <2>1. SUFFICES ASSUME f # 0
                 PROVE  ~r.perform /\ (r.autoCal /\ r.full = Zero => AutocalDone(r))
    OBVIOUS
  <2>2. Zero[d] = 0
    BY DEF Zero, Direction, Up, Down
  <2>3. ~(r.auto = Zero /\ r.full = Zero)
    <3>1. SUFFICES ASSUME r.auto = Zero, r.full = Zero PROVE f = 0
      BY <2>1
    <3>2. full = Zero
      BY <3>1
    <3>3. QED
      BY <1>2, <2>2, <3>1, <3>2
  <2>4. QED
    BY <1>1, <2>3 DEF Based
<1> HIDE DEF f
<1>5. /\ Sane(k) /\ k.full = r.full /\ k.auto = r.auto /\ k.perform = r.perform
      /\ k.step = r.step /\ k.autoCal = r.autoCal /\ k.flash.auto = r.flash.auto
      /\ k.buttonReq = r.buttonReq /\ k.on = r.on /\ k.trigger = r.trigger
      /\ Known(r) \/ f = 0 => k = r
  BY <1>1, CalibratedIs
<1> HIDE DEF k
<1>6. Cal(k)
  <2>1. CASE Known(r) \/ f = 0
    BY <1>5, <2>1
  <2>2. CASE ~(Known(r) \/ f = 0)
    <3>1. Held(k)
      BY <1>1, <1>5 DEF Based, Held
    <3>2. Based(k)
      BY <1>1, <1>4, <1>5, <2>2, <3>1 DEF Based, AutocalDone
    <3>3. QED
      BY <1>5, <3>2 DEF Cal, Steady
  <2>3. QED
    BY <2>1, <2>2
<1>7. /\ ~Known(k) \/ f = 0 => s = k
      /\ Known(k) /\ k.step = 0 /\ Based(k) =>
           /\ Cal(s) /\ s.full = k.full /\ s.auto = k.auto /\ s.step = 0
           /\ s.autoCal = k.autoCal
  BY <1>3, <1>6, PositionMovedIs DEF Cal
<1> HIDE DEF s
<1>8. QED
  BY <1>5, <1>6, <1>7 DEF Cal, s, k, f

(* And one that does.                                                      *)
LEMMA CalibratingRun ==
  ASSUME NEW r, Calibrates(r), NEW d, d = StepDirection(r.step), NEW inMove
  PROVE  LET c == Autocalibrated(r, inMove)
             f == InForce(c, r.auto)[d]
             s == PositionMoved(Calibrated(c, d, f), d, f, inMove)
         IN  /\ Cal(s) /\ s.autoCal = r.autoCal
             /\ s.position = 0 \/ (r.step = 3 /\ s.position = Open)
<1> DEFINE c == Autocalibrated(r, inMove)
           f == InForce(c, r.auto)[d]
           k == Calibrated(c, d, f)
           s == PositionMoved(k, d, f, inMove)
<1>1. /\ r \in State /\ r.step \in 1..3 /\ Measured(r) /\ r.auto \in Timing
      /\ d \in Direction
  BY Ranges DEF Calibrates, Cal, Sane, State, Steady, AutocalEnabled, StepDirection
<1>2. Unmeasured(r, c) \/ DownMeasured(r, c) \/ UpMeasured(r, c)
  BY AutocalibratedIs
<1> HIDE DEF c
<1>3. Sane(c) /\ c \in State /\ c.auto \in Timing /\ Cal(c) /\ c.autoCal = r.autoCal
  BY <1>2 DEF Unmeasured, DownMeasured, UpMeasured, Cal, Sane, State
<1>4. f = IF c.auto[d] > 0 THEN c.auto[d] ELSE r.auto[d]
  BY <1>1, InForceOf
<1>5. f \in Nat
  BY <1>1, <1>3, <1>4, TimingIs
<1> HIDE DEF f
<1>6. /\ Sane(k) /\ k.full = c.full /\ k.auto = c.auto /\ k.perform = c.perform
      /\ k.step = c.step /\ k.autoCal = c.autoCal /\ k.flash.auto = c.flash.auto
      /\ k.ran = c.ran /\ k.buttonReq = c.buttonReq /\ k.on = c.on
      /\ k.trigger = c.trigger
      /\ Known(c) \/ f = 0 => k = c
      /\ f # 0 /\ ~Known(c) /\ ~Beyond(c.ran[d], f) => k.position = 0
  BY <1>1, <1>3, CalibratedIs
<1> HIDE DEF k
<1>7. /\ ~Known(k) \/ f = 0 => s = k
      /\ Known(k) /\ k.step = 0 /\ Based(k) =>
           /\ Cal(s) /\ s.autoCal = k.autoCal
           /\ k.position = EndOf(d) => s.position = EndOf(d)
  BY <1>1, <1>5, <1>6, PositionMovedIs
<1> HIDE DEF s
<1>8. CASE Unmeasured(r, c)
  <2>1. r.auto[d] = 0
    BY <1>1 DEF Measured, StepDirection, Zero, Up, Down
  <2>2. c.auto[d] = 0
    BY <1>8 DEF Unmeasured
  <2>3. f = 0
    BY <1>4, <2>1, <2>2
  <2>4. QED
    BY <1>6, <1>7, <1>8, <2>3 DEF Unmeasured, s, k, f, c
<1>9. CASE DownMeasured(r, c)
  <2>1. d = Down /\ f = c.ran[Down] \div N /\ f # 0
    BY <1>4, <1>9 DEF DownMeasured, StepDirection
  <2>2. ~Beyond(c.ran[d], f)
    BY <1>9, <2>1, NotBeyond DEF DownMeasured
  <2>3. c.position = 0 /\ k.position = 0 /\ ~Known(k)
    BY <1>6, <1>9, <2>1, <2>2 DEF DownMeasured, Known
  <2>4. Marked(c, k)
    BY <1>6, <2>3 DEF Marked, Alike
  <2>5. Cal(k)
    BY <1>3, <1>6, <2>4, MarkedKeeps
  <2>6. QED
    BY <1>3, <1>6, <1>7, <2>3, <2>5 DEF s, k, f, c
<1>10. CASE UpMeasured(r, c)
  <2>1. d = Up /\ c.position = EndOf(d) /\ EndOf(d) = Open /\ Known(c) /\ c.step = 0
    BY <1>10 DEF UpMeasured, StepDirection, EndOf, Known, Open
  <2>2. k = c
    BY <1>6, <2>1
  <2>3. Cal(s) /\ s.autoCal = c.autoCal /\ s.position = Open
    BY <1>3, <1>7, <2>1, <2>2 DEF Cal
  <2>4. QED
    BY <1>3, <1>10, <2>3 DEF UpMeasured, s, k, f, c
<1>11. QED
  BY <1>2, <1>8, <1>9, <1>10

(* All that the timer does while the motor runs: no position is left if    *)
(* the times change, or the shutter is open at the end of calibration.     *)
LEMMA RunningKeeps ==
  ASSUME NEW r, Cal(r), NEW d \in Direction, d \in r.on, NEW full,
         r.step > 0 => AutocalEnabled(r),
         full = IF AutocalEnabled(r) THEN r.auto ELSE r.full, NEW inMove
  PROVE  LET s == Running(r, d, full, inMove)
         IN  Cal(s) /\ s.autoCal = r.autoCal /\ Ticked(r, s)
<1> DEFINE a == RanOn(r, d)
           b == MotorChecked(a, d, inMove)
           c == Autocalibrated(b, inMove)
           f == InForce(c, full)[d]
           s == PositionMoved(Calibrated(c, d, f), d, f, inMove)
<1>1. Running(r, d, full, inMove) = s
  BY DEF Running, RanOn
<1>2. /\ Cal(a) /\ a.position = r.position /\ a.full = r.full /\ a.auto = r.auto
      /\ a.step = r.step /\ a.autoCal = r.autoCal /\ a.on = r.on
      /\ a.ran[Opposite(d)] = 0
  BY RanOnKeeps
<1> HIDE DEF a
<1>3. Cal(b) /\ Marked(a, b)
  BY <1>2, FlagsMarked, MarkedKeeps DEF Cal
<1>4. /\ b.position = r.position /\ b.full = r.full /\ b.auto = r.auto
      /\ b.step = r.step /\ b.autoCal = r.autoCal /\ b.on = r.on
      /\ b.ran[Opposite(d)] = 0
  BY <1>2, <1>3 DEF Marked, Alike
<1> HIDE DEF b
<1>5. b \in State /\ b.step \in 0..3 /\ b.flags \in SUBSET Flags /\ b.full \in Timing
      /\ b.auto \in Timing
  BY <1>3 DEF Cal, Sane, State
<1>6. full \in Timing /\ full = IF AutocalEnabled(b) THEN b.auto ELSE b.full
  BY <1>4, <1>5 DEF AutocalEnabled
<1>7. CASE b.step = 0
  <2>1. PICK flags \in SUBSET Flags : flags = b.flags \ {"InProgress"}
    BY <1>5
  <2>2. c = [b EXCEPT !.flags = flags]
    BY <1>5, <1>7, <2>1 DEF Autocalibrated, State
  <2>3. Sane(c) /\ Marked(b, c)
    BY <1>3, <2>2, FlagsMarked DEF Cal
  <2> HIDE DEF c
  <2>4. Cal(c)
    BY <1>3, <2>3, MarkedKeeps
  <2>5. /\ c.step = 0 /\ d \in c.on /\ c.full = r.full /\ c.auto = r.auto
        /\ c.autoCal = r.autoCal
    BY <1>4, <1>7, <2>3 DEF Marked, Alike
  <2>6. full = IF AutocalEnabled(c) THEN c.auto ELSE c.full
    BY <2>5 DEF AutocalEnabled
  <2>7. /\ Cal(s) /\ s.full = c.full /\ s.auto = c.auto /\ s.autoCal = c.autoCal
    BY <1>6, <2>4, <2>5, <2>6, FreeRun
  <2> HIDE DEF s
  <2>8. QED
    BY <1>1, <2>5, <2>7 DEF Ticked
<1>8. CASE b.step # 0
  <2>1. b.step > 0 /\ AutocalEnabled(b)
    BY <1>4, <1>5, <1>8 DEF AutocalEnabled
  <2>2. Drives(b, StepDirection(b.step))
    BY <1>3, <2>1 DEF Cal, Steady
  <2>3. /\ b.on = {StepDirection(b.step)} /\ b.trigger.left = Disarmed
        /\ d = StepDirection(b.step)
    BY <1>4, <2>2 DEF Drives
  <2>4. b.step = 1 => b.ran[Down] = 0
    BY <1>4, <2>3 DEF StepDirection, Opposite
  <2>5. Calibrates(b)
    BY <1>3, <2>1, <2>3, <2>4 DEF Calibrates
  <2>6. full = b.auto
    BY <1>6, <2>1
  <2>7. /\ Cal(s) /\ s.autoCal = b.autoCal
        /\ s.position = 0 \/ (b.step = 3 /\ s.position = Open)
    BY <2>3, <2>5, <2>6, CalibratingRun
  <2> HIDE DEF s
  <2>8. QED
    BY <1>1, <1>4, <2>7 DEF Ticked
<1>9. QED
  BY <1>7, <1>8

(* A shutter to be calibrated has neither position nor times.              *)
Leaves(r, s) == Cal(s) /\ Rests(r, s) /\ s.autoCal = r.autoCal

(* Two calls that keep the calibration, one after the other.               *)
LEMMA LeavesTwice ==
  ASSUME NEW r, NEW s, NEW t, Leaves(r, s), Leaves(s, t)
  PROVE  Leaves(r, t)
BY RestsTwice DEF Leaves

(* Marks are such calls.                                                   *)
LEMMA MarkedLeaves ==
  ASSUME NEW r, Cal(r), NEW s, Sane(s), Marked(r, s)
  PROVE  Leaves(r, s)
BY MarkedKeeps DEF Leaves, Marked, Alike

(* check_if_autocal_is_needed finds neither position nor times when it     *)
(* asks for calibration.                                                   *)
LEMMA AutocalCheckedLeaves ==
  ASSUME NEW r, Cal(r)
  PROVE  Leaves(r, AutocalChecked(r))
<1> DEFINE s == [r EXCEPT !.perform = TRUE]
<1>1. r \in State /\ Sane(r) /\ Based(r) /\ Steady(r)
  BY DEF Cal, Sane
<1>2. CASE AutocalEnabled(r) /\ ~AutocalDone(r) /\ r.step = 0
  <2>1. r.auto = Zero /\ r.full = Zero /\ r.position = 0 /\ r.autoCal
    BY <1>1, <1>2 DEF Based, AutocalEnabled
  <2>2. s \in State
    BY <1>1, FieldTyped
  <2>3. /\ s.perform /\ SameDrive(r, s) /\ s.trigger = r.trigger
        /\ s.position = r.position /\ s.full = r.full /\ s.auto = r.auto
        /\ s.step = r.step /\ s.autoCal = r.autoCal /\ s.buttonReq = r.buttonReq
    BY <1>1 DEF State, SameDrive
  <2>4. AutocalChecked(r) = s
    BY <1>2 DEF AutocalChecked
  <2> HIDE DEF s
  <2>5. Sane(s)
    BY <1>1, <2>2, <2>3, SaneKept
  <2>6. Based(s) /\ Steady(s)
    BY <1>1, <1>2, <2>1, <2>3 DEF Based, Held, SameDrive, Steady
  <2>7. QED
    BY <2>3, <2>4, <2>5, <2>6 DEF Leaves, Cal, Rests
<1>3. CASE ~(AutocalEnabled(r) /\ ~AutocalDone(r) /\ r.step = 0)
  BY <1>3 DEF AutocalChecked, Leaves, Rests
<1>4. QED
  BY <1>2, <1>3

Begun(r) == [r EXCEPT !.perform = FALSE, !.step = 1]

(* The first step is written.                                              *)
LEMMA BegunIs ==
  ASSUME NEW r \in State
  PROVE  LET s == Begun(r)
         IN  /\ s \in State /\ SameDrive(r, s) /\ s.trigger = r.trigger /\ ~s.perform
             /\ s.step = 1 /\ s.position = r.position /\ s.full = r.full
             /\ s.auto = r.auto /\ s.autoCal = r.autoCal
<1>1. 1 \in 0..3
  OBVIOUS
<1>2. Begun(r) \in State
  BY <1>1 DEF State, Begun
<1>3. QED
  BY <1>2 DEF SameDrive, State, Begun

(* Calibration starts upwards: with no position, the start is not refused. *)
LEMMA AutocalStartedLeaves ==
  ASSUME NEW r, Cal(r), r.perform
  PROVE  Leaves(r, AutocalStarted(r))
<1> DEFINE z == Begun(r)
           y == Ready(z)
           s == SetRelay(y, Up, FALSE, 0)
<1>1. /\ r \in State /\ Sane(r) /\ r.autoCal /\ r.full = Zero /\ r.auto = Zero
      /\ r.position = 0
  BY DEF Cal, Sane, Based
<1>2. AutocalStarted(r) = s
  BY DEF AutocalStarted, Begun
<1>3. /\ z \in State /\ SameDrive(r, z) /\ z.trigger = r.trigger /\ ~z.perform
      /\ z.step = 1 /\ z.position = r.position /\ z.full = r.full
      /\ z.auto = r.auto /\ z.autoCal = r.autoCal
  BY <1>1, BegunIs
<1>4. z.position = 0 /\ z.full = Zero /\ z.auto = Zero
  BY <1>1, <1>3
<1> HIDE DEF z
<1>5. y \in State /\ SameDrive(z, y) /\ Alike(z, y) /\ y.buttonReq
  BY <1>3, ReadyIs
<1>6. Sane(y)
  BY <1>1, <1>3, <1>5, SaneKept DEF SameDrive
<1> HIDE DEF y
<1>7. Sane(s) /\ Alike(y, s) /\ ~s.buttonReq /\ Drives(s, Up)
  <2>1. y.position = 0 /\ Up \in Direction
    BY <1>4, <1>5, Ranges DEF Alike
  <2>2. QED
    BY <1>5, <1>6, <2>1, SetRelayDrives
<1> HIDE DEF s
<1>8. /\ ~s.perform /\ s.step = 1 /\ s.position = 0 /\ s.full = Zero /\ s.auto = Zero
      /\ s.autoCal = r.autoCal
  BY <1>3, <1>4, <1>5, <1>7 DEF Alike
<1>9. Based(s)
  BY <1>1, <1>7, <1>8 DEF Based, Held, Drives
<1>10. Steady(s)
  BY <1>7, <1>8 DEF Steady, StepDirection, Measured
<1>11. QED
  BY <1>2, <1>7, <1>8, <1>9, <1>10 DEF Leaves, Cal, Rests

(* A task writes its own state, and sets relays of a shutter that does not *)
(* calibrate itself.                                                       *)
Works(r, s) == Cal(s) /\ Alike(r, s)

(* Two such calls are one.                                                 *)
LEMMA WorksTwice ==
  ASSUME NEW r, NEW s, NEW t, Works(r, s), Works(s, t)
  PROVE  Works(r, t)
BY AlikeTwice DEF Works

(* Marks are such calls.                                                   *)
LEMMA MarkedWorks ==
  ASSUME NEW r, Cal(r), NEW s, Sane(s), Marked(r, s)
  PROVE  Works(r, s)
BY MarkedKeeps DEF Works, Marked

(* So is set_relay while no calibration is under way.                      *)
LEMMA RelayWorks ==
  ASSUME NEW r, Cal(r), r.step = 0, NEW value \in Request
  PROVE  Works(r, SetRelay(r, value, FALSE, 0))
BY FreesKeeps DEF Works, Cal

(* The state and the direction of a task are marks.                        *)
LEMMA TaskMarked ==
  ASSUME NEW r, Cal(r)
  PROVE  /\ \A x \in {Inactive, Active, Setting, SettingTilt} :
              Works(r, [r EXCEPT !.task.state = x])
         /\ \A d \in Request : Works(r, [r EXCEPT !.task.direction = d])
<1>1. r \in State /\ Sane(r)
  BY DEF Cal, Sane
<1>2. ASSUME NEW x \in {Inactive, Active, Setting, SettingTilt}
      PROVE  Works(r, [r EXCEPT !.task.state = x])
  <2> DEFINE s == [r EXCEPT !.task.state = x]
  <2>1. s \in State
    BY <1>1, TaskWritten
  <2>2. Marked(r, s) /\ SameDrive(r, s)
    BY <1>1 DEF Marked, Alike, SameDrive, State
  <2> HIDE DEF s
  <2>3. QED
    BY <1>1, <2>1, <2>2, SaneKept, MarkedWorks DEF s
<1>3. ASSUME NEW d \in Request PROVE Works(r, [r EXCEPT !.task.direction = d])
  <2> DEFINE s == [r EXCEPT !.task.direction = d]
  <2>1. s \in State
    BY <1>1, TaskWritten
  <2>2. Marked(r, s) /\ SameDrive(r, s)
    BY <1>1 DEF Marked, Alike, SameDrive, State
  <2> HIDE DEF s
  <2>3. QED
    BY <1>1, <2>1, <2>2, SaneKept, MarkedWorks DEF s
<1>4. QED
  BY <1>2, <1>3

(* A task asks for a direction.                                            *)
LEMMA GoWorks ==
  ASSUME NEW r, Cal(r), r.step = 0, NEW d \in Request
  PROVE  Works(r, SetRelay([r EXCEPT !.task.direction = d], d, FALSE, 0))
<1> DEFINE s == [r EXCEPT !.task.direction = d]
<1>1. Works(r, s)
  BY TaskMarked
<1> HIDE DEF s
<1>2. s.step = 0 /\ Cal(s)
  BY <1>1 DEF Works, Alike
<1>3. Works(s, SetRelay(s, d, FALSE, 0))
  BY <1>2, RelayWorks
<1>4. Works(r, SetRelay(s, d, FALSE, 0))
  BY <1>1, <1>3, WorksTwice
<1>5. QED
  BY <1>4 DEF s

(* It ends,                                                                *)
LEMMA TaskDoneWorks ==
  ASSUME NEW r, Cal(r), r.step = 0
  PROVE  Works(r, TaskDone(r))
<1> DEFINE s == [r EXCEPT !.task.state = Inactive]
<1>1. Works(r, s)
  BY TaskMarked
<1>2. [r EXCEPT !.task.state = Inactive, !.task.direction = Off]
        = [s EXCEPT !.task.direction = Off]
  BY DEF Cal, Sane, State, Task
<1>3. TaskDone(r) = SetRelay([s EXCEPT !.task.direction = Off], Off, FALSE, 0)
  BY <1>2 DEF TaskDone
<1> HIDE DEF s
<1>4. Works(s, SetRelay([s EXCEPT !.task.direction = Off], Off, FALSE, 0))
  BY <1>1, Ranges, GoWorks DEF Works, Alike
<1>5. QED
  BY <1>1, <1>3, <1>4, WorksTwice

(* starts,                                                                 *)
LEMMA TaskStartedWorks ==
  ASSUME NEW r, Cal(r), r.step = 0, NEW full
  PROVE  Works(r, TaskStarted(r, full))
<1> DEFINE s == [r EXCEPT !.task.state = Setting]
           go(d) == SetRelay([s EXCEPT !.task.direction = d], d, FALSE, 0)
<1>1. TaskStarted(r, full) \in {s, go(Up), go(Down)}
  BY DEF TaskStarted
<1>2. Works(r, s)
  BY TaskMarked
<1> HIDE DEF s
<1>3. Works(s, go(Up)) /\ Works(s, go(Down))
  BY <1>2, Ranges, GoWorks, ZenonT(60) DEF Works, Alike
<1> HIDE DEF go
<1>4. Works(r, go(Up)) /\ Works(r, go(Down))
  BY <1>2, <1>3, WorksTwice
<1>5. QED
  BY <1>1, <1>2, <1>4 DEF go, s

(* goes on with the tilt,                                                  *)
LEMMA TiltStartedWorks ==
  ASSUME NEW r, Cal(r), r.step = 0
  PROVE  Works(r, TiltStarted(r))
<1> DEFINE s == [r EXCEPT !.task.state = SettingTilt]
           go(d) == SetRelay([s EXCEPT !.task.direction = d], d, FALSE, 0)
<1>1. TiltStarted(r) \in {TaskDone(s), go(Up), go(Down)}
  BY DEF TiltStarted
<1>2. Works(r, s)
  BY TaskMarked
<1> HIDE DEF s
<1>3. Cal(s) /\ s.step = 0
  BY <1>2 DEF Works, Alike
<1>4. Works(s, go(Up)) /\ Works(s, go(Down)) /\ Works(s, TaskDone(s))
  BY <1>3, Ranges, GoWorks, TaskDoneWorks
<1> HIDE DEF go
<1>5. Works(r, go(Up)) /\ Works(r, go(Down)) /\ Works(r, TaskDone(s))
  BY <1>2, <1>4, WorksTwice
<1>6. QED
  BY <1>1, <1>5 DEF go, s

(* or has set the position.                                                *)
LEMMA PositionSetWorks ==
  ASSUME NEW r, Cal(r), r.step = 0, NEW inMove
  PROVE  Works(r, PositionSet(r, inMove))
<1> DEFINE whole == \/ r.task.position = 0
                    \/ r.task.position = N /\ (FreeOfTilt(r) \/ r.task.tilt = N)
           l == IF whole THEN LostChecked(r, inMove) ELSE r
           s == [l EXCEPT !.task.direction = Off]
           stop == SetRelay(s, Off, FALSE, 0)
<1>1. PositionSet(r, inMove) \in {s, stop}
  BY DEF PositionSet
<1>2. Works(r, l)
  BY FlagsMarked, MarkedWorks DEF Works, Alike, Cal
<1> HIDE DEF l
<1>3. Off \in Request /\ Cal(l)
  BY <1>2, Ranges DEF Works
<1>4. Works(l, s)
  BY <1>3, TaskMarked
<1>5. Works(r, s)
  BY <1>2, <1>4, WorksTwice
<1> HIDE DEF s
<1>6. Cal(s) /\ s.step = 0
  BY <1>5 DEF Works, Alike
<1>7. Works(s, stop)
  BY <1>3, <1>6, RelayWorks
<1> HIDE DEF stop
<1>8. Works(r, stop)
  BY <1>5, <1>7, WorksTwice
<1>9. QED
  BY <1>1, <1>5, <1>8 DEF stop, s, l

(* All that the timer does for a task: calibration first, if it is wanted, *)
(* and nothing while it is under way.                                      *)
LEMMA TaskProcessedLeaves ==
  ASSUME NEW r, Cal(r), NEW full, NEW inMove
  PROVE  Leaves(r, TaskProcessed(r, full, inMove))
<1> DEFINE a == IF r.task.state = Active THEN TaskStarted(r, full) ELSE r
           b == IF a.task.state = Setting /\ a.task.direction = Off
                THEN TiltStarted(a) ELSE a
           c == IF b.task.state = Setting /\ Reached(b, full) /\ ~RunsOn(b, full, inMove)
                THEN PositionSet(b, inMove) ELSE b
           nearer == IF Percent(r.task.position) < 50 THEN Up ELSE Down
           near == SetRelay(r, nearer, FALSE, 0)
<1>1. Leaves(r, r) /\ Works(r, r)
  BY DEF Leaves, Rests, Works, Alike
<1>2. CASE NothingToDo(r)
  BY <1>1, <1>2 DEF TaskProcessed
<1>3. CASE ~NothingToDo(r) /\ r.perform
  <2>1. TaskProcessed(r, full, inMove) = AutocalStarted(r)
    BY <1>3 DEF TaskProcessed
  <2>2. QED
    BY <1>3, <2>1, AutocalStartedLeaves
<1>4. CASE ~NothingToDo(r) /\ ~r.perform
  <2>1. r.step = 0
    <3>1. r.step \in 0..3
      BY DEF Cal, Sane, State
    <3>2. QED
      BY <1>4, <3>1 DEF NothingToDo
  <2>2. TaskProcessed(r, full, inMove) \in {r, near, c, TaskDone(c)}
    BY <1>4 DEF TaskProcessed
  <2>3. Works(r, a)
    BY <1>1, <2>1, TaskStartedWorks
  <2> HIDE DEF a
  <2>4. Works(a, b)
    BY <2>1, <2>3, TiltStartedWorks DEF Works, Alike
  <2> HIDE DEF b
  <2>5. Works(r, b)
    BY <2>3, <2>4, WorksTwice
  <2>6. Works(b, c)
    BY <2>1, <2>5, PositionSetWorks DEF Works, Alike
  <2> HIDE DEF c
  <2>7. Works(r, c)
    BY <2>5, <2>6, WorksTwice
  <2>8. Cal(c) /\ c.step = 0
    BY <2>1, <2>7 DEF Works, Alike
  <2>9. Works(r, TaskDone(c))
    BY <2>7, <2>8, TaskDoneWorks, WorksTwice
  <2>10. nearer \in Request
    BY Ranges
  <2>11. Works(r, near)
    BY <2>1, <2>10, RelayWorks
  <2> HIDE DEF near
  <2>12. Works(r, TaskProcessed(r, full, inMove))
    BY <1>1, <2>2, <2>7, <2>9, <2>11
  <2>13. QED
    BY <2>12 DEF Works, Leaves, Alike, Rests
<1>5. QED
  BY <1>2, <1>3, <1>4

(* The server is told, and a relay that was on for too long is opened.     *)
LEMMA ReportedLeaves ==
  ASSUME NEW r, Cal(r)
  PROVE  Leaves(r, Reported(r))
<1> DEFINE early == [r EXCEPT !.comm = @ + 1]
           z == [r EXCEPT !.comm = 0]
           s == Sent(z)
           stop == SetRelay(s, Off, FALSE, 0)
<1>1. r \in State /\ Sane(r) /\ Good(r)
  BY DEF Cal, Sane
<1>2. CommPeriod \in Nat /\ CommPeriod > 0
  BY ConstantAssumption
<1>3. CASE r.comm < CommPeriod - 1
  <2>1. PICK n \in 0..(CommPeriod - 1) : n = r.comm
    BY <1>1 DEF State
  <2>2. PICK c \in 0..(CommPeriod - 1) : c = r.comm + 1
    BY <1>2, <1>3, <2>1
  <2>3. [r EXCEPT !.comm = c] \in State
    BY <1>1 DEF State
  <2>4. early = [r EXCEPT !.comm = c]
    BY <1>1, <2>2 DEF State
  <2>5. SameDrive(r, early) /\ Marked(r, early)
    BY <1>1 DEF SameDrive, Marked, Alike, State
  <2>6. Reported(r) = early
    BY <1>3 DEF Reported
  <2> HIDE DEF early
  <2>7. QED
    BY <1>1, <2>3, <2>4, <2>5, <2>6, SaneKept, MarkedLeaves
<1>4. CASE ~(r.comm < CommPeriod - 1)
  <2>1. 0 \in 0..(CommPeriod - 1)
    BY <1>2
  <2>2. z \in State
    BY <1>1, <2>1 DEF State
  <2>3. SameDrive(r, z) /\ Marked(r, z)
    BY <1>1 DEF SameDrive, Marked, Alike, State
  <2>4. Reported(r) = IF RanTooLong(r) THEN stop ELSE s
    BY <1>4 DEF Reported
  <2> HIDE DEF z
  <2>5. ValueOf(z) \in Told
    BY <2>2 DEF ValueOf, Told, State
  <2>6. s \in State
    BY <2>2, <2>5 DEF State, Sent
  <2>7. SameDrive(z, s) /\ Marked(z, s)
    BY <2>2 DEF SameDrive, Marked, Alike, State, Sent
  <2> HIDE DEF s
  <2>8. SameDrive(r, s) /\ Marked(r, s)
    BY <2>3, <2>7, MarkedTwice DEF SameDrive
  <2>9. Sane(s) /\ Leaves(r, s)
    BY <1>1, <2>6, <2>8, SaneKept, MarkedLeaves
  <2>10. Cal(stop) /\ Rests(s, stop) /\ stop.autoCal = s.autoCal
    <3>1. Off \in Request /\ Based(s)
      BY <2>9, Ranges DEF Leaves, Cal
    <3>2. Cal(stop) /\ Rests(s, stop) /\ Kept(s, stop)
      BY <2>9, <3>1, FreesKeeps
    <3>3. QED
      BY <3>2 DEF Kept
  <2> HIDE DEF stop
  <2>11. Leaves(r, stop)
    BY <2>9, <2>10, LeavesTwice DEF Leaves
  <2>12. QED
    BY <2>4, <2>9, <2>11 DEF stop, s, z
<1>5. QED
  BY <1>3, <1>4

(* The whole of the timer.                                                 *)
LEMMA TickedLeaves ==
  ASSUME NEW r, NEW s, NEW t, Ticked(r, s), Leaves(s, t)
  PROVE  Ticked(r, t)
BY DEF Ticked, Leaves, Rests

(* Times, motor, task and report, one after the other.                     *)
LEMMA TimerCbKeeps ==
  ASSUME NEW r, Cal(r), NEW inMove \in BOOLEAN
  PROVE  LET s == TimerCb(r, inMove)
         IN  Cal(s) /\ s.autoCal = r.autoCal /\ Ticked(r, s)
<1> DEFINE s    == TimesSelected(r)
           full == IF AutocalEnabled(r) THEN s.auto ELSE s.full
           p    == PowerDetected(s, inMove)
           m    == CASE Up \in p.on -> Running(p, Up, full, inMove)
                     [] p.on = {Down} -> Running(p, Down, full, inMove)
                     [] OTHER -> Standing(p)
           c    == AutocalChecked(m)
           g    == InForce(m, full)
           t    == TaskProcessed(c, g, inMove)
           u    == Reported(t)
<1>1. TimerCb(r, inMove) = u
  BY DEF TimerCb
<1>2. /\ Cal(s) /\ s.full = r.full /\ s.auto = r.auto
      /\ s.autoCal = r.autoCal /\ s.step \in {r.step, 0}
      /\ s.step > 0 => AutocalEnabled(s)
  BY SelectedKeeps
<1> HIDE DEF s
<1>3. Cal(p) /\ Marked(s, p)
  BY <1>2, DetectedMarked, MarkedKeeps DEF Cal
<1> HIDE DEF p
<1>4. /\ p.full = r.full /\ p.auto = r.auto /\ p.autoCal = r.autoCal
      /\ p.step \in {r.step, 0}
      /\ p.step > 0 => AutocalEnabled(p)
      /\ full = IF AutocalEnabled(p) THEN p.auto ELSE p.full
  BY <1>2, <1>3 DEF Marked, Alike, AutocalEnabled
<1> HIDE DEF full
<1>5. Cal(m) /\ m.autoCal = p.autoCal /\ Ticked(p, m)
  <2>1. CASE Up \in p.on
    BY <1>3, <1>4, <2>1, Ranges, RunningKeeps
  <2>2. CASE Up \notin p.on /\ p.on = {Down}
    <3>1. Down \in p.on /\ m = Running(p, Down, full, inMove)
      BY <2>2
    <3> HIDE DEF m
    <3>2. QED
      BY <1>3, <1>4, <3>1, Ranges, RunningKeeps
  <2>3. CASE Up \notin p.on /\ p.on # {Down}
    <3>1. m = Standing(p)
      BY <2>3
    <3> HIDE DEF m
    <3>2. QED
      BY <1>3, <3>1, StandingKeeps DEF Ticked
  <2>4. QED
    BY <2>1, <2>2, <2>3
<1> HIDE DEF m, g
<1>6. Ticked(r, m) /\ m.autoCal = r.autoCal
  <2>1. r.step \in 0..3
    BY DEF Cal, Sane, State
  <2>2. p.step = 3 => r.step = 3
    BY <1>4, <2>1
  <2>3. QED
    BY <1>4, <1>5, <2>2 DEF Ticked
<1>7. Leaves(m, c)
  BY <1>5, AutocalCheckedLeaves
<1> HIDE DEF c
<1>8. Leaves(c, t)
  BY <1>7, TaskProcessedLeaves DEF Leaves
<1> HIDE DEF t
<1>9. Leaves(t, u)
  BY <1>8, ReportedLeaves DEF Leaves
<1> HIDE DEF u
<1>10. Leaves(m, u)
  BY <1>7, <1>8, <1>9, LeavesTwice
<1>11. QED
  BY <1>1, <1>6, <1>10, TickedLeaves DEF Leaves

(* What a handler may make of position and times: no position is left if   *)
(* they change.                                                            *)
Same(r, s) ==
  /\ s.position = r.position /\ s.full = r.full /\ s.auto = r.auto /\ s.step = r.step
  /\ s.autoCal = r.autoCal

(* A tick of the clock changes none of them: a start that is put off comes *)
(* closer.                                                                 *)
LEMMA AgedKeeps ==
  ASSUME NEW r, Cal(r)
  PROVE  Cal(Aged(r)) /\ Same(r, Aged(r))
<1> DEFINE s == Aged(r)
<1>1. r \in State /\ Sane(r) /\ Good(r) /\ Based(r) /\ Steady(r)
  BY DEF Cal, Sane
<1>2. s \in State /\ Good(s)
  BY <1>1, AgedTyped, AgedGood DEF Safe
<1>3. /\ Same(r, s) /\ s.perform = r.perform /\ s.flash = r.flash /\ s.ran = r.ran
      /\ s.buttonReq = r.buttonReq /\ s.on = r.on
  BY <1>1 DEF Aged, State, Same
<1>4. /\ s.trigger.autoCal = r.trigger.autoCal /\ s.trigger.value = r.trigger.value
      /\ s.trigger.left = Disarmed <=> r.trigger.left = Disarmed
  <2>1. r.trigger \in Trigger
    BY <1>1 DEF State
  <2>2. PICK n \in Nat \cup {Disarmed} : n = r.trigger.left
    BY <2>1 DEF Trigger
  <2>3. PICK k \in Nat \cup {Disarmed} : k = IF n > 0 THEN n - 1 ELSE n
    BY <2>2 DEF Disarmed
  <2>4. k = Disarmed <=> n = Disarmed
    BY <2>2, <2>3 DEF Disarmed
  <2>5. s.trigger = [r.trigger EXCEPT !.left = k]
    BY <1>1, <2>2, <2>3 DEF Aged, State
  <2>6. [r.trigger EXCEPT !.left = k].left = k
    BY <2>1 DEF Trigger
  <2>7. /\ [r.trigger EXCEPT !.left = k].autoCal = r.trigger.autoCal
        /\ [r.trigger EXCEPT !.left = k].value = r.trigger.value
    BY <2>1 DEF Trigger
  <2>8. QED
    BY <2>2, <2>4, <2>5, <2>6, <2>7
<1> HIDE DEF s
<1>5. Based(s)
  BY <1>1, <1>3, <1>4 DEF Based, Held, AutocalDone, Same
<1>6. Steady(s)
  BY <1>1, <1>3, <1>4 DEF Steady, Drives, Measured, Same
<1>7. QED
  BY <1>2, <1>3, <1>5, <1>6 DEF Cal, Sane, s

(* A start that was put off is a part of calibration if its request was.   *)
LEMMA FiredLeaves ==
  ASSUME NEW r, Cal(r), r.trigger.left # Disarmed
  PROVE  Leaves(r, Fired(r))
<1> DEFINE z == [r EXCEPT !.trigger.left = Disarmed, !.trigger.autoCal = FALSE,
                          !.buttonReq = @ \/ r.trigger.autoCal]
           value == r.trigger.value
           s == SetRelay(z, value, FALSE, 0)
<1>1. r \in State /\ Sane(r) /\ Good(r) /\ Based(r) /\ Steady(r) /\ ~r.buttonReq
  BY DEF Cal, Sane, Based
<1>2. Fired(r) = s
  BY DEF Fired
<1>3. r.trigger \in Trigger
  BY <1>1 DEF State
<1>4. PICK t \in Trigger : t = [r.trigger EXCEPT !.left = Disarmed, !.autoCal = FALSE]
  BY <1>3 DEF Trigger, Disarmed
<1>5. PICK b \in BOOLEAN : b = r.trigger.autoCal
  BY <1>3 DEF Trigger
<1>6. z = [r EXCEPT !.trigger = t, !.buttonReq = b]
  BY <1>1, <1>4, <1>5 DEF State
<1>7. z \in State
  BY <1>1, <1>6, ZenonT(60) DEF State
<1>8. SameDrive(r, z) /\ z.buttonReq = b /\ z.trigger = t /\ Alike(r, z)
  BY <1>1, <1>6 DEF State, SameDrive, Alike
<1> HIDE DEF z
<1>9. t.left = Disarmed
  BY <1>3, <1>4 DEF Trigger
<1>10. Sane(z)
  BY <1>1, <1>7, <1>8, SaneKept
<1>11. value \in Request
  BY <1>3 DEF Trigger
<1>12. r.step > 0 => b /\ value = StepDirection(r.step)
  BY <1>1, <1>5 DEF Steady, Drives
<1>13. z.step = r.step /\ z.position = r.position /\ z.full = r.full /\ z.auto = r.auto
       /\ z.autoCal = r.autoCal /\ z.perform = r.perform /\ z.on = r.on
       /\ z.flash.auto = r.flash.auto /\ z.ran = r.ran
  BY <1>8 DEF Alike, SameDrive
<1>14. ASSUME NEW q, Sane(q), Alike(z, q), ~q.buttonReq, Held(q),
              q.step > 0 => Drives(q, StepDirection(q.step))
       PROVE  Leaves(r, q)
  <2>1. /\ q.position = r.position /\ q.full = r.full /\ q.auto = r.auto
        /\ q.step = r.step /\ q.autoCal = r.autoCal /\ q.perform = r.perform
        /\ q.flash.auto = r.flash.auto /\ q.ran = r.ran
    BY <1>13, <1>14 DEF Alike
  <2>2. Based(q)
    BY <1>1, <1>14, <2>1 DEF Based, AutocalDone
  <2>3. Steady(q)
    BY <1>1, <1>14, <2>1 DEF Steady, Measured
  <2>4. QED
    BY <1>14, <2>1, <2>2, <2>3 DEF Leaves, Cal, Rests
<1> HIDE DEF s
<1>15. CASE b /\ value = Off
  <2>1. Sane(s) /\ Alike(z, s) /\ ~s.buttonReq /\ s.on = {} /\ s.trigger.left = Disarmed
    BY <1>8, <1>10, <1>15, SetRelayRests DEF s
  <2>2. r.step \in 0..3 /\ ~(r.step > 0)
    BY <1>1, <1>12, <1>15, Ranges DEF State, StepDirection, Up, Down, Off
  <2>3. Held(s) /\ ~(s.step > 0)
    BY <1>13, <2>1, <2>2 DEF Held, Alike
  <2>4. QED
    BY <1>2, <1>14, <2>1, <2>3
<1>16. CASE b /\ value # Off
  <2>1. value \in Direction
    BY <1>11, <1>16 DEF Request, Direction, Off
  <2>2. z.position = 0
    BY <1>1, <1>5, <1>13, <1>16 DEF Based, Held
  <2>3. Sane(s) /\ Alike(z, s) /\ ~s.buttonReq /\ Drives(s, value)
    BY <1>8, <1>10, <1>16, <2>1, <2>2, SetRelayDrives DEF s
  <2>4. Held(s)
    BY <2>2, <2>3 DEF Held, Alike, Drives
  <2>5. s.step > 0 => Drives(s, StepDirection(s.step))
    BY <1>12, <1>13, <2>3 DEF Alike
  <2>6. QED
    BY <1>2, <1>14, <2>3, <2>4, <2>5
<1>17. CASE ~b
  <2>1. r.step = 0 /\ z.step = 0
    <3>1. r.step \in 0..3
      BY <1>1 DEF State
    <3>2. QED
      BY <1>12, <1>13, <1>17, <3>1
  <2>2. Held(z) /\ ~z.buttonReq
    BY <1>8, <1>9, <1>17 DEF Held
  <2>3. Based(z)
    BY <1>1, <1>13, <2>2 DEF Based, AutocalDone
  <2>4. Cal(s) /\ Rests(z, s) /\ Kept(z, s)
    BY <1>10, <1>11, <2>3, FreesKeeps DEF s
  <2>5. QED
    BY <1>2, <1>13, <2>4 DEF Leaves, Rests, Kept
<1>18. QED
  BY <1>15, <1>16, <1>17

(* New times take away the position, what was measured and the wish to     *)
(* measure it; the same ones change nothing.                               *)
SameTimes(r, s) == s.position = r.position /\ s.full = r.full /\ s.auto = r.auto
Times(r, full, auto) == [r EXCEPT !.full = full, !.auto = auto]

(* The new times are written, and the position is void.                    *)
LEMMA RetimedIs ==
  ASSUME NEW r, Sane(r), NEW t \in Timing
  PROVE  LET s == Retimed(r, t)
         IN  /\ Sane(s) /\ s.position = 0 /\ s.full = t /\ s.auto = Zero
             /\ s.step = r.step /\ s.buttonReq = r.buttonReq /\ s.on = r.on
             /\ s.trigger = r.trigger /\ Kept(r, s)
<1> DEFINE w == Times(r, t, Zero)
<1>1. r \in State /\ Zero \in Timing
  BY Ranges DEF Sane
<1>2. w \in State
  BY <1>1 DEF State, Times
<1>3. /\ SameDrive(r, w) /\ w.full = t /\ w.auto = Zero /\ w.step = r.step
      /\ w.buttonReq = r.buttonReq /\ w.trigger = r.trigger /\ Kept(r, w)
  BY <1>1, <1>2 DEF State, Times, SameDrive, Kept
<1>4. Retimed(r, t) = Voided(w)
  BY DEF Retimed, Times
<1> HIDE DEF w
<1>5. Sane(w)
  BY <1>2, <1>3, SaneKept
<1>6. QED
  BY <1>3, <1>4, <1>5, VoidedIs DEF Kept, SameDrive

(* Both writes to the flash.                                               *)
LEMMA BothSaved ==
  ASSUME NEW r, Sane(r)
  PROVE  LET s == CfgSaved(StateSaved(r))
         IN  /\ Sane(s) /\ SameTimes(r, s) /\ s.perform = r.perform /\ s.step = r.step
             /\ s.autoCal = r.autoCal /\ s.ran = r.ran /\ s.buttonReq = r.buttonReq
             /\ s.on = r.on /\ s.trigger = r.trigger /\ s.flash.auto = r.auto
<1> DEFINE v == StateSaved(r)
           f == [v.flash EXCEPT !.full = v.full, !.auto = v.auto, !.blind = v.blind,
                                !.addMargin = v.addMargin, !.swapped = v.swapped]
           s == CfgSaved(v)
<1>1. Sane(v) /\ Marked(r, v)
  BY SavedMarked
<1> HIDE DEF v
<1>2. v \in State /\ v.flash \in Flash
  BY <1>1 DEF Sane, State
<1>3. s \in State
  BY <1>2, SavedTyped
<1>4. s = [v EXCEPT !.flash = f]
  BY DEF CfgSaved
<1>5. f.auto = v.auto
  BY <1>2 DEF Flash
<1> HIDE DEF f
<1>6. /\ SameDrive(v, s) /\ SameTimes(v, s) /\ s.perform = v.perform
      /\ s.step = v.step /\ s.autoCal = v.autoCal /\ s.ran = v.ran
      /\ s.buttonReq = v.buttonReq /\ s.trigger = v.trigger /\ s.flash.auto = v.auto
  BY <1>2, <1>4, <1>5 DEF State, SameDrive, SameTimes
<1> HIDE DEF s
<1>7. Sane(s)
  BY <1>1, <1>3, <1>6, SaneKept
<1>8. QED
  BY <1>1, <1>6, <1>7 DEF Marked, Alike, SameDrive, SameTimes, s, v

(* What every handler of the server does first.                            *)
LEMMA TimesAppliedIs ==
  ASSUME NEW r, Sane(r), Based(r), NEW t \in Timing
  PROVE  LET s == TimesApplied(r, t)
         IN  /\ Sane(s) /\ Based(s) /\ s.step = r.step /\ s.autoCal = r.autoCal
             /\ s.ran = r.ran /\ s.on = r.on /\ s.trigger = r.trigger
             /\ IF TimesReset(r, t) THEN s.position = 0 /\ s.full = t /\ s.auto = Zero
                ELSE SameTimes(r, s)
<1> DEFINE w == IF TimesReset(r, t) THEN Retimed(r, t) ELSE r
           y == w.perform /\ w.full = Zero
           p == [w EXCEPT !.perform = y]
           s == CfgSaved(StateSaved(p))
<1>1. TimesApplied(r, t) = s
  BY DEF TimesApplied
<1>2. /\ Sane(w) /\ w.step = r.step /\ w.buttonReq = r.buttonReq /\ w.on = r.on
      /\ w.trigger = r.trigger /\ Kept(r, w)
      /\ IF TimesReset(r, t) THEN w.position = 0 /\ w.full = t /\ w.auto = Zero
         ELSE SameTimes(r, w)
  BY RetimedIs DEF Kept, SameTimes
<1> HIDE DEF w
<1>3. y \in BOOLEAN /\ w \in State
  BY <1>2 DEF Sane, State
<1>4. y => w.perform /\ w.full = Zero
  OBVIOUS
<1> HIDE DEF y
<1>5. p \in State
  BY <1>3, FieldTyped
<1>6. /\ SameDrive(w, p) /\ SameTimes(w, p) /\ p.perform = y /\ p.step = w.step
      /\ p.autoCal = w.autoCal /\ p.ran = w.ran /\ p.buttonReq = w.buttonReq
      /\ p.trigger = w.trigger
  BY <1>3 DEF State, SameDrive, SameTimes
<1> HIDE DEF p
<1>7. Sane(p)
  BY <1>2, <1>5, <1>6, SaneKept
<1>8. /\ Sane(s) /\ SameTimes(p, s) /\ s.perform = p.perform /\ s.step = p.step
      /\ s.autoCal = p.autoCal /\ s.ran = p.ran /\ s.buttonReq = p.buttonReq
      /\ s.on = p.on /\ s.trigger = p.trigger /\ s.flash.auto = p.auto
  BY <1>7, BothSaved
<1> HIDE DEF s
<1>9. /\ SameTimes(w, s) /\ (s.perform => w.perform /\ w.full = Zero) /\ s.step = r.step
      /\ s.autoCal = r.autoCal /\ s.ran = r.ran /\ s.buttonReq = r.buttonReq
      /\ s.on = r.on /\ s.trigger = r.trigger /\ s.flash.auto = s.auto
      /\ w.perform = r.perform
  BY <1>2, <1>4, <1>6, <1>8 DEF SameTimes, SameDrive, Kept
<1>10. Held(s)
  BY <1>2, <1>9 DEF Based, Held, SameTimes
<1>11. Based(s)
  BY <1>2, <1>9, <1>10 DEF Based, SameTimes, AutocalDone
<1>12. QED
  BY <1>1, <1>2, <1>8, <1>9, <1>11 DEF SameTimes

(* Times that are changed by a handler which leaves the calibration alone: *)
(* its steps go on, until the next tick ends them.                         *)
OneRetiming(r, s) == ~(r.step > 0 /\ ~AutocalEnabled(r) /\ s.step > 0 /\ AutocalEnabled(s))

(* Given times take over from a calibration under way; automatic           *)
(* calibration takes over from given times only while no step is left of   *)
(* another one.                                                            *)
LEMMA TimesAppliedLeaves ==
  ASSUME NEW r, Cal(r), NEW t \in Timing, OneRetiming(r, TimesApplied(r, t))
  PROVE  Leaves(r, TimesApplied(r, t))
<1> DEFINE s == TimesApplied(r, t)
<1>1. /\ Sane(s) /\ Based(s) /\ s.step = r.step /\ s.autoCal = r.autoCal
      /\ s.ran = r.ran /\ s.on = r.on /\ s.trigger = r.trigger
      /\ IF TimesReset(r, t) THEN s.position = 0 /\ s.full = t /\ s.auto = Zero
         ELSE SameTimes(r, s)
  BY TimesAppliedIs DEF Cal
<1> HIDE DEF s
<1>2. OneRetiming(r, s)
  BY DEF s
<1>3. ASSUME s.step > 0, s.full = Zero PROVE Measured(s)
  <2>1. r.autoCal
    BY <1>1, <1>3 DEF Cal, Based, Sane, State
  <2>2. AutocalEnabled(s)
    BY <1>1, <1>3, <2>1 DEF AutocalEnabled
  <2>3. AutocalEnabled(r)
    BY <1>1, <1>2, <1>3, <2>2 DEF OneRetiming
  <2>4. r.full = Zero
    BY <2>3 DEF AutocalEnabled
  <2>5. ~TimesReset(r, t)
    <3>1. SUFFICES ASSUME TimesReset(r, t) PROVE FALSE
      OBVIOUS
    <3>2. t = Zero
      BY <1>1, <1>3, <3>1
    <3>3. QED
      BY <2>1, <2>3, <3>1, <3>2 DEF TimesReset
  <2>6. SameTimes(r, s)
    BY <1>1, <2>5
  <2>7. QED
    BY <1>1, <1>3, <2>4, <2>6 DEF Cal, Steady, Measured, SameTimes
<1>4. Steady(s)
  BY <1>1, <1>3 DEF Cal, Steady, Drives
<1>5. QED
  BY <1>1, <1>4 DEF Cal, Leaves, Rests, SameTimes, s

(* A task is written down.                                                 *)
LEMMA TaskAddedWorks ==
  ASSUME NEW r, Cal(r), NEW p \in Keep..N, NEW t \in Keep..N
  PROVE  Works(r, TaskAdded(r, p, t))
<1> DEFINE s == TaskAdded(r, p, t)
<1>1. r \in State /\ Sane(r)
  BY DEF Cal, Sane
<1>2. s \in State
  BY <1>1, TaskAddedTyped
<1>3. PICK k : s = r \/ s = StateSaved([r EXCEPT !.task = k])
  BY DEF TaskAdded
<1> DEFINE z == [r EXCEPT !.task = k]
<1>4. SameDrive(r, z) /\ Marked(r, z)
  BY <1>1 DEF SameDrive, Marked, Alike, State
<1>5. z.flash = r.flash /\ z.position = r.position /\ z.tilt = r.tilt
  BY <1>1 DEF State
<1>6. SameDrive(r, s) /\ Marked(r, s)
  <2>1. CASE s = r
    BY <2>1 DEF SameDrive, Marked, Alike
  <2>2. CASE s # r
    <3>1. s = [z EXCEPT !.flash = [r.flash EXCEPT !.position = r.position, !.tilt = r.tilt]]
      BY <1>1, <1>3, <2>2 DEF StateSaved, State
    <3>2. [r.flash EXCEPT !.position = r.position, !.tilt = r.tilt].auto = r.flash.auto
      BY <1>1 DEF State, Flash
    <3>3. QED
      BY <1>1, <3>1, <3>2 DEF SameDrive, Marked, Alike, State
  <2>3. QED
    BY <2>1, <2>2
<1> HIDE DEF s
<1>7. Sane(s)
  BY <1>1, <1>2, <1>6, SaneKept
<1>8. QED
  BY <1>6, <1>7, MarkedWorks DEF s

(* Handlers that set times first and move the shutter then.                *)
Bases(r, s) == Sane(s) /\ Based(s) /\ Rests(r, s) /\ s.autoCal = r.autoCal

(* The call that follows ends a calibration under way.                     *)
LEMMA MovesLeave ==
  ASSUME NEW r, NEW s, Bases(r, s), NEW value \in Request, NEW cancel, NEW stopDelay
  PROVE  Leaves(r, SetRelay(s, value, cancel, stopDelay))
<1> DEFINE u == SetRelay(s, value, cancel, stopDelay)
<1>1. Cal(u) /\ Rests(s, u) /\ Kept(s, u)
  BY FreesKeeps DEF Bases
<1> HIDE DEF u
<1>2. QED
  BY <1>1, RestsTwice DEF Bases, Leaves, Kept, u

(* Times that are set are a base for it.                                   *)
LEMMA TimesBase ==
  ASSUME NEW r, Cal(r), NEW t \in Timing
  PROVE  Bases(r, TimesApplied(r, t))
BY TimesAppliedIs DEF Cal, Bases, Rests, SameTimes

(* So for a shutter that is moved step by step.                            *)
LEMMA StepLeaves ==
  ASSUME NEW r, NEW s, Bases(r, s)
  PROVE  Leaves(r, StepByStep(s))
<1> DEFINE last == IF s.lastDirection # Off THEN s.lastDirection
                   ELSE IF Percent(s.position - 1) > 50 THEN Down ELSE Up
           u == IF Value(s) = Off THEN [s EXCEPT !.lastDirection = last] ELSE s
<1>1. s \in State /\ Sane(s) /\ Based(s)
  BY DEF Bases, Sane
<1>2. last \in Direction
  BY <1>1, Ranges DEF State, Request, Direction
<1>3. StepByStep(s) = SetRelay(u, OrStop(s, Opposite(last)), TRUE, 0)
  BY DEF StepByStep
<1> HIDE DEF last
<1>4. last \in Request /\ OrStop(s, Opposite(last)) \in Request
  BY <1>2, Ranges, RequestIs
<1>5. u \in State
  BY <1>1, <1>4, FieldTyped
<1>6. SameDrive(s, u) /\ Marked(s, u)
  BY <1>1 DEF SameDrive, Marked, Alike, State
<1> HIDE DEF u
<1>7. Sane(u) /\ Based(u)
  BY <1>1, <1>5, <1>6, SaneKept, MarkedKeeps
<1>8. Bases(r, u)
  BY <1>6, <1>7 DEF Bases, Marked, Alike, Rests
<1>9. QED
  BY <1>3, <1>4, <1>8, MovesLeave

(* A task after that leaves the calibration to the next tick.              *)
LEMMA TaskLeaves ==
  ASSUME NEW r, Cal(r), NEW t \in Timing, NEW p \in Keep..N, NEW y \in Keep..N,
         OneRetiming(r, TaskAdded(TimesApplied(r, t), p, y))
  PROVE  Leaves(r, TaskAdded(TimesApplied(r, t), p, y))
<1> DEFINE s == TimesApplied(r, t)
           u == TaskAdded(s, p, y)
<1>1. Sane(s) /\ s.step = r.step /\ s.autoCal = r.autoCal
  BY TimesAppliedIs DEF Cal
<1> HIDE DEF s
<1>2. /\ u.step = s.step /\ u.full = s.full /\ u.autoCal = s.autoCal
  <2>1. s \in State /\ s.flash \in Flash
    BY <1>1 DEF Sane, State
  <2>2. PICK k : u = s \/ u = StateSaved([s EXCEPT !.task = k])
    BY DEF TaskAdded
  <2> HIDE DEF u
  <2>3. QED
    BY <2>1, <2>2 DEF StateSaved, State
<1>3. OneRetiming(r, s)
  BY <1>2 DEF OneRetiming, AutocalEnabled, s
<1>4. Leaves(r, s)
  BY <1>3, TimesAppliedLeaves DEF s
<1>5. Works(s, u)
  BY <1>4, TaskAddedWorks DEF Leaves
<1> HIDE DEF u
<1>6. Leaves(s, u)
  BY <1>5 DEF Works, Leaves, Alike, Rests
<1>7. QED
  BY <1>4, <1>6, LeavesTwice DEF u, s

(* Recalibration ends one that is under way, and forgets what it measured. *)
Forgotten(r) == Voided([r EXCEPT !.step = 0, !.auto = Zero])

(* Nothing of it is left.                                                  *)
LEMMA ForgottenIs ==
  ASSUME NEW r, Cal(r)
  PROVE  LET s == Forgotten(r)
         IN  /\ Cal(s) /\ s.position = 0 /\ s.step = 0 /\ s.autoCal = r.autoCal
             /\ s.full = r.full
<1> DEFINE z == Stepped(r, 0, Zero)
           s == Voided(z)
<1>1. r \in State /\ Sane(r) /\ Based(r) /\ 0 \in 0..3 /\ Zero \in Timing
  BY Ranges DEF Cal, Sane
<1>2. /\ z \in State /\ SameDrive(r, z) /\ z.trigger = r.trigger /\ Kept(r, z)
      /\ z.step = 0 /\ z.auto = Zero /\ z.full = r.full
      /\ z.position = r.position /\ z.buttonReq = r.buttonReq
  BY <1>1, StepWritten
<1>3. Forgotten(r) = s
  BY DEF Forgotten, Stepped
<1> HIDE DEF z
<1>4. Sane(z)
  BY <1>1, <1>2, SaneKept
<1>5. /\ Sane(s) /\ s.position = 0 /\ s.full = z.full /\ s.auto = z.auto
      /\ s.step = z.step /\ s.buttonReq = z.buttonReq /\ s.on = z.on
      /\ s.trigger = z.trigger /\ Kept(z, s)
  BY <1>4, VoidedIs
<1> HIDE DEF s
<1>6. Held(s)
  BY <1>1, <1>2, <1>5 DEF Based, Held, SameDrive
<1>7. Based(s) /\ Steady(s)
  BY <1>1, <1>2, <1>5, <1>6 DEF Based, Kept, Steady
<1>8. QED
  BY <1>2, <1>3, <1>5, <1>7 DEF Cal, Kept

(* And nothing comes back with the times and the task that are set then.   *)
LEMMA RecalibrateLeaves ==
  ASSUME Cal(rs), NEW t \in Timing, Recalibrate(t)
  PROVE  Leaves(rs, rs')
<1> DEFINE void == Forgotten(rs)
           back == [void EXCEPT !.tilt = rs.tilt]
           Void(s) == Cal(s) /\ s.position = 0 /\ s.autoCal = rs.autoCal
<1>1. rs' \in {TaskAdded(TimesApplied(void, t), 0, 0), TaskAdded(void, 0, 0),
               TaskAdded(TimesApplied(back, rs.full), 0, 0)}
  BY DEF Recalibrate, By, Forgotten
<1>2. rs \in State /\ rs.tilt \in Unset..Closed /\ rs.full \in Timing
  BY DEF Cal, Sane, State
<1>3. Void(void) /\ void.step = 0
  BY ForgottenIs
<1> HIDE DEF void
<1>4. Void(back) /\ back.step = 0
  <2>1. void \in State /\ Sane(void)
    BY <1>3 DEF Cal, Sane
  <2>2. back \in State
    BY <1>2, <2>1 DEF State
  <2>3. SameDrive(void, back) /\ Marked(void, back)
    BY <2>1 DEF SameDrive, Marked, Alike, State
  <2> HIDE DEF back
  <2>4. QED
    BY <1>3, <2>1, <2>2, <2>3, SaneKept, MarkedKeeps DEF Marked, Alike
<1> HIDE DEF back
<1>5. ASSUME NEW s, Void(s), s.step = 0, NEW x \in Timing
      PROVE  Void(TimesApplied(s, x))
  <2> DEFINE u == TimesApplied(s, x)
  <2>1. /\ Sane(u) /\ Based(u) /\ u.step = s.step /\ u.autoCal = s.autoCal
        /\ IF TimesReset(s, x) THEN u.position = 0 /\ u.full = x /\ u.auto = Zero
           ELSE SameTimes(s, u)
    BY <1>5, TimesAppliedIs DEF Cal
  <2> HIDE DEF u
  <2>2. QED
    BY <1>5, <2>1 DEF SameTimes, Cal, Steady, u
<1>6. ASSUME NEW s, Void(s) PROVE Void(TaskAdded(s, 0, 0))
  <2> DEFINE u == TaskAdded(s, 0, 0)
  <2>1. 0 \in Keep..N
    BY Ranges
  <2>2. Works(s, u)
    BY <1>6, <2>1, TaskAddedWorks
  <2> HIDE DEF u
  <2>3. QED
    BY <1>6, <2>2 DEF Works, Alike, u
<1>7. Void(rs')
  BY <1>1, <1>2, <1>3, <1>4, <1>5, <1>6
<1>8. QED
  BY <1>7 DEF Leaves, Rests

(* A configuration.                                                        *)
LEMMA SwappedLeaves ==
  ASSUME NEW r, Cal(r), ~r.autoCal
  PROVE  Works(r, MotorSwapped(r))
<1> DEFINE over == {Opposite(d) : d \in r.on}
           s == MotorSwapped(r)
<1>1. r \in State /\ Good(r) /\ Based(r) /\ r.step = 0
  BY DEF Cal, Sane, Based
<1>2. Good(s) /\ ((s.on = {}) <=> (r.on = {})) /\ s \in State
  BY <1>1, SwappedGood, SwappedTyped
<1>3. s = [r EXCEPT !.on = over, !.swapped = ~r.swapped]
  BY DEF MotorSwapped
<1> HIDE DEF over
<1>4. Alike(r, s) /\ s.trigger = r.trigger /\ s.buttonReq = r.buttonReq
  BY <1>1, <1>3 DEF Alike, State
<1> HIDE DEF s
<1>5. Held(s)
  BY <1>1, <1>2, <1>4 DEF Based, Held, Alike
<1>6. Based(s) /\ Steady(s)
  BY <1>1, <1>4, <1>5 DEF Based, Alike, AutocalDone, Steady
<1>7. QED
  BY <1>2, <1>4, <1>6 DEF Works, Cal, Sane, s

(* Direction, margin, blind and times.                                     *)
LEMMA ConfigureLeaves ==
  ASSUME Cal(rs), NEW swap, NEW m \in -1..100, NEW t \in Timing, NEW b \in Blind,
         Configure(swap, m, t, b), swap => ~rs.autoCal, OneRetiming(rs, rs')
  PROVE  Leaves(rs, rs')
<1> DEFINE s == IF swap THEN MotorSwapped(rs) ELSE rs
           k == MarginApplied(s, m)
           u == [k EXCEPT !.blind = b]
<1>1. rs' = TimesApplied(u, t)
  BY DEF Configure, By
<1>2. Works(rs, s)
  BY SwappedLeaves DEF Works, Alike
<1> HIDE DEF s
<1>3. s \in State /\ Sane(s) /\ Cal(s)
  BY <1>2 DEF Works, Cal, Sane
<1>4. k \in State
  BY <1>3, MarginTyped
<1>5. SameDrive(s, k) /\ Marked(s, k)
  BY <1>3 DEF MarginApplied, SameDrive, Marked, Alike, State
<1> HIDE DEF k
<1>6. u \in State
  BY <1>4 DEF State
<1>7. SameDrive(k, u) /\ Marked(k, u)
  BY <1>4 DEF SameDrive, Marked, Alike, State
<1> HIDE DEF u
<1>8. Sane(k) /\ Sane(u)
  BY <1>3, <1>4, <1>5, <1>6, <1>7, SaneKept
<1>9. Works(rs, u)
  BY <1>2, <1>3, <1>5, <1>7, <1>8, MarkedTwice, MarkedWorks, WorksTwice
<1>10. Cal(u) /\ u.step = rs.step /\ u.full = rs.full /\ u.auto = rs.auto
       /\ u.position = rs.position /\ u.autoCal = rs.autoCal
  BY <1>9 DEF Works, Alike
<1>11. OneRetiming(u, TimesApplied(u, t))
  BY <1>1, <1>10 DEF OneRetiming, AutocalEnabled
<1>12. Leaves(u, rs')
  BY <1>1, <1>10, <1>11, TimesAppliedLeaves
<1>13. QED
  BY <1>10, <1>12 DEF Leaves, Rests

(* Who calibrates by itself is left alone by power cuts and by changes of  *)
(* the direction: the code does not survive these (see the README).        *)
Undisturbed == \A s \in Shutters : s.autoCal => s.callers \cap {"power", "swap"} = {}
Calibrating == Cal(rs) /\ rs.autoCal = shutter.autoCal

(* What comes up from the flash has nothing measured.                      *)
LEMMA BootedCal ==
  ASSUME NEW f \in Flash, NEW autoCal \in BOOLEAN, f.auto = Zero,
         autoCal /\ f.full = Zero => f.position = 0
  PROVE  LET s == Booted(f, autoCal) IN Cal(s) /\ s.autoCal = autoCal
<1> DEFINE s == Booted(f, autoCal)
<1>1. Sane(s)
  BY BootedTyped, BootedGood DEF Sane
<1>2. /\ s.trigger = [left |-> Disarmed, value |-> Off, autoCal |-> FALSE]
      /\ s.position = f.position /\ s.step = 0 /\ ~s.perform /\ ~s.buttonReq
      /\ s.full = f.full /\ s.auto = f.auto /\ s.autoCal = autoCal /\ s.flash = f
  BY DEF Booted
<1> HIDE DEF s
<1>3. s.trigger.left = Disarmed
  BY <1>2
<1>4. Held(s)
  BY <1>3 DEF Held
<1>5. Based(s) /\ Steady(s)
  BY <1>2, <1>4 DEF Based, Steady
<1>6. QED
  BY <1>1, <1>2, <1>5 DEF Cal, s

(* So it is at the start.                                                  *)
LEMMA CalibratingInit == Init => Calibrating
<1> SUFFICES ASSUME Init PROVE Calibrating
  OBVIOUS
<1>1. shutter \in Shutters
  BY DEF Init
<1>2. PICK p \in 0..Closed, y \in 0..Closed, t \in shutter.times, m \in shutter.margins,
           b \in shutter.blinds :
        /\ p # 0 => t # Zero
        /\ rs = Booted([position |-> p, tilt |-> y, full |-> t, auto |-> Zero, blind |-> b,
                        addMargin |-> m, swapped |-> FALSE], shutter.autoCal)
  BY ZenonT(60) DEF Init
<1> DEFINE f == [position |-> p, tilt |-> y, full |-> t, auto |-> Zero, blind |-> b,
                 addMargin |-> m, swapped |-> FALSE]
<1>3. /\ t \in Timing /\ m \in -1..100 /\ b \in Blind /\ shutter.autoCal \in BOOLEAN
      /\ Zero \in Timing /\ y \in Unset..Closed
  BY <1>1, AskedIs, Ranges
<1>4. f \in Flash
  BY <1>3 DEF Flash
<1>5. f.auto = Zero /\ f.full = t /\ f.position = p
  OBVIOUS
<1>6. rs = Booted(f, shutter.autoCal)
  BY <1>2
<1> HIDE DEF f
<1>7. QED
  BY <1>2, <1>3, <1>4, <1>5, <1>6, BootedCal DEF Calibrating

(* Every request.                                                          *)
LEMMA AskCalibrates ==
  ASSUME Undisturbed, TypeOK, Calibrating, Ask, OneRetimingPerTick
  PROVE  Cal(rs') /\ rs'.autoCal = rs.autoCal /\ (Rests(rs, rs') \/ PowerCycle)
<1>1. rs \in State /\ shutter \in Shutters /\ Cal(rs) /\ OneRetiming(rs, rs')
  BY DEF TypeOK, Calibrating, OneRetimingPerTick, OneRetiming
<1>2. "power" \in shutter.callers \/ "swap" \in shutter.callers => ~rs.autoCal
  BY <1>1 DEF Undisturbed, Calibrating
<1>3. SUFFICES Leaves(rs, rs') \/ (PowerCycle /\ Cal(rs') /\ rs'.autoCal = rs.autoCal)
  BY DEF Leaves
<1>4. Bases(rs, rs)
  BY <1>1 DEF Bases, Rests, Cal
<1>5. ASSUME NEW d \in Direction,
             ButtonPressed(d) \/ ButtonReleased(d) \/ ButtonClicked(d)
      PROVE  Leaves(rs, rs')
  <2>1. OrStop(rs, d) \in Request /\ d \in Request /\ Off \in Request
    BY Ranges, RequestIs
  <2>2. rs' \in {SetRelay(rs, d, TRUE, 1), SetRelay(rs, Off, TRUE, 1),
                 SetRelay(rs, Off, TRUE, 0), SetRelay(rs, OrStop(rs, d), TRUE, 1)}
    BY <1>5 DEF ButtonPressed, ButtonReleased, ButtonClicked, By
  <2>3. QED
    BY <1>4, <2>1, <2>2, MovesLeave
<1>6. ASSUME HoldReleased PROVE Leaves(rs, rs')
  BY <1>4, <1>6, Ranges, MovesLeave DEF HoldReleased, By
<1>7. ASSUME NEW t \in shutter.times,
             \/ \E value \in Request : ServerMoves(value, t)
             \/ \E d \in Direction : ServerOrStop(d, t)
             \/ ServerSteps(t)
             \/ \E p, y \in shutter.tasks \cup {Keep} : ServerTask(p, y, t)
             \/ Recalibrate(t)
             \/ \E swap \in BOOLEAN, m \in shutter.margins, b \in shutter.blinds :
                  Configure(swap, m, t, b)
      PROVE  Leaves(rs, rs')
  <2> DEFINE r == TimesApplied(rs, t)
  <2>1. t \in Timing
    BY <1>1, AskedIs
  <2>2. Bases(rs, r)
    BY <1>1, <2>1, TimesBase
  <2>3. CASE \E value \in Request : ServerMoves(value, t)
    <3>1. PICK value \in Request : rs' = SetRelay(r, value, TRUE, 0)
      BY <2>3 DEF ServerMoves, By
    <3> HIDE DEF r
    <3>2. QED
      BY <2>2, <3>1, MovesLeave
  <2>4. CASE \E d \in Direction : ServerOrStop(d, t)
    <3>1. PICK d \in Direction : rs' = SetRelay(r, OrStop(r, d), TRUE, 0)
      BY <2>4 DEF ServerOrStop, By
    <3> HIDE DEF r
    <3>2. QED
      BY <2>2, <3>1, RequestIs, MovesLeave
  <2>5. CASE ServerSteps(t)
    <3>1. rs' = StepByStep(r)
      BY <2>5 DEF ServerSteps, By
    <3> HIDE DEF r
    <3>2. QED
      BY <2>2, <3>1, StepLeaves
  <2>6. CASE \E p, y \in shutter.tasks \cup {Keep} : ServerTask(p, y, t)
    <3>1. PICK p \in Keep..N, y \in Keep..N : rs' = TaskAdded(r, p, y)
      BY <1>1, <2>6, AskedIs DEF ServerTask, By
    <3>2. QED
      BY <1>1, <2>1, <3>1, TaskLeaves
  <2>7. CASE Recalibrate(t)
    BY <1>1, <2>1, <2>7, RecalibrateLeaves
  <2>8. CASE \E swap \in BOOLEAN, m \in shutter.margins, b \in shutter.blinds :
               Configure(swap, m, t, b)
    <3>1. PICK swap \in BOOLEAN, m \in -1..100, b \in Blind : Configure(swap, m, t, b)
      BY <1>1, <2>8, AskedIs
    <3>2. swap => ~rs.autoCal
      BY <1>2, <3>1 DEF Configure
    <3>3. QED
      BY <1>1, <2>1, <3>1, <3>2, ConfigureLeaves
  <2>9. QED
    BY <1>7, <2>3, <2>4, <2>5, <2>6, <2>7, <2>8
<1>8. ASSUME PowerCycle PROVE Cal(rs') /\ rs'.autoCal = rs.autoCal
  <2>1. rs.flash \in Flash /\ rs.autoCal \in BOOLEAN
    BY <1>1 DEF State
  <2>2. rs' = Booted(rs.flash, rs.autoCal) /\ ~rs.autoCal
    BY <1>2, <1>8 DEF PowerCycle, By
  <2>3. rs.flash.auto = Zero
    BY <1>1, <2>2 DEF Cal, Based
  <2>4. QED
    BY <2>1, <2>2, <2>3, BootedCal
<1>9. QED
  BY <1>5, <1>6, <1>7, <1>8 DEF Ask

(* Every step.                                                             *)
LEMMA CalibratingStep ==
  ASSUME Undisturbed, TypeOK, Calibrating, [Next]_vars, [OneRetimingPerTick]_vars
  PROVE  Calibrating' /\ (Ticked(rs, rs') \/ PowerCycle)
<1>1. rs \in State /\ shutter \in Shutters /\ Cal(rs)
  BY DEF TypeOK, Calibrating
<1>2. CASE Ask /\ OneRetimingPerTick
  <2>1. shutter' = shutter
    BY <1>2 DEF Ask, ButtonPressed, ButtonReleased, ButtonClicked, HoldReleased, ServerMoves,
                ServerOrStop, ServerSteps, ServerTask, Recalibrate, Configure, PowerCycle, By
  <2>2. Cal(rs') /\ rs'.autoCal = rs.autoCal /\ (Rests(rs, rs') \/ PowerCycle)
    BY <1>2, AskCalibrates
  <2>3. QED
    BY <2>1, <2>2 DEF Calibrating, Rests, Ticked
<1>3. CASE TriggerFires
  <2>1. rs' = Fired(rs) /\ shutter' = shutter /\ rs.trigger.left # Disarmed
    BY <1>3 DEF TriggerFires, Disarmed
  <2>2. Leaves(rs, rs')
    BY <1>1, <2>1, FiredLeaves
  <2>3. QED
    BY <2>1, <2>2 DEF Calibrating, Leaves, Rests, Ticked
<1>4. CASE Tick
  <2> DEFINE a == Aged(rs)
  <2>1. PICK inMove \in InMove : rs' = TimerCb(a, inMove)
    BY <1>4 DEF Tick
  <2>2. inMove \in BOOLEAN
    <3>1. Seen \in BOOLEAN
      BY DEF Seen
    <3>2. shutter.sensor \in {"none", "ideal", "any"}
      BY <1>1, ConstantAssumption DEF IsShutter
    <3>3. QED
      BY <3>1, <3>2 DEF InMove
  <2>3. Cal(a) /\ Same(rs, a)
    BY <1>1, AgedKeeps
  <2> HIDE DEF a
  <2>4. Cal(rs') /\ rs'.autoCal = a.autoCal /\ Ticked(a, rs')
    BY <2>1, <2>2, <2>3, TimerCbKeeps
  <2>5. shutter' = shutter
    BY <1>4 DEF Tick
  <2>6. QED
    BY <2>3, <2>4, <2>5 DEF Calibrating, Same, Ticked
<1>5. CASE UNCHANGED vars
  BY <1>1, <1>5 DEF vars, Calibrating, Ticked
<1>6. QED
  BY <1>2, <1>3, <1>4, <1>5 DEF Next, vars

(* Automatic calibration never hangs: in each of its steps the motor runs  *)
(* in the direction of the step, or a start of its own is pending, however *)
(* buttons, server, tasks and recalibration come in between.  It is so for *)
(* every sensor, and what makes it so is that there is no position while   *)
(* it runs: a shutter that believes it is open would not be driven up.     *)
THEOREM AutocalGoesOn ==
  ASSUME Undisturbed
  PROVE  Spec /\ [][OneRetimingPerTick]_vars => []AutocalDrives
<1>1. Init => Calibrating
  BY CalibratingInit
<1>2. TypeOK /\ Calibrating /\ [Next]_vars /\ [OneRetimingPerTick]_vars => Calibrating'
  BY CalibratingStep
<1>3. Calibrating => AutocalDrives
  BY DEF Calibrating, Cal, Steady, Drives, AutocalDrives
<1>4. QED
  BY <1>1, <1>2, <1>3, TypeCorrect, PTL DEF Spec

(* No position outlives the times it was measured with, whether these were *)
(* given or measured: it is gone with them, except when calibration ends   *)
(* and the shutter is open.                                                *)
THEOREM TimesVoid ==
  ASSUME Undisturbed
  PROVE  Spec /\ [][OneRetimingPerTick]_vars => TimesVoidPosition
<1> DEFINE Voids == rs'.full # rs.full \/ rs'.auto # rs.auto =>
                      ~Known(rs') \/ (rs.step = 3 /\ rs'.position = Open) \/ PowerCycle
<1>1. Init => Calibrating
  BY CalibratingInit
<1>2. TypeOK /\ Calibrating /\ [Next]_vars /\ [OneRetimingPerTick]_vars => Calibrating'
  BY CalibratingStep
<1>3. TypeOK /\ Calibrating /\ [Next]_vars /\ [OneRetimingPerTick]_vars => [Voids]_vars
  BY CalibratingStep DEF Ticked, Known
<1>4. QED
  BY <1>1, <1>2, <1>3, TypeCorrect, PTL DEF Spec, TimesVoidPosition

(* A shutter that does not calibrate itself needs no such precautions:     *)
(* power cuts and changes of the direction and of the times may come at    *)
(* any moment.                                                             *)
THEOREM TimesVoidGiven ==
  ASSUME \A s \in Shutters : ~s.autoCal
  PROVE  Spec => TimesVoidPosition
<1>1. Undisturbed
  BY DEF Undisturbed
<1>2. TypeOK /\ Calibrating /\ [Next]_vars => [OneRetimingPerTick]_vars
  BY DEF TypeOK, Calibrating, Cal, Based, OneRetimingPerTick
<1>3. TypeOK /\ Calibrating /\ [Next]_vars => Calibrating'
  BY <1>1, <1>2, CalibratingStep
<1>4. Spec => [][OneRetimingPerTick]_vars
  BY <1>2, <1>3, CalibratingInit, TypeCorrect, PTL DEF Spec
<1>5. QED
  BY <1>1, <1>4, TimesVoid, PTL
=============================================================================
