--------------------------- MODULE TimedRelay_proofs ---------------------------
(* For all channels, times and periods: every countdown that runs is watched   *)
(* by the timer, and often enough; no staircase light stays on without a       *)
(* countdown; and a restart with no save pending brings back every relay and   *)
(* resumes every countdown.  The relays keep the promise of TimedSwitch.       *)
EXTENDS TimedRelay, FiniteSetTheorems, WellFoundedInduction, TLAPS

--------------------------------------------------------------------------------
(* The operators of the countdown timers.                                      *)

(* A set of times has a smallest one.                                          *)
LEMMA SmallestTime ==
  ASSUME NEW S, S \subseteq Nat, S # {}
  PROVE  \E p \in S : \A q \in S : p <= q
<1> DEFINE R == {ss \in Nat \X Nat : ss[1] < ss[2]}
<1>1. IsWellFoundedOn(R, Nat)
  BY NatLessThanWellFounded, Zenon DEF OpToRel
<1> HIDE DEF R
<1>2. PICK p \in S : \A q \in S : ~(<<q, p>> \in R)
  BY <1>1, WFMin
<1>3. \A q \in S : ~(q < p)
  BY <1>2 DEF R
<1>4. QED
  BY <1>3

LEMMA PeriodForType ==
  ASSUME NEW left \in Nat
  PROVE  PeriodFor(left) \in MinPeriod .. MaxPeriod
<1> DEFINE q == left \div Part
<1>1. q \in Int
  BY TimeAssumption
<1> HIDE DEF q
<1>2. PeriodFor(left) = IF q < MinPeriod THEN MinPeriod
                        ELSE IF q > MaxPeriod THEN MaxPeriod ELSE q
  BY DEF PeriodFor, q
<1>3. QED
  BY <1>1, <1>2, TimeAssumption

(* The period of the timer is one of a countdown that runs.                    *)
LEMMA PeriodOfType ==
  ASSUME NEW c \in [Channels -> Slots]
  PROVE  /\ PeriodOf(c) \in {0} \union MinPeriod .. MaxPeriod
         /\ (\E ch \in Channels : Runs(c, ch)) => PeriodOf(c) > 0
<1> DEFINE running == {x \in Channels : Runs(c, x)}
           periods == {PeriodFor(c[ch].left) : ch \in running}
<1>1. periods \subseteq MinPeriod .. MaxPeriod
  BY PeriodForType DEF Slots
<1>2. CASE periods = {}
  <2>1. running = {}
    BY <1>2
  <2>2. PeriodOf(c) = 0
    BY <1>2 DEF PeriodOf
  <2>3. QED
    BY <2>1, <2>2
<1>3. CASE periods # {}
  <2>1. periods \subseteq Nat
    BY <1>1, TimeAssumption
  <2>2. \E p \in periods : \A q \in periods : p <= q
    BY <1>3, <2>1, SmallestTime
  <2>3. PeriodOf(c) \in periods
    BY <1>3, <2>2 DEF PeriodOf
  <2>4. QED
    BY <1>1, <2>3, TimeAssumption
<1>4. QED
  BY <1>2, <1>3

(* After startstop the timer watches every countdown.                          *)
LEMMA StartStopWatches ==
  ASSUME NEW c \in [Channels -> Slots],
         NEW t \in [period : {0} \union MinPeriod .. MaxPeriod,
                    due : 0 .. MaxPeriod],
         t.due <= t.period
  PROVE  TimerOK(c, StartStop(c, t))
<1>1. CASE PeriodOf(c) = t.period
  BY <1>1, PeriodOfType DEF StartStop, TimerOK
<1>2. CASE PeriodOf(c) # t.period
  <2>1. StartStop(c, t) = [period |-> PeriodOf(c), due |-> PeriodOf(c)]
    BY <1>2 DEF StartStop
  <2>2. QED
    BY <2>1, PeriodOfType, TimeAssumption DEF TimerOK
<1>3. QED
  BY <1>1, <1>2

(* There are slots for all channels: no countdown is ever refused.             *)
LEMMA SlotForEveryChannel ==
  ASSUME NEW c, NEW ch \in Channels
  PROVE  HasSlot(c, ch)
<1> DEFINE used == {x \in Channels : Runs(c, x)}
<1>1. CASE Runs(c, ch)
  BY <1>1 DEF HasSlot
<1>2. CASE ~Runs(c, ch)
  <2>1. used \in SUBSET Channels /\ used # Channels
    BY <1>2
  <2>2. /\ Cardinality(used) <= Cardinality(Channels)
        /\ Cardinality(Channels) = Cardinality(used) => Channels = used
        /\ IsFiniteSet(used)
    BY <2>1, SlotAssumption, FS_Subset
  <2>3. Cardinality(used) \in Nat /\ Cardinality(Channels) \in Nat
    BY <2>2, SlotAssumption, FS_CardinalityType
  <2>4. Cardinality(used) < SlotCount
    BY <2>1, <2>2, <2>3, SlotAssumption
  <2>5. QED
    BY <2>4 DEF HasSlot
<1>3. QED
  BY <1>1, <1>2

(* What set_duration_timer leaves: a countdown to the opposite of v if there   *)
(* is time to count, and none otherwise.                                       *)
LEMMA SetDurationResult ==
  ASSUME TypeOK, NEW ch \in Channels, NEW time2 \in Lights \union {0},
         NEW timeLeft \in Nat, NEW v \in {0, 1}, NEW d \in Nat,
         SetDurationTimer(ch, time2, timeLeft, v, d)
  PROVE  /\ CountdownsOK(countdown')
         /\ TimerOK(countdown', timer')
         /\ Time2Left' \in [Channels -> Nat]
         /\ \A x \in Channels \ {ch} : countdown'[x] = countdown[x]
         /\ time2 > 0 /\ v = 1 => Runs(countdown', ch)
         /\ time2 > 0 /\ Runs(countdown', ch) => countdown'[ch].target = 0
<1> DEFINE time == TimeFor(time2, timeLeft, v, d)
           disarmed == Disarm(countdown, ch)
           starts == Counts(ch, v, time) /\ HasSlot(disarmed, ch)
<1>1. time \in Nat /\ time2 \in Nat /\ (time2 > 0 => (v = 1 <=> time > 0))
  BY TimeAssumption DEF TimeFor
<1>2. starts <=> Counts(ch, v, time)
  BY SlotForEveryChannel
<1>3. /\ disarmed \in [Channels -> Slots]
      /\ CountdownsOK(disarmed)
      /\ \A x \in Channels : Runs(disarmed, x) => Runs(countdown, x)
  BY TimeAssumption
     DEF Disarm, TypeOK, CountdownsOK, Slots, Free, Runs
<1>4. Time2Left' \in [Channels -> Nat]
  BY <1>1 DEF SetDurationTimer, TypeOK
<1>5. CASE starts
  <2>1. countdown' = Start(disarmed, ch, time, 1 - v)
    BY <1>5 DEF SetDurationTimer
  <2>2. time > 0
    BY <1>2, <1>5 DEF Counts
  <2> HIDE DEF time
  <2>3. CountdownsOK(countdown') /\ countdown' \in [Channels -> Slots]
    BY <1>1, <1>3, <2>1, <2>2, TimeAssumption DEF Start, CountdownsOK, Slots, Free
  <2>4. timer' = StartStop(countdown', timer)
    BY <1>5 DEF SetDurationTimer, time
  <2>5. TimerOK(countdown', timer')
    BY <2>3, <2>4, StartStopWatches DEF TypeOK, TimerOK
  <2>6. \A x \in Channels \ {ch} : countdown'[x] = countdown[x]
    BY <2>1 DEF Start, Disarm, TypeOK, CountdownsOK
  <2>7. Runs(countdown', ch) /\ countdown'[ch].target = 1 - v
    BY <1>3, <2>1, <2>2 DEF Start, Runs
  <2>8. QED
    BY <1>1, <1>4, <2>2, <2>3, <2>5, <2>6, <2>7
<1>6. CASE ~starts
  <2>1. countdown' = disarmed /\ timer' = timer
    BY <1>6 DEF SetDurationTimer
  <2>2. TimerOK(countdown', timer')
    BY <1>3, <2>1 DEF TypeOK, TimerOK
  <2>3. ~(time2 > 0 /\ v = 1)
    BY <1>1, <1>2, <1>6 DEF Counts
  <2>4. \A x \in Channels \ {ch} : countdown'[x] = countdown[x]
    BY <2>1 DEF Disarm, TypeOK, CountdownsOK
  <2>5. ~Runs(countdown', ch)
    BY <2>1 DEF Disarm, Runs, Free, TypeOK, CountdownsOK
  <2>6. QED
    BY <1>3, <1>4, <2>1, <2>2, <2>3, <2>4, <2>5
<1>7. QED
  BY <1>5, <1>6
--------------------------------------------------------------------------------
(* The steps.  A request changes one channel, and the timer those whose time   *)
(* is over.                                                                    *)

(* The countdown of a staircase light always switches it off, even when it is  *)
(* off already: without this the timer could switch it on unguarded.           *)
LightsGoOff ==
  \A ch \in Channels :
    Time2[ch] > 0 /\ Runs(countdown, ch) => countdown[ch].target = 0

LightsCounted ==
  \A ch \in Channels : Time2[ch] > 0 /\ relay[ch] = 1 => Runs(countdown, ch)

(* Relays that are not restored are not saved either.                          *)
NotSaved == \A ch \in Channels \ Restored : flash.relay[ch] = 0

IInv ==
  TypeOK /\ LightsGoOff /\ LightsCounted /\ RestartKeepsRelay /\ NotSaved

(* A restored relay that changes is about to be saved.                         *)
LEMMA ChangeIsSaved ==
  ASSUME TypeOK, RestartKeepsRelay, NEW set \in SUBSET Channels,
         save' = SaveAfter(set), flash' = flash,
         \A x \in Channels \ set : relay'[x] = relay[x]
  PROVE  RestartKeepsRelay' /\ save' \in 0 .. SaveDelay
<1>1. CASE set \intersect Restored = {}
  <2>1. save' = save /\ \A x \in Restored : relay'[x] = relay[x]
    BY <1>1, ChannelAssumption DEF SaveAfter
  <2>2. QED
    BY <2>1, ChannelAssumption DEF RestartKeepsRelay, TypeOK
<1>2. CASE set \intersect Restored # {}
  BY <1>2, TimeAssumption DEF SaveAfter, RestartKeepsRelay
<1>3. QED
  BY <1>1, <1>2

(* A request for v to ch that starts or stops a countdown.                     *)
LEMMA RequestStep ==
  ASSUME IInv, NEW ch \in Channels, NEW v \in {0, 1}, NEW d \in Nat,
         NEW timeLeft \in Nat, Order(ch, v, timeLeft, d)
  PROVE  IInv'
<1> USE DEF Order
<1>1. Time2[ch] \in Lights \union {0}
  BY DEF IInv, TypeOK
<1>2. /\ CountdownsOK(countdown') /\ TimerOK(countdown', timer')
      /\ Time2Left' \in [Channels -> Nat]
      /\ \A x \in Channels \ {ch} : countdown'[x] = countdown[x]
      /\ Time2[ch] > 0 /\ v = 1 => Runs(countdown', ch)
      /\ Time2[ch] > 0 /\ Runs(countdown', ch) => countdown'[ch].target = 0
  <2>1. TypeOK /\ SetDurationTimer(ch, Time2[ch], timeLeft, v, d)
    BY DEF IInv
  <2>2. QED
    BY <1>1, <2>1, SetDurationResult
<1>3. /\ relay' \in [Channels -> {0, 1}] /\ relay'[ch] = v
      /\ \A x \in Channels \ {ch} : relay'[x] = relay[x]
  BY DEF IInv, TypeOK
<1>4. RestartKeepsRelay' /\ save' \in 0 .. SaveDelay
  BY <1>3, ChangeIsSaved DEF IInv
<1>5. TypeOK'
  BY <1>2, <1>3, <1>4, TimeAssumption DEF IInv, TypeOK
<1>6. LightsGoOff'
  BY <1>2 DEF IInv, LightsGoOff, Runs
<1>7. LightsCounted'
  BY <1>2, <1>3 DEF IInv, LightsCounted, Runs
<1>8. QED
  BY <1>4, <1>5, <1>6, <1>7 DEF IInv, NotSaved

LEMMA ConfigStep ==
  ASSUME IInv, NEW ch \in Channels, NEW t \in Lights \union {0},
         ChannelConfig(ch, t)
  PROVE  IInv'
<1>1. Time2Left[ch] \in Nat
  BY DEF IInv, TypeOK
<1>2. /\ CountdownsOK(countdown') /\ TimerOK(countdown', timer')
      /\ Time2Left' \in [Channels -> Nat]
      /\ \A x \in Channels \ {ch} : countdown'[x] = countdown[x]
      /\ t > 0 => Runs(countdown', ch) /\ countdown'[ch].target = 0
  BY <1>1, SetDurationResult DEF IInv, ChannelConfig
<1>3. /\ Time2' \in [Channels -> Lights \union {0}] /\ Time2'[ch] = t
      /\ \A x \in Channels \ {ch} : Time2'[x] = Time2[x]
  BY DEF IInv, TypeOK, ChannelConfig
<1>4. TypeOK' /\ RestartKeepsRelay'
  BY <1>2, <1>3, TimeAssumption
     DEF IInv, TypeOK, RestartKeepsRelay, ChannelConfig
<1>5. LightsGoOff'
  BY <1>2, <1>3 DEF IInv, LightsGoOff, Runs
<1>6. LightsCounted'
  BY <1>2, <1>3 DEF IInv, LightsCounted, Runs, ChannelConfig
<1>7. QED
  BY <1>4, <1>5, <1>6 DEF IInv, NotSaved, ChannelConfig

(* The time left of a countdown, as the timer computes it.                     *)
LEMMA LeftNowType ==
  ASSUME TypeOK, NEW ch \in Channels
  PROVE  /\ LeftNow(ch) \in Nat
         /\ ~Runs(countdown, ch) => LeftNow(ch) = 0 /\ countdown[ch] = Free
         /\ Runs(countdown, ch) /\ ~Over(ch) => LeftNow(ch) > 0
         /\ Over(ch) => LeftNow(ch) = 0
BY DEF TypeOK, CountdownsOK, Slots, LeftNow, Over, Runs, Free

LEMMA CountdownStep ==
  ASSUME IInv, CountdownTimer
  PROVE  IInv'
<1> USE DEF IInv
<1>1. ASSUME NEW ch \in Channels
      PROVE  countdown'[ch] = IF LeftNow(ch) = 0 THEN Free
                              ELSE [left |-> LeftNow(ch), since |-> 0,
                                    target |-> countdown[ch].target]
  BY DEF CountdownTimer
<1>2. countdown' \in [Channels -> Slots] /\ CountdownsOK(countdown')
  <2>1. \A ch \in Channels :
          /\ countdown'[ch] \in Slots
          /\ countdown'[ch].since <= countdown'[ch].left + MinPeriod
          /\ countdown'[ch].left = 0 => countdown'[ch] = Free
    <3> TAKE ch \in Channels
    <3> DEFINE n == LeftNow(ch)
    <3>1. n \in Nat /\ countdown[ch].target \in {0, 1}
      BY LeftNowType DEF TypeOK, CountdownsOK, Slots
    <3>2. countdown'[ch] = IF n = 0 THEN Free
            ELSE [left |-> n, since |-> 0, target |-> countdown[ch].target]
      BY <1>1
    <3> HIDE DEF n
    <3>3. QED
      BY <3>1, <3>2, TimeAssumption DEF Slots, Free
  <2>2. DOMAIN countdown' = Channels
        /\ countdown' = [ch \in Channels |-> countdown'[ch]]
    BY DEF CountdownTimer
  <2>3. QED
    BY <2>1, <2>2 DEF CountdownsOK
<1>3. TimerOK(countdown', timer')
  <2> DEFINE t == [timer EXCEPT !.due = timer.period]
  <2>1. /\ t \in [period : {0} \union MinPeriod .. MaxPeriod,
                  due : 0 .. MaxPeriod]
        /\ t.due <= t.period
    BY TimeAssumption DEF TypeOK, TimerOK
  <2>2. timer' = StartStop(countdown', t)
    BY DEF CountdownTimer
  <2> HIDE DEF t
  <2>3. QED
    BY <1>2, <2>1, <2>2, StartStopWatches
<1>4. /\ relay' \in [Channels -> {0, 1}]
      /\ Time2Left' \in [Channels -> Nat]
  BY LeftNowType DEF CountdownTimer, TypeOK, CountdownsOK, Slots
<1>5. RestartKeepsRelay' /\ save' \in 0 .. SaveDelay
  <2> DEFINE set == {ch \in Channels : Over(ch)}
  <2>1. \A x \in Channels \ set : relay'[x] = relay[x]
    BY DEF CountdownTimer
  <2>2. save' = SaveAfter(set) /\ flash' = flash
    BY DEF CountdownTimer
  <2>3. QED
    BY <2>1, <2>2, ChangeIsSaved
<1>6. TypeOK'
  BY <1>2, <1>3, <1>4, <1>5 DEF TypeOK, CountdownTimer
<1>7. LightsGoOff' /\ LightsCounted'
  <2> SUFFICES ASSUME NEW x \in Channels, Time2'[x] > 0
               PROVE  /\ Runs(countdown', x) => countdown'[x].target = 0
                      /\ relay'[x] = 1 => Runs(countdown', x)
    BY DEF LightsGoOff, LightsCounted
  <2>1. Time2[x] > 0
    BY DEF CountdownTimer
  <2>2. CASE Runs(countdown, x) /\ ~Over(x)
    <3>1. LeftNow(x) > 0 /\ LeftNow(x) \in Nat /\ countdown[x].target = 0
      BY <2>1, <2>2, LeftNowType DEF LightsGoOff
    <3>2. /\ countdown'[x].left = LeftNow(x)
          /\ countdown'[x].target = countdown[x].target
      <4>1. countdown'[x] = [left |-> LeftNow(x), since |-> 0,
                             target |-> countdown[x].target]
        BY <1>1, <3>1
      <4>2. QED
        BY <4>1
    <3>3. QED
      BY <3>1, <3>2 DEF Runs
  <2>3. CASE Over(x)
    <3>1. relay'[x] = 0
      BY <2>1, <2>3 DEF CountdownTimer, LightsGoOff, Over
    <3>2. countdown'[x] = Free
      BY <2>3, LeftNowType DEF CountdownTimer
    <3>3. QED
      BY <3>1, <3>2 DEF Runs, Free
  <2>4. CASE ~Runs(countdown, x)
    <3>1. ~Over(x) /\ countdown'[x] = Free /\ relay[x] # 1
      BY <2>1, <2>4, LeftNowType DEF CountdownTimer, LightsCounted, Over
    <3>2. QED
      BY <3>1 DEF CountdownTimer, Runs, Free
  <2>5. QED
    BY <2>2, <2>3, <2>4
<1>8. QED
  BY <1>5, <1>6, <1>7 DEF NotSaved, CountdownTimer

--------------------------------------------------------------------------------
(* A restart: what was saved decides.                                          *)
LEMMA PowerStep ==
  ASSUME IInv, PowerCycle
  PROVE  IInv'
<1> USE DEF IInv
<1>1. \A ch \in Channels :
        /\ RestoredTime(ch) \in Nat
        /\ flash.relay[ch] \in {0, 1} /\ flash.left[ch] \in Nat
        /\ Time2[ch] \in Nat
  <2> TAKE ch \in Channels
  <2>1. /\ flash.relay[ch] \in {0, 1} /\ flash.left[ch] \in Nat
        /\ Time2[ch] \in Lights \union {0}
    BY DEF TypeOK
  <2>2. Time2[ch] \in Nat
    BY <2>1, TimeAssumption
  <2>3. QED
    BY <2>1, <2>2 DEF RestoredTime, TimeFor
<1>2. countdown' \in [Channels -> Slots] /\ CountdownsOK(countdown')
  <2>1. countdown' \in [Channels -> Slots]
    BY <1>1 DEF PowerCycle, Slots, Free
  <2>2. \A ch \in Channels :
          /\ countdown'[ch].since <= countdown'[ch].left + MinPeriod
          /\ countdown'[ch].left = 0 => countdown'[ch] = Free
    BY <1>1, TimeAssumption DEF PowerCycle, Resumes, Free
  <2>3. QED
    BY <2>1, <2>2 DEF CountdownsOK
<1>3. TimerOK(countdown', timer')
  <2>1. [period |-> 0, due |-> 0] \in
          [period : {0} \union MinPeriod .. MaxPeriod, due : 0 .. MaxPeriod]
    BY TimeAssumption
  <2> DEFINE t == [period |-> 0, due |-> 0]
  <2>2. timer' = StartStop(countdown', t) /\ t.due <= t.period
    BY DEF PowerCycle
  <2> HIDE DEF t
  <2>3. QED
    BY <1>2, <2>1, <2>2, StartStopWatches DEF t
<1>4. TypeOK'
  <2>1. Time2Left' \in [Channels -> Nat]
    BY <1>1 DEF PowerCycle
  <2>2. save' \in 0 .. SaveDelay /\ quiet' \in 0 .. MaxPeriod + 1
    BY TimeAssumption DEF PowerCycle
  <2>3. QED
    BY <1>2, <1>3, <2>1, <2>2 DEF TypeOK, PowerCycle
<1>5. RestartKeepsRelay'
  BY DEF RestartKeepsRelay, PowerCycle
<1>6. LightsGoOff' /\ LightsCounted'
  <2> SUFFICES ASSUME NEW x \in Channels, Time2'[x] > 0
               PROVE  /\ Runs(countdown', x) => countdown'[x].target = 0
                      /\ relay'[x] = 1 => Runs(countdown', x)
    BY DEF LightsGoOff, LightsCounted
  <2>1. Time2[x] > 0 /\ relay'[x] = flash.relay[x]
    BY DEF PowerCycle
  <2>2. x \in Restored => (RestoredTime(x) > 0 <=> flash.relay[x] = 1)
    BY <1>1, <2>1 DEF RestoredTime, TimeFor
  <2>3. Resumes(x) <=> flash.relay[x] = 1 /\ x \in Restored
    BY <1>1, <2>2 DEF Resumes, RestoredTime
  <2>4. flash.relay[x] = 1 => x \in Restored
    BY DEF NotSaved
  <2>5. QED
    BY <1>1, <2>1, <2>2, <2>3, <2>4 DEF PowerCycle, Runs, Free
<1>7. QED
  BY <1>4, <1>5, <1>6 DEF NotSaved, PowerCycle

LEMMA SaveStep ==
  ASSUME IInv, SaveTimer
  PROVE  IInv'
<1>1. RestartKeepsRelay' /\ NotSaved'
  <2>1. /\ flash'.relay = [ch \in Channels |->
                             IF ch \in Restored THEN relay[ch] ELSE 0]
        /\ relay' = relay
    BY DEF SaveTimer
  <2>2. QED
    BY <2>1, ChannelAssumption DEF RestartKeepsRelay, NotSaved
<1>2. TypeOK'
  BY TimeAssumption DEF IInv, TypeOK, SaveTimer
<1>3. LightsGoOff' /\ LightsCounted'
  BY DEF IInv, LightsGoOff, LightsCounted, SaveTimer
<1>4. QED
  BY <1>1, <1>2, <1>3 DEF IInv

LEMMA TimeStep ==
  ASSUME IInv, TimePasses
  PROVE  IInv'
<1> USE DEF IInv
<1>1. \A ch \in Channels :
        /\ countdown'[ch].left = countdown[ch].left
        /\ countdown'[ch].target = countdown[ch].target
        /\ countdown'[ch] \in Slots
        /\ countdown'[ch].since <= countdown[ch].left + MinPeriod
        /\ ~Runs(countdown, ch) => countdown'[ch] = countdown[ch]
  BY TimeAssumption DEF TimePasses, TypeOK, CountdownsOK, Slots
<1>2. CountdownsOK(countdown')
  <2>1. countdown' \in [Channels -> Slots]
    BY <1>1 DEF TimePasses
  <2>2. QED
    BY <1>1, <2>1 DEF CountdownsOK, TypeOK, Runs, Slots
<1>3. TimerOK(countdown', timer')
  BY <1>1, TimeAssumption DEF TimePasses, TypeOK, TimerOK, Runs
<1>4. TypeOK'
  BY <1>2, <1>3, TimeAssumption DEF TypeOK, TimePasses
<1>5. RestartKeepsRelay' /\ NotSaved'
  BY DEF RestartKeepsRelay, NotSaved, TimePasses, TypeOK
<1>6. LightsGoOff' /\ LightsCounted'
  BY <1>1 DEF LightsGoOff, LightsCounted, TimePasses, Runs
<1>7. QED
  BY <1>4, <1>5, <1>6

--------------------------------------------------------------------------------
LEMMA InitIInv == Init => IInv
<1> SUFFICES ASSUME Init PROVE IInv
  OBVIOUS
<1>1. CountdownsOK(countdown)
  BY TimeAssumption DEF Init, CountdownsOK, Slots, Free
<1>2. TimerOK(countdown, timer)
  BY TimeAssumption DEF Init, TimerOK, Runs, Free
<1>3. TypeOK
  BY <1>1, <1>2, TimeAssumption DEF Init, TypeOK
<1>4. QED
  BY <1>3 DEF Init, IInv, LightsGoOff, LightsCounted, RestartKeepsRelay,
              NotSaved, Runs, Free

LEMMA NextIInv == IInv /\ [Next]_vars => IInv'
<1> SUFFICES ASSUME IInv, [Next]_vars PROVE IInv'
  OBVIOUS
<1>1. ASSUME NEW ch \in Channels, NEW v \in {0, 1},
             NEW d \in Durations \union {0}, ServerSet(ch, v, d)
      PROVE  IInv'
  <2>1. d \in Nat /\ Time2Left[ch] \in Nat
    BY TimeAssumption DEF IInv, TypeOK
  <2>2. QED
    BY <1>1, <2>1, RequestStep DEF ServerSet
<1>2. ASSUME NEW ch \in Channels, NEW hi \in {0, 1, 255}, Switch(ch, hi)
      PROVE  IInv'
  <2>1. PICK v \in {0, 1} : v = SwitchedTo(ch, hi)
    BY DEF SwitchedTo, IInv, TypeOK
  <2>2. PICK none \in Nat : none = 0
    OBVIOUS
  <2>3. Order(ch, v, none, none)
    BY <1>2, <2>1, <2>2 DEF Switch
  <2>4. QED
    BY <2>3, RequestStep
<1>3. ASSUME NEW ch \in Configured, NEW t \in Lights \union {0},
             ChannelConfig(ch, t)
      PROVE  IInv'
  BY <1>3, ConfigStep, ChannelAssumption
<1>4. CASE CountdownTimer
  BY <1>4, CountdownStep
<1>5. CASE SaveTimer
  BY <1>5, SaveStep
<1>6. CASE PowerCycle
  BY <1>6, PowerStep
<1>7. CASE TimePasses
  BY <1>7, TimeStep
<1>8. CASE UNCHANGED vars
  BY <1>8 DEF vars, IInv, TypeOK, CountdownsOK, TimerOK, LightsGoOff,
              LightsCounted, RestartKeepsRelay, NotSaved, Runs
<1>9. QED
  BY <1>1, <1>2, <1>3, <1>4, <1>5, <1>6, <1>7, <1>8 DEF Next

(* The inductive invariant holds.                                              *)
THEOREM Invariance == Spec => []IInv
<1>1. QED
  BY InitIInv, NextIInv, PTL DEF Spec

(* Every variable has its type, and the timer is armed whenever a countdown of *)
(* any channel runs.                                                           *)
THEOREM TimerWatches == Spec => []TypeOK
<1>1. IInv => TypeOK
  BY DEF IInv
<1>2. QED
  BY <1>1, Invariance, PTL

(* A staircase light that is on is being counted down to off, whatever buttons,*)
(* server, configuration and restarts did.                                     *)
THEOREM NoLightLeftOn == Spec => []StaircaseGuarded
<1>1. IInv => StaircaseGuarded
  BY DEF IInv, LightsGoOff, LightsCounted, StaircaseGuarded
<1>2. QED
  BY <1>1, Invariance, PTL

(* When no save is pending, a restart brings back every restored relay.        *)
THEOREM RelaysSurvive == Spec => []RestartKeepsRelay
<1>1. IInv => RestartKeepsRelay
  BY DEF IInv
<1>2. QED
  BY <1>1, Invariance, PTL

--------------------------------------------------------------------------------
(* What a restart makes of the countdowns of a restored channel that keeps its *)
(* configuration: the state holds the time that is left, or one that belongs   *)
(* to no countdown any more if the channel is Counting; the relay tells        *)
(* whether there may be a countdown at all; and the flash holds no less time   *)
(* than the state, and none if that has none, unless a save is pending.        *)
LeftIsCounted(ch) ==
  \/ Time2Left[ch] = countdown[ch].left
  \/ ch \in Counting /\ ~Runs(countdown, ch)

OnIfCounted(ch) ==
  Runs(countdown, ch) =>
    /\ relay[ch] = 1 \/ ch \in Counting
    /\ Time2[ch] > 0 => relay[ch] = 1

SavedIfCounted(ch) ==
  flash.left[ch] > 0 => flash.relay[ch] = 1 \/ ch \in Counting

SavedIsLeft(ch) ==
  save = 0 =>
    /\ flash.left[ch] > 0 <=> Time2Left[ch] > 0
    /\ flash.left[ch] >= Time2Left[ch]

KeptInv ==
  \A ch \in Restored \ Configured :
    LeftIsCounted(ch) /\ OnIfCounted(ch) /\ SavedIfCounted(ch) /\ SavedIsLeft(ch)

(* A request for another channel.                                              *)
LEMMA KeptBeside ==
  ASSUME KeptInv, NEW ch \in Restored \ Configured,
         countdown'[ch] = countdown[ch], Time2Left'[ch] = Time2Left[ch],
         relay'[ch] = relay[ch], Time2'[ch] = Time2[ch], flash' = flash,
         save' = 0 => save = 0
  PROVE  LeftIsCounted(ch)' /\ OnIfCounted(ch)' /\ SavedIfCounted(ch)' /\ SavedIsLeft(ch)'
<1>1. LeftIsCounted(ch) /\ OnIfCounted(ch) /\ SavedIfCounted(ch) /\ SavedIsLeft(ch)
  BY DEF KeptInv
<1>2. Runs(countdown', ch) <=> Runs(countdown, ch)
  BY DEF Runs
<1>3. QED
  BY <1>1, <1>2 DEF LeftIsCounted, OnIfCounted, SavedIfCounted, SavedIsLeft

(* What set_duration_timer leaves of the time in the state.                    *)
LEMMA SetDurationLeft ==
  ASSUME TypeOK, NEW ch \in Channels, NEW time2 \in Lights \union {0},
         NEW timeLeft \in Nat, NEW v \in {0, 1}, NEW d \in Nat,
         Runs(countdown, ch) \/ timeLeft = 0 \/ ch \in Counting,
         SetDurationTimer(ch, time2, timeLeft, v, d)
  PROVE  /\ LeftIsCounted(ch)'
         /\ \A x \in Channels \ {ch} : Time2Left'[x] = Time2Left[x]
         /\ Runs(countdown', ch) => /\ v = 1 \/ ch \in Counting
                                    /\ time2 > 0 => v = 1
<1> DEFINE time == TimeFor(time2, timeLeft, v, d)
           disarmed == Disarm(countdown, ch)
           starts == Counts(ch, v, time) /\ HasSlot(disarmed, ch)
<1>1. time \in Nat /\ time2 \in Nat /\ (time2 > 0 => (v = 1 <=> time > 0))
  BY TimeAssumption DEF TimeFor
<1>2. /\ countdown' = IF starts THEN Start(disarmed, ch, time, 1 - v) ELSE disarmed
      /\ Time2Left' = [Time2Left EXCEPT ![ch] =
           IF starts THEN time
           ELSE IF Runs(countdown, ch) \/ (time2 > 0 /\ v = 0) THEN 0 ELSE timeLeft]
  BY DEF SetDurationTimer
<1>3. /\ Time2Left \in [Channels -> Nat] /\ countdown \in [Channels -> Slots]
      /\ disarmed = [countdown EXCEPT ![ch] = Free]
  BY DEF TypeOK, CountdownsOK, Disarm
<1>4. \A x \in Channels \ {ch} : Time2Left'[x] = Time2Left[x]
  BY <1>2, <1>3
<1>5. CASE starts
  <2>1. time > 0 /\ (v = 1 \/ ch \in Counting)
    BY <1>5 DEF Counts
  <2>2. Time2Left'[ch] = time
    BY <1>2, <1>3, <1>5
  <2>3. countdown'[ch].left = time
    BY <1>2, <1>3, <1>5 DEF Start
  <2>4. QED
    BY <1>1, <1>4, <2>1, <2>2, <2>3 DEF LeftIsCounted
<1>6. CASE ~starts
  <2>1. Time2Left'[ch] = 0 \/ ch \in Counting
    BY <1>2, <1>3, <1>6
  <2>2. countdown'[ch].left = 0
    BY <1>2, <1>3, <1>6 DEF Free
  <2>3. QED
    BY <1>4, <2>1, <2>2 DEF Runs, LeftIsCounted
<1>7. QED
  BY <1>5, <1>6

LEMMA RequestKeeps ==
  ASSUME IInv, KeptInv, NEW ch \in Channels, NEW v \in {0, 1}, NEW d \in Nat,
         NEW timeLeft \in Nat, timeLeft \in {0, Time2Left[ch]},
         Order(ch, v, timeLeft, d)
  PROVE  KeptInv'
<1> USE DEF Order
<1> SUFFICES ASSUME NEW x \in Restored \ Configured
             PROVE  LeftIsCounted(x)' /\ OnIfCounted(x)' /\ SavedIfCounted(x)' /\ SavedIsLeft(x)'
  BY DEF KeptInv
<1>1. Time2[ch] \in Lights \union {0} /\ relay \in [Channels -> {0, 1}] /\ x \in Channels
  BY ChannelAssumption DEF IInv, TypeOK
<1>2. CASE x # ch
  <2>1. countdown'[x] = countdown[x]
    BY <1>1, <1>2, SetDurationResult DEF IInv
  <2>2. Time2Left'[x] = Time2Left[x]
    BY <1>1, <1>2 DEF SetDurationTimer, IInv, TypeOK
  <2>3. relay'[x] = relay[x] /\ Time2' = Time2 /\ flash' = flash
    BY <1>1, <1>2
  <2>4. save' = 0 => save = 0
    BY TimeAssumption DEF SaveAfter
  <2>5. QED
    BY <2>1, <2>2, <2>3, <2>4, KeptBeside
<1>3. CASE x = ch
  <2>1. Runs(countdown, ch) \/ timeLeft = 0 \/ ch \in Counting
    BY <1>1, <1>3 DEF KeptInv, LeftIsCounted, Runs, IInv, TypeOK, CountdownsOK, Slots
  <2>2. /\ LeftIsCounted(ch)'
        /\ Runs(countdown', ch) => /\ v = 1 \/ ch \in Counting
                                   /\ Time2[ch] > 0 => v = 1
    BY <1>1, <2>1, SetDurationLeft DEF IInv
  <2>3. relay'[ch] = v /\ Time2' = Time2 /\ flash' = flash
    BY <1>1
  <2>4. save' # 0
    BY <1>3, TimeAssumption DEF SaveAfter
  <2>5. SavedIfCounted(x)
    BY DEF KeptInv
  <2>6. QED
    BY <1>3, <2>2, <2>3, <2>4, <2>5
       DEF LeftIsCounted, OnIfCounted, SavedIfCounted, SavedIsLeft
<1>4. QED
  BY <1>2, <1>3

LEMMA ConfigKeeps ==
  ASSUME IInv, KeptInv, NEW ch \in Configured, NEW t \in Lights \union {0},
         ChannelConfig(ch, t)
  PROVE  KeptInv'
<1> SUFFICES ASSUME NEW x \in Restored \ Configured
             PROVE  LeftIsCounted(x)' /\ OnIfCounted(x)' /\ SavedIfCounted(x)' /\ SavedIsLeft(x)'
  BY DEF KeptInv
<1>1. x \in Channels /\ ch \in Channels /\ x # ch /\ Time2Left[ch] \in Nat
  BY ChannelAssumption DEF IInv, TypeOK
<1>2. countdown'[x] = countdown[x]
  BY <1>1, SetDurationResult DEF IInv, ChannelConfig
<1>3. Time2Left'[x] = Time2Left[x]
  BY <1>1 DEF SetDurationTimer, ChannelConfig, IInv, TypeOK
<1>4. /\ relay'[x] = relay[x] /\ Time2'[x] = Time2[x] /\ flash' = flash
      /\ save' = 0 => save = 0
  BY <1>1 DEF ChannelConfig, IInv, TypeOK
<1>5. QED
  BY <1>2, <1>3, <1>4, KeptBeside

LEMMA CountdownKeeps ==
  ASSUME IInv, KeptInv, CountdownTimer
  PROVE  KeptInv'
<1> SUFFICES ASSUME NEW x \in Restored \ Configured
             PROVE  LeftIsCounted(x)' /\ OnIfCounted(x)' /\ SavedIfCounted(x)' /\ SavedIsLeft(x)'
  BY DEF KeptInv
<1> DEFINE n == LeftNow(x)
<1>1. /\ LeftIsCounted(x) /\ OnIfCounted(x) /\ SavedIfCounted(x) /\ SavedIsLeft(x)
      /\ x \in Channels /\ x \in Restored
  BY ChannelAssumption DEF KeptInv
<1>2. /\ n \in Nat
      /\ ~Runs(countdown, x) => n = 0 /\ countdown[x] = Free
      /\ Runs(countdown, x) /\ ~Over(x) => n > 0
      /\ Over(x) => n = 0
  BY <1>1, LeftNowType DEF IInv
<1>3. n <= countdown[x].left /\ countdown[x].left \in Nat
  BY <1>1 DEF LeftNow, IInv, TypeOK, CountdownsOK, Slots
<1>4. countdown'[x] = IF n = 0 THEN Free
                      ELSE [left |-> n, since |-> 0, target |-> countdown[x].target]
  BY <1>1 DEF CountdownTimer
<1>5. /\ Time2Left'[x] = IF Runs(countdown, x) THEN n ELSE Time2Left[x]
      /\ relay'[x] = IF Over(x) THEN countdown[x].target ELSE relay[x]
      /\ Time2' = Time2 /\ flash' = flash
  BY <1>1 DEF CountdownTimer
<1>6. save' = 0 => save = 0 /\ ~Over(x)
  BY <1>1, TimeAssumption DEF CountdownTimer, SaveAfter
<1>7. flash.left[x] \in Nat /\ Time2Left[x] \in Nat
  BY <1>1 DEF IInv, TypeOK
<1> HIDE DEF n
<1>8. countdown'[x].left = n
  <2>1. CASE n = 0
    BY <1>4, <2>1 DEF Free
  <2>2. CASE n # 0
    BY <1>4, <2>2
  <2>3. QED
    BY <2>1, <2>2
<1>9. LeftIsCounted(x)'
  <2>1. CASE Runs(countdown, x)
    BY <1>5, <1>8, <2>1 DEF LeftIsCounted
  <2>2. CASE ~Runs(countdown, x)
    <3>1. countdown'[x].left = countdown[x].left /\ Time2Left'[x] = Time2Left[x]
      BY <1>2, <1>5, <1>8, <2>2 DEF Free
    <3>2. ~Runs(countdown, x)'
      BY <2>2, <3>1 DEF Runs
    <3>3. QED
      BY <1>1, <3>1, <3>2 DEF LeftIsCounted
  <2>3. QED
    BY <2>1, <2>2
<1>10. Runs(countdown', x) <=> Runs(countdown, x) /\ ~Over(x)
  BY <1>2, <1>8 DEF Runs
<1>11. OnIfCounted(x)'
  BY <1>1, <1>5, <1>10 DEF OnIfCounted
<1>12. SavedIfCounted(x)'
  BY <1>1, <1>5 DEF SavedIfCounted
<1>13. SavedIsLeft(x)'
  <2> SUFFICES ASSUME save' = 0
               PROVE  /\ flash'.left[x] > 0 <=> Time2Left'[x] > 0
                      /\ flash'.left[x] >= Time2Left'[x]
    BY DEF SavedIsLeft
  <2>1. save = 0 /\ ~Over(x)
    BY <1>6
  <2>2. /\ flash.left[x] > 0 <=> Time2Left[x] > 0
        /\ flash.left[x] >= Time2Left[x]
    BY <1>1, <2>1 DEF SavedIsLeft
  <2>3. CASE Runs(countdown, x)
    <3>1. Time2Left[x] = countdown[x].left
      BY <1>1, <2>3 DEF LeftIsCounted
    <3>2. n > 0 /\ Time2Left'[x] = n /\ n <= Time2Left[x]
      BY <1>2, <1>3, <1>5, <2>1, <2>3, <3>1
    <3>3. QED
      BY <1>2, <1>5, <1>7, <2>2, <3>2
  <2>4. CASE ~Runs(countdown, x)
    BY <1>5, <2>2, <2>4
  <2>5. QED
    BY <2>3, <2>4
<1>14. QED
  BY <1>9, <1>11, <1>12, <1>13

(* A restart resumes what the flash tells, with the save still to come.        *)
LEMMA PowerKeeps ==
  ASSUME IInv, KeptInv, PowerCycle
  PROVE  KeptInv'
<1> SUFFICES ASSUME NEW x \in Restored \ Configured
             PROVE  LeftIsCounted(x)' /\ OnIfCounted(x)' /\ SavedIfCounted(x)' /\ SavedIsLeft(x)'
  BY DEF KeptInv
<1> DEFINE time == RestoredTime(x)
<1>1. SavedIfCounted(x) /\ x \in Channels /\ x \in Restored
  BY ChannelAssumption DEF KeptInv
<1>2. /\ flash.relay[x] \in {0, 1} /\ flash.left[x] \in Nat
      /\ Time2[x] \in Lights \union {0}
  BY <1>1 DEF IInv, TypeOK
<1>3. Time2[x] \in Nat
  <2>1. Lights \union {0} \subseteq Nat
    BY TimeAssumption
  <2>2. QED
    BY <1>2, <2>1, Zenon
<1>4. /\ time \in Nat
      /\ Time2[x] > 0 /\ time > 0 => flash.relay[x] = 1
      /\ Time2[x] = 0 => time = flash.left[x]
  BY <1>1, <1>2, <1>3 DEF RestoredTime, TimeFor
<1>5. Resumes(x) <=> time > 0 /\ flash.relay[x] = 1
  BY DEF Resumes
<1>6. /\ countdown'[x] = IF Resumes(x)
                         THEN [left |-> time, since |-> 0, target |-> 0]
                         ELSE Free
      /\ Time2Left'[x] = IF Resumes(x) THEN time
                         ELSE IF Time2[x] > 0 THEN 0 ELSE flash.left[x]
      /\ relay'[x] = flash.relay[x] /\ Time2' = Time2 /\ flash' = flash
  BY <1>1 DEF PowerCycle
<1>7. save' # 0
  BY <1>1, TimeAssumption DEF PowerCycle
<1> HIDE DEF time
<1>8. CASE Resumes(x)
  BY <1>1, <1>4, <1>5, <1>6, <1>7, <1>8
     DEF LeftIsCounted, OnIfCounted, SavedIfCounted, SavedIsLeft, Runs
<1>9. CASE ~Resumes(x)
  <2>1. countdown'[x].left = 0
    BY <1>6, <1>9 DEF Free
  <2>2. Time2Left'[x] = 0 \/ x \in Counting
    BY <1>1, <1>2, <1>3, <1>4, <1>5, <1>6, <1>9 DEF SavedIfCounted
  <2>3. QED
    BY <1>1, <1>6, <1>7, <2>1, <2>2
       DEF LeftIsCounted, OnIfCounted, SavedIfCounted, SavedIsLeft, Runs
<1>10. QED
  BY <1>8, <1>9

LEMMA SaveKeeps ==
  ASSUME IInv, KeptInv, SaveTimer
  PROVE  KeptInv'
<1> SUFFICES ASSUME NEW x \in Restored \ Configured
             PROVE  LeftIsCounted(x)' /\ OnIfCounted(x)' /\ SavedIfCounted(x)' /\ SavedIsLeft(x)'
  BY DEF KeptInv
<1>1. LeftIsCounted(x) /\ OnIfCounted(x) /\ x \in Channels /\ x \in Restored
  BY ChannelAssumption DEF KeptInv
<1>2. flash'.relay[x] = relay[x] /\ flash'.left[x] = Time2Left[x]
  BY <1>1 DEF SaveTimer
<1>3. /\ countdown' = countdown /\ Time2Left' = Time2Left /\ relay' = relay
      /\ Time2' = Time2
  BY DEF SaveTimer
<1>4. countdown[x].left \in Nat /\ Time2Left[x] \in Nat
  BY <1>1 DEF IInv, TypeOK, CountdownsOK, Slots
<1>5. QED
  BY <1>1, <1>2, <1>3, <1>4
     DEF LeftIsCounted, OnIfCounted, SavedIfCounted, SavedIsLeft, Runs

LEMMA TimeKeeps ==
  ASSUME IInv, KeptInv, TimePasses
  PROVE  KeptInv'
<1> SUFFICES ASSUME NEW x \in Restored \ Configured
             PROVE  LeftIsCounted(x)' /\ OnIfCounted(x)' /\ SavedIfCounted(x)' /\ SavedIsLeft(x)'
  BY DEF KeptInv
<1>1. /\ LeftIsCounted(x) /\ OnIfCounted(x) /\ SavedIfCounted(x) /\ SavedIsLeft(x)
      /\ x \in Channels
  BY ChannelAssumption DEF KeptInv
<1>2. countdown'[x].left = countdown[x].left
  BY <1>1 DEF TimePasses, IInv, TypeOK, CountdownsOK, Slots
<1>3. save' = 0 => save = 0
  BY TimeAssumption DEF TimePasses, IInv, TypeOK
<1>4. Time2Left' = Time2Left /\ relay' = relay /\ Time2' = Time2 /\ flash' = flash
  BY DEF TimePasses
<1>5. QED
  BY <1>1, <1>2, <1>3, <1>4
     DEF LeftIsCounted, OnIfCounted, SavedIfCounted, SavedIsLeft, Runs

LEMMA NextKeeps == IInv /\ KeptInv /\ [Next]_vars => KeptInv'
<1> SUFFICES ASSUME IInv, KeptInv, [Next]_vars PROVE KeptInv'
  OBVIOUS
<1>1. ASSUME NEW ch \in Channels, NEW v \in {0, 1},
             NEW d \in Durations \union {0}, ServerSet(ch, v, d)
      PROVE  KeptInv'
  <2>1. d \in Nat /\ Time2Left[ch] \in Nat
    BY TimeAssumption DEF IInv, TypeOK
  <2>2. QED
    BY <1>1, <2>1, RequestKeeps DEF ServerSet
<1>2. ASSUME NEW ch \in Channels, NEW hi \in {0, 1, 255}, Switch(ch, hi)
      PROVE  KeptInv'
  <2>1. PICK v \in {0, 1} : v = SwitchedTo(ch, hi)
    BY DEF SwitchedTo, IInv, TypeOK
  <2>2. PICK none \in Nat : none = 0
    OBVIOUS
  <2>3. Order(ch, v, none, none)
    BY <1>2, <2>1, <2>2 DEF Switch
  <2>4. QED
    BY <2>2, <2>3, RequestKeeps
<1>3. ASSUME NEW ch \in Configured, NEW t \in Lights \union {0},
             ChannelConfig(ch, t)
      PROVE  KeptInv'
  BY <1>3, ConfigKeeps
<1>4. CASE UNCHANGED vars
  BY <1>4 DEF vars, KeptInv, LeftIsCounted, OnIfCounted, SavedIfCounted, SavedIsLeft, Runs
<1>5. QED
  BY <1>1, <1>2, <1>3, <1>4, CountdownKeeps, SaveKeeps, PowerKeeps, TimeKeeps DEF Next

(* When no save is pending, a restart resumes the countdown of every relay     *)
(* that is on, with no less time than is left of it, and starts no other,      *)
(* except from a time that a countdown lost at an earlier restart has left in  *)
(* the state: of every restored channel that keeps its configuration.          *)
THEOREM CountdownsSurvive == Spec => []RestartKeepsCountdown
<1>1. Init => KeptInv
  BY ChannelAssumption
     DEF Init, KeptInv, LeftIsCounted, OnIfCounted, SavedIfCounted, SavedIsLeft, Runs, Free
<1>2. IInv /\ KeptInv => RestartKeepsCountdown
  <2> SUFFICES ASSUME IInv, KeptInv, save = 0, NEW x \in Restored \ Configured
               PROVE  /\ Runs(countdown, x) /\ relay[x] = 1 =>
                           /\ Resumes(x)
                           /\ RestoredTime(x) >= countdown[x].left - countdown[x].since
                      /\ Resumes(x) =>
                           \/ Runs(countdown, x)
                           \/ x \in Counting /\ Time2[x] = 0 /\ Stale(x)
    BY DEF RestartKeepsCountdown
  <2>1. SavedIsLeft(x) /\ LeftIsCounted(x) /\ x \in Channels /\ x \in Restored
    BY ChannelAssumption DEF KeptInv
  <2>2. /\ flash.relay[x] = relay[x] /\ relay[x] \in {0, 1} /\ flash.left[x] \in Nat
        /\ countdown[x].left \in Nat /\ countdown[x].since \in Nat
        /\ Time2[x] \in Lights \union {0} /\ Time2Left[x] \in Nat
    BY <2>1 DEF IInv, TypeOK, RestartKeepsRelay, CountdownsOK, Slots
  <2>3. Time2[x] \in Nat
    <3>1. Lights \union {0} \subseteq Nat
      BY TimeAssumption
    <3>2. QED
      BY <2>2, <3>1, Zenon
  <2>4. /\ flash.left[x] > 0 <=> Time2Left[x] > 0
        /\ flash.left[x] >= Time2Left[x]
    BY <2>1 DEF SavedIsLeft
  <2>5. relay[x] = 1 =>
          RestoredTime(x) = IF Time2[x] > 0 /\ flash.left[x] = 0
                            THEN Time2[x] ELSE flash.left[x]
    BY <2>1, <2>2, <2>3 DEF RestoredTime, TimeFor
  <2>6. ASSUME Runs(countdown, x), relay[x] = 1
        PROVE  /\ Resumes(x)
               /\ RestoredTime(x) >= countdown[x].left - countdown[x].since
    <3>1. Time2Left[x] = countdown[x].left /\ countdown[x].left > 0
      BY <2>1, <2>6 DEF LeftIsCounted, Runs
    <3>2. RestoredTime(x) = flash.left[x]
      BY <2>4, <2>5, <2>6, <3>1
    <3>3. QED
      BY <2>2, <2>4, <2>6, <3>1, <3>2 DEF Resumes
  <2>7. ASSUME Resumes(x), ~Runs(countdown, x)
        PROVE  x \in Counting /\ Time2[x] = 0 /\ Stale(x)
    <3>1. relay[x] = 1 /\ RestoredTime(x) > 0
      BY <2>2, <2>7 DEF Resumes
    <3>2. Time2[x] = 0
      BY <2>1, <2>3, <2>7, <3>1 DEF IInv, LightsCounted
    <3>3. Time2Left[x] > 0
      BY <2>4, <2>5, <3>1, <3>2
    <3>4. countdown[x].left = 0
      BY <2>2, <2>7 DEF Runs
    <3>5. x \in Counting
      BY <2>1, <3>3, <3>4 DEF LeftIsCounted
    <3>6. QED
      BY <2>7, <3>2, <3>3, <3>5 DEF Stale
  <2>8. QED
    BY <2>6, <2>7
<1>3. QED
  BY <1>1, <1>2, NextKeeps, Invariance, PTL DEF Spec

--------------------------------------------------------------------------------
(* How late a countdown may be.  The timer never looks less often than the     *)
(* most urgent countdown needs; and either every countdown that runs started   *)
(* no earlier than the timer was armed last, or somebody has asked for         *)
(* something since.                                                            *)
OftenEnough ==
  \A ch \in Channels :
    Runs(countdown, ch) => timer.period <= PeriodFor(countdown[ch].left)

CountedSinceArmed ==
  \A ch \in Channels :
    Runs(countdown, ch) => countdown[ch].since + timer.due <= timer.period

AskedSinceArmed == quiet + timer.due <= timer.period

InTimeInv == OftenEnough /\ (CountedSinceArmed \/ AskedSinceArmed)

(* The period of the timer is no longer than that of any countdown that runs.  *)
LEMMA PeriodOfLeast ==
  ASSUME NEW c \in [Channels -> Slots], NEW ch \in Channels, Runs(c, ch)
  PROVE  PeriodOf(c) <= PeriodFor(c[ch].left)
<1> DEFINE running == {x \in Channels : Runs(c, x)}
           periods == {PeriodFor(c[x].left) : x \in running}
<1>1. PeriodFor(c[ch].left) \in periods
  OBVIOUS
<1>2. periods \subseteq MinPeriod .. MaxPeriod
  BY PeriodForType DEF Slots
<1>3. periods \subseteq Nat
  BY <1>2, TimeAssumption
<1>4. \E p \in periods : \A q \in periods : p <= q
  BY <1>1, <1>3, SmallestTime
<1>5. \A q \in periods : PeriodOf(c) <= q
  BY <1>1, <1>4 DEF PeriodOf
<1>6. QED
  BY <1>1, <1>5

LEMMA StartStopPeriod ==
  ASSUME NEW c, NEW t
  PROVE  StartStop(c, t).period = PeriodOf(c)
BY DEF StartStop

(* A countdown that is started or disarmed leaves a timer that looks often     *)
(* enough.                                                                     *)
LEMMA SetDurationOften ==
  ASSUME TypeOK, OftenEnough, NEW ch \in Channels,
         NEW time2 \in Lights \union {0}, NEW timeLeft \in Nat, NEW v \in {0, 1},
         NEW d \in Nat, SetDurationTimer(ch, time2, timeLeft, v, d)
  PROVE  OftenEnough'
<1> DEFINE time == TimeFor(time2, timeLeft, v, d)
           disarmed == Disarm(countdown, ch)
           starts == Counts(ch, v, time) /\ HasSlot(disarmed, ch)
<1> SUFFICES ASSUME NEW x \in Channels, Runs(countdown', x)
             PROVE  timer'.period <= PeriodFor(countdown'[x].left)
  BY DEF OftenEnough, PeriodFor
<1>1. countdown' \in [Channels -> Slots]
  BY SetDurationResult DEF CountdownsOK
<1>2. CASE starts
  <2>1. timer' = StartStop(countdown', timer)
    BY <1>2 DEF SetDurationTimer
  <2>2. timer'.period = PeriodOf(countdown')
    BY <2>1, StartStopPeriod, Zenon
  <2>3. PeriodOf(countdown') <= PeriodFor(countdown'[x].left)
    BY <1>1, PeriodOfLeast
  <2>4. QED
    BY <2>2, <2>3
<1>3. CASE ~starts
  <2>1. countdown' = disarmed /\ timer' = timer
    BY <1>3 DEF SetDurationTimer
  <2>2. x # ch /\ countdown'[x] = countdown[x]
    BY <2>1 DEF Disarm, Runs, Free, TypeOK, CountdownsOK
  <2>3. Runs(countdown, x)
    BY <2>2 DEF Runs
  <2>4. QED
    BY <2>1, <2>2, <2>3 DEF OftenEnough
<1>4. QED
  BY <1>2, <1>3

(* Whoever asks for something is told by quiet.                                *)
LEMMA AskedInTime ==
  ASSUME TimerOK(countdown', timer'), OftenEnough', quiet' = 0
  PROVE  InTimeInv'
<1>1. timer'.due <= timer'.period /\ timer'.due \in 0 .. MaxPeriod
  BY DEF TimerOK
<1>2. AskedSinceArmed'
  BY <1>1, TimeAssumption DEF AskedSinceArmed
<1>3. QED
  BY <1>2 DEF InTimeInv

LEMMA OrderInTime ==
  ASSUME IInv, InTimeInv, NEW ch \in Channels, NEW v \in {0, 1},
         NEW timeLeft \in Nat, NEW d \in Nat, Order(ch, v, timeLeft, d)
  PROVE  InTimeInv'
<1>1. /\ SetDurationTimer(ch, Time2[ch], timeLeft, v, d) /\ quiet' = 0
      /\ Time2[ch] \in Lights \union {0} /\ TypeOK /\ OftenEnough
  BY DEF Order, IInv, TypeOK, InTimeInv
<1>2. TimerOK(countdown', timer') /\ OftenEnough'
  BY <1>1, SetDurationResult, SetDurationOften
<1>3. QED
  BY <1>1, <1>2, AskedInTime

LEMMA ConfigInTime ==
  ASSUME IInv, InTimeInv, NEW ch \in Channels, NEW t \in Lights \union {0},
         ChannelConfig(ch, t)
  PROVE  InTimeInv'
<1>1. PICK v \in {0, 1}, d \in Nat : v = 1 /\ d = 0
  OBVIOUS
<1>2. SetDurationTimer(ch, t, Time2Left[ch], 1, 0) /\ quiet' = 0
  BY DEF ChannelConfig
<1>3. Time2Left[ch] \in Nat /\ TypeOK /\ OftenEnough
  BY DEF IInv, TypeOK, InTimeInv
<1>4. SetDurationTimer(ch, t, Time2Left[ch], v, d)
  BY <1>1, <1>2
<1>5. TimerOK(countdown', timer') /\ OftenEnough'
  BY <1>3, <1>4, SetDurationResult, SetDurationOften
<1>6. QED
  BY <1>2, <1>5, AskedInTime

(* At a look every countdown that goes on starts from what is left of it.      *)
LEMMA CountdownInTime ==
  ASSUME IInv, IInv', InTimeInv, CountdownTimer
  PROVE  InTimeInv'
<1>1. /\ timer' = StartStop(countdown', [timer EXCEPT !.due = timer.period])
      /\ countdown' \in [Channels -> Slots]
  BY DEF CountdownTimer, IInv, TypeOK, CountdownsOK
<1>2. timer'.period = PeriodOf(countdown')
  BY <1>1, StartStopPeriod, Zenon
<1>3. timer'.due = timer'.period /\ timer'.period \in Nat
  <2>1. timer \in [period : {0} \union MinPeriod .. MaxPeriod, due : 0 .. MaxPeriod]
    BY DEF IInv, TypeOK, TimerOK
  <2>2. timer'.period \in {0} \union MinPeriod .. MaxPeriod
    BY DEF IInv, TypeOK, TimerOK
  <2>3. timer'.due = timer'.period
    BY <1>1, <2>1 DEF StartStop
  <2>4. QED
    BY <2>2, <2>3, TimeAssumption
<1>4. ASSUME NEW x \in Channels, Runs(countdown', x)
      PROVE  /\ timer'.period <= PeriodFor(countdown'[x].left)
             /\ countdown'[x].since = 0
  <2>1. PeriodOf(countdown') <= PeriodFor(countdown'[x].left)
    BY <1>1, <1>4, PeriodOfLeast
  <2>2. countdown'[x].since = 0
    BY DEF CountdownTimer, Free
  <2>3. QED
    BY <1>2, <2>1, <2>2
<1>5. OftenEnough'
  BY <1>4 DEF OftenEnough, PeriodFor
<1>6. CountedSinceArmed'
  BY <1>3, <1>4 DEF CountedSinceArmed
<1>7. QED
  BY <1>5, <1>6 DEF InTimeInv

LEMMA PowerInTime ==
  ASSUME IInv', PowerCycle
  PROVE  InTimeInv'
<1>1. /\ timer' = StartStop(countdown', [period |-> 0, due |-> 0])
      /\ countdown' \in [Channels -> Slots] /\ quiet' = 0
      /\ TimerOK(countdown', timer')
  BY DEF PowerCycle, IInv, TypeOK, CountdownsOK
<1>2. timer'.period = PeriodOf(countdown')
  BY <1>1, StartStopPeriod, Zenon
<1>3. ASSUME NEW x \in Channels, Runs(countdown', x)
      PROVE  timer'.period <= PeriodFor(countdown'[x].left)
  BY <1>1, <1>2, <1>3, PeriodOfLeast
<1>4. OftenEnough'
  BY <1>3 DEF OftenEnough, PeriodFor
<1>5. QED
  BY <1>1, <1>4, AskedInTime

(* While time passes the timer comes nearer as the countdowns grow older.      *)
LEMMA TimeInTime ==
  ASSUME IInv, InTimeInv, TimePasses
  PROVE  InTimeInv'
<1>1. /\ timer.period \in Nat /\ timer.due \in Nat /\ quiet \in Nat
      /\ timer \in [period : {0} \union MinPeriod .. MaxPeriod, due : 0 .. MaxPeriod]
  BY TimeAssumption DEF IInv, TypeOK, TimerOK
<1>2. /\ timer.period = 0 => timer' = timer
      /\ timer.period # 0 => timer.due > 0 /\ timer'.due = timer.due - 1
      /\ timer'.period = timer.period
  BY <1>1, TimeAssumption DEF TimePasses
<1>3. quiet' \in {quiet, quiet + 1}
  BY DEF TimePasses
<1>4. ASSUME NEW x \in Channels
      PROVE  /\ countdown'[x].left = countdown[x].left
             /\ countdown[x].since \in Nat
             /\ countdown'[x].since \in {countdown[x].since, countdown[x].since + 1}
             /\ Runs(countdown, x) => timer.period # 0
  BY DEF TimePasses, IInv, TypeOK, CountdownsOK, Slots, TimerOK
<1>5. OftenEnough'
  BY <1>2, <1>4 DEF InTimeInv, OftenEnough, Runs, PeriodFor
<1>6. CASE timer.period = 0
  <2>1. \A x \in Channels : ~Runs(countdown', x)
    BY <1>4, <1>6 DEF Runs
  <2>2. CountedSinceArmed'
    BY <2>1 DEF CountedSinceArmed
  <2>3. QED
    BY <1>5, <2>2 DEF InTimeInv
<1>7. CASE timer.period # 0 /\ CountedSinceArmed
  <2>1. ASSUME NEW x \in Channels, Runs(countdown', x)
        PROVE  countdown'[x].since + timer'.due <= timer'.period
    <3>1. Runs(countdown, x)
      BY <1>4, <2>1 DEF Runs
    <3>2. countdown[x].since + timer.due <= timer.period
      BY <1>7, <3>1 DEF CountedSinceArmed
    <3>3. QED
      BY <1>1, <1>2, <1>4, <1>7, <3>2
  <2>2. CountedSinceArmed'
    BY <2>1 DEF CountedSinceArmed
  <2>3. QED
    BY <1>5, <2>2 DEF InTimeInv
<1>8. CASE timer.period # 0 /\ AskedSinceArmed
  <2>1. AskedSinceArmed'
    BY <1>1, <1>2, <1>3, <1>8 DEF AskedSinceArmed
  <2>2. QED
    BY <1>5, <2>1 DEF InTimeInv
<1>9. QED
  BY <1>6, <1>7, <1>8 DEF InTimeInv

LEMMA NextInTime == IInv /\ IInv' /\ InTimeInv /\ [Next]_vars => InTimeInv'
<1> SUFFICES ASSUME IInv, IInv', InTimeInv, [Next]_vars PROVE InTimeInv'
  OBVIOUS
<1>1. ASSUME NEW ch \in Channels, NEW v \in {0, 1},
             NEW d \in Durations \union {0}, ServerSet(ch, v, d)
      PROVE  InTimeInv'
  <2>1. d \in Nat /\ Time2Left[ch] \in Nat
    BY TimeAssumption DEF IInv, TypeOK
  <2>2. QED
    BY <1>1, <2>1, OrderInTime DEF ServerSet
<1>2. ASSUME NEW ch \in Channels, NEW hi \in {0, 1, 255}, Switch(ch, hi)
      PROVE  InTimeInv'
  <2>1. PICK v \in {0, 1} : v = SwitchedTo(ch, hi)
    BY DEF SwitchedTo, IInv, TypeOK
  <2>2. PICK none \in Nat : none = 0
    OBVIOUS
  <2>3. Order(ch, v, none, none)
    BY <1>2, <2>1, <2>2 DEF Switch
  <2>4. QED
    BY <2>3, OrderInTime
<1>3. ASSUME NEW ch \in Configured, NEW t \in Lights \union {0},
             ChannelConfig(ch, t)
      PROVE  InTimeInv'
  BY <1>3, ConfigInTime, ChannelAssumption
<1>4. CASE SaveTimer
  BY <1>4 DEF SaveTimer, InTimeInv, OftenEnough, CountedSinceArmed,
              AskedSinceArmed, Runs, PeriodFor
<1>5. CASE UNCHANGED vars
  BY <1>5 DEF vars, InTimeInv, OftenEnough, CountedSinceArmed, AskedSinceArmed,
              Runs, PeriodFor
<1>6. QED
  BY <1>1, <1>2, <1>3, <1>4, <1>5, CountdownInTime, PowerInTime, TimeInTime DEF Next

(* A period is shorter than the time left, or the shortest one.                *)
LEMMA PeriodForShort ==
  ASSUME NEW left \in Nat, left > 0
  PROVE  PeriodFor(left) < left + MinPeriod
<1> DEFINE q == left \div Part
<1>1. q \in Nat /\ q <= left
  BY TimeAssumption
<1> HIDE DEF q
<1>2. PeriodFor(left) = IF q < MinPeriod THEN MinPeriod
                        ELSE IF q > MaxPeriod THEN MaxPeriod ELSE q
  BY DEF PeriodFor, q
<1>3. QED
  BY <1>1, <1>2, TimeAssumption

(* Once nothing has been asked for one long period, no countdown of any channel*)
(* is overdue by a short period or more.                                       *)
THEOREM LooksInTime == Spec => []Punctual
<1>1. Init => InTimeInv
  <2> SUFFICES ASSUME Init PROVE InTimeInv
    OBVIOUS
  <2>1. \A ch \in Channels : ~Runs(countdown, ch)
    BY DEF Init, Runs, Free
  <2>2. QED
    BY <2>1 DEF InTimeInv, OftenEnough, CountedSinceArmed
<1>2. IInv /\ InTimeInv => Punctual
  <2> SUFFICES ASSUME IInv, InTimeInv, quiet > MaxPeriod,
                      NEW ch \in Channels, Runs(countdown, ch)
               PROVE  countdown[ch].since < countdown[ch].left + MinPeriod
    BY DEF Punctual
  <2>1. /\ countdown[ch].left \in Nat /\ countdown[ch].since \in Nat
        /\ countdown[ch].left > 0
    BY DEF IInv, TypeOK, CountdownsOK, Slots, Runs
  <2>2. timer.period \in Nat /\ timer.due \in Nat /\ timer.period <= MaxPeriod
    BY TimeAssumption DEF IInv, TypeOK, TimerOK
  <2>3. quiet \in Nat
    BY TimeAssumption DEF IInv, TypeOK
  <2>4. ~AskedSinceArmed
    BY <2>2, <2>3, TimeAssumption DEF AskedSinceArmed
  <2>5. countdown[ch].since + timer.due <= timer.period
    BY <2>4 DEF InTimeInv, CountedSinceArmed
  <2>6. timer.period <= PeriodFor(countdown[ch].left)
    BY DEF InTimeInv, OftenEnough
  <2>7. PeriodFor(countdown[ch].left) < countdown[ch].left + MinPeriod
    BY <2>1, PeriodForShort
  <2>8. PeriodFor(countdown[ch].left) \in Nat
    BY <2>1, PeriodForType, TimeAssumption
  <2>9. QED
    BY <2>1, <2>2, <2>5, <2>6, <2>7, <2>8, TimeAssumption
<1>3. Spec => []InTimeInv
  BY <1>1, NextInTime, Invariance, PTL DEF Spec
<1>4. QED
  BY <1>2, <1>3, Invariance, PTL

--------------------------------------------------------------------------------
(* The relays keep the promise of TimedSwitch, for all channels and times: a   *)
(* channel changes only by a request, a restart, or its plan when its time is  *)
(* over, and its plan is the one of the last request.                          *)

(* A time left is never longer than one that was asked for or configured.      *)
Within(n) == n = 0 \/ \E d \in Durations \union Lights : n <= d

TimesWithin ==
  \A ch \in Channels :
    /\ Within(countdown[ch].left)
    /\ Within(Time2Left[ch])
    /\ Within(flash.left[ch])

PInv == IInv /\ TimesWithin

--------------------------------------------------------------------------------
(* The times.                                                                  *)

LEMMA SetDurationWithin ==
  ASSUME PInv, NEW ch \in Channels, NEW time2 \in Lights \union {0},
         NEW timeLeft \in Nat, NEW v \in {0, 1},
         NEW d \in Durations \union {0}, Within(timeLeft),
         SetDurationTimer(ch, time2, timeLeft, v, d), flash' = flash
  PROVE  TimesWithin'
<1> DEFINE time == TimeFor(time2, timeLeft, v, d)
           disarmed == Disarm(countdown, ch)
           starts == Counts(ch, v, time) /\ HasSlot(disarmed, ch)
<1>1. Within(time) /\ Within(0)
  BY TimeAssumption DEF TimeFor, Within
<1>2. \A x \in Channels : Within(disarmed[x].left)
  BY <1>1 DEF Disarm, PInv, TimesWithin, IInv, TypeOK, CountdownsOK, Free
<1>3. countdown' = IF starts THEN Start(disarmed, ch, time, 1 - v)
                             ELSE disarmed
  BY DEF SetDurationTimer
<1>4. \A x \in Channels : Within(countdown'[x].left)
  <2> HIDE DEF time
  <2>1. disarmed \in [Channels -> Slots]
    BY DEF Disarm, PInv, IInv, TypeOK, CountdownsOK, Slots, Free
  <2>2. \A x \in Channels :
          countdown'[x].left = IF starts /\ x = ch THEN time
                                                   ELSE disarmed[x].left
    BY <1>3, <2>1 DEF Start
  <2>3. QED
    BY <1>1, <1>2, <2>2
<1>5. \A x \in Channels : Within(Time2Left'[x])
  BY <1>1 DEF SetDurationTimer, PInv, TimesWithin, IInv, TypeOK
<1>6. QED
  BY <1>4, <1>5 DEF PInv, TimesWithin, Within

LEMMA TimesStep == PInv /\ [Next]_vars => TimesWithin'
<1> SUFFICES ASSUME PInv, [Next]_vars PROVE TimesWithin'
  OBVIOUS
<1> USE DEF PInv
<1>1. ASSUME NEW ch \in Channels, NEW v \in {0, 1},
             NEW d \in Durations \union {0}, ServerSet(ch, v, d)
      PROVE  TimesWithin'
  <2>1. /\ Time2Left[ch] \in Nat /\ Within(Time2Left[ch])
        /\ Time2[ch] \in Lights \union {0}
    BY DEF IInv, TypeOK, TimesWithin
  <2>2. /\ SetDurationTimer(ch, Time2[ch], Time2Left[ch], v, d)
        /\ flash' = flash
    BY <1>1 DEF ServerSet, Order
  <2>3. QED
    BY <2>1, <2>2, SetDurationWithin
<1>2. ASSUME NEW ch \in Channels, NEW hi \in {0, 1, 255}, Switch(ch, hi)
      PROVE  TimesWithin'
  <2>1. PICK v \in {0, 1} : v = SwitchedTo(ch, hi)
    BY DEF SwitchedTo, IInv, TypeOK
  <2>2. PICK none \in Nat : none = 0
    OBVIOUS
  <2>3. /\ Within(none) /\ none \in Durations \union {0}
        /\ Time2[ch] \in Lights \union {0}
    BY <2>2 DEF Within, IInv, TypeOK
  <2>4. /\ SetDurationTimer(ch, Time2[ch], none, v, none)
        /\ flash' = flash
    BY <1>2, <2>1, <2>2 DEF Switch, Order
  <2>5. QED
    BY <2>3, <2>4, SetDurationWithin
<1>3. ASSUME NEW ch \in Configured, NEW t \in Lights \union {0},
             ChannelConfig(ch, t)
      PROVE  TimesWithin'
  <2>1. /\ Time2Left[ch] \in Nat /\ Within(Time2Left[ch]) /\ ch \in Channels
    BY ChannelAssumption DEF IInv, TypeOK, TimesWithin
  <2>2. PICK none \in Durations \union {0}, one \in {0, 1} : none = 0 /\ one = 1
    OBVIOUS
  <2>3. /\ SetDurationTimer(ch, t, Time2Left[ch], one, none)
        /\ flash' = flash
    BY <1>3, <2>2 DEF ChannelConfig
  <2>4. QED
    BY <2>1, <2>3, SetDurationWithin
<1>4. CASE CountdownTimer
  <2> SUFFICES ASSUME NEW x \in Channels
               PROVE  /\ Within(countdown'[x].left)
                      /\ Within(Time2Left'[x]) /\ Within(flash'.left[x])
    BY DEF TimesWithin, Within
  <2>1. LeftNow(x) \in Nat /\ LeftNow(x) <= countdown[x].left
        /\ countdown[x].left \in Nat
    <3>1. countdown[x].left \in Nat /\ countdown[x].since \in Nat
      BY DEF IInv, TypeOK, CountdownsOK, Slots
    <3>2. LeftNow(x) \in Nat
      BY LeftNowType DEF IInv
    <3>3. QED
      BY <3>1, <3>2 DEF LeftNow
  <2>2. Within(LeftNow(x)) /\ Within(0)
    BY <2>1, TimeAssumption DEF TimesWithin, Within
  <2>3. countdown'[x].left = LeftNow(x)
    BY <1>4 DEF CountdownTimer, Free
  <2>4. Time2Left'[x] \in {LeftNow(x), Time2Left[x]}
    BY <1>4 DEF CountdownTimer
  <2>5. flash' = flash
    BY <1>4 DEF CountdownTimer
  <2>6. QED
    BY <2>2, <2>3, <2>4, <2>5 DEF TimesWithin
<1>5. CASE SaveTimer
  <2>1. flash'.left = Time2Left /\ UNCHANGED <<countdown, Time2Left>>
    BY <1>5 DEF SaveTimer
  <2>2. QED
    BY <2>1 DEF TimesWithin, Within
<1>6. CASE PowerCycle
  <2> SUFFICES ASSUME NEW x \in Channels
               PROVE  /\ Within(countdown'[x].left)
                      /\ Within(Time2Left'[x]) /\ Within(flash'.left[x])
    BY DEF TimesWithin, Within
  <2>1. Within(flash.left[x]) /\ Within(Time2[x]) /\ Within(0)
    <3>1. Time2[x] \in Lights \union {0}
      BY DEF IInv, TypeOK
    <3>2. PICK t \in Lights \union {0} : t = Time2[x]
      BY <3>1
    <3>3. t \in Nat /\ t <= t
      BY <3>2, TimeAssumption
    <3>4. Within(Time2[x]) /\ Within(0)
      BY <3>2, <3>3 DEF Within
    <3>5. QED
      BY <3>4 DEF TimesWithin
  <2>2. Within(RestoredTime(x))
    BY <2>1 DEF RestoredTime, TimeFor
  <2>3. /\ countdown'[x].left \in {RestoredTime(x), 0}
        /\ Time2Left'[x] \in {RestoredTime(x), 0, flash.left[x]}
        /\ flash' = flash
    BY <1>6 DEF PowerCycle, Free
  <2>4. QED
    BY <2>1, <2>2, <2>3
<1>7. CASE TimePasses
  <2>1. \A x \in Channels : countdown'[x].left = countdown[x].left
    BY <1>7 DEF TimePasses, IInv, TypeOK, CountdownsOK, Slots
  <2>2. UNCHANGED <<Time2Left, flash>>
    BY <1>7 DEF TimePasses
  <2>3. QED
    BY <2>1, <2>2 DEF TimesWithin, Within
<1>8. CASE UNCHANGED vars
  BY <1>8 DEF vars, TimesWithin, Within
<1>9. QED
  BY <1>1, <1>2, <1>3, <1>4, <1>5, <1>6, <1>7, <1>8 DEF Next

LEMMA PInvariance == Spec => []PInv
<1>1. Init => PInv
  BY InitIInv DEF Init, PInv, TimesWithin, Within, Free
<1>2. PInv /\ [Next]_vars => PInv'
  BY NextIInv, TimesStep DEF PInv
<1>3. QED
  BY <1>1, <1>2, PTL DEF Spec

--------------------------------------------------------------------------------
(* The steps.                                                                  *)

(* The plan of a channel, after set_duration_timer.                            *)
LEMMA SetDurationPlan ==
  ASSUME IInv, NEW ch \in Channels, NEW time2 \in Lights \union {0},
         NEW timeLeft \in Nat, NEW v \in {0, 1}, NEW d \in Nat,
         SetDurationTimer(ch, time2, timeLeft, v, d)
  PROVE  LET time == TimeFor(time2, timeLeft, v, d)
         IN  /\ PlanOf(ch)' = IF Counts(ch, v, time)
                              THEN Promise!Plan(time, 1 - v)
                              ELSE Promise!Nothing
             /\ \A x \in Channels \ {ch} : PlanOf(x)' = PlanOf(x)
<1> DEFINE time == TimeFor(time2, timeLeft, v, d)
           disarmed == Disarm(countdown, ch)
<1>1. time \in Nat
  BY TimeAssumption DEF TimeFor
<1>2. countdown' = IF Counts(ch, v, time) THEN Start(disarmed, ch, time, 1 - v)
                                          ELSE disarmed
  BY SlotForEveryChannel DEF SetDurationTimer
<1>3. countdown'[ch] = IF Counts(ch, v, time)
                       THEN [left |-> time, since |-> 0, target |-> 1 - v]
                       ELSE Free
  <2> HIDE DEF time
  <2>1. QED
    BY <1>2 DEF Start, Disarm, IInv, TypeOK, CountdownsOK
<1>4. \A x \in Channels \ {ch} : countdown'[x] = countdown[x]
  <2> HIDE DEF time
  <2>1. QED
    BY <1>2 DEF Start, Disarm, IInv, TypeOK, CountdownsOK
<1>5. PlanOf(ch)' = IF Counts(ch, v, time) THEN Promise!Plan(time, 1 - v)
                                           ELSE Promise!Nothing
  <2> HIDE DEF time
  <2>1. CASE Counts(ch, v, time)
    <3>1. time > 0
      BY <2>1 DEF Counts
    <3>2. countdown'[ch] = [left |-> time, since |-> 0, target |-> 1 - v]
      BY <1>3, <2>1
    <3>3. /\ countdown'[ch].left = time /\ countdown'[ch].since = 0
          /\ countdown'[ch].target = 1 - v
      BY <3>2
    <3>4. ~(0 >= time) /\ time - 0 = time
      BY <1>1, <3>1
    <3>5. PlanOf(ch)' = [in |-> time, to |-> 1 - v, set |-> TRUE]
      <4>1. Runs(countdown, ch)'
        BY <3>1, <3>3 DEF Runs
      <4>2. PlanOf(ch)' =
              [in |-> IF countdown'[ch].since >= countdown'[ch].left THEN 0
                      ELSE countdown'[ch].left - countdown'[ch].since,
               to |-> countdown'[ch].target, set |-> TRUE]
        BY <4>1 DEF PlanOf
      <4>3. QED
        BY <3>3, <3>4, <4>2
    <3>6. QED
      BY <2>1, <3>5 DEF Promise!Plan
  <2>2. CASE ~Counts(ch, v, time)
    <3>1. countdown'[ch] = Free
      BY <1>3, <2>2
    <3>2. QED
      BY <2>2, <3>1 DEF PlanOf, Runs, Free, Promise!Nothing
  <2>3. QED
    BY <2>1, <2>2
<1>6. \A x \in Channels \ {ch} : PlanOf(x)' = PlanOf(x)
  BY <1>4 DEF PlanOf, Runs
<1>7. QED
  BY <1>5, <1>6

(* The plans of the abstract specification, and how one of them changes.       *)
Plans == [x \in Channels |-> PlanOf(x)]

LEMMA OnePlanChanges ==
  ASSUME NEW ch \in Channels, NEW p, PlanOf(ch)' = p,
         \A x \in Channels \ {ch} : PlanOf(x)' = PlanOf(x)
  PROVE  Plans' = [Plans EXCEPT ![ch] = p]
<1>1. Plans' = [x \in Channels |-> PlanOf(x)']
  BY DEF Plans
<1>2. [Plans EXCEPT ![ch] = p] = [x \in Channels |-> IF x = ch THEN p
                                                   ELSE PlanOf(x)]
  BY DEF Plans
<1>3. \A x \in Channels : PlanOf(x)' = IF x = ch THEN p ELSE PlanOf(x)
  OBVIOUS
<1>4. QED
  BY <1>1, <1>2, <1>3

LEMMA RequestKept ==
  ASSUME IInv, NEW ch \in Channels, NEW v \in {0, 1},
         NEW d \in Durations \union {0}, NEW timeLeft \in Nat,
         Order(ch, v, timeLeft, d)
  PROVE  Promise!Request(ch)
<1> DEFINE time == TimeFor(Time2[ch], timeLeft, v, d)
           p == IF Counts(ch, v, time) THEN Promise!Plan(time, 1 - v)
                                       ELSE Promise!Nothing
<1>1. Time2[ch] \in Lights \union {0} /\ d \in Nat
  BY TimeAssumption DEF IInv, TypeOK
<1>2. SetDurationTimer(ch, Time2[ch], timeLeft, v, d)
  BY DEF Order
<1>3. PlanOf(ch)' = p /\ \A x \in Channels \ {ch} : PlanOf(x)' = PlanOf(x)
  BY <1>1, <1>2, SetDurationPlan
<1>4. p \in Promise!PlansFor(ch, v, d)
  <2>1. Time2[ch] \in Nat
    <3>1. Lights \union {0} \subseteq Nat
      BY TimeAssumption
    <3>2. QED
      BY <1>1, <3>1
  <2>2. CASE Time2[ch] = 0
    BY <1>1, <2>2 DEF TimeFor, Counts, Promise!PlansFor
  <2>3. CASE Time2[ch] > 0 /\ v = 0
    <3>1. time = 0
      BY <2>1, <2>3 DEF TimeFor
    <3>2. p = Promise!Nothing
      BY <3>1 DEF Counts
    <3>3. QED
      BY <2>3, <3>2 DEF Promise!PlansFor
  <2>4. CASE Time2[ch] > 0 /\ v = 1
    <3>1. time \in {Time2[ch]} \union ({d} \ {0}) /\ time > 0
      BY <1>1, <2>1, <2>4 DEF TimeFor
    <3> HIDE DEF time
    <3>2. p = Promise!Plan(time, 0)
      BY <2>4, <3>1 DEF Counts
    <3> HIDE DEF p
    <3>3. QED
      BY <2>4, <3>1, <3>2 DEF Promise!PlansFor
  <2>5. QED
    BY <2>1, <2>2, <2>3, <2>4
<1> HIDE DEF p
<1>5. Plans' = [Plans EXCEPT ![ch] = p]
  BY <1>3, OnePlanChanges
<1>6. relay' = [relay EXCEPT ![ch] = v] /\ quiet' = 0 /\ Time2' = Time2
  BY DEF Order
<1>7. QED
  BY <1>4, <1>5, <1>6 DEF Promise!Request, Plans

LEMMA ConfigKept ==
  ASSUME IInv, NEW ch \in Channels, NEW t \in Lights \union {0},
         ChannelConfig(ch, t)
  PROVE  Promise!Reconfigure(ch)
<1>1. PICK one \in {0, 1}, none \in Nat : one = 1 /\ none = 0
  OBVIOUS
<1> DEFINE time == TimeFor(t, Time2Left[ch], one, none)
           p == IF t > 0 THEN Promise!Plan(t, 0) ELSE Promise!Nothing
<1>2. Time2Left[ch] \in Nat /\ t \in Nat
  BY TimeAssumption DEF IInv, TypeOK
<1>3. SetDurationTimer(ch, t, Time2Left[ch], one, none)
  BY <1>1 DEF ChannelConfig
<1>4. /\ PlanOf(ch)' = IF Counts(ch, one, time)
                       THEN Promise!Plan(time, 1 - one) ELSE Promise!Nothing
      /\ \A x \in Channels \ {ch} : PlanOf(x)' = PlanOf(x)
  BY <1>2, <1>3, SetDurationPlan
<1>5. time = t /\ (Counts(ch, one, time) <=> t > 0) /\ 1 - one = 0
  BY <1>1, <1>2 DEF TimeFor, Counts
<1>6. PlanOf(ch)' = p
  BY <1>4, <1>5
<1> HIDE DEF p
<1>7. Plans' = [Plans EXCEPT ![ch] = p]
  BY <1>4, <1>6, OnePlanChanges
<1>8. Time2' = [Time2 EXCEPT ![ch] = t] /\ quiet' = 0 /\ relay' = relay
  BY DEF ChannelConfig
<1>9. QED
  BY <1>7, <1>8 DEF Promise!Reconfigure, Plans, p

LEMMA TimeKept ==
  ASSUME IInv, TimePasses
  PROVE  Promise!TimePasses
<1>1. ASSUME NEW x \in Channels
      PROVE  PlanOf(x)' = [in |-> IF PlanOf(x).in > 0 THEN PlanOf(x).in - 1
                                  ELSE 0,
                           to |-> PlanOf(x).to, set |-> PlanOf(x).set]
  <2>1. /\ countdown[x] \in Slots
        /\ countdown[x].left \in Nat /\ countdown[x].since \in Nat
    BY DEF IInv, TypeOK, CountdownsOK, Slots
  <2>2. /\ countdown'[x].left = countdown[x].left
        /\ countdown'[x].target = countdown[x].target
        /\ countdown'[x].since =
             IF Runs(countdown, x)
                /\ countdown[x].since < countdown[x].left + MinPeriod
             THEN countdown[x].since + 1 ELSE countdown[x].since
    BY <2>1 DEF TimePasses, Slots
  <2>3. CASE Runs(countdown, x)
    <3> DEFINE in == IF countdown[x].since >= countdown[x].left THEN 0
                     ELSE countdown[x].left - countdown[x].since
    <3>1. PlanOf(x) = [in |-> in, to |-> countdown[x].target, set |-> TRUE]
      BY <2>3 DEF PlanOf
    <3>2. PlanOf(x)' = [in |-> IF countdown'[x].since >= countdown'[x].left
                               THEN 0
                               ELSE countdown'[x].left - countdown'[x].since,
                        to |-> countdown'[x].target, set |-> TRUE]
      BY <2>2, <2>3 DEF PlanOf, Runs
    <3>3. (IF countdown'[x].since >= countdown'[x].left THEN 0
           ELSE countdown'[x].left - countdown'[x].since)
          = IF in > 0 THEN in - 1 ELSE 0
      BY <2>1, <2>2, <2>3, TimeAssumption
    <3> HIDE DEF in
    <3>4. /\ PlanOf(x).in = in /\ PlanOf(x).to = countdown[x].target
          /\ PlanOf(x).set = TRUE
      BY <3>1
    <3>5. PlanOf(x)' = [in |-> IF in > 0 THEN in - 1 ELSE 0,
                        to |-> countdown[x].target, set |-> TRUE]
      BY <2>2, <3>2, <3>3
    <3>6. QED
      BY <3>4, <3>5
  <2>4. CASE ~Runs(countdown, x)
    <3>1. PlanOf(x) = [in |-> 0, to |-> 0, set |-> FALSE]
      BY <2>4 DEF PlanOf
    <3>2. PlanOf(x)' = [in |-> 0, to |-> 0, set |-> FALSE]
      BY <2>2, <2>4 DEF PlanOf, Runs
    <3>3. PlanOf(x).in = 0 /\ PlanOf(x).to = 0 /\ PlanOf(x).set = FALSE
      BY <3>1
    <3>4. (IF PlanOf(x).in > 0 THEN PlanOf(x).in - 1 ELSE 0) = 0
      BY <3>3
    <3>5. QED
      BY <3>2, <3>3, <3>4, Zenon
  <2>5. QED
    BY <2>3, <2>4
<1>2. \A x \in Channels :
        PlanOf(x)' = [Plans[x] EXCEPT !.in = IF @ > 0 THEN @ - 1 ELSE 0]
  <2> TAKE x \in Channels
  <2>1. PlanOf(x) = [in |-> PlanOf(x).in, to |-> PlanOf(x).to,
                     set |-> PlanOf(x).set]
    BY DEF PlanOf
  <2>2. Plans[x] = PlanOf(x)
    BY DEF Plans
  <2>3. PICK q : q = PlanOf(x)
    OBVIOUS
  <2>4. [q EXCEPT !.in = IF @ > 0 THEN @ - 1 ELSE 0]
        = [in |-> IF q.in > 0 THEN q.in - 1 ELSE 0, to |-> q.to, set |-> q.set]
    BY <2>1, <2>3
  <2>5. QED
    BY <1>1, <2>2, <2>3, <2>4
<1>3. Plans' = [x \in Channels |->
                  [Plans[x] EXCEPT !.in = IF @ > 0 THEN @ - 1 ELSE 0]]
  BY <1>2 DEF Plans
<1>4. quiet' = (IF quiet < MaxPeriod + 1 THEN quiet + 1 ELSE quiet)
  BY TimeAssumption DEF TimePasses, IInv, TypeOK
<1>5. UNCHANGED <<relay, Time2>>
  BY DEF TimePasses
<1>6. QED
  BY <1>3, <1>4, <1>5 DEF Promise!TimePasses, Plans

(* The timer carries out all the plans whose time it finds over.               *)
LEMMA TimerKept ==
  ASSUME IInv, CountdownTimer
  PROVE  \E due \in SUBSET Channels : Promise!CarryOut(due)
<1> DEFINE due == {x \in Channels : Over(x)}
<1>1. ASSUME NEW x \in Channels
      PROVE  /\ Over(x) => /\ PlanOf(x).set /\ PlanOf(x).in = 0
                           /\ PlanOf(x).to = countdown[x].target
             /\ PlanOf(x)' = IF Over(x) THEN Promise!Nothing ELSE PlanOf(x)
  <2>1. /\ LeftNow(x) \in Nat
        /\ ~Runs(countdown, x) => LeftNow(x) = 0 /\ countdown[x] = Free
        /\ Runs(countdown, x) /\ ~Over(x) => LeftNow(x) > 0
        /\ Over(x) => LeftNow(x) = 0
    BY LeftNowType DEF IInv
  <2>2. countdown'[x] = IF LeftNow(x) = 0 THEN Free
                        ELSE [left |-> LeftNow(x), since |-> 0,
                              target |-> countdown[x].target]
    BY DEF CountdownTimer
  <2>3. CASE Over(x)
    <3>1. PlanOf(x) = [in |-> 0, to |-> countdown[x].target, set |-> TRUE]
      BY <2>3 DEF PlanOf, Over
    <3>2. countdown'[x] = Free
      BY <2>1, <2>2, <2>3
    <3>3. PlanOf(x)' = Promise!Nothing
      BY <3>2 DEF PlanOf, Runs, Free, Promise!Nothing
    <3>4. QED
      BY <2>3, <3>1, <3>3
  <2>4. CASE ~Runs(countdown, x)
    <3>1. PlanOf(x) = [in |-> 0, to |-> 0, set |-> FALSE] /\ ~Over(x)
      BY <2>4 DEF PlanOf, Over
    <3>2. countdown'[x] = Free
      BY <2>1, <2>2, <2>4
    <3>3. PlanOf(x)' = [in |-> 0, to |-> 0, set |-> FALSE]
      BY <3>2 DEF PlanOf, Runs, Free
    <3>4. QED
      BY <3>1, <3>3
  <2>5. CASE Runs(countdown, x) /\ ~Over(x)
    <3> DEFINE n == LeftNow(x)
    <3>1. n \in Nat /\ n > 0
      BY <2>1, <2>5
    <3>2. /\ n = countdown[x].left - countdown[x].since
          /\ ~(countdown[x].since >= countdown[x].left)
      BY <2>5 DEF LeftNow, Over
    <3>3. PlanOf(x) = [in |-> n, to |-> countdown[x].target, set |-> TRUE]
      BY <2>5, <3>2 DEF PlanOf
    <3> HIDE DEF n
    <3>4. countdown'[x] = [left |-> n, since |-> 0,
                           target |-> countdown[x].target]
      BY <2>2, <3>1 DEF n
    <3>5. /\ countdown'[x].left = n /\ countdown'[x].since = 0
          /\ countdown'[x].target = countdown[x].target
      BY <3>4
    <3>6. Runs(countdown, x)' /\ ~(0 >= n) /\ n - 0 = n
      BY <3>1, <3>5 DEF Runs
    <3>7. PlanOf(x)' = [in |-> n, to |-> countdown[x].target, set |-> TRUE]
      BY <3>5, <3>6 DEF PlanOf
    <3>8. QED
      BY <2>5, <3>3, <3>7
  <2>6. QED
    BY <2>3, <2>4, <2>5
<1>2. Plans' = [x \in Channels |->
                  IF x \in due THEN Promise!Nothing ELSE Plans[x]]
  BY <1>1 DEF Plans
<1>3. relay' = [x \in Channels |->
                  IF x \in due THEN Plans[x].to ELSE relay[x]]
  <2>1. \A x \in Channels :
          (IF Over(x) THEN countdown[x].target ELSE relay[x])
          = IF x \in due THEN Plans[x].to ELSE relay[x]
    BY <1>1 DEF Plans
  <2>2. QED
    BY <2>1 DEF CountdownTimer
<1>4. \A x \in due : Plans[x].set /\ Plans[x].in = 0
  BY <1>1 DEF Plans
<1>5. UNCHANGED <<Time2, quiet>>
  BY DEF CountdownTimer
<1>6. due \in SUBSET Channels
  OBVIOUS
<1> HIDE DEF due
<1>7. Promise!CarryOut(due)
  BY <1>2, <1>3, <1>4, <1>5 DEF Promise!CarryOut, Plans
<1>8. QED
  BY <1>6, <1>7

(* What is resumed after a restart has no more time than was ever given.       *)
LEMMA RestartKept ==
  ASSUME PInv, PowerCycle
  PROVE  Promise!Restart
<1>1. IInv' /\ TimesWithin'
  BY PowerStep, TimesStep DEF PInv, Next
<1>2. ASSUME NEW x \in Channels
      PROVE  \/ /\ PlanOf(x)' = Promise!Nothing
                /\ ~(Time2[x] > 0 /\ relay'[x] = 1)
             \/ /\ relay'[x] = 1
                /\ \E d \in Durations \union Lights : \E t \in 0 .. d :
                     PlanOf(x)' = Promise!Plan(t, 0)
  <2> DEFINE t == RestoredTime(x)
  <2>1. CASE Resumes(x)
    <3>1. countdown'[x] = [left |-> t, since |-> 0, target |-> 0]
      BY <2>1 DEF PowerCycle
    <3>2. t > 0 /\ relay'[x] = 1
      BY <2>1 DEF Resumes, PowerCycle
    <3> HIDE DEF t
    <3>3. /\ countdown'[x].left = t /\ countdown'[x].since = 0
          /\ countdown'[x].target = 0
      BY <3>1
    <3>4. t \in Nat
      BY <1>1, <3>3 DEF IInv, TypeOK, CountdownsOK, Slots
    <3>5. PICK d \in Durations \union Lights : t <= d
      <4>1. Within(countdown'[x].left)
        BY <1>1 DEF TimesWithin, Within
      <4>2. QED
        BY <3>2, <3>3, <3>4, <4>1 DEF Within
    <3>6. Durations \union Lights \subseteq Nat
      BY TimeAssumption
    <3>7. t \in 0 .. d
      BY <3>4, <3>5, <3>6
    <3>8. Runs(countdown, x)' /\ ~(0 >= t) /\ t - 0 = t
      BY <3>2, <3>3, <3>4 DEF Runs
    <3>9. PlanOf(x)' = Promise!Plan(t, 0)
      BY <3>3, <3>8 DEF PlanOf, Promise!Plan
    <3>10. QED
      BY <3>2, <3>5, <3>7, <3>9
  <2>2. CASE ~Resumes(x)
    <3>1. countdown'[x] = Free /\ Time2'[x] = Time2[x]
      BY <2>2 DEF PowerCycle
    <3>2. PlanOf(x)' = Promise!Nothing /\ ~Runs(countdown', x)
      BY <3>1 DEF PlanOf, Runs, Free, Promise!Nothing
    <3>3. ~(Time2[x] > 0 /\ relay'[x] = 1)
      BY <1>1, <3>1, <3>2 DEF IInv, LightsCounted, Runs
    <3>4. QED
      BY <3>2, <3>3
  <2>3. QED
    BY <2>1, <2>2
<1>3. Plans' = [x \in Channels |-> Plans'[x]] /\ \A x \in Channels :
        Plans'[x] = PlanOf(x)'
  BY DEF Plans
<1>4. \A x \in Channels :
        \/ Plans'[x] = Promise!Nothing /\ ~(Time2[x] > 0 /\ relay'[x] = 1)
        \/ /\ relay'[x] = 1
           /\ \E d \in Durations \union Lights : \E t \in 0 .. d :
                Plans'[x] = Promise!Plan(t, 0)
  BY <1>2, <1>3, Zenon
<1>5. relay' \in [Channels -> {0, 1}]
  BY <1>1 DEF IInv, TypeOK
<1>6. quiet' = 0 /\ Time2' = Time2
  BY DEF PowerCycle
<1>7. QED
  BY <1>3, <1>4, <1>5, <1>6, Zenon DEF Promise!Restart, Plans

LEMMA PromiseInit == Init => Promise!Init
<1> SUFFICES ASSUME Init PROVE Promise!Init
  OBVIOUS
<1>1. \A x \in Channels : PlanOf(x) = Promise!Nothing
  BY DEF Init, PlanOf, Runs, Free, Promise!Nothing
<1>2. QED
  BY <1>1 DEF Init, Promise!Init

LEMMA PromiseNext == PInv /\ [Next]_vars => [Promise!Next]_(Promise!vars)
<1> SUFFICES ASSUME PInv, [Next]_vars
             PROVE  Promise!Next \/ UNCHANGED Promise!vars
  OBVIOUS
<1> USE DEF PInv
<1>1. ASSUME NEW ch \in Channels, NEW v \in {0, 1},
             NEW d \in Durations \union {0}, ServerSet(ch, v, d)
      PROVE  Promise!Next
  <2>1. Time2Left[ch] \in Nat
    BY DEF IInv, TypeOK
  <2>2. Promise!Request(ch)
    BY <1>1, <2>1, RequestKept DEF ServerSet
  <2>3. QED
    BY <2>2 DEF Promise!Next
<1>2. ASSUME NEW ch \in Channels, NEW hi \in {0, 1, 255}, Switch(ch, hi)
      PROVE  Promise!Next
  <2>1. PICK v \in {0, 1} : v = SwitchedTo(ch, hi)
    BY DEF SwitchedTo, IInv, TypeOK
  <2>2. PICK none \in Nat : none = 0
    OBVIOUS
  <2>3. Order(ch, v, none, none) /\ none \in Durations \union {0}
    BY <1>2, <2>1, <2>2 DEF Switch
  <2>4. Promise!Request(ch)
    BY <2>3, RequestKept
  <2>5. QED
    BY <2>4 DEF Promise!Next
<1>3. ASSUME NEW ch \in Configured, NEW t \in Lights \union {0},
             ChannelConfig(ch, t)
      PROVE  Promise!Next
  <2>1. ch \in Channels
    BY ChannelAssumption
  <2>2. Promise!Reconfigure(ch)
    BY <1>3, <2>1, ConfigKept
  <2>3. QED
    BY <2>1, <2>2 DEF Promise!Next
<1>4. CASE CountdownTimer
  BY <1>4, TimerKept DEF Promise!Next
<1>5. CASE SaveTimer \/ UNCHANGED vars
  <2>1. UNCHANGED <<relay, countdown, Time2, quiet>>
    BY <1>5 DEF SaveTimer, vars
  <2>2. Plans' = Plans
    BY <2>1 DEF Plans, PlanOf, Runs
  <2>3. QED
    BY <2>1, <2>2 DEF Promise!vars, Plans
<1>6. CASE PowerCycle
  BY <1>6, RestartKept DEF Promise!Next
<1>7. CASE TimePasses
  BY <1>7, TimeKept DEF Promise!Next
<1>8. QED
  BY <1>1, <1>2, <1>3, <1>4, <1>5, <1>6, <1>7 DEF Next

(* The handlers, timers and restarts implement the plans: a relay changes only *)
(* by a request, a restart, or the plan the last request left for it, never    *)
(* before the time of that plan.                                               *)
THEOREM KeepsThePromise == Spec => KeepsPlans
<1>1. Init => Promise!Init
  BY PromiseInit
<1>2. PInv /\ [Next]_vars => [Promise!Next]_(Promise!vars)
  BY PromiseNext
<1>3. QED
  BY <1>1, <1>2, PInvariance, PTL DEF Spec, KeepsPlans, Promise!Spec
================================================================================
