# TLA+ models of the SUPLA ESP firmware

This directory holds a formal model of parts of the firmware in this
repository: the modules that say what the code does, the TLC runs that check
it on small instances, and the theorems TLAPS proves for every instance.
`PROJECT.json` lists components, runs, mutants, findings, hazards and theorems,
and maps every definition to the lines of code it models.

Parse with `tlasany M.tla`, check with `tlc -config X.cfg M`, prove with
`tlapm M.tla`.

## The system

The firmware runs on an ESP8266.  There is one event loop: timers, GPIO
interrupts (which only arm timers), and callbacks of the network stack.  No
handler is interrupted by another, so in the models **one handler is one
step**; concurrency is the order in which handlers run, and the state they leave
for each other.  What makes this hard is that the same few structures are
driven by everybody (buttons, server, MQTT, timers, configuration), that most
work is deferred to timers armed earlier, that the power may be cut between any
two handlers, and that times come from a 32-bit microsecond clock.

| Component | State it keeps | Operations | Hard behaviour | What makes it correct |
| --- | --- | --- | --- | --- |
| Motor relays (`supla_esp_gpio.c`, `supla_esp_rs_fb.c`) | two relays, `start_time`, `stop_time`, `delayed_trigger` | `relay_hi`, `rs_set_relay`, `rs_set_relay_delayed` | delayed requests against newer ones; wrap of the clock | never both relays; a pause before a start; a pending request is the last one |
| Roller shutter (`supla_esp_rs_fb.c`) | position, running times, task, calibration step, flags, configured and measured times | 10 ms timer, `add_task`, `apply_new_config`, `apply_new_times`, calls of buttons and server | a user in the middle of a calibration; new times; power cuts; sensors | position is the real one; calibration is whole, ends and never hangs; tasks end; the motor stops |
| Facade blind (same file) | and the tilt | three ways to tilt | tilt and position share one running time | both are reached, in order |
| Countdown timers (`supla_esp_countdown_timer.c`) | slots with time left and target, one timer | `countdown`, `disarm`, timer | the finish callback runs inside the loop; saved time | every countdown ends once, never early |
| Relays and staircase timers (`supla_esp_gpio.c`, `supla_esp_devconn.c`) | relay states, `Time2`, `Time2Left` | switch, set value, restore, reconfigure | restore after a restart | a staircase light never stays on |
| Inputs (`supla_esp_input.c`) | debounce and click counters per input | timer, actions | clicks, holds, configuration mode share counters | no action twice or lost; configuration mode reachable |
| Server connection (`supla_esp_devconn.c`) | espconn, srpc, buffers, timers, registration | connect, register, iterate, watchdog, delayed stop and reconnect | stale timers and DNS answers | registered again after every failure |
| DNS client (`supla_esp_dns_client.c`) | one query | resolve, receive, time out | late and double answers | one result per query |
| srpc / proto (`supla-common`) | queues, buffers | iterate, in/out push and pop | partial packets, full queues | packets whole and in order |
| Flash (`supla_esp_cfg.c`) | two sectors, one save timer | save, save delayed, load | power cut between erase and write | a restart finds a valid sector |
| MQTT client (`supla_esp_mqtt.c`) | connection and publications | publish, subscribe, reconnect | full buffers | every change is published |
| Firmware update (`supla_update.c`) | step, download, flash | look for one, download, write, verify, restart | it disarms the watchdog, then fails | a restart, whatever fails |
| Configuration mode, sensors, boards, LED | | | mostly input and output | |

How they interact: inputs call the relays or the roller shutter
(`supla_esp_gpio_on_input_active`); the server's calls enter through
`supla_esp_srpc_on_remote_call_received` of `supla_esp_devconn.c`, which calls
relays, shutters and countdown timers; these report back by
`supla_esp_channel_value__changed`, which puts a packet into srpc; everybody
writes `supla_esp_state` and `supla_esp_cfg` and has them saved.

## What is modelled

### Motor, MotorRelays (the relays of one motor)

`Motor` is the abstract specification: two contacts, never closed together, and
each closed only after both have been open for a pause.

`MotorRelays` is `supla_esp_gpio_rs_set_relay` over the clock as it is: `now`
counts modulo `ClockWrap`, `start_time` and `stop_time` use 0 for "not set", and
the comparisons are those of the code.  `motor` holds the relays and the two
times, `trigger` is `delayed_trigger`.  `rest` and `wrapped` are history: how
long both relays have really been low, and whether the clock passed zero
meanwhile.  The 10 ms busy wait between lowering one relay and raising the
other is part of the step.

### RollerShutter (one roller shutter or facade blind with everybody who moves it)

`rs` is the record of the shutter: `supla_roller_shutter_cfg_t`, the fields of
`supla_esp_cfg` and `supla_esp_state` it points to, and under `flash` what a
restart would find.  `real` is the real position and tilt.  Handlers are operators
from `rs` to the next `rs`, composed as the functions of the code call each other:
`SetRelay` is `set_relay` with its abort of a calibration, its cancelling, its
delayed trigger; `TimerCb` is the 10 ms timer: times are selected, the motor
checked, the calibration stepped, position and tilt moved (`PositionMoved`), the task
processed (`TaskProcessed`: first the position, then the tilt), the server told.
Actions: three kinds of buttons and the end of a hold
(`supla_esp_gpio_on_input_active`/`inactive`, `supla_esp_input_send_action_trigger`),
the requests of the server (`supla_esp_channel_set_value`, which always sets the
times first), recalibration (with and without times, and over MQTT), the
configuration of the channel (direction, margin, times and way to tilt, which also
makes a blind of a shutter and back), a power cut, the delayed trigger and the tick.

`Shutters` is the set of shutters looked at in a run, each with its real times, its
sensor, the times, margins and ways to tilt that may be configured, and the callers
it has: one run asks the same question of several kinds (`AnyConfiguration`,
`RightTimes`, `Settling`).

Abstractions:

* A tick is the period of the timer, and clock times are ages counted in
  ticks; they do not wrap (`MotorRelays` has the clock) and saturate where the code
  no longer tells them apart.  The timer of a delayed trigger may be late,
  and fires between any two ticks once it is due.
* Position and tilt are 0 when unknown and otherwise 1 to N + 1, for 0 and 100 to
  10100 of the code; running times count N to a tick, so that the arithmetic
  is that of the code with whole numbers.  The code's rounding to 0.01 % is not
  modelled.  With it goes a fault of the code: in the type "change" the time
  used for the tilt is overwritten by that used for the position (line 417), and
  what is left over counts again for the tilt.
* Real times are whole ticks, and the tilting time is shorter than the full one in
  the runs.  Where it is not, the code's difference of the two wraps (line 362), which
  `TravelTime` says with `TimeWrap`; the theorems hold for those blinds too.
* The sensor (`supla_esp_board_is_rs_in_move`) is a function of each board.  It is
  absent, ideal, or answers anything at every tick.
* A blind is built as its configuration says; its slats turn before it moves
  ("keep"), while it moves ("change"), or only when it is closed.
* Opening and closing take the same time in reality; configured and measured times
  are kept apart per direction.

### TimedSwitch, TimedRelay (relays that are switched for a time)

`TimedSwitch` is the promise: every channel is on or off and has at most one plan,
the one its last request left, with a time and the value to take then.  A channel
changes by a request, at a restart, or by its plan when its time is over; a
restart may bring back anything but a staircase light without a plan to switch
it off, or a plan for a channel that is off.

`TimedRelay` is the code of it.  `countdown` is the table of slots of
`supla_esp_countdown_timer.c`, `timer` its only timer with the period chosen by
`startstop`, `Time2` the staircase times of `supla_esp_cfg`, `Time2Left` those of
`supla_esp_state`, `flash` the state sector and `save` the delayed save.
`Order` is the common end of the two handlers that switch a relay: the value from
the server (`ServerSet`: `supla_esp_channel_set_value`) and buttons and sensors
(`Switch`: `supla_esp_gpio_relay_switch`, which forgets the time left first).
`SetDurationTimer` is `supla_esp_gpio_relay_set_duration_timer` with the disarming
and the start of the countdown.  The other actions are a new configuration of the
channel (`ChannelConfig`), the timer callback with all countdowns it finds over
(`CountdownTimer`), the delayed save (`SaveTimer`), a power cut with the start after
it (`PowerCycle`), and time.

The refinement (`KeepsPlans`) maps a slot to a plan whose time is what is left
less the time since the timer looked last.

Abstractions:

* One relay per channel, and slots are found by channel; which index a slot has is
  left out, how many there are is not (`SlotCount`, `RELAY_MAX_COUNT` of the code).
* A unit of time is any; a timer that is due fires before time goes on, so that
  what is checked is the choice of periods and not the latency of the event loop.
* `since` stops at `left` plus one short period, where nothing tells it apart any
  more; `quiet` is history: the time since anybody asked for anything.
* `Counting` channels (`SUPLA_CHANNEL_FLAG_COUNTDOWN_TIMER_SUPPORTED`) can also be switched on
  after a time.  A relay gets the flags of its channel when the device registers, so
  that a restart resumes no such countdown (`Resumes`); that after a restart no request for one
  comes before the device has registered is taken for granted, as the server sends it.
  What the lost countdown leaves is a fault of the code: its time stays in
  `Time2Left` (`Stale`), and if the server then switches the relay on for good, the next restart
  counts the relay down and switches it off.
* `PowerCycle` is a loss of power, where relays that are not restored come up low.
  A soft restart, relays of motion sensors (not restored but set by their input)
  and boards that keep countdowns elsewhere (`BOARD_COUNTDOWN_TIMER_SAVE_DELAY_MS`)
  are not modelled.
* The configuration sector is written at once, the state sector by `SaveTimer`;
  both writes are atomic here.

### DnsClient, FirmwareUpdate, DevConn (the connection to the server)

`DnsClient` is `supla_esp_dns_client.c`: one record and the operators that give its
next value.  `DevConn` makes steps of them and of everything else that keeps the
device online: the Wi-Fi station with its polled status (`CheckStatus`), the
resolver of the SDK and the device's own, TCP with its callbacks, registering,
pings and the activity timeout (`Timer1Fires`), the watchdog (`WatchdogFires`), the
delayed stop and reconnect, the configuration mode and the firmware update as far
as they stop the connection, and the restart of the device.  `dev` holds
`devconn_params`, `wifi` `supla_esp_wifi_vars`, `dns` `dns_client_vars`; `net` is what
SDK and network owe: an open or a half-open connection, a disconnect callback to
come, an answer of `espconn_gethostbyname` pending or never to come.  Which timers
run is said by the state: iterate while `srpc` exists, timer1 while started, the
watchdog in mode "run" until an update starts.

`upd` is the record of `FirmwareUpdate`, which is `supla_update.c`: `update_params`,
`update_step`, the firmware that runs (`image`), and how far the answer of the update
server has come.  The answer is a header and a file of a few units; segments of
any lengths bring it (`FirmwareArrives`), `After` is what the receive callback makes of
one, with the offset it computes for a header in two segments.  The update has a
connection of its own, and goes on in the configuration mode.

Abstractions:

* A tick is a second.  `Tick` waits until every timer that is due has fired, and for
  the network at most `Latency` ticks: the event loop is never a second late.
  What fails is a `Fault`: a lost network or connection, an answer that never
  comes, a refusal, the configuration mode, a power cut; their number is bounded, their moment free.
* A failure of `srpc_iterate` restarts the device (`supla_esp_devconn.c:1637`); here, where
  calls do not fail, that is one more `PowerCut`, and `Link` has its cause.
* Calls are sent and answered in one step each; `Link` has what lies in between.
* `uptime_sec` is taken for the time; `silence`, `quiet` and `challenge` are ages of
  `last_response`, `last_sent` and `next_wd_soft_timeout_challenge`.
* The signature is right or wrong (`signed`) for the file as it was sent, and wrong for
  anything else.  What a received length below zero copies is any amount.
* The access point is opened by the button, or by the server, which arms the 5
  minutes (`leave`); a browser that connects (`ApVisited`) disarms them.  The form it
  fills in is left out: `LeaveCfgMode` is its restart.
* `Latency < ActivityTimeout /\ Latency < ServerTimeout` is assumed (the first
  answers come within a second or two, `ACTIVITY_TIMEOUT` is 10): with a slower
  network the timeout would be agreed on when it has already passed, and
  `ServerHears` fails.
* `ReconnectDelay < JoinTime` is assumed: a station that joins its network within the
  2 s of `RECONNECT_DELAY_MSEC` could be thrown off it by the reconnect of a late
  disconnect callback again and again.

### Link (calls on their way)

`Link` has the buffers and queues a call crosses: `recvbuff`, the in buffer of sproto,
`in_queue`, `out_queue`, the out buffer, `esp_send_buffer`.  A packet is a run of
cells, and TCP cuts between any two.  `srpc_iterate` is one step up to the handler
(`In`), the handler (`Handles`, or `HandlerStops` when it stops the connection),
and the rest (`Out`), because the handler may free what the rest uses.  A segment
that does not fit is dropped, a failure of `srpc_iterate` restarts the device
(`Reset`), and a new connection finds what the last one left in `recvbuff` and
`esp_send_buffer`.

Abstractions: the header is part of the first cell, so a wrong tag is a cell that
is not the first; the content of a packet, versions and checks of sizes are left
out; the server sends what `Inbound` lists, once per connection.

### Input (buttons, switches and the configuration mode)

`pin` is the level of the pin and its debouncing (`supla_esp_input_debounce_timer_cb`,
started by the interrupt in `Edge`), `btn` the click counter with its timer in both
ways of handling an input, legacy and advanced, with the active triggers, `sys` the
modes of the device.  The debounce callback is split after its last reading of the
pin, because the interrupt may come in between.  Reports go to `user.told`.
`user` is history: what was clicked, as a counter of presses sees it, and what the
device made of it.

Abstractions: a tick is `INPUT_CYCLE_TIME`; both timers of a tick fire in any order;
`CfgMode` is entered at once (the access point comes a second later and changes
nothing here).  A counter stops at `PressCount`.  Not modelled: motion sensors, an
input that only tilts, `INPUT_TYPE_CUSTOM`, `supla_esp_restart_on_cfg_press`, and the
triggers `TURN_ON` and `TURN_OFF`, which go out with the level and keep no state.

### Mqtt (the state of the device at the broker)

`Mqtt` is `supla_esp_mqtt.c` over the part of `mqtt.c` it depends on: the error that
makes `mqtt_sync` reconnect, the queue of messages, sending in order.  `pub` is the
publication pool `publish_idx` with `publish_next`, the hold and the subscription index.
`val` is the state of the device by topic, `kept` what the broker holds.

Abstractions: QoS 1; messages have no length, the queue and the SDK take a number of
them; the network answers before the next tick unless that is a `Fault`.  Sending
again after 30 s, QoS 2, messages from the broker, and a message split over two
segments are not modelled.

## Runs

Delays are scaled down in their order; three or four ticks for the whole travel are
enough for a movement to be interrupted at its beginning, in its middle and at
its end, and one step of the position to a tick makes the estimate exact, so
that `PositionAgrees` needs no tolerance.

| Run | Shows | Bounds |
| --- | --- | --- |
| `MotorRelays` | `Interlock`, `PendingMatchesMotor`, `PauseKept` on the wrapping clock, and no request waits longer than its delay (`TypeOK`) | delays of 6, 4 and 2 units, a clock of 16: every delay passes once without and once with a wrap |
| `RollerShutter` | no callers' sequence breaks the interlock or the pause (`MotorSafe`: refinement of `Motor`), moves a quiet shutter (`QuietStays`) or keeps a position with other times (`TimesVoidPosition`) | two steps of position, no real motor; a roller shutter with all local callers, configurations, swaps of the direction and power cuts, and a blind of each type |
| `RollerShutterTracks` | position and tilt are the real ones (`PositionAgrees`), automatic calibration measures the real times (`MeasuredAgrees`) without false alarms (`NoFalseAlarm`), a task leaves the shutter where it was asked to (`TaskReaches`) | four steps; a shutter with given times, one with an ideal sensor, a blind of each type, with half-turned slats; with a sensor no power cuts (a cut between the two measurements brings half a calibration back: hazard at `supla_esp_rs_fb.c:1109`) and no two changes of times between two ticks (hazard at line 832), which `OneRetimingPerTick` leaves out |
| `RollerShutterSettles` | after at most three requests the task ends, calibration ends, the motor stops, the server knows; calibration never hangs between its steps | given times, blinds of each type, or a sensor that answers anything; the server is told every second tick at most, which is shorter than the pause before a start, as 200 ms are in the code: a change in the tick after a report is held back, and the motor may have stopped by then; three requests, enough to start a calibration, break into it and start another; neither the end of a hold nor a swap of the direction, because each leaves a task behind that never ends (hazards at `supla_esp_input.c:648` and `supla_esp_rs_fb.c:1178`) |
| `RollerShutterEnd` | **finding**: a facade blind that becomes a roller shutter keeps its tilt, and at its end the motor runs on | a blind with its slats half turned, buttons and the configuration |
| `RollerShutterStored` | **finding**: a task put off by automatic calibration is neither resumed nor ended | an ideal sensor, times given and taken away, two requests |
| `TimedRelay` | the plans are kept (`KeepsPlans`: refinement of `TimedSwitch`), a light that is on is counted down, one timer is fast enough (`Punctual`), restarts bring back the relays (`RestartKeepsRelay`), resume the countdowns of all relays that are on with no less time than is left and start no others (`RestartKeepsCountdown`, for channels that are not configured at run time: see the hazard at `supla_esp_devconn.c:2013`) | two restored channels, one configured at run time, the other a switch or a staircase light that can count while it is off, so that a countdown is lost at a restart and its time goes stale; a time of the long period and one of the short one, so that the timer changes its period in both directions; a power cut at every point of the delayed save |
| `DevConn` | the device is online again once failures stop (`Recovers`), an open question to a resolver has somebody who answers (`ResolverAlive`), the server hears in time (`ServerHears`), a file that arrives whole becomes the firmware (`UpdateLands`) | any two faults at any two moments, of which the second may hit the recovery from the first; timeouts and delays in the order of the code; the soft watchdog before the restart, as on the boards that have 90 s for the latter (`board/inCan.h:52`, `board/rs_module.h:30`), so that both act: by the defaults (`supla_esp.h:396`, 65 s and 60 s) the soft one never does and the restart is all there is, with which (`Soft = 8`) the run passes as well; the server's timeout differs from the device's, so that both are in force; an answer of 5 units in segments of 1 and 3, a refused one, and one that fills its sectors: a segment ends in every place of header, sector and file |
| `Link` | handlers get whole packets, once, in order (`InOrder`) and in the end (`Delivers`), the server gets whole packets (`WholePackets`), as long as no buffer spills | two packets in, three out, buffers that hold one packet and a piece: every buffer and queue fills and overflows |
| `LinkInUse` | **finding**: a handler frees the session `srpc_iterate` goes on to use | same |
| `Input` | the level is known (`LevelKnown`), clicks and holds are taken for what they were (`SaysWhatWasClicked`), the configuration mode opens only after a long press or all clicks (`Deliberate`) and does not end with the press that opened it (`EntryPressStays`) | a button that opens the mode when held, one also when clicked, a switch of a shutter; triggers for single clicks, for holds and double clicks, and none, as far as the input has them (the first all, the second holds and double clicks, the switch double clicks); three clicks open the mode.  Two changes of the level are handled at least three ticks apart, and a count goes on for up to four (`Multiclick`, 120 ms and 300 ms in the code), so that double and triple clicks are counted, reported and open the mode in both ways of counting, and clicks that come too late begin anew |
| `Mqtt` | no change is forgotten (`Fresh`), the broker comes to hold what the device settles in (`Recovers`) | two topics, one of them the device's own, a queue of two, any two faults |

`TaskReaches` allows a blind one step: the motor runs for one tick more between
position and tilt.  It speaks of tasks that end by themselves under times that stay,
and not of a blind of the type "change" asked for a position so near an end that
the correction for the slats is cut (`Room`).  `MaxRun`, the limit of 10 minutes, is
longer than any movement the runs ask for, except in `RollerShutterEnd`, where
the motor is still on when it should long have stopped.

What the passing properties except, they except because the code fails there, and
the hazard at that line says so: the wrap of the clock (`PauseKept`), the time a lost
countdown leaves behind (`RestartKeepsCountdown`), an edge nobody
looks at (`LevelKnown`), a count carried over between two ways of counting
(`Deliberate`, `SaysWhatWasClicked`), the mode opened by the server during a press
(`EntryPressStays`), spilled buffers (`InOrder`, `WholePackets`), a header of the update
in two segments (`UpdateLands`), an update that gets stuck with the watchdog disarmed
(`Stranded` in `Recovers` of `DevConn`), and a client that starts in the first second of
the device and is not watched (`Recovers` of `Mqtt`).

**Fairness.**  The event loop runs its timers.  In the roller shutter that is `Tick`
infinitely often, and the delayed trigger when it is due.  `MCRollerShutterLive` says
it of a parity bit of the ticks and of the trigger, which means the same as weak
fairness of the whole actions and which TLC evaluates much faster, because `ENABLED`
of `Tick` is as expensive as the handler.  Requests are bounded by `MaxAsks` and have
no fairness: nobody has to press a button.

`DevConn` and `Mqtt` ask for no single event: weak fairness is on the whole next-state
relation (in `Mqtt` without the changes of values), and it is `Tick` that waits
for what is due and bounds what the network may take.  Faults are bounded in
number, so that "once failures stop" is every behaviour.  `Link` has weak fairness of
the iterate timer and of both parts of `srpc_iterate`, which run to their end, and
strong fairness of `Receives`: TCP delivers when the device looks often enough.
No buffer is promised to empty by itself.

`TimedRelay` and `Input` need no fairness: that a plan is not forgotten is the
invariant that a running countdown has an armed timer (`TypeOK`), and how late it may
be is `Punctual`, which holds once requests have ceased for one long period.  Before
that it would be false: `startstop` arms the timer anew whenever the period changes,
so that requests alternating between two periods put it off.

Deadlock is checked in all runs.

## Proofs

`MotorRelays_proofs` proves for all delays and every width of the clock what the
run `MotorRelays` checks.  The inductive invariant `IInv` adds `ClockInv` to the type
invariant and the properties: `start_time` is 0 while both relays are low,
`stop_time` is 0 while one is high, and as long as the clock has not passed zero,
`now` is at least `stop_time` plus `rest`.  Without the last part a start would
not know that the time it computes is the real one.  The argument goes by
operation: a lemma for `RelayHi`, one for the two waits, one for lowering the
opposite relay; one lemma per branch of `set_relay` (`StopStep`, `StartStep`); then
the steps of `Next`.  The only assumption is `DelayAssumption`: the busy wait and the
threshold together are not longer than the pause, and the clock is wider than
the busy wait.

`TimedRelay_proofs` proves for every number of channels, all times and periods that
the timer is armed whenever a countdown runs (`TimerWatches`), that a staircase light that
is on is being counted down to off (`NoLightLeftOn`), and that with no save pending the
flash has every restored relay as it is (`RelaysSurvive`).  The inductive invariant
needs two things more: the countdown of a staircase light leads to off even while
the light is off (a new configuration starts one then), because otherwise the timer
could switch it on unguarded (`LightsGoOff`); and relays that are not restored are 0
in the flash (`NotSaved`), because they come up without a countdown.  Lemmas: a set of times
has a smallest one (the library's well-foundedness of the naturals), so that
`PeriodOf` is the period of a running countdown; `startstop` leaves the timer armed; there is
a slot for every channel (cardinalities), so that no countdown is refused; and what
`SetDurationTimer` leaves.  Then one lemma per handler.

Two theorems stand on this invariant.  `CountdownsSurvive`: with no save pending a restart
resumes the countdown of every relay that is on, with no less time than is left of it, and
starts none that does not run, of every restored channel that is not configured at run time.
The exception is a stale time (`Stale`), of `Counting` channels only.
What makes it inductive (`KeptInv`) is, per
channel, that the time in the state is the one its slot has left, or stale (`LeftIsCounted`),
that only a relay that is on or `Counting` is counted down and has a time saved (`OnIfCounted`,
`SavedIfCounted`), and that the flash has a time exactly if the state has one, and no less,
unless a save is pending (`SavedIsLeft`).  `LooksInTime` (`Punctual`): the period in force
is short enough for every countdown (`OftenEnough`), and each was looked at since
the timer was armed, or else something was asked for since; so that
after one long period without a request only the first remains.

The refinement, `Spec => KeepsPlans` (`KeepsThePromise`), comes last: it adds that no time
left, in RAM or in flash, exceeds one that was ever asked or configured
(`TimesWithin`), which the restart of the abstract specification demands, and shows
handler by handler which abstract step it is; the delayed save is a stutter.

`RollerShutter_proofs` proves the refinement of `Motor` by everything that moves a
shutter (`MotorIsSafe`), for all delays, distances, times and kinds of shutters.  The
inductive invariant is small: one relay at most is on, and the ages tell since when
it is, or since when none is (`AgesTell`).  What is large is the step: the timer
alone makes up to a dozen calls one after the other.  So the lemmas speak of calls:
each is `Aside` (it leaves the relays and the trigger alone) or it `Leads`: it leaves them
as they are, opens both, or closes one that was open for the whole pause.  `Leads` is
transitive (`LeadsTwice`), because what a call has opened is too young to be closed in the
same step; a step of `Next` is a chain of such calls, and a chain that leads is a
step of `Motor`.  `QuietRemains` uses the same lemmas with
`Unasked`: a tick without a task, calibration and pending start closes no relay.

`TypeCorrect` bounds every field by what it is computed from: a position is left at 0
(unknown) or between its ends by `PositionMoved` because the step a motor has made is
cut there, the times left over are counted down and never below zero, and a task is
only ever given values of 0..100 %.

`AutocalGoesOn` and `TimesVoid` are about automatic calibration, with the types and
`AgesTell` as their base.  What makes them inductive (`Calibrating`) is that while
calibration runs or is wanted there is no position, that given times leave no measured ones,
and that a measured position has its times (`Based`): a shutter that believed to be open
would not be driven up.  And in each step (`Steady`) the motor runs in its direction or has
a pending start of its own, the way measured so far is the one the step says, and the
way down was measured in whole ticks, so that no time just measured is beyond 110 % of
itself.  Both theorems have two hypotheses, each one a hazard the runs leave out too:
a shutter that calibrates itself has no power cut and no swap of its direction
(`Undisturbed`: `supla_esp_rs_fb.c:1109`, half a calibration in the flash, and line 1178), and its
times do not change to given ones and back within one tick (`OneRetimingPerTick`, line 832).
`TimesVoidGiven` has none of them: for shutters with given times the position goes with the
times whatever happens and whenever.

`RollerShutterEstimate_proofs` is about what the shutter believes.  `PositionIsReal`
is for given times.  The code adds up running times and takes from
them whole steps of position and tilt; the theorem says that what comes out is the real
position, whatever the buttons, the server, tasks, recalibrations, new configurations,
changes of the direction and power cuts did before.  The invariant (`Tracked`) says of a known
position that it agrees and that no run is left over that was not made (`Fits`, `Counts`), of an
unknown one that the way to the end and the run so far together are no longer than the full time,
so that a run of 110 % ends at the end wherever it began; and that the flash has the
position and times of the RAM (`Stored`), which is what a power cut needs.  The hypothesis
(`Right`) is about the shutter: its given times, if it has any, are the real ones, and a tick is
a whole number of steps of what moves in it (with 10000 steps and ticks of 10 ms:
10 or 20 s of travel, slats of 1 s).  Without it the estimate is off by what is lost in
divisions, and no such statement holds.  Slats that turn while the blind moves turn no slower
than it travels, and the channel is not turned into another kind (`convert`, a finding).

`MeasuresRight`, `AlarmsRight` and `PositionMeasured` are for automatic calibration: the
times it measures are the real ones, no alarm is raised by a sound motor, and
the position estimated with these times is the real one.  The hypothesis (`Sensed`) is again about the
shutter: its sensor is ideal (it sees the motor until the end is reached, and any run for one tick), it is
no facade blind, the times the server may send are none or the real ones, a tick is a whole number of
steps, and the limits of the code leave room: the way takes at least `MinTime` and `FilterTime`,
at most `MaxTime` and `MaxRun`, the last tick of it is within `NearEnd` percent of the
end, and the margin is not 0, because with none a task that has just reached the end can find the motor
still seen and take the position for lost.  The shutter of `RollerShutterTracks` that calibrates itself
satisfies it.  The two restrictions of `AutocalGoesOn` remain.

None of the three is inductive alone, and none without the others: a measured time is right
because the run that was counted began at an end, which is so because the sensor saw the
motor before, which was counted from the moment it was seen.  The invariant is `Senses` and
`Measuring`.  `Located`: an unknown position is no farther from an end than the rest of the way, so that
a run to the end is never cut short; `Measuring`: from the second step on, what was counted
is the way so far, and the sensor has seen the motor; `Noticed`: while a shutter that
measured its times moves, its sensor has seen it, or it has only just started; `Rested`: a motor that has
just started has not run, which the code owes to the timer that clears the time of a
motor at rest and to the pause before every start; `Heads`: no task drives on where there
is no room left, so that the last check of a task finds its shutter at the end; `Silent`: there was no alarm yet.
A tick is followed through the timer: what is counted (`Turns`, `TurnsRun`), the
position that comes of it (`FreeRunSenses`, `CalibratingSenses`, `StandingSenses`), and then
calibration, task and report, which `Respects` it: they move nothing and keep or forget
position and times, and so does every request, which is the same lemma for all of them.

`DevConn_proofs` has an inductive invariant of parts that know little of each other.
`DnsGood` and `UpdGood` are about the records of `DnsClient` and `FirmwareUpdate`, with
one lemma per operator.  `Awaited`: who resolves is owed an answer, which is
`ResolverAlive` together with `DnsGood`.  `UpdGood` counts the bytes: what was written and what waits in
the buffer is no more than what came after the header, and exactly that as long as
the header came in one segment, so that the last segment of a file completes it (`CompleteFileLands`).
`SpeaksInTime` is what makes `ServerHears` inductive: in the second in which the device
would be late, `timer1` has still to run; it needs that a question is
younger than the network is slow (`Linked`).

`Link_proofs` looks at a stream as a whole: `Incoming` is everything between the server
and the queue, `Outgoing` everything between the queue and the server.  Inwards, as long as nothing
was lost, the handled packets are 1, 2, ... and `Incoming` is a run of the server's cells
that goes on with the next one and ends with the last that was sent.  Outwards, as long as
nothing spilled, the cells ascend (`Ascends`), and what is in the buffers ends with a
whole packet that comes before all that are queued (`Closed`).  TCP and the buffers only
move a boundary inside these sequences, so that most steps leave them equal;
the lemmas are about appending a packet and taking one off.  The sizes of packets,
buffers and queues are any.

`Input_proofs` needs the longest invariant, because what the device says of clicks
depends on two timers that run at the same time.  `PinInv` ties the reading of the pin
to the pin, `AgeInv` the age the device keeps to the real one (they are equal while
the input is active, and a change is handled no sooner than two ticks after the
one before), `TriggerInv` what was made of the triggers, `CountInv` says that a count
is young or held and that a complete one is reported in the next tick, `ClickInv` and
`HoldInv` that the device never counts more than there was, `SaidInv` is the property
with what is still to be said.  The two action properties (`OpenedDeliberately`,
`EntryDoesNotLeave`) follow from it and `ModeInv`.

`Mqtt_proofs` cuts the queue of messages into those that are done, sent and unsent
(`Cut`), the first ones read by the broker: the answers on their way in and then the send
buffer are, in this order, the messages that were sent.  `Tells` says what `Fresh` says
of the messages that the broker has not read yet, by their place in the queue; it is
asked only of topics outside the pool, because a topic comes back to the pool by a
change of its value.  One lemma for each step inside `mqtt_sync` - reconnecting, sending, the
ping, cleaning the queue, publishing and subscribing, taking answers - and one for each action.
`Fresh` follows because the greatest index about a topic is the last message about it.

Assumptions: `SlotAssumption` (as many slots as channels: `RELAY_MAX_COUNT` bounds
the relays too), `TimeAssumption` (times are positive, the short period is not
longer than the long one) and `ChannelAssumption`; `ConstantAssumption` of `RollerShutter`
(`MinDelay`, the threshold of a delayed start, is positive and at most `StartDelay`;
`MinTime`, the shortest way calibration accepts, is positive, as 0 means "not measured");
`DevConnAssumption`, `LatencyAssumption`, `DnsAssumption` and `FirmwareAssumption` (no file is longer
than one unit over the space, where all longer ones are refused alike);
`LinkAssumption` (no packet and no buffer is empty); `InputAssumption` (a double click is shorter than
a hold, a hold shorter than the press that opens the configuration mode, triggers count
no more clicks than the counter has); `MqttAssumption` (the queue takes a message, the
retry is shorter than the watchdog).  The numbers of `supla_esp_cfg`, `supla_esp.h` and of the
sources satisfy them; TLC evaluates each on every run.

Only model-checked are

* liveness: `Recovers` of `DevConn` and of `Mqtt`, `Delivers`, and what
  `RollerShutterSettles` shows, because it needs `ENABLED` and fairness;
* `TaskReaches`, which holds under the times of its run and not for all constants: the
  timer looks once a tick, and with more steps to a tick a task ends past the
  place that was asked for; and that a shutter that does not calibrate itself raises no
  alarm, which its guards say;
* what has no ideal sensor, or a tick that is not a whole number of steps: there the estimate is
  not exact, and the runs check the motor and the ends of tasks and of calibration only;
* the three findings: a run with a counterexample is what shows them.

## Plan

Done: `Motor`, `MotorRelays`, `RollerShutter`, `TimedSwitch`, `TimedRelay`, `DnsClient`,
`FirmwareUpdate`, `DevConn`, `Link`, `Input` and `Mqtt`, each with the theorems above.

What would come next:

1. That a delayed trigger of the shutter is the last request, as `PendingMatchesMotor` is
   for `MotorRelays`.
2. `TimesVoid` and `MeasuresRight` with power cuts.  They do not hold as the code is (half a
   calibration in the flash, `supla_esp_rs_fb.c:1109`); with given times, `Stored` relates the RAM to the flash.
3. An estimate with a tolerance, for ticks that are not whole numbers of steps: how far divisions
   may take it from the real position between two ends.

## Not modelled

Vendored code (nettle, mini-gmp, MQTT-C), drivers of sensors, LED, PWM and
meters, board tables, HTML, the packing of the single remote calls, the parts of
`supla-common` that only hosts use.  They have no state of their own or are input
and output only.  They are most of the lines of this repository: what has control of
its own, and is modelled here, is a small part of them.
