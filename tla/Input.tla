--------------------------------- MODULE Input ---------------------------------
(* One input of the device, supla_esp_input.c: the interrupt and the debounce  *)
(* timer that find its level, the click counter and its timer in the two ways  *)
(* of handling an input (the legacy one and the one of action triggers), and   *)
(* the buttons' way into the configuration mode and out of it.  Everything     *)
(* runs in one thread except the GPIO interrupt, which may come in the middle  *)
(* of a callback.                                                              *)
(*                                                                             *)
(* One tick of the clock is INPUT_CYCLE_TIME.  What the relay then does is the *)
(* subject of TimedRelay and RollerShutter.  The triggers TURN_ON and TURN_OFF *)
(* go out with the level and keep no state.                                    *)
EXTENDS Integers, Sequences, FiniteSetsExt

CONSTANTS
  Kinds,       \* the inputs of the boards, see KindOK
  Triggers,    \* the sets of triggers the server may activate
  MinCycles,   \* INPUT_MIN_CYCLE_COUNT
  Silent,      \* INPUT_SILENT_STARTUP_TIME_MS, in ticks
  Multiclick,  \* btn_multiclick_time_ms, in ticks
  Hold,        \* btn_hold_time_ms, in ticks
  PressTime,   \* CFG_BTN_PRESS_TIME, in ticks
  PressCount,  \* CFG_BTN_PRESS_COUNT
  Window,      \* the 2 s between the clicks of the legacy way, in ticks
  ExitAfter    \* the 3 s before a click leaves the configuration mode, in ticks

Flags == {"cfg", "hold", "toggle", "reset", "press", "pullup"}
Actions == 0 .. 5      \* HOLD is 0, SHORT_PRESS_xk or TOGGLE_xk is k

KindOK(k) ==
  /\ k.type \in {"monostable", "bistable"} /\ k.flags \subseteq Flags
  /\ k.relay \in BOOLEAN /\ k.shutter \in BOOLEAN
  /\ k.caps \subseteq Actions

(* No trigger counts more clicks than the way into the configuration mode.     *)
ASSUME InputAssumption ==
  /\ \A k \in Kinds : KindOK(k)
  /\ \A t \in Triggers : t \subseteq Actions \cap 0 .. PressCount
  /\ {MinCycles, Silent, Multiclick, Hold, PressTime, PressCount, Window,
      ExitAfter} \subseteq Nat
  /\ 0 < MinCycles /\ 0 < Multiclick /\ 1 < PressCount
  /\ Multiclick < Hold /\ Hold < PressTime /\ Multiclick < Window

VARIABLES
  kind,   \* what the board says of the input
  pin,    \* the level and the debouncing of it
  btn,    \* the click counter, its timer, the triggers
  sys,    \* the modes of the device
  due,    \* the timers still to run in this tick
  user    \* what the user did and was told: history, read by no action

vars == <<kind, pin, btn, sys, due, user>>

Levels == {"active", "inactive"}
Said == [took : 0 .. PressCount, to : {"server", "relay", "nobody"}]
Old == Max({PressTime, Window}) + 1

TypeOK ==
  /\ kind \in Kinds
  /\ pin \in [level : Levels, step : 0 .. MinCycles + 1, value : Levels,
              last : Levels, read : Levels \cup {"none"}]
  /\ btn \in [clicks : -1 .. PressCount, timer : {"off", "legacy", "advanced"},
              since : 0 .. Old, triggers : SUBSET Actions,
              max : 0 .. Max({5, PressCount}), others : BOOLEAN, connected : BOOLEAN]
  /\ sys \in [mode : {"run", "cfg"}, by : {"none", "button", "server", "boot"},
              entered : 0 .. ExitAfter + 1, boot : 0 .. Silent, ready : BOOLEAN]
  /\ due \subseteq {"debounce", "click"}
  /\ user \in [quiet : 0 .. Old, clicks : 0 .. PressCount,
               n : 0 .. PressCount + 1, told : UNION {[1 .. i -> Said] : i \in 0 .. 2},
               clean : BOOLEAN, crossed : BOOLEAN, fresh : BOOLEAN,
               missed : BOOLEAN]

--------------------------------------------------------------------------------
(* What the flags mean.  CanExit tests the flags with && where & was meant: an *)
(* input with any flag at all passes.                                          *)
OnHold ==
  /\ "cfg" \in kind.flags /\ kind.type = "monostable"
  /\ "toggle" \in kind.flags => "hold" \in kind.flags
OnToggle ==
  "cfg" \in kind.flags /\ (kind.type = "bistable" \/ "toggle" \in kind.flags)
CfgButton == "cfg" \in kind.flags /\ (sys.ready \/ "reset" \in kind.flags)
CanExit == sys.mode = "cfg" /\ kind.flags # {} /\ (sys.ready \/ ~kind.relay)

(* An input of a roller shutter takes the advanced way with the other one.     *)
Advanced == sys.mode = "run" /\ (btn.triggers # {} \/ btn.others)

(* A monostable button counts presses, a bistable one every change.            *)
IsClick(s) == s = "active" \/ kind.type = "bistable"

Sooner(age, limit) == IF age < limit THEN age + 1 ELSE age

--------------------------------------------------------------------------------
(* supla_esp_gpio_init: the level is not known and not reported until the      *)
(* debounce timer has found it.  An incomplete configuration starts the        *)
(* configuration mode.                                                         *)
Booted(ready) ==
  [pin |-> [level |-> pin.level, step |-> 1, value |-> "inactive",
            last |-> "inactive", read |-> "none"],
   btn |-> [clicks |-> 0, timer |-> "off", since |-> 0, triggers |-> {},
            max |-> 0, others |-> FALSE, connected |-> kind.relay],
   sys |-> [mode |-> IF ready THEN "run" ELSE "cfg",
            by |-> IF ready THEN "none" ELSE "boot",
            entered |-> 0, boot |-> 0, ready |-> ready],
   user |-> [quiet |-> 0, clicks |-> 0, n |-> 0, told |-> <<>>,
             clean |-> TRUE, crossed |-> FALSE, fresh |-> FALSE, missed |-> FALSE]]

Restart(ready) ==
  LET b == Booted(ready)
  IN  pin' = b.pin /\ btn' = b.btn /\ sys' = b.sys /\ user' = b.user /\ due' = {}

Init ==
  /\ kind \in Kinds
  /\ pin \in [level : Levels, step : {1}, value : {"inactive"},
               last : {"inactive"}, read : {"none"}]
  /\ btn = Booted(TRUE).btn /\ sys = Booted(TRUE).sys /\ user = Booted(TRUE).user
  /\ due = {}

(* supla_esp_input_start_cfg_mode, supla_esp_cfgmode_start                     *)
CfgMode(by) ==
  IF sys.mode = "cfg" THEN sys
  ELSE [sys EXCEPT !.mode = "cfg", !.by = by, !.entered = 0]

--------------------------------------------------------------------------------
(* What the user did, as the device took it: the clicks that came within the   *)
(* legacy window of each other, and the clicks of the sequence that goes on.   *)
(* A pause of exactly the multiclick time may count either way.  A hold ends a *)
(* sequence, and where one click is the most the server asks for, so does it.  *)
(* Each way goes on from the count the other has left when it is the other     *)
(* input of the shutter that gets triggers or loses them (crossed).            *)
SaidHold(u) == \E i \in DOMAIN u.told : u.told[i].took = 0

Clicked(u, s) ==
  LET next == Min({u.clicks + 1, PressCount})
      seq == IF u.quiet > Multiclick \/ u.n = 0 \/ SaidHold(u) \/ btn.max <= 1
             THEN [u EXCEPT !.n = 1, !.told = <<>>, !.clean = ~u.crossed]
             ELSE [u EXCEPT !.n = Min({@ + 1, PressCount + 1}),
                            !.clean = @ /\ u.quiet # Multiclick]
  IN  IF IsClick(s)
      THEN [seq EXCEPT !.clicks = IF u.quiet > Window THEN 1 ELSE next, !.quiet = 0,
                       !.fresh = sys.mode = "cfg"]
      ELSE [u EXCEPT !.quiet = 0]

Disturbed(u) == [u EXCEPT !.clean = FALSE]
Entered(u) == [u EXCEPT !.clean = FALSE, !.fresh = FALSE]
Told(u, k, to) ==
  [u EXCEPT !.crossed = FALSE,
            !.told = IF Len(@) < 2 THEN Append(@, [took |-> k, to |-> to]) ELSE @]

--------------------------------------------------------------------------------
(* The legacy way, supla_esp_input_legacy_state_change_handling.  The count    *)
(* stops at PressCount here: beyond it only its sign is looked at.             *)
LegacyCountEver(s) ==                            \* mutant of LegacyCount
  CASE ~CfgButton -> btn.clicks
    [] CfgButton /\ sys.mode = "run" ->
         IF IsClick(s) THEN Min({btn.clicks + 1, PressCount}) ELSE btn.clicks
    [] OTHER -> IF IsClick(s) THEN 1 ELSE btn.clicks

LegacyCount(s) ==
  CASE ~CfgButton -> btn.clicks
    [] CfgButton /\ sys.mode = "run" ->
         IF btn.since >= Window THEN 1
         ELSE IF IsClick(s) THEN Min({btn.clicks + 1, PressCount}) ELSE btn.clicks
    [] OTHER -> IF IsClick(s) THEN 1 ELSE btn.clicks

TogglesIn(s) ==
  CfgButton /\ sys.mode = "run" /\ OnToggle /\ LegacyCount(s) >= PressCount

ClicksOut(s) ==
  /\ CfgButton /\ sys.mode = "cfg" /\ CanExit /\ sys.entered > ExitAfter
  /\ \/ IsClick(s) /\ ~OnHold
     \/ s = "inactive" /\ LegacyCount(s) > 0

LegacyChange(s) ==
  \/ /\ TogglesIn(s)
     /\ btn' = [btn EXCEPT !.clicks = 0, !.timer = "off"]
     /\ sys' = CfgMode("button")
     /\ user' = Entered(Clicked(user, s))
  \/ /\ ~TogglesIn(s) /\ ~ClicksOut(s)
     /\ btn' = [btn EXCEPT !.clicks = LegacyCount(s),
                           !.timer = IF s = "active" /\ OnHold THEN "legacy" ELSE "off",
                           !.since = IF s = "active" THEN 0 ELSE @]
     /\ user' = Disturbed(Clicked(user, s))
     /\ UNCHANGED sys

(* supla_esp_input_legacy_timer_cb: a button held long enough opens the        *)
(* configuration mode, and held again in it brings the factory settings back.  *)
HeldLong == pin.last = "active" /\ OnHold /\ btn.since >= PressTime

HeldKeepsCount(b) == [b EXCEPT !.timer = "off"]       \* mutant of Held
Held(b) == [b EXCEPT !.timer = "off", !.clicks = 0]

LegacyTimer ==
  /\ btn.timer = "legacy"
  /\ \/ ~HeldLong /\ UNCHANGED <<btn, sys, pin, user>> /\ due' = due \ {"click"}
     \/ /\ HeldLong /\ sys.mode = "cfg" /\ "reset" \in kind.flags
        /\ Restart(FALSE)
     \/ /\ HeldLong /\ ~(sys.mode = "cfg" /\ "reset" \in kind.flags)
        /\ btn' = Held(btn)
        /\ sys' = CfgMode("button")
        /\ user' = IF sys.mode = "run" THEN Entered(user) ELSE user
        /\ due' = due \ {"click"} /\ UNCHANGED pin

--------------------------------------------------------------------------------
(* The way of action triggers,                                                 *)
(* supla_esp_input_advanced_state_change_handling: -1 is a sequence already    *)
(* reported, whose further clicks are not counted.                             *)
AdvancedChange(s) ==
  LET counts == btn.clicks # -1 /\ IsClick(s)
      c == IF counts THEN btn.clicks + 1 ELSE btn.clicks
      enters == counts /\ OnToggle /\ c >= PressCount
  IN  /\ btn' = [btn EXCEPT !.clicks = IF enters THEN 0 ELSE Min({c, PressCount}),
                            !.timer = "advanced", !.since = 0]
      /\ sys' = IF enters THEN CfgMode("button") ELSE sys
      /\ user' = IF enters THEN Entered(Clicked(user, s)) ELSE Clicked(user, s)

To(k) == IF k \in btn.triggers THEN "server" ELSE "nobody"

(* supla_esp_input_send_action_trigger for a counted sequence, if any.  A      *)
(* single click of an input that still drives a relay stays in the device.     *)
Report(u) ==
  CASE btn.clicks \in {-1, 0} -> u
    [] btn.clicks = 1 /\ btn.connected -> Told(u, 1, "relay")
    [] OTHER -> Told(u, btn.clicks, To(btn.clicks))

(* supla_esp_input_advanced_timer_cb, its two halves: a monostable button that *)
(* is held, and an input that is quiet or has been clicked often enough.       *)
Holding(b) == [b EXCEPT !.clicks = 0, !.timer = IF OnHold THEN @ ELSE "off"]

TimerHeld ==
  LET enters == HeldLong /\ btn.clicks # -1
      b == IF enters THEN Held(btn) ELSE btn
      holds == b.clicks = 1 /\ btn.since >= Hold
  IN  /\ btn' = IF holds THEN Holding(b) ELSE b
      /\ sys' = IF enters THEN CfgMode("button") ELSE sys
      /\ user' = LET u == IF enters /\ sys.mode = "run" THEN Entered(user) ELSE user
                 IN  IF holds THEN Told(u, 0, To(0)) ELSE u

CompleteLate(b) == b.clicks > b.max                    \* mutant of Complete
Complete(b) == b.clicks >= b.max

TimerQuiet ==
  /\ \/ /\ btn.since >= Multiclick
        /\ btn' = [btn EXCEPT !.timer = "off", !.clicks = 0]
        /\ user' = Report(user)
     \/ /\ btn.since < Multiclick /\ Complete(btn)
        /\ btn' = IF btn.max <= 1
                  THEN [btn EXCEPT !.timer = "off", !.clicks = 0]
                  ELSE [btn EXCEPT !.clicks = -1]
        /\ user' = Report(user)
     \/ /\ btn.since < Multiclick /\ ~Complete(btn)
        /\ UNCHANGED <<btn, user>>
  /\ UNCHANGED sys

AdvancedTimer ==
  /\ btn.timer = "advanced" /\ due' = due \ {"click"} /\ UNCHANGED pin
  /\ \/ kind.type = "monostable" /\ pin.last = "active" /\ btn.clicks # -1 /\ TimerHeld
     \/ kind.type = "monostable" /\ pin.last = "active" /\ btn.clicks = -1
        /\ UNCHANGED <<btn, sys, user>>
     \/ (kind.type = "bistable" \/ pin.last = "inactive") /\ TimerQuiet

ClickTimer ==
  /\ "click" \in due /\ pin.read = "none"
  /\ LegacyTimer \/ AdvancedTimer
  /\ UNCHANGED kind

--------------------------------------------------------------------------------
(* supla_esp_input_notify_state_change, with the pin as the debouncing leaves  *)
(* it.  In the first moments after a start a change is not acted upon.         *)
SilentForgets(p, s) == p                                  \* mutant of Silently
Silently(p, s) == [p EXCEPT !.last = s]

Notify(p, s) ==
  \/ /\ sys.boot < Silent \/ pin.last = s
     /\ pin' = Silently(p, s) /\ UNCHANGED <<btn, sys, user>>
     /\ due' = due \ {"debounce"}
  \/ /\ sys.boot = Silent /\ pin.last # s /\ ~Advanced /\ ClicksOut(s)
     /\ Restart(sys.ready)
  \/ /\ sys.boot = Silent /\ pin.last # s
     /\ IF Advanced THEN AdvancedChange(s) ELSE LegacyChange(s)
     /\ pin' = [p EXCEPT !.last = s]
     /\ due' = {}

(* The level changes.  supla_esp_gpio_intr_handler starts the debounce timer   *)
(* unless it runs: a change after its callback has read the pin for the last   *)
(* time is lost, and so is one while supla_esp_gpio_relay_hi, for whatever     *)
(* relay, keeps the interrupts away.                                           *)
Edge(masked) ==
  /\ pin' = [pin EXCEPT !.level = CHOOSE l \in Levels : l # @,
                        !.step = IF @ = 0 /\ ~masked THEN 1 ELSE @]
  /\ user' = [user EXCEPT !.missed =
                IF pin.step = 0 THEN masked ELSE @ \/ pin.read # "none"]
  /\ UNCHANGED <<kind, btn, sys, due>>

OneCycleMore(step) == step > MinCycles + 1                \* mutant of Enough
Enough(step) == step > MinCycles

(* supla_esp_input_debounce_timer_cb: the pin is read first.  As long as the   *)
(* timer goes on, a change in the meantime is seen by the next reading; at the *)
(* last one the change is handled while the interrupts go on.                  *)
Debounces ==
  /\ "debounce" \in due /\ pin.read = "none" /\ pin.step # 0
  /\ due' = due \ {"debounce"}
  /\ \/ /\ pin.step = 1 \/ pin.value # pin.level
        /\ pin' = [pin EXCEPT !.value = pin.level, !.step = 2]
     \/ /\ pin.step # 1 /\ pin.value = pin.level /\ ~Enough(pin.step)
        /\ pin' = [pin EXCEPT !.step = @ + 1]
  /\ UNCHANGED <<kind, btn, sys, user>>

LastReading ==
  /\ "debounce" \in due /\ pin.read = "none"
  /\ pin.step # 1 /\ pin.value = pin.level /\ Enough(pin.step)
  /\ pin' = [pin EXCEPT !.read = pin.level]
  /\ UNCHANGED <<kind, btn, sys, due, user>>

Changes ==
  /\ pin.read # "none"
  /\ Notify([pin EXCEPT !.read = "none", !.step = 0], pin.read)
  /\ UNCHANGED kind

--------------------------------------------------------------------------------
(* supla_esp_input_set_active_triggers, with the configuration of the channel. *)
Retriggered(t) ==
  IF t = btn.triggers THEN btn ELSE [btn EXCEPT !.timer = "off", !.clicks = 0]

SetTriggers(wanted) ==
  LET t == kind.caps \cap wanted
  IN  /\ sys.mode = "run" /\ pin.read = "none"
      /\ btn' = [Retriggered(t) EXCEPT
                  !.triggers = t,
                  !.max = Max({0} \cup t \cup IF OnToggle THEN {PressCount} ELSE {}),
                  !.connected = kind.relay /\ 1 \notin t]
      /\ user' = [Disturbed(user) EXCEPT !.crossed = @ /\ t = btn.triggers]
      /\ due' = IF t = btn.triggers THEN due ELSE due \ {"click"}
      /\ UNCHANGED <<kind, pin, sys>>

(* The other input of the same roller shutter gets triggers, or loses them.    *)
OtherTriggers ==
  /\ kind.shutter /\ sys.mode = "run" /\ pin.read = "none"
  /\ btn' = [btn EXCEPT !.others = ~@]
  /\ user' = [Disturbed(user) EXCEPT !.crossed = @ \/ btn.clicks # 0]
  /\ UNCHANGED <<kind, pin, sys, due>>

(* SUPLA_CALCFG_CMD_ENTER_CFG_MODE: the server opens the configuration mode.   *)
ServerEnters ==
  /\ sys.mode = "run" /\ pin.read = "none"
  /\ sys' = CfgMode("server") /\ user' = Entered(user)
  /\ UNCHANGED <<kind, pin, btn, due>>

(* The configuration mode ends: its page is saved, or its five minutes are up. *)
Configured ==
  /\ sys.mode = "cfg" /\ pin.read = "none"
  /\ \E ready \in {TRUE, sys.ready} : Restart(ready)
  /\ UNCHANGED kind

Tick ==
  /\ due = {} /\ pin.read = "none"
  /\ due' = {t \in {"debounce", "click"} :
               IF t = "click" THEN btn.timer # "off" ELSE pin.step # 0}
  /\ btn' = [btn EXCEPT !.since = Sooner(@, Old)]
  /\ sys' = [sys EXCEPT
              !.boot = Sooner(@, Silent),
              !.entered = IF sys.mode = "cfg" THEN Sooner(@, ExitAfter + 1) ELSE @]
  /\ user' = [user EXCEPT !.quiet = Sooner(@, Old)]
  /\ UNCHANGED <<kind, pin>>

Next ==
  \/ \E masked \in BOOLEAN : Edge(masked)
  \/ Debounces \/ LastReading \/ Changes \/ ClickTimer
  \/ \E wanted \in Triggers : SetTriggers(wanted)
  \/ OtherTriggers \/ ServerEnters \/ Configured
  \/ Tick

Spec == Init /\ [][Next]_vars

--------------------------------------------------------------------------------
(* The level the device acts on is the level of the pin whenever the debounce  *)
(* timer rests, unless the last change fell into a moment in which nobody      *)
(* looks: between the last reading of the pin and the end of that callback, or *)
(* while a relay switches.  Then it stays wrong until the pin changes again.   *)
LevelKnown == pin.step = 0 /\ ~user.missed => pin.last = pin.level

(* A sequence of clicks, undisturbed by a new configuration of the triggers,   *)
(* by the configuration mode or by a pause at the very limit, is taken for     *)
(* what it was, once: as many clicks as were made, or the most the server asks *)
(* for; a click that was held as a hold; and it is never forgotten.  A single  *)
(* click goes to the server if it asks for it and drives the relay otherwise   *)
(* (supla_esp_input.c:501-681).                                                *)
Destination(k) ==
  IF k \in btn.triggers THEN "server"
  ELSE IF k = 1 /\ kind.relay THEN "relay" ELSE "nobody"

TakenFor(n) == IF n > btn.max THEN Max({1, btn.max}) ELSE n

SaysWhatWasClicked ==
  user.clean /\ user.n > 0 =>
    /\ Len(user.told) <= 1
    /\ \A i \in DOMAIN user.told :
         /\ user.told[i].took \in {0, TakenFor(user.n)}
         /\ user.told[i].took = 0 => user.n = 1
         /\ user.told[i].to = Destination(user.told[i].took)
    /\ user.quiet > Multiclick /\ (kind.type = "monostable" => pin.last = "inactive")
         => user.told # <<>>

(* A button opens the configuration mode only when it has been held for the    *)
(* whole time, or after the whole number of clicks, each soon after the last   *)
(* (supla_esp_input.c:236-253, 309-333, 476-483, 511-517).  A count taken over *)
(* from the other way of handling may be older than that.                      *)
Deliberate ==
  [][sys.mode = "run" /\ sys'.mode = "cfg" /\ sys'.by = "button"
     /\ ~user.crossed =>
       \/ pin.last = "active" /\ user.quiet >= PressTime
       \/ user'.clicks >= PressCount]_vars

(* A configuration mode a button has opened is not left, and the factory       *)
(* settings are not brought back, before the button has been pressed again:    *)
(* the end of the press that opened it does nothing.  After the server has     *)
(* opened it in the middle of a press this is not so.                          *)
EntryPressStays ==
  [][sys.mode = "cfg" /\ sys.by = "button" /\ sys.boot > sys'.boot
     /\ (Changes \/ ClickTimer)
       => user.fresh \/ IsClick(pin.read)]_vars
================================================================================
