------------------------ MODULE MCRollerShutterLive ------------------------
(***************************************************************************)
(* The shutter is asked something MaxAsks times; what happens then is up   *)
(* to its timers.                                                          *)
(***************************************************************************)
EXTENDS MCRollerShutter

CONSTANT MaxAsks

VARIABLES
  asks,           (* how often it was asked                                *)
  parity          (* of the ticks that have passed                         *)

liveVars == <<vars, asks, parity>>

LiveInit == Init /\ asks = 0 /\ parity = 0

LiveNext ==
  \/ Ask /\ asks < MaxAsks /\ asks' = asks + 1 /\ UNCHANGED parity
  \/ TriggerFires /\ UNCHANGED <<asks, parity>>
  \/ Tick /\ parity' = 1 - parity /\ UNCHANGED asks

(* The event loop runs its timers: weak fairness of Tick, which is always  *)
(* enabled, and of TriggerFires, which disarms the trigger or sets it to   *)
(* a later time, each said of the part that tells it, because TLC takes    *)
(* long to evaluate whether the whole action is enabled.                   *)
TimersRun ==
  /\ WF_parity(parity' = 1 - parity)
  /\ []<>(rs.trigger.left # 0)

LiveSpec == LiveInit /\ [][LiveNext]_liveVars /\ TimersRun

Given == [Roller EXCEPT !.callers = @ \ {"hold"}]
GivenBlind(type, full) ==
  [Given EXCEPT !.times = {<<full, full>>}, !.blinds = {Slats(type)}, !.margins = {-1},
                !.tasks = {1, 3}, !.callers = {"button", "task", "recalibrate"}]
GivenTimes ==
  {Given, GivenBlind("keep", 4), GivenBlind("closed", 4), GivenBlind("change", 3)}
AnySensor ==
  {[Roller EXCEPT !.sensor = "any", !.autoCal = TRUE, !.times = {Zero}, !.margins = {-1},
                  !.tasks = {1, 3}, !.callers = {"button", "task", "recalibrate"}]}

(* Times given and taken away, while the sensor answers as it should.      *)
TimesTaken ==
  {[Roller EXCEPT !.travel = 3, !.times = {Zero, <<3, 3>>}, !.sensor = "ideal",
                  !.autoCal = TRUE, !.margins = {-1}, !.callers = {"task", "config"}]}

Settling == GivenTimes \cup AnySensor
=============================================================================
