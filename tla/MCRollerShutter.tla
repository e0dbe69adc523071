-------------------------- MODULE MCRollerShutter --------------------------
(***************************************************************************)
(* Small shutters: a few ticks from end to end, and the delays of the      *)
(* firmware scaled down in their order.                                    *)
(***************************************************************************)
EXTENDS RollerShutter

NoTilt == [type |-> "none", time |-> 0]
Slats(type) == [type |-> type, time |-> 2]
Everybody == {"button", "hold", "server", "task", "recalibrate", "config", "power"}

(* A roller shutter whose real position is not followed.                   *)
Roller == [travel |-> 0, slats |-> 0, sensor |-> "none", autoCal |-> FALSE,
           times |-> {<<3, 3>>}, margins |-> {-1, 0, 50}, blinds |-> {NoTilt},
           tasks |-> 0..N, callers |-> Everybody]

AnyConfiguration ==
  {[Roller EXCEPT !.times = {Zero, <<3, 3>>}, !.margins = {-1, 0}, !.tasks = {0, 1},
                  !.callers = (Everybody \ {"server", "recalibrate"}) \cup {"swap"}]}
  \cup {[Roller EXCEPT !.margins = {-1}, !.blinds = {[type |-> type, time |-> 1]},
                       !.tasks = {0, 1}, !.callers = {"button", "hold", "task", "power"}]
          : type \in {"keep", "change", "closed"}}

(* The right times given, or measured with an ideal sensor, and blinds     *)
(* that need 2 ticks of 6 for the slats, or turn them while they move.     *)
Blind4(type, full) ==
  [Roller EXCEPT !.travel = 4, !.slats = 2, !.times = {<<full, full>>},
                 !.blinds = {Slats(type)}, !.margins = {-1},
                 !.tasks = {0, 2}, !.callers = {"button", "task", "recalibrate", "power"}]
RightTimes ==
  {[Roller EXCEPT !.travel = 4, !.times = {<<4, 4>>}, !.margins = {-1, 50}],
   [Roller EXCEPT !.travel = 4, !.times = {Zero, <<4, 4>>}, !.sensor = "ideal",
                  !.autoCal = TRUE, !.margins = {-1}, !.tasks = {0, 2, 4},
                  !.callers = @ \ {"hold", "power"}],
   Blind4("keep", 6), Blind4("closed", 6), Blind4("change", 4)}

(* The channel of a blind is made that of a roller shutter.                *)
MadeRoller ==
  {[Blind4("keep", 6) EXCEPT !.travel = 0, !.slats = 0, !.blinds = @ \cup {NoTilt},
                             !.callers = {"button", "config", "convert"}]}
=============================================================================
