-------------------------------- MODULE MCInput --------------------------------
(* Three inputs that open the configuration mode: a button when it is held,    *)
(* one without a relay also when it is clicked, and a switch of a shutter.     *)
(* Each has the triggers its board gives it.                                   *)
EXTENDS Input

Input1(type, flags, relay, shutter, caps) ==
  [type |-> type, flags |-> flags, relay |-> relay, shutter |-> shutter,
   caps |-> caps]

MCKinds ==
  {Input1("monostable", {"cfg"}, TRUE, FALSE, {0, 1, 2, 3}),
   Input1("monostable", {"cfg", "hold", "toggle", "reset"}, FALSE, FALSE, {0, 2}),
   Input1("bistable", {"cfg", "press"}, TRUE, TRUE, {2})}

MCTriggers == {{}, {1}, {0, 2}}
================================================================================
