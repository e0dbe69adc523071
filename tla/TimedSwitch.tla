------------------------------ MODULE TimedSwitch ------------------------------
(* What the relays with countdown timers promise: every channel is on or off   *)
(* and has at most one plan, which is what the last request left: a time and   *)
(* the value to take when that time is over.  A channel changes by a request,  *)
(* at a restart, or by its plan, and by its plan never before its time.        *)
(* Nothing is said about how late a plan may be.                               *)
EXTENDS Naturals

CONSTANTS
  Channels,   \* channels of the device, one relay each
  Counting,   \* those that can also be switched on after a time
  Durations,  \* times a server asks for
  Lights,     \* times of staircase lights
  Long        \* bound of quiet

VARIABLES
  on,     \* Channels -> {0, 1}
  plan,   \* Channels -> what will happen, and after how much time
  light,  \* Channels -> time of the staircase light, 0 if it is none
  quiet   \* time since anybody asked for anything, which tells requests from
          \* what happens by itself

vars == <<on, plan, light, quiet>>

Nothing == [in |-> 0, to |-> 0, set |-> FALSE]
Plan(d, v) == [in |-> d, to |-> v, set |-> TRUE]

(* The plans a request to switch ch to v for the time d may leave.             *)
PlansFor(ch, v, d) ==
  IF light[ch] > 0
  THEN IF v = 0 THEN {Nothing}
                ELSE {Plan(t, 0) : t \in {light[ch]} \union ({d} \ {0})}
  ELSE IF d > 0 /\ (v = 1 \/ ch \in Counting) THEN {Plan(d, 1 - v)}
                                              ELSE {Nothing}

Init ==
  /\ on = [ch \in Channels |-> 0]
  /\ plan = [ch \in Channels |-> Nothing]
  /\ light \in [Channels -> Lights \union {0}]
  /\ quiet = 0

Request(ch) ==
  \E v \in {0, 1}, d \in Durations \union {0} :
    /\ on' = [on EXCEPT ![ch] = v]
    /\ \E p \in PlansFor(ch, v, d) : plan' = [plan EXCEPT ![ch] = p]
    /\ quiet' = 0
    /\ UNCHANGED light

(* A light that gets a new time starts counting, even if it is off.            *)
Reconfigure(ch) ==
  \E t \in Lights \union {0} :
    /\ light' = [light EXCEPT ![ch] = t]
    /\ plan' = [plan EXCEPT ![ch] = IF t > 0 THEN Plan(t, 0) ELSE Nothing]
    /\ quiet' = 0
    /\ UNCHANGED on

TimePasses ==
  /\ plan' = [ch \in Channels |->
                [plan[ch] EXCEPT !.in = IF @ > 0 THEN @ - 1 ELSE 0]]
  /\ quiet' = IF quiet < Long THEN quiet + 1 ELSE quiet
  /\ UNCHANGED <<on, light>>

(* The plans of all the channels in due are carried out.                       *)
CarryOut(due) ==
  /\ \A ch \in due : plan[ch].set /\ plan[ch].in = 0
  /\ on' = [ch \in Channels |-> IF ch \in due THEN plan[ch].to ELSE on[ch]]
  /\ plan' = [ch \in Channels |-> IF ch \in due THEN Nothing ELSE plan[ch]]
  /\ UNCHANGED <<light, quiet>>

(* A restart may bring back anything, but no staircase light without a plan to *)
(* switch it off, and no plan for a channel that is off.                       *)
Restart ==
  /\ on' \in [Channels -> {0, 1}]
  /\ \A ch \in Channels :
       \/ plan'[ch] = Nothing /\ ~(light[ch] > 0 /\ on'[ch] = 1)
       \/ /\ on'[ch] = 1
          /\ \E d \in Durations \union Lights : \E t \in 0 .. d :
               plan'[ch] = Plan(t, 0)
  /\ plan' = [ch \in Channels |-> plan'[ch]]
  /\ quiet' = 0
  /\ UNCHANGED light

Next ==
  \/ \E ch \in Channels : Request(ch) \/ Reconfigure(ch)
  \/ TimePasses
  \/ \E due \in SUBSET Channels : CarryOut(due)
  \/ Restart

Spec == Init /\ [][Next]_vars
================================================================================
