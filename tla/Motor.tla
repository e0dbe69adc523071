------------------------------- MODULE Motor -------------------------------
(***************************************************************************)
(* What the relay layer of a roller shutter owes to the tubular motor it   *)
(* drives.  The motor has two windings, one per direction, each fed by a   *)
(* contact.  The contacts are never closed together, and a contact closes  *)
(* only after both have been open for Pause units of time: reversing a     *)
(* motor that still turns, or feeding both windings, destroys it.          *)
(*                                                                         *)
(* MotorRelays and RollerShutter implement this specification.             *)
(***************************************************************************)
EXTENDS Naturals, FiniteSets

CONSTANTS
  Contacts,   (* the two contacts of one motor                             *)
  Pause,      (* units of time both contacts must have been open           *)
  MaxStep     (* longest time one step of the implementation can last      *)

VARIABLES
  closed,     (* the set of closed contacts                                *)
  rest        (* time since both contacts are open, saturating at Pause    *)

vars == <<closed, rest>>

Init ==
  /\ closed = {}
  /\ rest = 0

(* A contact closes: from rest, and only one of them.                      *)
Start(c) ==
  /\ closed = {}
  /\ rest + MaxStep >= Pause
  /\ closed' = {c}
  /\ rest' = 0

Stop ==
  /\ closed # {}
  /\ closed' = {}
  /\ rest' \in 0..MaxStep

(* Time passes with the contacts open.  A handler may also close and open  *)
(* a contact at once, which costs the rest collected so far.               *)
Wait ==
  /\ closed = {}
  /\ closed' = {}
  /\ rest' \in 0..(rest + MaxStep)

Next ==
  \/ \E c \in Contacts : Start(c)
  \/ Stop
  \/ Wait

Spec == Init /\ [][Next]_vars

=============================================================================
