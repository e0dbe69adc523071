------------------------------ MODULE Input_proofs ------------------------------
(***************************************************************************)
(* One input, for every kind of input, every set of triggers and every     *)
(* value of the times: the level is known unless a change fell into a      *)
(* moment in which nobody looks, what was clicked is what is said, and the *)
(* configuration mode is opened and left deliberately.                     *)
(***************************************************************************)
EXTENDS Input, SequenceTheorems, TLAPS

PinType ==
  [level : Levels, step : 0 .. MinCycles + 1, value : Levels, last : Levels,
   read : Levels \cup {"none"}]
BtnType ==
  [clicks : -1 .. PressCount, timer : {"off", "legacy", "advanced"},
   since : 0 .. Old, triggers : SUBSET Actions, max : 0 .. Max({5, PressCount}),
   others : BOOLEAN, connected : BOOLEAN]
SysType ==
  [mode : {"run", "cfg"}, by : {"none", "button", "server", "boot"},
   entered : 0 .. ExitAfter + 1, boot : 0 .. Silent, ready : BOOLEAN]
UserType ==
  [quiet : 0 .. Old, clicks : 0 .. PressCount, n : 0 .. PressCount + 1,
   told : UNION {[1 .. i -> Said] : i \in 0 .. 2}, clean : BOOLEAN,
   crossed : BOOLEAN, fresh : BOOLEAN, missed : BOOLEAN]
Types ==
  /\ kind \in Kinds /\ pin \in PinType /\ btn \in BtnType /\ sys \in SysType
  /\ due \subseteq {"debounce", "click"} /\ user \in UserType

(* Between the last reading of the pin and its handling what was read is   *)
(* the level, unless the pin has changed in between.                       *)
PinInv ==
  /\ pin.read # "none" => pin.step >= 2
  /\ pin.read # "none" /\ ~user.missed => pin.read = pin.level
  /\ pin.step = 0 /\ ~user.missed => pin.last = pin.level

(* The age of the last change as the device keeps it, and as it is: the    *)
(* same as long as the input is active.  A change is handled in the second *)
(* tick after the one before, and not sooner.                              *)
AgeInv ==
  /\ user.quiet <= btn.since
  /\ sys.mode = "run" /\ pin.last = "active" => btn.since = user.quiet
  /\ "debounce" \in due \/ pin.step >= 2 => btn.since >= 1
  /\ pin.step >= 2 /\ "debounce" \in due => btn.since >= 2
  /\ pin.read # "none" => btn.since >= 2
  /\ btn.timer = "advanced" => btn.since = user.quiet
  /\ sys.boot < Silent => btn.since = user.quiet /\ btn.clicks = 0

(* The configuration mode a button has opened finds nothing counted and no *)
(* timer that could leave it.                                              *)
ModeInv ==
  /\ sys.mode = "run" => sys.ready
  /\ btn.timer # "off" \/ user.told # <<>> => sys.boot = Silent
  /\ sys.mode = "cfg" /\ sys.by = "button" /\ ~user.fresh =>
       btn.clicks <= 0 /\ btn.timer # "legacy"

(* What was made of the triggers when they were set.                       *)
Biggest(t) == Max({0} \cup t \cup IF OnToggle THEN {PressCount} ELSE {})
TriggerInv ==
  /\ btn.triggers \subseteq 0 .. PressCount
  /\ btn.connected <=> kind.relay /\ 1 \notin btn.triggers
  /\ btn.max = Biggest(btn.triggers) \/ (btn.triggers = {} /\ btn.max = 0)
  /\ btn.clicks = -1 => btn.max >= 2

(* A count of the way of triggers is young, or a button is still pressed,  *)
(* and one that is complete is reported in the tick after.                 *)
Released == kind.type = "bistable" \/ pin.last = "inactive"
Counting == Advanced /\ ~user.crossed
CountInv ==
  Counting /\ btn.clicks # 0 =>
    /\ btn.timer = "advanced"
    /\ btn.clicks <= 1 \/ btn.clicks <= btn.max
    /\ Released =>
         \/ btn.since < Multiclick
         \/ btn.since = Multiclick /\ "click" \in due
    /\ Released /\ btn.clicks >= btn.max =>
         \/ btn.since = 0
         \/ btn.since = 1 /\ "click" \in due

(* The device counts no more clicks than there were, or starts anew with   *)
(* the next.                                                               *)
ClickInv ==
  sys.mode = "run" /\ ~user.crossed /\ "cfg" \in kind.flags =>
    \/ ~Advanced /\ btn.since >= Window
    \/ btn.clicks <= user.clicks

(* After a hold, and before the first press, nothing is counted but the    *)
(* end of a press of the legacy way.                                       *)
HoldInv ==
  (SaidHold(user) \/ user.n = 0) /\ btn.clicks # 0 =>
    /\ pin.last = "inactive" /\ kind.type = "monostable"
    /\ btn.timer = "off" /\ ~Counting

(* Of a clean sequence the device has counted everything, or has said so.  *)
SaidInv ==
  user.clean /\ user.n > 0 =>
    /\ Counting
    /\ user.told = <<>> => btn.clicks = user.n
    /\ user.told # <<>> =>
         /\ Len(user.told) = 1
         /\ user.told[1].to = Destination(user.told[1].took)
         /\ user.told[1].took = 0 => user.n = 1 /\ btn.clicks = 0
         /\ user.told[1].took # 0 =>
              /\ user.told[1].took = TakenFor(user.n)
              /\ btn.clicks \in {-1, 0}
              /\ btn.clicks = -1 => user.n >= btn.max
              /\ btn.clicks = 0 =>
                   Released /\ (user.quiet >= Multiclick \/ btn.max <= 1)

IInv ==
  /\ Types /\ PinInv /\ AgeInv /\ ModeInv /\ TriggerInv /\ CountInv /\ ClickInv
  /\ HoldInv /\ SaidInv

--------------------------------------------------------------------------------
(* The constants, and the largest of small sets.                           *)
LEMMA Times ==
  /\ MinCycles \in Nat /\ Silent \in Nat /\ Multiclick \in Nat /\ Hold \in Nat
  /\ PressTime \in Nat /\ PressCount \in Nat /\ Window \in Nat /\ ExitAfter \in Nat
  /\ 0 < MinCycles /\ 0 < Multiclick /\ 1 < PressCount
  /\ Multiclick < Hold /\ Hold < PressTime /\ Multiclick < Window
<1>1. {MinCycles, Silent, Multiclick, Hold, PressTime, PressCount, Window,
       ExitAfter} \subseteq Nat
  BY InputAssumption
<1> QED BY <1>1, InputAssumption

LEMMA MaxIs ==
  ASSUME NEW S \in SUBSET Int, NEW m \in S, \A x \in S : x <= m
  PROVE  Max(S) = m
<1>1. \A y \in S : m >= y OBVIOUS
<1>2. Max(S) \in S /\ \A y \in S : Max(S) >= y BY <1>1 DEF Max
<1>3. Max(S) \in Int /\ m \in Int /\ Max(S) >= m /\ Max(S) <= m BY <1>2
<1> QED BY <1>3

LEMMA MinPair ==
  ASSUME NEW a \in Int, NEW b \in Int
  PROVE  Min({a, b}) = IF a < b THEN a ELSE b
BY DEF Min

LEMMA MaxPair ==
  ASSUME NEW a \in Int, NEW b \in Int
  PROVE  Max({a, b}) = IF a < b THEN b ELSE a
BY DEF Max

LEMMA MaxBound ==
  /\ Max({5, PressCount}) = IF 5 < PressCount THEN PressCount ELSE 5
  /\ Max({5, PressCount}) \in Int
<1>1. Max({5, PressCount}) = IF 5 < PressCount THEN PressCount ELSE 5
  BY Times, MaxPair
<1> QED BY <1>1, Times

(* The history of an age goes further than any limit it is compared with.  *)
LEMMA OldBound ==
  Old \in Nat /\ PressTime < Old /\ Window < Old /\ Hold < Old /\ 2 < Old
BY Times, MaxPair DEF Old

LEMMA BiggestBound ==
  ASSUME NEW t \in SUBSET (Actions \cap 0 .. PressCount)
  PROVE  /\ Biggest(t) \in 0 .. PressCount
         /\ Biggest(t) \in 0 .. Max({5, PressCount})
         /\ OnToggle => Biggest(t) = PressCount
         /\ \A k \in t : k <= Biggest(t)
<1> DEFINE S == {0} \cup t \cup IF OnToggle THEN {PressCount} ELSE {}
<1>1. S \in SUBSET Int /\ S \subseteq 0 .. PressCount /\ t \subseteq S /\ 0 \in S
  BY Times
<1>2. Max({5, PressCount}) = IF 5 < PressCount THEN PressCount ELSE 5
  BY MaxBound
<1>3. CASE OnToggle
  <2>1. PressCount \in S BY <1>3
  <2>2. \A x \in S : x <= PressCount BY <1>1, Times
  <2> HIDE DEF S
  <2>3. Max(S) = PressCount BY <1>1, <2>1, <2>2, MaxIs
  <2> QED BY <1>1, <1>2, <2>2, <2>3, Times DEF Biggest, S
<1>4. CASE ~OnToggle
  <2>1. S \subseteq 0 .. 5 BY <1>4, Times DEF Actions
  <2> HIDE DEF S
  <2>2. \E m \in S : \A x \in S : x <= m
    <3>1. CASE 5 \in S BY <2>1, <3>1
    <3>2. CASE 5 \notin S /\ 4 \in S BY <2>1, <3>2
    <3>3. CASE S \subseteq 0 .. 3 /\ 3 \in S BY <3>3
    <3>4. CASE S \subseteq 0 .. 2 /\ 2 \in S BY <3>4
    <3>5. CASE S \subseteq 0 .. 1 /\ 1 \in S BY <3>5
    <3>6. CASE S \subseteq {0} BY <1>1, <3>6
    <3>7. 5 \notin S /\ 4 \notin S => S \subseteq 0 .. 3 BY <2>1
    <3>8. S \subseteq 0 .. 3 /\ 3 \notin S => S \subseteq 0 .. 2 OBVIOUS
    <3>9. S \subseteq 0 .. 2 /\ 2 \notin S => S \subseteq 0 .. 1 OBVIOUS
    <3>10. S \subseteq 0 .. 1 /\ 1 \notin S => S \subseteq {0} OBVIOUS
    <3> QED BY <3>1, <3>2, <3>3, <3>4, <3>5, <3>6, <3>7, <3>8, <3>9, <3>10
  <2>3. PICK m \in S : \A x \in S : x <= m BY <2>2
  <2>4. Max(S) = m BY <1>1, <2>3, MaxIs
  <2>5. m \in 0 .. 5 /\ m \in 0 .. PressCount BY <1>1, <2>1
  <2>6. Biggest(t) = m BY <2>4 DEF Biggest, S
  <2> QED BY <1>1, <1>2, <1>4, <2>3, <2>5, <2>6, Times
<1> QED BY <1>3, <1>4

(* A sequence of at most two messages, as the type has it and as one.      *)
LEMMA ToldType ==
  ASSUME NEW t
  PROVE  t \in UNION {[1 .. i -> Said] : i \in 0 .. 2} <=>
           t \in Seq(Said) /\ Len(t) \in 0 .. 2
<1>1. ASSUME NEW i \in 0 .. 2, t \in [1 .. i -> Said]
      PROVE  t \in Seq(Said) /\ Len(t) \in 0 .. 2
  BY <1>1
<1>2. ASSUME t \in Seq(Said), Len(t) \in 0 .. 2
      PROVE  t \in [1 .. Len(t) -> Said]
  BY <1>2, LenProperties
<1> QED BY <1>1, <1>2

--------------------------------------------------------------------------------
(* What the user is told, and what is made of a change.                    *)
ToldSince(v, u) ==
  /\ v.quiet = u.quiet /\ v.clicks = u.clicks /\ v.n = u.n
  /\ v.clean = u.clean /\ v.fresh = u.fresh /\ v.missed = u.missed

LEMMA ToldUser ==
  \A u \in UserType : \A k \in 0 .. PressCount :
    \A to \in {"server", "relay", "nobody"} :
      LET v == Told(u, k, to)
      IN  /\ v \in UserType /\ ToldSince(v, u) /\ ~v.crossed /\ v.told # <<>>
          /\ SaidHold(v) => SaidHold(u) \/ k = 0
          /\ u.told = <<>> =>
               /\ Len(v.told) = 1 /\ v.told[1].took = k /\ v.told[1].to = to
<1> TAKE u \in UserType
<1> TAKE k \in 0 .. PressCount
<1> TAKE to \in {"server", "relay", "nobody"}
<1> DEFINE e == [took |-> k, to |-> to]
           t == IF Len(u.told) < 2 THEN Append(u.told, e) ELSE u.told
<1>1. u.told \in Seq(Said) /\ Len(u.told) \in 0 .. 2
  BY ToldType DEF UserType
<1>2. e \in Said BY DEF Said
<1> HIDE DEF e
<1>3. Append(u.told, e) \in Seq(Said)
      /\ Len(Append(u.told, e)) = Len(u.told) + 1
      /\ \A i \in 1 .. Len(u.told) : Append(u.told, e)[i] = u.told[i]
      /\ Append(u.told, e)[Len(u.told) + 1] = e
  BY <1>1, <1>2, AppendProperties
<1>4. /\ t \in Seq(Said) /\ Len(t) \in 0 .. 2
      /\ \A i \in 1 .. Len(t) : t[i] = e \/ (i \in 1 .. Len(u.told) /\ t[i] = u.told[i])
      /\ u.told = <<>> => Len(t) = 1 /\ t[1] = e
      /\ Len(t) > 0
  BY <1>1, <1>3
<1>5. DOMAIN t = 1 .. Len(t) /\ DOMAIN u.told = 1 .. Len(u.told)
  BY <1>1, <1>4, LenProperties
<1> HIDE DEF t
<1>6. PICK v : v = Told(u, k, to) OBVIOUS
<1>7. v = [u EXCEPT !.crossed = FALSE, !.told = t] BY <1>6 DEF Told, t, e
<1>8. t \in UNION {[1 .. i -> Said] : i \in 0 .. 2} BY <1>4, ToldType
<1>9. v \in UserType /\ v.told = t /\ ~v.crossed /\ ToldSince(v, u)
  BY <1>7, <1>8 DEF UserType, ToldSince
<1>10. SaidHold(v) => SaidHold(u) \/ e.took = 0
  BY <1>4, <1>5, <1>9 DEF SaidHold
<1>11. e.took = k /\ e.to = to BY DEF e
<1>12. t # <<>> BY <1>4
<1> QED BY <1>4, <1>6, <1>9, <1>10, <1>11, <1>12

(* A change of the input in the history: a click goes on with the sequence *)
(* or starts a new one.                                                    *)
Renews(u) == u.quiet > Multiclick \/ u.n = 0 \/ SaidHold(u) \/ btn.max <= 1

LEMMA ClickedUser ==
  ASSUME Types
  PROVE  \A s \in Levels :
    LET v == Clicked(user, s)
    IN  /\ v \in UserType /\ v.quiet = 0 /\ v.crossed = user.crossed
        /\ v.missed = user.missed
        /\ ~IsClick(s) =>
             /\ v.n = user.n /\ v.told = user.told /\ v.clean = user.clean
             /\ v.fresh = user.fresh /\ v.clicks = user.clicks
        /\ IsClick(s) =>
             /\ v.fresh = (sys.mode = "cfg") /\ v.n > 0
             /\ v.clicks = IF user.quiet > Window THEN 1
                           ELSE IF user.clicks + 1 < PressCount THEN user.clicks + 1
                           ELSE PressCount
             /\ Renews(user) => v.n = 1 /\ v.told = <<>> /\ v.clean = ~user.crossed
             /\ ~Renews(user) =>
                  /\ v.told = user.told
                  /\ v.n = IF user.n < PressCount + 1 THEN user.n + 1
                           ELSE PressCount + 1
                  /\ v.clean => user.clean /\ user.quiet # Multiclick
<1> TAKE s \in Levels
<1> DEFINE next == Min({user.clicks + 1, PressCount})
           more == Min({user.n + 1, PressCount + 1})
           seq  == IF Renews(user)
                   THEN [user EXCEPT !.n = 1, !.told = <<>>, !.clean = ~user.crossed]
                   ELSE [user EXCEPT !.n = more,
                                     !.clean = @ /\ user.quiet # Multiclick]
           clicks == IF user.quiet > Window THEN 1 ELSE next
<1>1. user \in UserType BY DEF Types
<1>2. /\ user.clicks \in 0 .. PressCount /\ user.n \in 0 .. PressCount + 1
      /\ PressCount \in Nat /\ 1 < PressCount /\ 0 \in 0 .. Old
  BY <1>1, Times, OldBound DEF UserType
<1>3. /\ next = IF user.clicks + 1 < PressCount THEN user.clicks + 1 ELSE PressCount
      /\ more = IF user.n < PressCount + 1 THEN user.n + 1 ELSE PressCount + 1
  BY <1>2, MinPair
<1>4. clicks \in 0 .. PressCount /\ more \in 1 .. PressCount + 1 BY <1>2, <1>3
<1> HIDE DEF next, more, clicks
<1>5. <<>> \in UNION {[1 .. i -> Said] : i \in 0 .. 2}
  BY ToldType
<1>6. PICK q : q = seq OBVIOUS
<1>7. /\ q \in UserType /\ q.crossed = user.crossed /\ q.missed = user.missed
      /\ Renews(user) => q.n = 1 /\ q.told = <<>> /\ q.clean = ~user.crossed
      /\ ~Renews(user) =>
           /\ q.told = user.told /\ q.n = more
           /\ q.clean => user.clean /\ user.quiet # Multiclick
  <2>1. CASE Renews(user)
    <3>1. 1 \in 0 .. PressCount + 1 BY <1>2
    <3>2. q = [user EXCEPT !.n = 1, !.told = <<>>, !.clean = ~user.crossed]
      BY <1>6, <2>1
    <3> QED BY <1>1, <1>5, <2>1, <3>1, <3>2 DEF UserType
  <2>2. CASE ~Renews(user)
    <3>1. more \in 0 .. PressCount + 1 BY <1>2, <1>4
    <3>2. q = [user EXCEPT !.n = more, !.clean = user.clean /\ user.quiet # Multiclick]
      BY <1>6, <2>2
    <3> QED BY <1>1, <2>2, <3>1, <3>2 DEF UserType
  <2> QED BY <2>1, <2>2
<1>8. PICK v : v = Clicked(user, s) OBVIOUS
<1>9. CASE ~IsClick(s)
  <2>1. v = [user EXCEPT !.quiet = 0] BY <1>8, <1>9 DEF Clicked
  <2>2. /\ v \in UserType /\ v.quiet = 0 /\ v.crossed = user.crossed
        /\ v.missed = user.missed /\ v.n = user.n /\ v.told = user.told
        /\ v.clean = user.clean /\ v.fresh = user.fresh /\ v.clicks = user.clicks
    BY <1>1, <1>2, <2>1 DEF UserType
  <2> QED BY <1>8, <1>9, <2>2
<1>10. CASE IsClick(s)
  <2>1. v = [q EXCEPT !.clicks = clicks, !.quiet = 0, !.fresh = (sys.mode = "cfg")]
    BY <1>6, <1>8, <1>10 DEF Clicked, Renews, clicks, next, more
  <2>2. /\ v \in UserType /\ v.quiet = 0 /\ v.crossed = q.crossed
        /\ v.missed = q.missed /\ v.n = q.n /\ v.told = q.told
        /\ v.clean = q.clean /\ v.fresh = (sys.mode = "cfg") /\ v.clicks = clicks
    BY <1>2, <1>4, <1>7, <2>1 DEF UserType
  <2>3. v.n > 0 BY <1>2, <1>4, <1>7, <2>2
  <2>4. clicks = IF user.quiet > Window THEN 1
                 ELSE IF user.clicks + 1 < PressCount THEN user.clicks + 1
                 ELSE PressCount
    BY <1>3 DEF clicks
  <2> QED BY <1>3, <1>7, <1>8, <1>10, <2>2, <2>3, <2>4
<1> QED BY <1>9, <1>10

--------------------------------------------------------------------------------
(* A start.                                                                *)
LEMMA Zeros ==
  /\ 0 \in 0 .. Old /\ 0 \in -1 .. PressCount /\ 0 \in 0 .. PressCount
  /\ 0 \in 0 .. PressCount + 1 /\ 1 \in 0 .. MinCycles + 1 /\ 0 \in 0 .. Silent
  /\ 0 \in 0 .. ExitAfter + 1 /\ 0 \in 0 .. Max({5, PressCount})
  /\ <<>> \in UNION {[1 .. i -> Said] : i \in 0 .. 2}
<1>1. Max({5, PressCount}) = IF 5 < PressCount THEN PressCount ELSE 5
  BY MaxBound
<1>2. <<>> \in UNION {[1 .. i -> Said] : i \in 0 .. 2} BY ToldType
<1> QED BY <1>1, <1>2, Times, OldBound

LEMMA BootedGood ==
  ASSUME kind \in Kinds, pin \in PinType
  PROVE  \A ready \in BOOLEAN :
    LET b == Booted(ready)
    IN  /\ b.pin \in PinType /\ b.pin.read = "none" /\ b.pin.step = 1
        /\ b.btn \in BtnType /\ b.btn.clicks = 0 /\ b.btn.timer = "off"
        /\ b.btn.since = 0 /\ b.btn.triggers = {} /\ b.btn.max = 0
        /\ b.btn.connected = kind.relay
        /\ b.sys \in SysType /\ b.sys.ready = ready
        /\ b.sys.mode = (IF ready THEN "run" ELSE "cfg")
        /\ b.sys.by # "button"
        /\ b.user \in UserType /\ b.user.quiet = 0 /\ b.user.clicks = 0
        /\ b.user.n = 0 /\ b.user.told = <<>>
<1> TAKE ready \in BOOLEAN
<1>1. kind.relay \in BOOLEAN BY InputAssumption DEF KindOK
<1>2. pin.level \in Levels BY DEF PinType
<1> QED BY <1>1, <1>2, Zeros
        DEF Booted, PinType, BtnType, SysType, UserType, Levels

(* What every restart leaves behind.                                       *)
Fresh ==
  /\ kind \in Kinds /\ pin \in PinType /\ pin.read = "none" /\ pin.step = 1
  /\ btn \in BtnType /\ btn.clicks = 0 /\ btn.timer = "off" /\ btn.since = 0
  /\ btn.triggers = {} /\ btn.max = 0 /\ btn.connected = kind.relay
  /\ sys \in SysType /\ sys.mode = (IF sys.ready THEN "run" ELSE "cfg")
  /\ sys.by # "button"
  /\ user \in UserType /\ user.quiet = 0 /\ user.clicks = 0 /\ user.n = 0
  /\ user.told = <<>> /\ due = {}

LEMMA FreshGood ==
  ASSUME Fresh
  PROVE  IInv
<1>1. SaidHold(user) = FALSE BY DEF Fresh, SaidHold
<1> QED BY <1>1, Times
        DEF Fresh, IInv, Types, PinInv, AgeInv, ModeInv, TriggerInv, CountInv,
            ClickInv, HoldInv, SaidInv, SysType

LEMMA InitGood == Init => IInv
<1> SUFFICES ASSUME Init PROVE IInv
  OBVIOUS
<1>1. /\ kind \in Kinds /\ pin \in PinType /\ pin.read = "none" /\ pin.step = 1
      /\ due = {}
  BY Zeros DEF Init, PinType, Levels
<1>2. Fresh BY <1>1, BootedGood DEF Init, Fresh
<1> QED BY <1>2, FreshGood

LEMMA RestartGood ==
  ASSUME Types, NEW ready \in BOOLEAN, Restart(ready), UNCHANGED kind
  PROVE  IInv'
<1>1. Fresh' BY BootedGood DEF Types, Restart, Fresh
<1>2. Fresh' => IInv' BY FreshGood, PTL
<1> QED BY <1>1, <1>2

--------------------------------------------------------------------------------
(* The pin: what does not touch the count leaves what is said of it.       *)
LEMMA PinFrame ==
  ASSUME IInv, UNCHANGED <<kind, btn, sys>>, pin'.last = pin.last,
         "click" \in due' <=> "click" \in due,
         user'.quiet = user.quiet, user'.clicks = user.clicks, user'.n = user.n,
         user'.told = user.told, user'.clean = user.clean,
         user'.crossed = user.crossed, user'.fresh = user.fresh
  PROVE  /\ ModeInv' /\ TriggerInv' /\ CountInv' /\ ClickInv' /\ HoldInv' /\ SaidInv'
         /\ user'.quiet <= btn'.since
         /\ sys'.mode = "run" /\ pin'.last = "active" => btn'.since = user'.quiet
         /\ btn'.timer = "advanced" => btn'.since = user'.quiet
         /\ sys'.boot < Silent => btn'.since = user'.quiet /\ btn'.clicks = 0
<1>1. /\ Counting' = Counting /\ Released' = Released /\ Advanced' = Advanced
      /\ OnToggle' = OnToggle /\ SaidHold(user)' = SaidHold(user)
  BY DEF Counting, Released, Advanced, OnToggle, SaidHold
<1>2. ModeInv' BY DEF IInv, ModeInv
<1>3. TriggerInv' BY <1>1 DEF IInv, TriggerInv, Biggest
<1>4. CountInv' BY <1>1 DEF IInv, CountInv
<1>5. ClickInv' BY <1>1 DEF IInv, ClickInv
<1>6. HoldInv' BY <1>1 DEF IInv, HoldInv
<1>7. SaidInv'
  <2>1. \A k : Destination(k)' = Destination(k) BY DEF Destination
  <2>2. TakenFor(user.n)' = TakenFor(user.n) BY DEF TakenFor
  <2> QED BY <1>1, <2>1, <2>2 DEF IInv, SaidInv
<1> QED BY <1>2, <1>3, <1>4, <1>5, <1>6, <1>7 DEF IInv, AgeInv

LEMMA EdgeGood ==
  ASSUME IInv, NEW masked \in BOOLEAN, Edge(masked)
  PROVE  IInv'
<1>1. pin \in PinType /\ user \in UserType BY DEF IInv, Types
<1> DEFINE other == CHOOSE m \in Levels : m # pin.level
           step == IF pin.step = 0 /\ ~masked THEN 1 ELSE pin.step
           missed == IF pin.step = 0 THEN masked
                     ELSE user.missed \/ pin.read # "none"
<1>2. other \in Levels
  <2>1. \E m \in Levels : m # pin.level BY DEF Levels
  <2> QED BY <2>1
<1>3. missed \in BOOLEAN /\ step \in 0 .. MinCycles + 1
  <2>1. user.missed \in BOOLEAN BY <1>1 DEF UserType
  <2>2. missed \in BOOLEAN BY <2>1, Zenon
  <2>3. step \in 0 .. MinCycles + 1 BY <1>1, Times DEF PinType
  <2> QED BY <2>2, <2>3
<1>4. pin' = [pin EXCEPT !.level = other, !.step = step] BY DEF Edge
<1>5. user' = [user EXCEPT !.missed = missed] BY DEF Edge
<1> HIDE DEF other
<1>6. /\ pin' \in PinType /\ pin'.level = other /\ pin'.step = step
      /\ pin'.last = pin.last /\ pin'.read = pin.read
  BY <1>1, <1>2, <1>3, <1>4 DEF PinType
<1>7. /\ user' \in UserType /\ user'.missed = missed /\ user'.quiet = user.quiet
      /\ user'.clicks = user.clicks /\ user'.n = user.n /\ user'.told = user.told
      /\ user'.clean = user.clean /\ user'.crossed = user.crossed
      /\ user'.fresh = user.fresh
  BY <1>1, <1>3, <1>5 DEF UserType
<1>8. UNCHANGED <<kind, btn, sys, due>> BY DEF Edge
<1>9. Types' BY <1>6, <1>7, <1>8 DEF IInv, Types
<1>10. /\ ModeInv' /\ TriggerInv' /\ CountInv' /\ ClickInv' /\ HoldInv' /\ SaidInv'
       /\ user'.quiet <= btn'.since
       /\ sys'.mode = "run" /\ pin'.last = "active" => btn'.since = user'.quiet
       /\ btn'.timer = "advanced" => btn'.since = user'.quiet
       /\ sys'.boot < Silent => btn'.since = user'.quiet /\ btn'.clicks = 0
  BY <1>6, <1>7, <1>8, PinFrame
<1>11. PinInv'
  <2>1. CASE pin.step = 0
    <3>1. pin.read = "none" BY <2>1 DEF IInv, PinInv
    <3>2. masked => step = 0 BY <2>1
    <3>3. ~masked => step = 1 BY <2>1
    <3> QED BY <1>6, <1>7, <2>1, <3>1, <3>2, <3>3 DEF IInv, PinInv
  <2>2. CASE pin.step # 0
    <3>1. missed <=> user.missed \/ pin.read # "none" BY <2>2
    <3>2. step = pin.step BY <2>2
    <3> HIDE DEF missed, step
    <3> QED BY <1>6, <1>7, <2>2, <3>1, <3>2 DEF IInv, PinInv
  <2> QED BY <2>1, <2>2
<1>12. AgeInv'
  BY <1>1, <1>6, <1>8, <1>10 DEF IInv, AgeInv, PinType
<1> QED BY <1>9, <1>10, <1>11, <1>12 DEF IInv

LEMMA ReadingGood ==
  ASSUME IInv, Debounces \/ LastReading
  PROVE  IInv'
<1>1. /\ pin \in PinType /\ MinCycles \in Nat /\ 0 < MinCycles
      /\ pin.step \in 0 .. MinCycles + 1 /\ pin.read = "none"
      /\ pin.step # 0 \/ Enough(pin.step)
  BY Times DEF IInv, Types, PinType, Debounces, LastReading
<1>2. /\ UNCHANGED <<kind, btn, sys, user>> /\ due' \subseteq due
      /\ "debounce" \in due /\ ("click" \in due' <=> "click" \in due)
  BY DEF Debounces, LastReading
<1>3. /\ pin' \in PinType /\ pin'.last = pin.last /\ pin'.level = pin.level
      /\ \/ Debounces /\ pin'.step >= 2 /\ pin'.read = "none"
         \/ pin'.step = pin.step /\ pin.step >= 2 /\ pin'.read = pin.level
  <2>1. CASE Debounces /\ (pin.step = 1 \/ pin.value # pin.level)
                       /\ pin' = [pin EXCEPT !.value = pin.level, !.step = 2]
    <3>1. 2 \in 0 .. MinCycles + 1 /\ pin.level \in Levels BY <1>1 DEF PinType
    <3>2. pin' \in PinType /\ pin'.step = 2 /\ pin'.read = pin.read
          /\ pin'.last = pin.last /\ pin'.level = pin.level
      BY <1>1, <2>1, <3>1 DEF PinType
    <3> QED BY <1>1, <2>1, <3>2
  <2>2. CASE Debounces /\ pin.step # 1 /\ ~Enough(pin.step)
                       /\ pin' = [pin EXCEPT !.step = @ + 1]
    <3>1. pin.step + 1 \in 0 .. MinCycles + 1 /\ pin.step + 1 >= 2
      BY <1>1, <2>2 DEF Enough, Debounces
    <3> QED BY <1>1, <2>2, <3>1 DEF PinType
  <2>3. CASE LastReading
    <3>1. pin.step >= 2 BY <1>1, <2>3 DEF LastReading, Enough
    <3>2. pin' = [pin EXCEPT !.read = pin.level] BY <2>3 DEF LastReading
    <3> QED BY <1>1, <3>1, <3>2 DEF PinType
  <2> QED BY <2>1, <2>2, <2>3 DEF Debounces
<1>4. Types' BY <1>2, <1>3 DEF IInv, Types
<1>5. /\ ModeInv' /\ TriggerInv' /\ CountInv' /\ ClickInv' /\ HoldInv' /\ SaidInv'
      /\ user'.quiet <= btn'.since
      /\ sys'.mode = "run" /\ pin'.last = "active" => btn'.since = user'.quiet
      /\ btn'.timer = "advanced" => btn'.since = user'.quiet
      /\ sys'.boot < Silent => btn'.since = user'.quiet /\ btn'.clicks = 0
  BY <1>2, <1>3, PinFrame
<1>6. PinInv' BY <1>1, <1>2, <1>3 DEF IInv, PinInv
<1>7. AgeInv'
  <2>1. btn'.since = btn.since /\ btn.since \in Int BY <1>2, OldBound DEF IInv, Types, BtnType
  <2>2. CASE Debounces
    <3>1. "debounce" \notin due' BY <2>2 DEF Debounces
    <3>2. pin'.read = "none" BY <1>1, <2>2, <1>3 DEF Debounces, LastReading, PinType
    <3>3. btn.since >= 1 BY <1>2 DEF IInv, AgeInv
    <3> QED BY <1>2, <1>5, <2>1, <3>1, <3>2, <3>3 DEF AgeInv
  <2>3. CASE LastReading
    <3>1. pin'.step = pin.step /\ pin.step >= 2
      BY <1>1, <2>3 DEF LastReading, Enough, PinType
    <3> QED BY <1>1, <1>2, <1>5, <2>1, <3>1, <2>3 DEF IInv, AgeInv, LastReading
  <2> QED BY <2>2, <2>3
<1> QED BY <1>4, <1>5, <1>6, <1>7 DEF IInv

--------------------------------------------------------------------------------
(* A change that is not acted upon, in the first moments after a start or  *)
(* because the level is the old one.                                       *)
LEMMA ReadBound ==
  ASSUME IInv, pin.read # "none"
  PROVE  /\ pin \in PinType /\ pin.read \in Levels /\ btn.since >= 2
         /\ ~user.missed => pin.read = pin.level
BY DEF IInv, Types, PinType, PinInv, AgeInv

(* The pin as the callback of the debounce timer leaves it.                *)
LEMMA HandledPin ==
  ASSUME IInv, pin.read # "none",
         pin' = [pin EXCEPT !.read = "none", !.step = 0, !.last = pin.read],
         user'.missed = user.missed
  PROVE  /\ pin' \in PinType /\ pin'.step = 0 /\ pin'.read = "none"
         /\ pin'.last = pin.read /\ pin'.level = pin.level
         /\ PinInv'
<1>1. 0 \in 0 .. MinCycles + 1 BY Times
<1>2. /\ pin' \in PinType /\ pin'.step = 0 /\ pin'.read = "none"
      /\ pin'.last = pin.read /\ pin'.level = pin.level
  BY <1>1, ReadBound DEF PinType
<1>3. PinInv' BY <1>2, ReadBound DEF PinInv
<1> QED BY <1>2, <1>3

LEMMA SilentGood ==
  ASSUME IInv, pin.read # "none", sys.boot < Silent \/ pin.last = pin.read,
         pin' = Silently([pin EXCEPT !.read = "none", !.step = 0], pin.read),
         UNCHANGED <<kind, btn, sys, user>>, due' = due \ {"debounce"}
  PROVE  IInv'
<1>1. pin' = [pin EXCEPT !.read = "none", !.step = 0, !.last = pin.read]
  BY ReadBound DEF Silently, PinType
<1>2. /\ pin' \in PinType /\ pin'.step = 0 /\ pin'.read = "none"
      /\ pin'.last = pin.read /\ PinInv'
  BY <1>1, HandledPin
<1>3. Types' BY <1>2 DEF IInv, Types
<1>4. CASE pin.last = pin.read
  <2>1. /\ ModeInv' /\ TriggerInv' /\ CountInv' /\ ClickInv' /\ HoldInv' /\ SaidInv'
        /\ user'.quiet <= btn'.since
        /\ sys'.mode = "run" /\ pin'.last = "active" => btn'.since = user'.quiet
        /\ btn'.timer = "advanced" => btn'.since = user'.quiet
        /\ sys'.boot < Silent => btn'.since = user'.quiet /\ btn'.clicks = 0
    BY <1>2, <1>4, PinFrame
  <2>2. AgeInv' BY <1>2, <2>1 DEF AgeInv
  <2> QED BY <1>2, <1>3, <2>1, <2>2 DEF IInv
<1>5. CASE sys.boot < Silent
  <2>1. /\ btn.timer = "off" /\ user.told = <<>> /\ btn.clicks = 0
        /\ btn.since = user.quiet
    BY <1>5, Times DEF IInv, ModeInv, AgeInv
  <2>2. /\ btn'.timer = "off" /\ user'.told = <<>> /\ btn'.clicks = 0
        /\ btn'.since = user'.quiet
    BY <2>1
  <2>3. ~SaidHold(user)' BY <2>2 DEF SaidHold
  <2>4. Counting' = Counting /\ Advanced' = Advanced /\ OnToggle' = OnToggle
    BY DEF Counting, Advanced, OnToggle
  <2>5. PinInv' /\ ModeInv' BY <1>2, <2>1 DEF IInv, ModeInv
  <2>6. AgeInv' BY <1>2, <2>2, <1>3, OldBound DEF AgeInv, Types, UserType
  <2>7. TriggerInv' BY <2>4 DEF IInv, TriggerInv, Biggest
  <2>8. CountInv' /\ HoldInv' BY <2>2 DEF CountInv, HoldInv
  <2>9. ClickInv' BY <2>4 DEF IInv, ClickInv
  <2>10. SaidInv' BY <2>1, <2>2, <2>4 DEF IInv, SaidInv
  <2> QED BY <1>3, <2>5, <2>6, <2>7, <2>8, <2>9, <2>10 DEF IInv
<1> QED BY <1>4, <1>5

(* A change that is.  A press that is already reported, or one of the      *)
(* other input's doing, makes no difference to where it goes.              *)
LEMMA Steady ==
  ASSUME UNCHANGED kind, btn'.triggers = btn.triggers, btn'.max = btn.max,
         btn'.others = btn.others, btn'.connected = btn.connected
  PROVE  /\ OnToggle' = OnToggle /\ OnHold' = OnHold
         /\ \A k : Destination(k)' = Destination(k)
         /\ \A n : TakenFor(n)' = TakenFor(n)
         /\ sys'.mode = sys.mode => Advanced' = Advanced
         /\ sys'.mode = "cfg" => ~Advanced'
         /\ \A c : TriggerInv /\ btn'.clicks = c /\ (c = -1 => btn.max >= 2)
              => TriggerInv'
<1>1. OnToggle' = OnToggle /\ OnHold' = OnHold BY DEF OnToggle, OnHold
<1>2. \A k : Destination(k)' = Destination(k) BY DEF Destination
<1>3. \A n : TakenFor(n)' = TakenFor(n) BY DEF TakenFor
<1>4. /\ sys'.mode = sys.mode => Advanced' = Advanced
      /\ sys'.mode = "cfg" => ~Advanced'
  BY DEF Advanced
<1>5. \A c : TriggerInv /\ btn'.clicks = c /\ (c = -1 => btn.max >= 2)
        => TriggerInv'
  BY <1>1 DEF TriggerInv, Biggest
<1> QED BY <1>1, <1>2, <1>3, <1>4, <1>5

LEMMA CfgModeType ==
  ASSUME Types
  PROVE  \A by \in {"button", "server"} :
    /\ CfgMode(by) \in SysType /\ CfgMode(by).mode = "cfg"
    /\ CfgMode(by).boot = sys.boot /\ CfgMode(by).ready = sys.ready
    /\ CfgMode(by).by = IF sys.mode = "cfg" THEN sys.by ELSE by
<1>1. sys \in SysType /\ 0 \in 0 .. ExitAfter + 1 BY Zeros DEF Types
<1>2. sys.mode = "run" \/ sys.mode = "cfg" BY <1>1 DEF SysType
<1> QED BY <1>1, <1>2 DEF CfgMode, SysType

(* What is left of a change of the history when the configuration mode is  *)
(* entered or the change is handled the legacy way.                        *)
LEMMA UncleanUser ==
  \A u \in UserType :
    /\ Disturbed(u) \in UserType /\ ~Disturbed(u).clean
    /\ Disturbed(u).quiet = u.quiet /\ Disturbed(u).clicks = u.clicks
    /\ Disturbed(u).n = u.n /\ Disturbed(u).told = u.told
    /\ Disturbed(u).crossed = u.crossed /\ Disturbed(u).fresh = u.fresh
    /\ Disturbed(u).missed = u.missed
    /\ Entered(u) \in UserType /\ ~Entered(u).clean /\ ~Entered(u).fresh
    /\ Entered(u).quiet = u.quiet /\ Entered(u).clicks = u.clicks
    /\ Entered(u).n = u.n /\ Entered(u).told = u.told
    /\ Entered(u).crossed = u.crossed /\ Entered(u).missed = u.missed
BY DEF Disturbed, Entered, UserType

(* What is known when a change is handled: two ticks have passed since the *)
(* last, and a count that goes on has not reached the most it can.         *)
LEMMA Changing ==
  ASSUME IInv, pin.read # "none", pin.last # pin.read
  PROVE  /\ kind.type \in {"monostable", "bistable"}
         /\ IsClick(pin.read) => Released
         /\ ~IsClick(pin.read) =>
              /\ pin.last = "active" /\ kind.type = "monostable" /\ ~Released
              /\ pin.read = "inactive"
         /\ Counting /\ btn.clicks # 0 /\ Released =>
              /\ btn.timer = "advanced" /\ user.quiet <= Multiclick
              /\ btn.clicks < btn.max /\ btn.max <= PressCount
<1>1. /\ kind.type \in {"monostable", "bistable"} /\ pin.last \in Levels
      /\ pin.read \in Levels
  BY ReadBound, InputAssumption DEF IInv, Types, KindOK, PinType
<1>2. IsClick(pin.read) => Released
  BY <1>1 DEF IsClick, Released, Levels
<1>3. ~IsClick(pin.read) =>
        /\ pin.last = "active" /\ kind.type = "monostable" /\ ~Released
        /\ pin.read = "inactive"
  BY <1>1 DEF IsClick, Released, Levels
<1>4. ASSUME Counting, btn.clicks # 0, Released
      PROVE  /\ btn.timer = "advanced" /\ user.quiet <= Multiclick
             /\ btn.clicks < btn.max /\ btn.max <= PressCount
  <2>1. btn.timer = "advanced" /\ btn.since = user.quiet
    BY <1>4 DEF IInv, CountInv, AgeInv
  <2>2. btn.since >= 2 BY ReadBound
  <2>3. /\ btn.since \in Int /\ btn.clicks \in Int /\ btn.max \in Int
        /\ Multiclick \in Int /\ PressCount \in Nat
    <3>1. btn \in BtnType BY DEF IInv, Types
    <3>2. Max({5, PressCount}) \in Int BY MaxBound
    <3> QED BY <3>1, <3>2, OldBound, Times DEF BtnType
  <2>4. btn.since <= Multiclick
    BY <1>4, <2>3 DEF IInv, CountInv
  <2>5. ~(btn.clicks >= btn.max) BY <1>4, <2>2, <2>3 DEF IInv, CountInv
  <2>6. btn.max <= PressCount
    <3>1. btn.triggers \in SUBSET (Actions \cap 0 .. PressCount)
      BY DEF IInv, Types, BtnType, TriggerInv
    <3>2. Biggest(btn.triggers) \in 0 .. PressCount BY <3>1, BiggestBound
    <3> QED BY <3>2, Times DEF IInv, TriggerInv
  <2> QED BY <2>1, <2>3, <2>4, <2>5, <2>6
<1> QED BY <1>1, <1>2, <1>3, <1>4

(* The way of action triggers.                                             *)
LEMMA AdvancedGood ==
  ASSUME IInv, pin.read # "none", pin.last # pin.read, sys.boot = Silent, Advanced,
         AdvancedChange(pin.read), due' = {}, UNCHANGED kind,
         pin' = [pin EXCEPT !.read = "none", !.step = 0, !.last = pin.read]
  PROVE  IInv'
<1>1. PICK s : s = pin.read OBVIOUS
<1>2. /\ s \in Levels /\ btn \in BtnType /\ sys \in SysType /\ user \in UserType
      /\ Types
  BY <1>1, ReadBound DEF IInv, Types
<1>3. /\ IsClick(s) => Released
      /\ ~IsClick(s) => /\ pin.last = "active" /\ kind.type = "monostable"
                        /\ ~Released /\ s = "inactive"
      /\ Counting /\ btn.clicks # 0 /\ Released =>
           /\ user.quiet <= Multiclick
           /\ btn.clicks < btn.max /\ btn.max <= PressCount
  BY <1>1, Changing
<1>4. PICK v : v = Clicked(user, s) OBVIOUS
<1>5. /\ v \in UserType /\ v.quiet = 0 /\ v.crossed = user.crossed
      /\ v.missed = user.missed
      /\ ~IsClick(s) =>
           /\ v.n = user.n /\ v.told = user.told /\ v.clean = user.clean
           /\ v.fresh = user.fresh /\ v.clicks = user.clicks
      /\ IsClick(s) =>
           /\ v.fresh = (sys.mode = "cfg") /\ v.n > 0
           /\ v.clicks = IF user.quiet > Window THEN 1
                         ELSE IF user.clicks + 1 < PressCount THEN user.clicks + 1
                         ELSE PressCount
           /\ Renews(user) => v.n = 1 /\ v.told = <<>> /\ v.clean = ~user.crossed
           /\ ~Renews(user) =>
                /\ v.told = user.told
                /\ v.n = IF user.n < PressCount + 1 THEN user.n + 1
                         ELSE PressCount + 1
                /\ v.clean => user.clean /\ user.quiet # Multiclick
  BY <1>2, <1>4, ClickedUser
<1> DEFINE c == IF btn.clicks # -1 /\ IsClick(s) THEN btn.clicks + 1 ELSE btn.clicks
           enters == btn.clicks # -1 /\ IsClick(s) /\ OnToggle /\ c >= PressCount
           now == IF enters THEN 0 ELSE IF c < PressCount THEN c ELSE PressCount
<1>6. /\ btn.clicks \in -1 .. PressCount /\ PressCount \in Nat /\ 1 < PressCount
      /\ c \in -1 .. PressCount + 1
      /\ user.quiet \in Nat /\ user.clicks \in 0 .. PressCount
      /\ user.n \in 0 .. PressCount + 1 /\ btn.max \in Nat
      /\ Multiclick \in Nat /\ Window \in Nat /\ Multiclick < Window
  <2>1. Max({5, PressCount}) \in Int BY MaxBound
  <2>2. /\ btn.clicks \in -1 .. PressCount /\ btn.max \in Nat
        /\ user.quiet \in Nat /\ user.clicks \in 0 .. PressCount
        /\ user.n \in 0 .. PressCount + 1
    BY <1>2, <2>1, OldBound DEF BtnType, UserType
  <2>3. c \in -1 .. PressCount + 1 BY <2>2, Times
  <2> HIDE DEF c
  <2> QED BY <2>2, <2>3, Times
<1>7. Min({c, PressCount}) = IF c < PressCount THEN c ELSE PressCount
  BY <1>6, MinPair
<1>8. now \in -1 .. PressCount BY <1>6
<1>9. btn' = [btn EXCEPT !.clicks = now, !.timer = "advanced", !.since = 0]
  BY <1>1, <1>7 DEF AdvancedChange
<1>10. /\ sys' = IF enters THEN CfgMode("button") ELSE sys
       /\ user' = IF enters THEN Entered(v) ELSE v
  BY <1>1, <1>4 DEF AdvancedChange
<1>11. /\ ~enters => now = IF c < PressCount THEN c ELSE PressCount
       /\ enters => now = 0
  OBVIOUS
<1>12. c = IF btn.clicks # -1 /\ IsClick(s) THEN btn.clicks + 1 ELSE btn.clicks
  OBVIOUS
<1>13. PICK e \in BOOLEAN : e <=> enters OBVIOUS
<1> HIDE DEF now, enters, c
<1>14. /\ btn' \in BtnType /\ btn'.clicks = now /\ btn'.timer = "advanced"
       /\ btn'.since = 0 /\ btn'.triggers = btn.triggers /\ btn'.max = btn.max
       /\ btn'.others = btn.others /\ btn'.connected = btn.connected
  BY <1>2, <1>8, <1>9, Zeros DEF BtnType
<1>15. /\ sys' \in SysType /\ sys'.boot = Silent /\ sys'.ready = sys.ready
       /\ enters => sys'.mode = "cfg"
       /\ ~enters => sys' = sys
  BY <1>2, <1>10, CfgModeType
<1>16. /\ user' \in UserType /\ user'.quiet = 0 /\ user'.missed = user.missed
       /\ enters => ~user'.clean /\ ~user'.fresh /\ user'.told = v.told
       /\ ~enters => user' = v
       /\ user'.n = v.n
  BY <1>5, <1>10, UncleanUser
<1>17. /\ pin' \in PinType /\ pin'.step = 0 /\ pin'.read = "none"
       /\ pin'.last = s /\ PinInv'
  BY <1>1, <1>16, HandledPin
<1>18. Types' BY <1>14, <1>15, <1>16, <1>17 DEF IInv, Types
<1>19. /\ \A k : Destination(k)' = Destination(k)
       /\ \A n : TakenFor(n)' = TakenFor(n)
       /\ ~enters => Advanced' = Advanced
       /\ enters => ~Advanced'
       /\ \A x : TriggerInv /\ btn'.clicks = x /\ (x = -1 => btn.max >= 2)
            => TriggerInv'
  BY <1>14, <1>15, Steady
<1>20. sys.mode = "run" /\ sys.ready BY DEF Advanced, IInv, ModeInv
<1>21. AgeInv' BY <1>14, <1>15, <1>16, <1>17, Times DEF AgeInv
<1>22. ModeInv'
  <2>1. enters => now = 0 BY <1>11
  <2>2. ~enters => sys'.mode = "run" BY <1>15, <1>20
  <2> QED BY <1>14, <1>15, <1>16, <1>20, <2>1, <2>2 DEF ModeInv
<1>23. now = -1 => btn.clicks = -1 /\ ~enters BY <1>6, <1>11, <1>12
<1>24. TriggerInv' BY <1>14, <1>19, <1>23 DEF IInv, TriggerInv
<1>25. CASE enters
  <2>1. CountInv' BY <1>19, <1>25 DEF CountInv, Counting
  <2>2. HoldInv' BY <1>11, <1>14, <1>25 DEF HoldInv
  <2>3. ClickInv' BY <1>15, <1>25 DEF ClickInv
  <2>4. SaidInv' BY <1>16, <1>25 DEF SaidInv
  <2> QED BY <1>17, <1>18, <1>21, <1>22, <1>24, <2>1, <2>2, <2>3, <2>4 DEF IInv
<1>26. CASE ~enters
  <2>1. /\ user' = v /\ Advanced' /\ sys'.mode = "run"
        /\ Counting' <=> Counting
    BY <1>5, <1>15, <1>16, <1>19, <1>20, <1>26 DEF Counting
  <2>2. IsClick(s) /\ SaidHold(user) => v.told = <<>>
    BY <1>5 DEF Renews
  <2>3. ~SaidHold(user)' \/ (~IsClick(s) /\ SaidHold(user))
    BY <1>5, <2>1, <2>2 DEF SaidHold
  <2>4. HoldInv'
    <3>1. now # 0 => ~SaidHold(user)' /\ v.n # 0
      <4>1. ASSUME now # 0, SaidHold(user)' \/ v.n = 0 PROVE FALSE
        <5>1. ~IsClick(s) /\ (SaidHold(user) \/ user.n = 0)
          BY <1>5, <1>6, <2>3, <4>1
        <5>2. btn.clicks # 0 BY <1>6, <1>11, <1>12, <1>26, <4>1, <5>1
        <5>3. pin.last = "inactive" BY <5>1, <5>2 DEF IInv, HoldInv
        <5> QED BY <1>3, <5>1, <5>3
      <4> QED BY <4>1
    <3> QED BY <1>14, <2>1, <3>1 DEF HoldInv
  <2>5. CountInv'
    <3>1. ASSUME Counting', now # 0 PROVE now <= 1 \/ now <= btn.max
      <4>1. CASE IsClick(s)
        <5>1. btn.clicks # 0 => btn.clicks < btn.max
          BY <1>3, <2>1, <3>1, <4>1
        <5> QED BY <1>6, <1>11, <1>12, <1>26, <5>1
      <4>2. CASE ~IsClick(s)
        <5>1. now = btn.clicks BY <1>6, <1>11, <1>12, <1>26, <4>2
        <5> QED BY <2>1, <3>1, <5>1 DEF IInv, CountInv
      <4> QED BY <4>1, <4>2
    <3> QED BY <1>14, <3>1, Times DEF CountInv
  <2>6. ClickInv'
    <3>1. ASSUME ~user.crossed, "cfg" \in kind.flags
          PROVE  now <= v.clicks
      <4>1. Counting /\ btn.clicks <= user.clicks
        BY <1>20, <3>1 DEF IInv, ClickInv, Counting
      <4>2. CASE ~IsClick(s)
        BY <1>5, <1>6, <1>11, <1>12, <1>26, <4>1, <4>2
      <4>3. CASE IsClick(s) /\ btn.clicks \in {-1, 0}
        BY <1>5, <1>6, <1>11, <1>12, <1>26, <4>1, <4>3
      <4>4. CASE IsClick(s) /\ btn.clicks \notin {-1, 0}
        <5>1. user.quiet <= Multiclick BY <1>3, <4>1, <4>4
        <5>2. ~(user.quiet > Window)
          <6>1. /\ user.quiet \in Nat /\ Multiclick \in Nat /\ Window \in Nat
                /\ Multiclick < Window
            BY <1>6
          <6> QED BY <5>1, <6>1
        <5>3. v.clicks = IF user.clicks + 1 < PressCount THEN user.clicks + 1
                         ELSE PressCount
          BY <1>5, <4>4, <5>2
        <5>4. now = IF btn.clicks + 1 < PressCount THEN btn.clicks + 1
                    ELSE PressCount
          BY <1>11, <1>12, <1>26, <4>4
        <5>5. btn.clicks \in Int /\ user.clicks \in Int /\ PressCount \in Int
          BY <1>6
        <5> QED BY <4>1, <5>3, <5>4, <5>5
      <4> QED BY <4>2, <4>3, <4>4
    <3> QED BY <1>5, <1>14, <2>1, <3>1 DEF ClickInv
  <2>7. SaidInv'
    <3> SUFFICES ASSUME v.clean, v.n > 0
                 PROVE  SaidInv'
      BY <2>1 DEF SaidInv
    <3>1. CASE ~IsClick(s)
      <4>1. user.clean /\ user.n > 0 /\ now = btn.clicks
        <5>1. now = btn.clicks BY <1>6, <1>11, <1>12, <1>26, <3>1
        <5>2. v.clean = user.clean /\ v.n = user.n BY <1>5, <3>1
        <5> QED BY <5>1, <5>2
      <4>2. ~Released BY <1>3, <3>1
      <4>3. user.told # <<>> /\ user.told[1].took # 0 => btn.clicks # 0
        BY <4>1, <4>2 DEF IInv, SaidInv
      <4> QED
        BY <1>5, <1>14, <1>19, <2>1, <3>1, <4>1, <4>3 DEF IInv, SaidInv
    <3>2. CASE IsClick(s) /\ Renews(user)
      <4>1. Counting BY <1>5, <2>1, <3>2 DEF Counting
      <4>2. ASSUME btn.clicks # 0 PROVE FALSE
        <5>1. ~SaidHold(user) /\ user.n # 0
          BY <4>1, <4>2 DEF IInv, HoldInv
        <5>2. user.quiet <= Multiclick /\ btn.clicks < btn.max
          BY <1>3, <3>2, <4>1, <4>2
        <5>3. btn.max <= 1 BY <1>6, <3>2, <5>1, <5>2 DEF Renews
        <5>4. btn.clicks = -1 BY <1>6, <4>2, <5>2, <5>3
        <5> QED BY <1>6, <5>3, <5>4 DEF IInv, TriggerInv
      <4>3. btn.clicks = 0 BY <4>2
      <4>4. now = 1 BY <1>6, <1>11, <1>12, <1>26, <3>2, <4>3
      <4> QED BY <1>5, <1>14, <2>1, <3>2, <4>1, <4>4 DEF SaidInv
    <3>3. CASE IsClick(s) /\ ~Renews(user)
      <4>1. /\ user.clean /\ user.quiet # Multiclick /\ user.n > 0
            /\ user.quiet < Multiclick /\ btn.max > 1 /\ ~SaidHold(user)
            /\ v.told = user.told
            /\ v.n = IF user.n < PressCount + 1 THEN user.n + 1 ELSE PressCount + 1
        BY <1>5, <1>6, <3>3 DEF Renews
      <4>2. Counting BY <4>1 DEF IInv, SaidInv
      <4>3. CASE user.told = <<>>
        <5>1. btn.clicks = user.n BY <4>1, <4>3 DEF IInv, SaidInv
        <5>2. btn.clicks < btn.max /\ btn.max <= PressCount
          BY <1>3, <1>6, <3>3, <4>1, <4>2, <5>1
        <5>3. now = v.n
          BY <1>6, <1>11, <1>12, <1>26, <3>3, <4>1, <5>1, <5>2
        <5> QED BY <1>14, <2>1, <4>1, <4>2, <4>3, <5>3 DEF SaidInv
      <4>4. CASE user.told # <<>>
        <5>1. user.told \in Seq(Said) BY <1>2, ToldType DEF UserType
        <5>2. Len(user.told) = 1 BY <4>1, <4>4 DEF IInv, SaidInv
        <5>3. 1 \in DOMAIN user.told BY <5>1, <5>2, LenProperties
        <5>4. user.told[1].took # 0 BY <4>1, <5>3 DEF SaidHold
        <5>5. btn.clicks = -1
          BY <1>6, <4>1, <4>4, <5>4 DEF IInv, SaidInv
        <5>6. user.n >= btn.max /\ user.told[1].took = TakenFor(user.n)
              /\ user.told[1].to = Destination(user.told[1].took)
          BY <4>1, <4>4, <5>4, <5>5 DEF IInv, SaidInv
        <5>7. now = -1 BY <1>6, <1>11, <1>12, <1>26, <5>5
        <5>8. v.n >= btn.max /\ TakenFor(v.n) = TakenFor(user.n)
          <6>1. Max({1, btn.max}) = btn.max BY <1>6, <4>1, MaxPair
          <6>2. v.n >= user.n /\ v.n >= btn.max /\ v.n \in Int
            BY <1>6, <4>1, <5>6
          <6>3. /\ TakenFor(v.n) = btn.max
                /\ TakenFor(user.n) = btn.max
            BY <1>6, <5>6, <6>1, <6>2 DEF TakenFor
          <6> QED BY <6>2, <6>3
        <5>9. TakenFor(v.n)' = TakenFor(v.n) BY <1>19
        <5>10. user' = v /\ btn'.clicks = -1 /\ btn'.max = btn.max
          BY <1>14, <2>1, <5>7
        <5> QED
          BY <1>19, <2>1, <4>1, <4>2, <4>4, <5>2, <5>4, <5>6, <5>8, <5>9, <5>10
          DEF SaidInv
      <4> QED BY <4>3, <4>4
    <3> QED BY <3>1, <3>2, <3>3
  <2> QED BY <1>17, <1>18, <1>21, <1>22, <1>24, <2>4, <2>5, <2>6, <2>7 DEF IInv
<1> QED BY <1>25, <1>26

(* What the legacy way counts.                                             *)
LEMMA LegacyCounts ==
  ASSUME Types
  PROVE  \A s \in Levels :
    LET n == LegacyCount(s)
    IN  /\ n \in -1 .. PressCount /\ (n = -1 => btn.clicks = -1)
        /\ ~CfgButton => n = btn.clicks
        /\ CfgButton /\ sys.mode = "run" =>
             n = IF btn.since >= Window THEN 1
                 ELSE IF IsClick(s)
                      THEN IF btn.clicks + 1 < PressCount THEN btn.clicks + 1
                           ELSE PressCount
                 ELSE btn.clicks
        /\ CfgButton /\ sys.mode = "cfg" => n = IF IsClick(s) THEN 1 ELSE btn.clicks
<1> TAKE s \in Levels
<1>1. /\ btn.clicks \in -1 .. PressCount /\ PressCount \in Nat /\ 1 < PressCount
      /\ sys.mode \in {"run", "cfg"}
  BY Times DEF Types, BtnType, SysType
<1>2. Min({btn.clicks + 1, PressCount}) =
        IF btn.clicks + 1 < PressCount THEN btn.clicks + 1 ELSE PressCount
  <2>1. btn.clicks + 1 \in Int /\ PressCount \in Int BY <1>1
  <2> QED BY <2>1, MinPair
<1>3. PICK n : n = LegacyCount(s) OBVIOUS
<1>4. CASE ~CfgButton
  <2>1. n = btn.clicks BY <1>3, <1>4 DEF LegacyCount
  <2> QED BY <1>1, <1>3, <1>4, <2>1
<1>5. CASE CfgButton /\ sys.mode = "run"
  <2>1. n = IF btn.since >= Window THEN 1
            ELSE IF IsClick(s)
                 THEN IF btn.clicks + 1 < PressCount THEN btn.clicks + 1
                      ELSE PressCount
            ELSE btn.clicks
    BY <1>2, <1>3, <1>5 DEF LegacyCount
  <2> QED BY <1>1, <1>3, <1>5, <2>1
<1>6. CASE CfgButton /\ sys.mode = "cfg"
  <2>1. n = IF IsClick(s) THEN 1 ELSE btn.clicks
    BY <1>3, <1>6 DEF LegacyCount
  <2> QED BY <1>1, <1>3, <1>6, <2>1
<1> QED BY <1>1, <1>4, <1>5, <1>6

(* The legacy way.                                                         *)
LEMMA LegacyGood ==
  ASSUME IInv, pin.read # "none", pin.last # pin.read, sys.boot = Silent, ~Advanced,
         LegacyChange(pin.read), due' = {}, UNCHANGED kind,
         pin' = [pin EXCEPT !.read = "none", !.step = 0, !.last = pin.read]
  PROVE  IInv'
<1>1. PICK s : s = pin.read OBVIOUS
<1>2. /\ s \in Levels /\ btn \in BtnType /\ sys \in SysType /\ user \in UserType
      /\ Types
  BY <1>1, ReadBound DEF IInv, Types
<1>3. ~IsClick(s) => kind.type = "monostable" /\ s = "inactive"
  BY <1>1, Changing
<1>4. PICK v : v = Clicked(user, s) OBVIOUS
<1>5. /\ v \in UserType /\ v.quiet = 0 /\ v.crossed = user.crossed
      /\ v.missed = user.missed
      /\ ~IsClick(s) =>
           /\ v.n = user.n /\ v.told = user.told /\ v.clean = user.clean
           /\ v.fresh = user.fresh /\ v.clicks = user.clicks
      /\ IsClick(s) =>
           /\ v.fresh = (sys.mode = "cfg") /\ v.n > 0
           /\ v.clicks = IF user.quiet > Window THEN 1
                         ELSE IF user.clicks + 1 < PressCount THEN user.clicks + 1
                         ELSE PressCount
           /\ Renews(user) => v.n = 1 /\ v.told = <<>> /\ v.clean = ~user.crossed
           /\ ~Renews(user) =>
                /\ v.told = user.told
                /\ v.n = IF user.n < PressCount + 1 THEN user.n + 1
                         ELSE PressCount + 1
                /\ v.clean => user.clean /\ user.quiet # Multiclick
  BY <1>2, <1>4, ClickedUser
<1>6. /\ btn.clicks \in -1 .. PressCount /\ PressCount \in Nat /\ 1 < PressCount
      /\ user.quiet \in Nat /\ user.clicks \in 0 .. PressCount
      /\ btn.since \in 0 .. Old /\ Window \in Nat /\ user.quiet <= btn.since
      /\ sys.mode \in {"run", "cfg"}
  BY <1>2, Times, OldBound DEF BtnType, UserType, SysType, IInv, AgeInv
<1>7. PICK n : n = LegacyCount(s) OBVIOUS
<1>8. /\ n \in -1 .. PressCount /\ (n = -1 => btn.clicks = -1)
      /\ ~CfgButton => n = btn.clicks
      /\ CfgButton /\ sys.mode = "run" =>
           n = IF btn.since >= Window THEN 1
               ELSE IF IsClick(s)
                    THEN IF btn.clicks + 1 < PressCount THEN btn.clicks + 1
                         ELSE PressCount
               ELSE btn.clicks
      /\ CfgButton /\ sys.mode = "cfg" => n = IF IsClick(s) THEN 1 ELSE btn.clicks
  BY <1>2, <1>7, LegacyCounts
<1>9. \/ /\ btn' = [btn EXCEPT !.clicks = 0, !.timer = "off"]
         /\ sys' = CfgMode("button") /\ user' = Entered(v)
      \/ /\ btn' = [btn EXCEPT !.clicks = n,
                               !.timer = IF s = "active" /\ OnHold THEN "legacy"
                                         ELSE "off",
                               !.since = IF s = "active" THEN 0 ELSE @]
         /\ user' = Disturbed(v) /\ UNCHANGED sys
  BY <1>1, <1>4, <1>7 DEF LegacyChange
<1>10. PICK t \in {"off", "legacy"} :
         t = IF s = "active" /\ OnHold THEN "legacy" ELSE "off"
  OBVIOUS
<1>11. PICK a \in 0 .. Old : a = IF s = "active" THEN 0 ELSE btn.since
  BY <1>6, Zeros
<1>12. /\ btn' \in BtnType /\ btn'.triggers = btn.triggers /\ btn'.max = btn.max
       /\ btn'.others = btn.others /\ btn'.connected = btn.connected
       /\ sys' \in SysType /\ sys'.boot = Silent /\ sys'.ready = sys.ready
       /\ user' \in UserType /\ user'.quiet = 0 /\ user'.missed = user.missed
       /\ ~user'.clean /\ user'.n = v.n /\ user'.told = v.told
       /\ user'.clicks = v.clicks /\ user'.crossed = v.crossed
       /\ \/ /\ btn'.clicks = 0 /\ btn'.timer = "off" /\ btn'.since = btn.since
             /\ sys'.mode = "cfg" /\ ~user'.fresh
          \/ /\ btn'.clicks = n /\ btn'.timer = t /\ btn'.since = a
             /\ sys' = sys /\ user'.fresh = v.fresh
  <2>1. CASE /\ btn' = [btn EXCEPT !.clicks = 0, !.timer = "off"]
             /\ sys' = CfgMode("button") /\ user' = Entered(v)
    <3>1. /\ user' \in UserType /\ user'.quiet = 0 /\ user'.missed = user.missed
          /\ ~user'.clean /\ user'.n = v.n /\ user'.told = v.told
          /\ user'.clicks = v.clicks /\ user'.crossed = v.crossed /\ ~user'.fresh
      BY <1>5, <2>1, UncleanUser
    <3>2. /\ sys' \in SysType /\ sys'.boot = Silent /\ sys'.ready = sys.ready
          /\ sys'.mode = "cfg"
      BY <1>2, <2>1, CfgModeType
    <3>3. /\ btn' \in BtnType /\ btn'.triggers = btn.triggers /\ btn'.max = btn.max
          /\ btn'.others = btn.others /\ btn'.connected = btn.connected
          /\ btn'.clicks = 0 /\ btn'.timer = "off" /\ btn'.since = btn.since
      BY <1>2, <2>1, Zeros DEF BtnType
    <3> QED BY <3>1, <3>2, <3>3
  <2>2. CASE /\ btn' = [btn EXCEPT !.clicks = n, !.timer = t, !.since = a]
             /\ user' = Disturbed(v) /\ UNCHANGED sys
    <3>1. /\ user' \in UserType /\ user'.quiet = 0 /\ user'.missed = user.missed
          /\ ~user'.clean /\ user'.n = v.n /\ user'.told = v.told
          /\ user'.clicks = v.clicks /\ user'.crossed = v.crossed
          /\ user'.fresh = v.fresh
      BY <1>5, <2>2, UncleanUser
    <3>2. /\ btn' \in BtnType /\ btn'.triggers = btn.triggers /\ btn'.max = btn.max
          /\ btn'.others = btn.others /\ btn'.connected = btn.connected
          /\ btn'.clicks = n /\ btn'.timer = t /\ btn'.since = a
      BY <1>2, <1>8, <1>11, <2>2 DEF BtnType
    <3> QED BY <1>2, <2>2, <3>1, <3>2
  <2> QED BY <1>9, <1>10, <1>11, <2>1, <2>2
<1>13. /\ pin' \in PinType /\ pin'.step = 0 /\ pin'.read = "none"
       /\ pin'.last = s /\ PinInv'
  BY <1>1, <1>12, HandledPin
<1>14. Types' BY <1>12, <1>13 DEF IInv, Types
<1>15. ~Advanced'
  <2>1. sys'.mode = "cfg" => ~Advanced' BY DEF Advanced
  <2>2. sys' = sys => ~Advanced' BY <1>12 DEF Advanced
  <2> QED BY <1>12, <2>1, <2>2
<1>16. ~Counting' BY <1>15 DEF Counting
<1>17. AgeInv'
  <2>1. 0 <= btn'.since BY <1>6, <1>11, <1>12, OldBound
  <2>2. sys'.mode = "run" /\ s = "active" => btn'.since = 0
    BY <1>11, <1>12
  <2>3. btn'.timer # "advanced" BY <1>12
  <2> QED BY <1>12, <1>13, <2>1, <2>2, <2>3, Times DEF AgeInv
<1>18. ModeInv'
  <2>1. sys'.mode = "run" => sys'.ready
    BY <1>12 DEF IInv, ModeInv
  <2>2. ASSUME sys'.mode = "cfg", sys'.by = "button", ~user'.fresh
        PROVE  btn'.clicks <= 0 /\ btn'.timer # "legacy"
    <3>1. CASE btn'.clicks = 0 /\ btn'.timer = "off" BY <3>1
    <3>2. CASE /\ btn'.clicks = n /\ btn'.timer = t /\ sys' = sys
               /\ user'.fresh = v.fresh
      <4>1. ~IsClick(s) BY <1>5, <2>2, <3>2
      <4>2. ~user.fresh BY <1>5, <2>2, <3>2, <4>1
      <4>3. btn.clicks <= 0 BY <2>2, <3>2, <4>2 DEF IInv, ModeInv
      <4>4. s = "inactive" BY <1>3, <4>1
      <4> QED BY <1>8, <1>10, <2>2, <3>2, <4>1, <4>3, <4>4
    <3> QED BY <1>12, <3>1, <3>2
  <2> QED BY <1>12, <2>1, <2>2 DEF ModeInv
<1>19. TriggerInv'
  <2>1. btn'.clicks = -1 => btn.max >= 2
    BY <1>8, <1>12 DEF IInv, TriggerInv
  <2>2. \A x : TriggerInv /\ btn'.clicks = x /\ (x = -1 => btn.max >= 2)
          => TriggerInv'
    BY <1>12, Steady
  <2> QED BY <2>1, <2>2 DEF IInv
<1>20. CountInv' BY <1>16 DEF CountInv
<1>21. ClickInv'
  <2>1. ASSUME sys'.mode = "run", ~user'.crossed, "cfg" \in kind'.flags
        PROVE  btn'.since >= Window \/ btn'.clicks <= user'.clicks
    <3>1. /\ sys' = sys /\ btn'.clicks = n /\ btn'.since = a
          /\ user'.clicks = v.clicks /\ ~user.crossed
      BY <1>5, <1>12, <2>1
    <3>2. sys.mode = "run" /\ CfgButton
      BY <2>1, <3>1 DEF IInv, ModeInv, CfgButton
    <3>3. CASE btn.since >= Window
      <4>1. n = 1 BY <1>8, <3>2, <3>3
      <4>2. IsClick(s) => v.clicks >= 1 BY <1>5, <1>6
      <4>3. ~IsClick(s) => a = btn.since BY <1>3, <1>11
      <4> QED BY <3>1, <3>3, <4>1, <4>2, <4>3
    <3>4. CASE btn.since < Window
      <4>1. btn.clicks <= user.clicks
        BY <1>6, <2>1, <3>1, <3>2, <3>4, OldBound DEF IInv, ClickInv
      <4>2. ~(user.quiet > Window) /\ ~(btn.since >= Window)
        BY <1>6, <3>4, OldBound
      <4>3. n <= v.clicks BY <1>5, <1>6, <1>8, <3>2, <4>1, <4>2, SMTT(20)
      <4> QED BY <3>1, <4>3
    <3> QED BY <1>6, <3>3, <3>4, OldBound
  <2> QED BY <1>15, <2>1 DEF ClickInv
<1>22. HoldInv'
  <2>1. ASSUME SaidHold(user)' \/ user'.n = 0
        PROVE  pin'.last = "inactive" /\ kind'.type = "monostable" /\ btn'.timer = "off"
    <3>1. IsClick(s) /\ SaidHold(user) => v.told = <<>>
      BY <1>5 DEF Renews
    <3>2. ~IsClick(s)
      BY <1>5, <1>12, <2>1, <3>1, Times DEF SaidHold
    <3>3. s = "inactive" /\ kind.type = "monostable" BY <1>3, <3>2
    <3> QED BY <1>10, <1>12, <1>13, <3>3
  <2> QED BY <1>16, <2>1 DEF HoldInv
<1>23. SaidInv' BY <1>12 DEF SaidInv
<1> QED BY <1>13, <1>14, <1>17, <1>18, <1>19, <1>20, <1>21, <1>22, <1>23 DEF IInv

LEMMA ChangesGood == IInv /\ Changes => IInv'
<1> SUFFICES ASSUME IInv, Changes PROVE IInv'
  OBVIOUS
<1>1. pin.read # "none" /\ UNCHANGED kind BY DEF Changes
<1>2. Types /\ sys.ready \in BOOLEAN BY DEF IInv, Types, SysType
<1>3. [[pin EXCEPT !.read = "none", !.step = 0] EXCEPT !.last = pin.read]
        = [pin EXCEPT !.read = "none", !.step = 0, !.last = pin.read]
  BY ReadBound, <1>1 DEF PinType
<1>4. CASE /\ sys.boot < Silent \/ pin.last = pin.read
           /\ pin' = Silently([pin EXCEPT !.read = "none", !.step = 0], pin.read)
           /\ UNCHANGED <<btn, sys, user>> /\ due' = due \ {"debounce"}
  BY <1>1, <1>4, SilentGood
<1>5. CASE Restart(sys.ready) BY <1>1, <1>2, <1>5, RestartGood
<1>6. CASE /\ sys.boot = Silent /\ pin.last # pin.read /\ due' = {}
           /\ IF Advanced THEN AdvancedChange(pin.read) ELSE LegacyChange(pin.read)
           /\ pin' = [[pin EXCEPT !.read = "none", !.step = 0]
                        EXCEPT !.last = pin.read]
  BY <1>1, <1>3, <1>6, AdvancedGood, LegacyGood
<1> QED BY <1>4, <1>5, <1>6 DEF Changes, Notify

--------------------------------------------------------------------------------
(* The click timer.  One that finds nothing to do leaves everything as it  *)
(* is but for its turn in this tick.                                       *)
LEMMA IdleTimer ==
  ASSUME IInv, UNCHANGED <<kind, pin, btn, sys, user>>, due' = due \ {"click"},
         Counting /\ btn.clicks # 0 /\ Released =>
           btn.since < Multiclick /\ btn.clicks < btn.max
  PROVE  IInv'
<1>1. Types' BY DEF IInv, Types
<1>2. /\ Counting' = Counting /\ Released' = Released /\ Advanced' = Advanced
      /\ OnToggle' = OnToggle /\ SaidHold(user)' = SaidHold(user)
  BY DEF Counting, Released, Advanced, OnToggle, SaidHold
<1>3. btn \in BtnType BY DEF IInv, Types
<1>4. /\ btn.clicks \in Int /\ btn.max \in Int /\ btn.since \in Int
      /\ Multiclick \in Int
  BY <1>3, MaxBound, OldBound, Times DEF BtnType
<1>5. PinInv' /\ AgeInv' BY DEF IInv, PinInv, AgeInv
<1>6. ModeInv' BY DEF IInv, ModeInv
<1>7. TriggerInv' BY <1>2 DEF IInv, TriggerInv, Biggest
<1>8. CountInv' BY <1>2, <1>4 DEF IInv, CountInv
<1>9. ClickInv' /\ HoldInv' BY <1>2 DEF IInv, ClickInv, HoldInv
<1>10. SaidInv'
  <2>1. \A k : Destination(k)' = Destination(k) BY DEF Destination
  <2>2. TakenFor(user.n)' = TakenFor(user.n) BY DEF TakenFor
  <2> QED BY <1>2, <2>1, <2>2 DEF IInv, SaidInv
<1> QED BY <1>1, <1>5, <1>6, <1>7, <1>8, <1>9, <1>10 DEF IInv

(* A button held long enough opens the configuration mode.                 *)
LEMMA HeldGood ==
  ASSUME IInv, btn' = Held(btn), sys' = CfgMode("button"),
         user' = (IF sys.mode = "run" THEN Entered(user) ELSE user),
         UNCHANGED <<kind, pin>>, due' = due \ {"click"}
  PROVE  IInv'
<1>1. btn \in BtnType /\ sys \in SysType /\ user \in UserType /\ Types
  BY DEF IInv, Types
<1>2. /\ btn' \in BtnType /\ btn'.triggers = btn.triggers /\ btn'.max = btn.max
      /\ btn'.others = btn.others /\ btn'.connected = btn.connected
      /\ btn'.clicks = 0 /\ btn'.timer = "off" /\ btn'.since = btn.since
  BY <1>1, Zeros DEF Held, BtnType
<1>3. /\ sys' \in SysType /\ sys'.boot = sys.boot /\ sys'.mode = "cfg"
  BY <1>1, CfgModeType
<1>4. /\ user' \in UserType /\ user'.quiet = user.quiet /\ user'.told = user.told
      /\ user'.missed = user.missed /\ user'.n = user.n
      /\ user'.clean /\ user'.n > 0 => user.clean /\ user.n > 0 /\ sys.mode # "run"
  BY <1>1, UncleanUser
<1>5. Types' BY <1>1, <1>2, <1>3, <1>4 DEF Types
<1>6. PinInv' /\ AgeInv' BY <1>2, <1>3, <1>4 DEF IInv, PinInv, AgeInv
<1>7. ModeInv' BY <1>2, <1>3, <1>4 DEF IInv, ModeInv
<1>8. TriggerInv'
  <2>1. 0 # -1 OBVIOUS
  <2>2. \A x : TriggerInv /\ btn'.clicks = x /\ (x = -1 => btn.max >= 2)
          => TriggerInv'
    BY <1>2, Steady
  <2> QED BY <1>2, <2>1, <2>2 DEF IInv
<1>9. CountInv' /\ HoldInv' /\ ClickInv'
  BY <1>2, <1>3 DEF CountInv, HoldInv, ClickInv
<1>10. SaidInv'
  <2>1. user.clean /\ user.n > 0 => sys.mode = "run"
    BY DEF IInv, SaidInv, Counting, Advanced
  <2> QED BY <1>4, <2>1 DEF SaidInv
<1> QED BY <1>5, <1>6, <1>7, <1>8, <1>9, <1>10 DEF IInv

LEMMA LegacyTimerGood ==
  ASSUME IInv, LegacyTimer, UNCHANGED kind
  PROVE  IInv'
<1>1. CASE ~HeldLong /\ UNCHANGED <<btn, sys, pin, user>> /\ due' = due \ {"click"}
  <2>1. btn.timer # "advanced" BY DEF LegacyTimer
  <2>2. ~(Counting /\ btn.clicks # 0) BY <2>1 DEF IInv, CountInv
  <2> QED BY <1>1, <2>2, IdleTimer
<1>2. CASE Restart(FALSE) BY <1>2, RestartGood DEF IInv
<1>3. CASE /\ btn' = Held(btn) /\ sys' = CfgMode("button")
           /\ user' = IF sys.mode = "run" THEN Entered(user) ELSE user
           /\ due' = due \ {"click"} /\ UNCHANGED pin
  BY <1>3, HeldGood
<1> QED BY <1>1, <1>2, <1>3 DEF LegacyTimer

(* A count that is reported, and is then over (timer off), a hold or       *)
(* marked as reported.                                                     *)
LEMMA ReportUser ==
  ASSUME IInv
  PROVE  LET v == Report(user)
         IN  /\ v \in UserType /\ ToldSince(v, user)
             /\ btn.clicks \in {-1, 0} => v = user
             /\ btn.clicks \notin {-1, 0} => ~v.crossed /\ v.told # <<>>
             /\ v.crossed => user.crossed
             /\ SaidHold(v) => SaidHold(user)
             /\ btn.clicks \notin {-1, 0} /\ user.told = <<>> =>
                  /\ Len(v.told) = 1 /\ v.told[1].took = btn.clicks
                  /\ v.told[1].to = Destination(btn.clicks)
<1>1. btn \in BtnType /\ user \in UserType BY DEF IInv, Types
<1>2. btn.clicks \in -1 .. PressCount /\ PressCount \in Nat BY <1>1, Times DEF BtnType
<1>3. PICK v : v = Report(user) OBVIOUS
<1>4. CASE btn.clicks \in {-1, 0}
  <2>1. v = user BY <1>3, <1>4 DEF Report
  <2> QED BY <1>1, <1>3, <1>4, <2>1 DEF ToldSince
<1>5. CASE btn.clicks \notin {-1, 0}
  <2>1. btn.clicks \in 0 .. PressCount /\ btn.clicks # 0 BY <1>2, <1>5
  <2>2. /\ btn.connected <=> kind.relay /\ 1 \notin btn.triggers
    BY DEF IInv, TriggerInv
  <2>3. PICK to \in {"server", "relay", "nobody"} :
          to = IF btn.clicks = 1 /\ btn.connected THEN "relay" ELSE To(btn.clicks)
    BY DEF To
  <2>4. to = Destination(btn.clicks)
    <3>1. CASE btn.clicks = 1 /\ btn.connected
      BY <2>2, <2>3, <3>1 DEF Destination
    <3>2. CASE ~(btn.clicks = 1 /\ btn.connected)
      BY <2>2, <2>3, <3>2 DEF Destination, To
    <3> QED BY <3>1, <3>2
  <2>5. v = Told(user, btn.clicks, to)
    BY <1>3, <1>5, <2>3 DEF Report
  <2>6. /\ v \in UserType /\ ToldSince(v, user) /\ ~v.crossed /\ v.told # <<>>
        /\ SaidHold(v) => SaidHold(user) \/ btn.clicks = 0
        /\ user.told = <<>> =>
             /\ Len(v.told) = 1 /\ v.told[1].took = btn.clicks /\ v.told[1].to = to
    BY <1>1, <2>1, <2>5, ToldUser, SMTT(20)
  <2> QED BY <1>3, <1>5, <2>1, <2>4, <2>6
<1> QED BY <1>4, <1>5

LEMMA OverGood ==
  ASSUME IInv, btn.timer = "advanced", UNCHANGED <<kind, pin, sys>>,
         due' = due \ {"click"},
         btn' \in BtnType, btn'.triggers = btn.triggers, btn'.max = btn.max,
         btn'.others = btn.others, btn'.connected = btn.connected,
         btn'.since = btn.since, btn'.timer \in {"off", "advanced"},
         btn'.clicks \in {-1, 0},
         btn'.clicks = -1 =>
           /\ btn'.timer = "advanced" /\ btn.max >= 2 /\ btn.since < Multiclick
           /\ ~SaidHold(user)' /\ user.n # 0,
         user' \in UserType, ToldSince(user', user), user'.crossed => user.crossed,
         SaidInv'
  PROVE  IInv'
<1>1. Types' BY DEF IInv, Types
<1>2. /\ user'.quiet = user.quiet /\ user'.n = user.n /\ user'.missed = user.missed
      /\ user'.fresh = user.fresh /\ user'.clicks = user.clicks
  BY DEF ToldSince
<1>3. PinInv' BY <1>2 DEF IInv, PinInv
<1>4. sys.boot = Silent /\ btn.since = user.quiet
  BY DEF IInv, ModeInv, AgeInv
<1>5. AgeInv' BY <1>2, <1>4, Times DEF IInv, AgeInv
<1>6. ModeInv' BY <1>2, <1>4 DEF IInv, ModeInv
<1>7. TriggerInv'
  <2>1. \A x : TriggerInv /\ btn'.clicks = x /\ (x = -1 => btn.max >= 2)
          => TriggerInv'
    BY Steady
  <2> QED BY <2>1 DEF IInv
<1>8. CountInv'
  <2>1. btn.max \in Int
    BY MaxBound DEF IInv, Types, BtnType
  <2>2. btn'.clicks # 0 => btn'.clicks = -1 /\ btn'.clicks < btn'.max
    BY <2>1
  <2>3. btn'.clicks # 0 => ~(btn'.clicks >= btn'.max) /\ btn'.clicks <= 1
    BY <2>1, <2>2
  <2> QED BY <2>2, <2>3 DEF CountInv
<1>9. ClickInv'
  <2>1. user.clicks \in 0 .. PressCount BY DEF IInv, Types, UserType
  <2>2. btn'.clicks <= user'.clicks BY <1>2, <2>1, Times
  <2> QED BY <2>2 DEF ClickInv
<1>10. HoldInv' BY <1>2 DEF HoldInv
<1> QED BY <1>1, <1>3, <1>5, <1>6, <1>7, <1>8, <1>9, <1>10 DEF IInv

(* A click that is held.                                                   *)
LEMMA TimerHeldGood ==
  ASSUME IInv, btn.timer = "advanced", due' = due \ {"click"}, UNCHANGED <<kind, pin>>,
         kind.type = "monostable", pin.last = "active", btn.clicks # -1, TimerHeld
  PROVE  IInv'
<1>1. ~Released BY DEF Released
<1>2. btn \in BtnType /\ user \in UserType BY DEF IInv, Types
<1>3. CASE HeldLong
  <2>1. PICK b : b = Held(btn) OBVIOUS
  <2>2. b.clicks = 0 BY <1>2, <2>1 DEF Held, BtnType
  <2>3. /\ btn' = Held(btn) /\ sys' = CfgMode("button")
        /\ user' = IF sys.mode = "run" THEN Entered(user) ELSE user
    BY <1>3, <2>1, <2>2 DEF TimerHeld
  <2> QED BY <2>3, HeldGood
<1>4. CASE ~HeldLong /\ ~(btn.clicks = 1 /\ btn.since >= Hold)
  <2>1. UNCHANGED <<btn, sys, user>> BY <1>4 DEF TimerHeld
  <2> QED BY <1>1, <2>1, IdleTimer
<1>5. CASE ~HeldLong /\ btn.clicks = 1 /\ btn.since >= Hold
  <2>1. btn' = Holding(btn) /\ sys' = sys /\ user' = Told(user, 0, To(0))
    BY <1>5 DEF TimerHeld
  <2>2. PICK t \in {"off", "advanced"} : t = IF OnHold THEN btn.timer ELSE "off"
    OBVIOUS
  <2>3. btn' = [btn EXCEPT !.clicks = 0, !.timer = t]
    BY <2>1, <2>2 DEF Holding
  <2>4. /\ btn' \in BtnType /\ btn'.triggers = btn.triggers /\ btn'.max = btn.max
        /\ btn'.others = btn.others /\ btn'.connected = btn.connected
        /\ btn'.since = btn.since /\ btn'.timer = t /\ btn'.clicks = 0
    BY <1>2, <2>3, Zeros DEF BtnType
  <2>5. PICK to \in {"server", "relay", "nobody"} : to = To(0) BY DEF To
  <2>6. /\ user' \in UserType /\ ToldSince(user', user) /\ ~user'.crossed
        /\ user'.told # <<>>
        /\ user.told = <<>> =>
             Len(user'.told) = 1 /\ user'.told[1].took = 0 /\ user'.told[1].to = to
    BY <1>2, <2>1, <2>5, Zeros, ToldUser, SMTT(20)
  <2>7. SaidInv'
    <3> SUFFICES ASSUME user'.clean, user'.n > 0 PROVE SaidInv'
      BY DEF SaidInv
    <3>1. user.clean /\ user.n > 0 BY <2>6 DEF ToldSince
    <3>2. user.told = <<>> BY <1>5, <3>1 DEF IInv, SaidInv
    <3>3. Counting /\ user.n = 1 BY <1>5, <3>1, <3>2 DEF IInv, SaidInv
    <3>4. Counting' BY <2>1, <2>4, <2>6, <3>3 DEF Counting, Advanced
    <3>5. to = Destination(0)' BY <2>4, <2>5 DEF To, Destination
    <3> QED BY <2>4, <2>6, <3>2, <3>3, <3>4, <3>5 DEF SaidInv, ToldSince
  <2> QED BY <2>1, <2>4, <2>6, <2>7, OverGood
<1> QED BY <1>3, <1>4, <1>5

(* A quiet input, or one that has been clicked often enough.               *)
LEMMA TimerQuietGood ==
  ASSUME IInv, btn.timer = "advanced", due' = due \ {"click"}, UNCHANGED <<kind, pin>>,
         Released, TimerQuiet
  PROVE  IInv'
<1>1. btn \in BtnType /\ user \in UserType /\ UNCHANGED sys
  BY DEF IInv, Types, TimerQuiet
<1>2. /\ btn.clicks \in -1 .. PressCount /\ PressCount \in Nat /\ 1 < PressCount
      /\ btn.max \in Nat /\ btn.since \in Nat /\ Multiclick \in Nat
      /\ user.n \in Nat
  BY <1>1, MaxBound, OldBound, Times DEF BtnType, UserType
<1>3. btn.since = user.quiet BY DEF IInv, AgeInv
<1>4. /\ SaidHold(user) => btn.clicks = 0
      /\ user.n = 0 => btn.clicks = 0
  BY DEF IInv, HoldInv
<1>5. PICK v : v = Report(user) OBVIOUS
<1>6. /\ v \in UserType /\ ToldSince(v, user)
      /\ btn.clicks \in {-1, 0} => v = user
      /\ btn.clicks \notin {-1, 0} => ~v.crossed /\ v.told # <<>>
      /\ v.crossed => user.crossed
      /\ SaidHold(v) => SaidHold(user)
      /\ btn.clicks \notin {-1, 0} /\ user.told = <<>> =>
           /\ Len(v.told) = 1 /\ v.told[1].took = btn.clicks
           /\ v.told[1].to = Destination(btn.clicks)
  BY <1>5, ReportUser
<1>7. CASE btn.since < Multiclick /\ btn.clicks < btn.max /\ UNCHANGED <<btn, user>>
  BY <1>1, <1>7, IdleTimer
<1>8. ASSUME user' = v, btn'.clicks \in {-1, 0}, btn'.max = btn.max,
             btn'.triggers = btn.triggers, btn'.others = btn.others,
             btn'.connected = btn.connected,
             btn'.clicks = -1 => btn.clicks >= btn.max /\ btn.clicks > 1,
             btn'.clicks = 0 => btn.since >= Multiclick \/ btn.max <= 1
      PROVE  SaidInv'
  <2> SUFFICES ASSUME v.clean, v.n > 0 PROVE SaidInv'
    BY <1>8 DEF SaidInv
  <2>1. user.clean /\ user.n > 0 /\ v.n = user.n /\ v.quiet = user.quiet
    BY <1>6 DEF ToldSince
  <2>2. Counting BY <2>1 DEF IInv, SaidInv
  <2>3. Counting' BY <1>1, <1>6, <1>8, <2>2 DEF Counting, Advanced
  <2>4. /\ \A k : Destination(k)' = Destination(k)
        /\ \A n : TakenFor(n)' = TakenFor(n)
    BY <1>8, Steady
  <2>5. Released' BY DEF Released
  <2>6. CASE user.told = <<>>
    <3>1. btn.clicks = user.n /\ btn.clicks \notin {-1, 0}
      BY <1>2, <2>1, <2>6 DEF IInv, SaidInv
    <3>2. user.n <= 1 \/ user.n <= btn.max
      BY <2>2, <3>1 DEF IInv, CountInv
    <3>3. TakenFor(user.n) = user.n
      <4>1. CASE user.n <= btn.max BY <1>2, <4>1 DEF TakenFor
      <4>2. CASE user.n > btn.max
        <5>1. user.n = 1 /\ btn.max = 0 BY <1>2, <2>1, <3>2, <4>2
        <5>2. Max({1, 0}) = 1 BY MaxPair
        <5> QED BY <5>1, <5>2 DEF TakenFor
      <4> QED BY <1>2, <4>1, <4>2
    <3>4. /\ Len(v.told) = 1 /\ v.told[1].took = user.n /\ v.told # <<>>
          /\ v.told[1].to = Destination(user.n)
      BY <1>6, <2>6, <3>1
    <3>5. TakenFor(v.n)' = user.n BY <1>8, <2>1, <2>4, <3>3
    <3>6. Destination(v.told[1].took)' = Destination(user.n)
      BY <1>8, <2>4, <3>4
    <3>7. btn'.clicks = -1 => user.n >= btn.max BY <1>8, <3>1
    <3>8. btn'.clicks = 0 => user.quiet >= Multiclick \/ btn.max <= 1
      BY <1>3, <1>8
    <3> QED
      BY <1>8, <2>1, <2>3, <2>5, <3>4, <3>5, <3>6, <3>7, <3>8 DEF SaidInv
  <2>7. CASE user.told # <<>>
    <3>1. btn.clicks \in {-1, 0} BY <2>1, <2>7 DEF IInv, SaidInv
    <3>2. v = user BY <1>6, <3>1
    <3>3. btn'.clicks = 0 BY <1>8, <3>1
    <3>4. btn'.clicks = 0 => user.quiet >= Multiclick \/ btn.max <= 1
      BY <1>3, <1>8
    <3>5. /\ Len(user.told) = 1
          /\ user.told[1].to = Destination(user.told[1].took)
          /\ user.told[1].took = 0 => user.n = 1
          /\ user.told[1].took # 0 => user.told[1].took = TakenFor(user.n)
      BY <2>1, <2>7 DEF IInv, SaidInv
    <3>6. TakenFor(user.n)' = TakenFor(user.n)
      BY <1>8, <2>4, <3>2
    <3>7. Destination(user.told[1].took)' = Destination(user.told[1].took)
      BY <1>8, <2>4, <3>2
    <3> QED
      BY <1>8, <2>1, <2>3, <2>5, <2>7, <3>2, <3>3, <3>4, <3>5, <3>6, <3>7
      DEF SaidInv
  <2> QED BY <2>6, <2>7
<1>9. CASE /\ btn' = [btn EXCEPT !.timer = "off", !.clicks = 0] /\ user' = v
           /\ btn.since >= Multiclick \/ btn.max <= 1
  <2>1. /\ btn' \in BtnType /\ btn'.triggers = btn.triggers /\ btn'.max = btn.max
        /\ btn'.others = btn.others /\ btn'.connected = btn.connected
        /\ btn'.since = btn.since /\ btn'.timer = "off" /\ btn'.clicks = 0
    BY <1>1, <1>9, Zeros DEF BtnType
  <2>2. SaidInv' BY <1>8, <1>9, <2>1
  <2> QED BY <1>1, <1>6, <1>9, <2>1, <2>2, OverGood
<1>10. CASE /\ btn' = [btn EXCEPT !.clicks = -1] /\ user' = v
            /\ btn.since < Multiclick /\ btn.clicks >= btn.max /\ ~(btn.max <= 1)
  <2>1. -1 \in -1 .. PressCount BY <1>2
  <2>2. /\ btn' \in BtnType /\ btn'.triggers = btn.triggers /\ btn'.max = btn.max
        /\ btn'.others = btn.others /\ btn'.connected = btn.connected
        /\ btn'.since = btn.since /\ btn'.timer = "advanced" /\ btn'.clicks = -1
    BY <1>1, <1>10, <2>1 DEF BtnType
  <2>3. btn.clicks > 1 /\ btn.max >= 2 BY <1>2, <1>10
  <2>4. SaidInv' BY <1>8, <1>10, <2>2, <2>3
  <2>5. ~SaidHold(v) /\ user.n # 0 BY <1>4, <1>6, <2>3
  <2>6. ~SaidHold(user)' BY <1>10, <2>5 DEF SaidHold
  <2> QED BY <1>1, <1>6, <1>10, <2>2, <2>3, <2>4, <2>5, <2>6, OverGood
<1> QED BY <1>2, <1>5, <1>7, <1>9, <1>10 DEF TimerQuiet, Complete

LEMMA ClickTimerGood == IInv /\ ClickTimer => IInv'
<1> SUFFICES ASSUME IInv, ClickTimer PROVE IInv'
  OBVIOUS
<1>1. UNCHANGED kind BY DEF ClickTimer
<1>2. CASE LegacyTimer BY <1>1, <1>2, LegacyTimerGood
<1>3. CASE AdvancedTimer
  <2>1. btn.timer = "advanced" /\ due' = due \ {"click"} /\ UNCHANGED pin
    BY <1>3 DEF AdvancedTimer
  <2>2. CASE /\ kind.type = "monostable" /\ pin.last = "active" /\ btn.clicks # -1
             /\ TimerHeld
    BY <1>1, <2>1, <2>2, TimerHeldGood
  <2>3. CASE /\ kind.type = "monostable" /\ pin.last = "active"
             /\ UNCHANGED <<btn, sys, user>>
    <3>1. ~Released BY <2>3 DEF Released
    <3> QED BY <1>1, <2>1, <2>3, <3>1, IdleTimer
  <2>4. CASE Released /\ TimerQuiet
    BY <1>1, <2>1, <2>4, TimerQuietGood
  <2> QED BY <1>3, <2>2, <2>3, <2>4 DEF AdvancedTimer, Released
<1> QED BY <1>2, <1>3 DEF ClickTimer

--------------------------------------------------------------------------------
(* The server's doing, and the clock.                                      *)
LEMMA SetTriggersGood ==
  ASSUME IInv, NEW wanted \in Triggers, SetTriggers(wanted)
  PROVE  IInv'
<1> DEFINE t == kind.caps \cap wanted
<1>1. btn \in BtnType /\ user \in UserType /\ kind \in Kinds BY DEF IInv, Types
<1>2. t \in SUBSET (Actions \cap 0 .. PressCount) BY InputAssumption
<1> HIDE DEF t
<1>3. /\ Biggest(t) \in 0 .. PressCount /\ Biggest(t) \in 0 .. Max({5, PressCount})
      /\ Biggest(t) \in Int
  BY <1>2, BiggestBound, Times
<1>4. kind.relay \in BOOLEAN BY <1>1, InputAssumption DEF KindOK
<1>5. PICK p : p = (kind.relay /\ 1 \notin t) OBVIOUS
<1>6. p \in BOOLEAN /\ (p <=> kind.relay /\ 1 \notin t) BY <1>4, <1>5, Zenon
<1>7. PICK m : m = Biggest(t) OBVIOUS
<1>8. PICK r : r = Retriggered(t) OBVIOUS
<1>9. /\ r \in BtnType /\ r.since = btn.since /\ r.others = btn.others
      /\ t = btn.triggers => r = btn
      /\ t # btn.triggers => r.timer = "off" /\ r.clicks = 0
  BY <1>1, <1>8, Zeros DEF Retriggered, BtnType
<1>10. btn' = [r EXCEPT !.triggers = t, !.max = m, !.connected = p]
  BY <1>5, <1>7, <1>8 DEF SetTriggers, Biggest, t
<1>11. /\ btn' \in BtnType /\ btn'.triggers = t /\ btn'.max = m
       /\ btn'.connected = p /\ btn'.since = btn.since /\ btn'.others = btn.others
       /\ btn'.timer = r.timer /\ btn'.clicks = r.clicks
  BY <1>2, <1>3, <1>6, <1>7, <1>9, <1>10 DEF BtnType
<1>12. PICK u : u = Disturbed(user) OBVIOUS
<1>13. u \in UserType /\ ~u.clean /\ u.quiet = user.quiet /\ u.clicks = user.clicks
       /\ u.n = user.n /\ u.told = user.told /\ u.crossed = user.crossed
       /\ u.fresh = user.fresh /\ u.missed = user.missed
  BY <1>1, <1>12, UncleanUser
<1>14. PICK x \in BOOLEAN : x <=> (user.crossed /\ t = btn.triggers) OBVIOUS
<1>15. user.crossed \in BOOLEAN BY <1>1 DEF UserType
<1>16. x = (user.crossed /\ t = btn.triggers) BY <1>14, <1>15, Zenon
<1>17. user' = [u EXCEPT !.crossed = x]
  BY <1>12, <1>13, <1>16 DEF SetTriggers, t
<1>18. /\ user' \in UserType /\ ~user'.clean /\ user'.quiet = user.quiet
       /\ user'.clicks = user.clicks /\ user'.n = user.n /\ user'.told = user.told
       /\ user'.crossed = x /\ user'.fresh = user.fresh
       /\ user'.missed = user.missed
  BY <1>13, <1>17 DEF UserType
<1>19. /\ UNCHANGED <<kind, pin, sys>> /\ sys.mode = "run" /\ pin.read = "none"
       /\ due' \subseteq due /\ ("debounce" \in due' <=> "debounce" \in due)
       /\ t = btn.triggers => due' = due
  BY DEF SetTriggers, t
<1>20. Types' BY <1>11, <1>18, <1>19 DEF IInv, Types
<1>21. PinInv' BY <1>18, <1>19 DEF IInv, PinInv
<1>22. AgeInv' BY <1>9, <1>11, <1>18, <1>19 DEF IInv, AgeInv
<1>23. ModeInv' BY <1>9, <1>11, <1>18, <1>19 DEF IInv, ModeInv
<1>24. SaidInv' BY <1>18 DEF SaidInv
<1>25. SaidHold(user)' = SaidHold(user) BY <1>18 DEF SaidHold
<1>26. t = btn.triggers => (Counting' <=> Counting) /\ Advanced' = Advanced
  BY <1>11, <1>14, <1>18, <1>19 DEF Counting, Advanced
<1>27. Released' = Released BY <1>19 DEF Released
<1>28. Biggest(t)' = Biggest(t)
  BY <1>19 DEF Biggest, OnToggle, t
<1>29. t = btn.triggers => btn.max = m \/ (btn.max = 0 /\ 0 <= m)
  BY <1>3, <1>7, Times DEF IInv, TriggerInv
<1>30. TriggerInv'
  <2>1. btn'.triggers \subseteq 0 .. PressCount BY <1>2, <1>11
  <2>2. btn'.connected <=> kind.relay /\ 1 \notin btn'.triggers
    BY <1>6, <1>11
  <2>3. Biggest(btn.triggers)' = m BY <1>7, <1>11, <1>19 DEF Biggest, OnToggle
  <2>4. btn'.clicks = -1 => btn'.max >= 2
    <3>1. ASSUME btn'.clicks = -1 PROVE m >= 2
      <4>1. t = btn.triggers /\ btn.clicks = -1
        <5>1. r.clicks = -1 /\ r.clicks # 0 BY <1>11, <3>1
        <5>2. t = btn.triggers BY <1>9, <5>1
        <5>3. r = btn BY <1>9, <5>2
        <5> QED BY <5>1, <5>2, <5>3
      <4>2. btn.max >= 2 BY <4>1 DEF IInv, TriggerInv
      <4> QED BY <1>29, <4>1, <4>2
    <3> QED BY <1>11, <3>1
  <2> QED BY <1>11, <1>19, <2>1, <2>2, <2>3, <2>4, Times DEF TriggerInv
<1>31. CASE t # btn.triggers
  <2>1. btn'.clicks = 0 BY <1>9, <1>11, <1>31
  <2>2. CountInv' /\ HoldInv' BY <2>1 DEF CountInv, HoldInv
  <2>3. user'.clicks >= 0 BY <1>18, Times DEF UserType
  <2>4. ClickInv' BY <2>1, <2>3 DEF ClickInv
  <2> QED BY <1>20, <1>21, <1>22, <1>23, <1>24, <1>30, <2>2, <2>4 DEF IInv
<1>32. CASE t = btn.triggers
  <2>1. /\ btn'.clicks = btn.clicks /\ btn'.timer = btn.timer
        /\ btn'.since = btn.since /\ due' = due
    BY <1>9, <1>11, <1>19, <1>32
  <2>2. (Counting' <=> Counting) /\ Advanced' = Advanced BY <1>26, <1>32
  <2>3. x <=> user.crossed BY <1>14, <1>32
  <2>4. HoldInv' BY <1>18, <1>19, <1>25, <2>1, <2>2 DEF IInv, HoldInv
  <2>5. ClickInv' BY <1>18, <1>19, <2>1, <2>2, <2>3 DEF IInv, ClickInv
  <2>6. CountInv'
    <3>1. m \in Int /\ btn.max \in Int /\ btn.clicks \in Int /\ btn.max <= m
      BY <1>1, <1>3, <1>7, <1>29, <1>32, MaxBound, Times DEF BtnType
    <3>2. /\ btn.clicks >= m => btn.clicks >= btn.max
          /\ btn.clicks <= btn.max => btn.clicks <= m
      BY <3>1
    <3> QED
      BY <1>11, <1>18, <1>27, <2>1, <2>2, <3>2 DEF IInv, CountInv
  <2> QED BY <1>20, <1>21, <1>22, <1>23, <1>24, <1>30, <2>4, <2>5, <2>6 DEF IInv
<1> QED BY <1>31, <1>32

LEMMA OtherTriggersGood == IInv /\ OtherTriggers => IInv'
<1> SUFFICES ASSUME IInv, OtherTriggers PROVE IInv'
  OBVIOUS
<1>1. btn \in BtnType /\ user \in UserType BY DEF IInv, Types
<1>2. PICK o : o = ~btn.others OBVIOUS
<1>3. o \in BOOLEAN BY <1>2, Zenon
<1>4. btn' = [btn EXCEPT !.others = o] BY <1>2 DEF OtherTriggers
<1>5. /\ btn' \in BtnType /\ btn'.triggers = btn.triggers /\ btn'.max = btn.max
      /\ btn'.connected = btn.connected /\ btn'.since = btn.since
      /\ btn'.timer = btn.timer /\ btn'.clicks = btn.clicks
  BY <1>1, <1>3, <1>4 DEF BtnType
<1>6. PICK u : u = Disturbed(user) OBVIOUS
<1>7. u \in UserType /\ ~u.clean /\ u.quiet = user.quiet /\ u.clicks = user.clicks
      /\ u.n = user.n /\ u.told = user.told /\ u.crossed = user.crossed
      /\ u.fresh = user.fresh /\ u.missed = user.missed
  BY <1>1, <1>6, UncleanUser
<1>8. PICK x : x = (user.crossed \/ btn.clicks # 0) OBVIOUS
<1>9. user.crossed \in BOOLEAN BY <1>1 DEF UserType
<1>10. x \in BOOLEAN /\ (x <=> user.crossed \/ btn.clicks # 0) BY <1>8, <1>9, Zenon
<1>11. user' = [u EXCEPT !.crossed = x]
  BY <1>6, <1>7, <1>8 DEF OtherTriggers
<1>12. /\ user' \in UserType /\ ~user'.clean /\ user'.quiet = user.quiet
       /\ user'.clicks = user.clicks /\ user'.n = user.n /\ user'.told = user.told
       /\ user'.crossed = x /\ user'.fresh = user.fresh
       /\ user'.missed = user.missed
  BY <1>7, <1>10, <1>11 DEF UserType
<1>13. UNCHANGED <<kind, pin, sys, due>> BY DEF OtherTriggers
<1>14. Types' BY <1>5, <1>12, <1>13 DEF IInv, Types
<1>15. PinInv' /\ AgeInv' /\ ModeInv'
  BY <1>5, <1>12, <1>13 DEF IInv, PinInv, AgeInv, ModeInv
<1>16. TriggerInv'
  BY <1>5, <1>13 DEF IInv, TriggerInv, Biggest, OnToggle
<1>17. ~x => btn.clicks = 0 BY <1>10
<1>18. Counting' => btn'.clicks = 0 BY <1>5, <1>12, <1>17 DEF Counting
<1>19. CountInv' BY <1>18 DEF CountInv
<1>20. ClickInv'
  <2>1. user'.clicks >= 0 BY <1>12, Times DEF UserType
  <2> QED BY <1>5, <1>12, <1>17, <2>1 DEF ClickInv
<1>21. HoldInv'
  <2>1. SaidHold(user)' = SaidHold(user) BY <1>12 DEF SaidHold
  <2> QED BY <1>5, <1>12, <1>13, <1>18, <2>1 DEF IInv, HoldInv
<1>22. SaidInv' BY <1>12 DEF SaidInv
<1> QED BY <1>14, <1>15, <1>16, <1>19, <1>20, <1>21, <1>22 DEF IInv

LEMMA ServerEntersGood == IInv /\ ServerEnters => IInv'
<1> SUFFICES ASSUME IInv, ServerEnters PROVE IInv'
  OBVIOUS
<1>1. user \in UserType /\ Types /\ sys.mode = "run" /\ user' = Entered(user)
      /\ sys' = CfgMode("server") /\ UNCHANGED <<kind, pin, btn, due>>
  BY DEF IInv, Types, ServerEnters
<1>2. /\ user' \in UserType /\ ~user'.clean /\ user'.quiet = user.quiet
      /\ user'.told = user.told /\ user'.missed = user.missed /\ user'.n = user.n
  BY <1>1, UncleanUser
<1>3. /\ sys' \in SysType /\ sys'.boot = sys.boot /\ sys'.mode = "cfg"
      /\ sys'.by = "server"
  BY <1>1, CfgModeType
<1>4. Types' BY <1>1, <1>2, <1>3 DEF Types
<1>5. PinInv' /\ AgeInv' /\ ModeInv'
  BY <1>1, <1>2, <1>3 DEF IInv, PinInv, AgeInv, ModeInv
<1>6. TriggerInv' BY <1>1 DEF IInv, TriggerInv, Biggest, OnToggle
<1>7. ~Counting' BY <1>3 DEF Counting, Advanced
<1>8. SaidHold(user)' = SaidHold(user) BY <1>2 DEF SaidHold
<1>9. CountInv' /\ ClickInv' /\ SaidInv'
  BY <1>2, <1>3, <1>7 DEF CountInv, ClickInv, SaidInv
<1>10. HoldInv' BY <1>1, <1>2, <1>7, <1>8 DEF IInv, HoldInv
<1> QED BY <1>4, <1>5, <1>6, <1>9, <1>10 DEF IInv

LEMMA TickGood == IInv /\ Tick => IInv'
<1> SUFFICES ASSUME IInv, Tick PROVE IInv'
  OBVIOUS
<1>1. btn \in BtnType /\ user \in UserType /\ sys \in SysType BY DEF IInv, Types
<1>2. /\ btn.since \in 0 .. Old /\ user.quiet \in 0 .. Old
      /\ sys.entered \in 0 .. ExitAfter + 1 /\ sys.boot \in 0 .. Silent
  BY <1>1 DEF BtnType, UserType, SysType
<1>3. PICK since \in 0 .. Old : since = Sooner(btn.since, Old)
  BY <1>2, OldBound DEF Sooner
<1>4. PICK quiet \in 0 .. Old : quiet = Sooner(user.quiet, Old)
  BY <1>2, OldBound DEF Sooner
<1>5. PICK boot \in 0 .. Silent : boot = Sooner(sys.boot, Silent)
  BY <1>2, Times DEF Sooner
<1>6. PICK entered \in 0 .. ExitAfter + 1 :
        entered = IF sys.mode = "cfg" THEN Sooner(sys.entered, ExitAfter + 1)
                  ELSE sys.entered
  BY <1>2, Times DEF Sooner
<1>7. /\ btn' = [btn EXCEPT !.since = since] /\ user' = [user EXCEPT !.quiet = quiet]
      /\ sys' = [sys EXCEPT !.boot = boot, !.entered = entered]
      /\ UNCHANGED <<kind, pin>> /\ due = {} /\ pin.read = "none"
      /\ due' \subseteq {"debounce", "click"}
      /\ "debounce" \in due' => pin.step # 0
      /\ "click" \in due' <=> btn.timer # "off"
  BY <1>3, <1>4, <1>5, <1>6 DEF Tick
<1>8. /\ btn' \in BtnType /\ btn'.triggers = btn.triggers /\ btn'.max = btn.max
      /\ btn'.others = btn.others /\ btn'.connected = btn.connected
      /\ btn'.since = since /\ btn'.timer = btn.timer /\ btn'.clicks = btn.clicks
  BY <1>1, <1>7 DEF BtnType
<1>9. /\ user' \in UserType /\ user'.clean = user.clean /\ user'.quiet = quiet
      /\ user'.clicks = user.clicks /\ user'.n = user.n /\ user'.told = user.told
      /\ user'.crossed = user.crossed /\ user'.fresh = user.fresh
      /\ user'.missed = user.missed
  BY <1>1, <1>7 DEF UserType
<1>10. /\ sys' \in SysType /\ sys'.boot = boot /\ sys'.mode = sys.mode
       /\ sys'.by = sys.by /\ sys'.ready = sys.ready
  BY <1>1, <1>7 DEF SysType
<1>11. Types' BY <1>7, <1>8, <1>9, <1>10 DEF IInv, Types
<1>12. PinInv' BY <1>7, <1>9 DEF IInv, PinInv
<1>13. /\ Old \in Nat /\ Window < Old /\ 2 < Old /\ Window \in Nat
       /\ Multiclick \in Nat /\ Silent \in Nat
  BY OldBound, Times
<1>14. /\ quiet <= since
       /\ btn.since = user.quiet => since = quiet
       /\ since >= 1 /\ (btn.since >= 1 => since >= 2)
       /\ since = btn.since + 1 \/ (since = Old /\ btn.since = Old)
       /\ quiet >= user.quiet
       /\ boot < Silent => sys.boot < Silent
       /\ sys.boot = Silent => boot = Silent
  <2>1. user.quiet <= btn.since BY DEF IInv, AgeInv
  <2> QED BY <1>2, <1>3, <1>4, <1>5, <1>13, <2>1 DEF Sooner
<1>15. AgeInv' BY <1>7, <1>8, <1>9, <1>10, <1>13, <1>14 DEF IInv, AgeInv
<1>16. ModeInv' BY <1>8, <1>9, <1>10, <1>14 DEF IInv, ModeInv
<1>17. TriggerInv' BY <1>7, <1>8 DEF IInv, TriggerInv, Biggest, OnToggle
<1>18. /\ (Counting' <=> Counting) /\ Advanced' = Advanced /\ Released' = Released
       /\ SaidHold(user)' = SaidHold(user)
  BY <1>7, <1>8, <1>9, <1>10 DEF Counting, Advanced, Released, SaidHold
<1>19. CountInv'
  <2> SUFFICES ASSUME Counting, btn.clicks # 0 PROVE CountInv'
    BY <1>8, <1>18 DEF CountInv
  <2>1. /\ btn.timer = "advanced" /\ "click" \notin due
        /\ btn.clicks <= 1 \/ btn.clicks <= btn.max
        /\ Released => btn.since < Multiclick
        /\ Released /\ btn.clicks >= btn.max => btn.since = 0
    BY <1>7 DEF IInv, CountInv
  <2>2. "click" \in due' BY <1>7, <2>1
  <2>3. btn.since < Multiclick => since < Multiclick \/ since = Multiclick
    BY <1>2, <1>13, <1>14
  <2>4. btn.since = 0 => since = 1 BY <1>13, <1>14
  <2> QED BY <1>8, <1>18, <2>1, <2>2, <2>3, <2>4 DEF CountInv
<1>20. ClickInv'
  <2>1. btn.since >= Window => since >= Window BY <1>2, <1>13, <1>14
  <2> QED BY <1>7, <1>8, <1>9, <1>10, <1>18, <2>1 DEF IInv, ClickInv
<1>21. HoldInv' BY <1>7, <1>8, <1>9, <1>18 DEF IInv, HoldInv
<1>22. SaidInv'
  <2>1. \A k : Destination(k)' = Destination(k) BY <1>7, <1>8 DEF Destination
  <2>2. TakenFor(user.n)' = TakenFor(user.n) BY <1>8, <1>9 DEF TakenFor
  <2>3. user.quiet >= Multiclick => quiet >= Multiclick BY <1>2, <1>13, <1>14
  <2> QED BY <1>8, <1>9, <1>18, <2>1, <2>2, <2>3 DEF IInv, SaidInv
<1> QED BY <1>11, <1>12, <1>15, <1>16, <1>17, <1>19, <1>20, <1>21, <1>22 DEF IInv

LEMMA NextGood == IInv /\ [Next]_vars => IInv'
<1> SUFFICES ASSUME IInv, [Next]_vars PROVE IInv'
  OBVIOUS
<1>1. ASSUME NEW masked \in BOOLEAN, Edge(masked) PROVE IInv'
  BY <1>1, EdgeGood
<1>2. CASE Debounces \/ LastReading BY <1>2, ReadingGood
<1>3. CASE Changes BY <1>3, ChangesGood
<1>4. CASE ClickTimer BY <1>4, ClickTimerGood
<1>5. ASSUME NEW wanted \in Triggers, SetTriggers(wanted) PROVE IInv'
  BY <1>5, SetTriggersGood
<1>6. CASE OtherTriggers BY <1>6, OtherTriggersGood
<1>7. CASE ServerEnters BY <1>7, ServerEntersGood
<1>8. CASE Configured
  <2>1. PICK ready \in {TRUE, sys.ready} : Restart(ready) BY <1>8 DEF Configured
  <2>2. Types /\ ready \in BOOLEAN BY DEF IInv, Types, SysType
  <2> QED BY <1>8, <2>1, <2>2, RestartGood DEF Configured
<1>9. CASE Tick BY <1>9, TickGood
<1>10. CASE UNCHANGED vars
  BY <1>10
  DEF vars, IInv, Types, PinInv, AgeInv, ModeInv, TriggerInv, CountInv, ClickInv,
      HoldInv, SaidInv, Counting, Released, Advanced, SaidHold, Biggest, OnToggle,
      Destination, TakenFor
<1> QED BY <1>1, <1>2, <1>3, <1>4, <1>5, <1>6, <1>7, <1>8, <1>9, <1>10 DEF Next

--------------------------------------------------------------------------------
(* The inductive invariant holds of every behaviour.                       *)
THEOREM Invariance == Spec => []IInv
<1>1. Init => IInv BY InitGood
<1>2. IInv /\ [Next]_vars => IInv' BY NextGood
<1> QED BY <1>1, <1>2, PTL DEF Spec

(* Every variable stays in its type: the counter of clicks, the ages and   *)
(* the history are bounded.                                                *)
THEOREM TypeCorrect == Spec => []TypeOK
<1>1. IInv => TypeOK
  BY DEF IInv, Types, TypeOK, PinType, BtnType, SysType, UserType
<1> QED BY <1>1, Invariance, PTL

(* The level acted on is that of the pin whenever the debounce timer       *)
(* rests, unless the last change fell into a moment in which nobody looks. *)
THEOREM LevelIsKnown == Spec => []LevelKnown
<1>1. IInv => LevelKnown BY DEF IInv, PinInv, LevelKnown
<1> QED BY <1>1, Invariance, PTL

(* An undisturbed sequence of clicks is taken for what it was, once, goes  *)
(* where it should and is never forgotten.                                 *)
THEOREM ClicksAreSaid == Spec => []SaysWhatWasClicked
<1>1. ASSUME IInv PROVE SaysWhatWasClicked
  <2> SUFFICES ASSUME user.clean, user.n > 0 PROVE SaysWhatWasClicked
    BY DEF SaysWhatWasClicked
  <2>1. user.told \in Seq(Said) /\ user.quiet \in Int /\ Multiclick \in Int
    BY <1>1, ToldType, OldBound, Times DEF IInv, Types, UserType
  <2>2. CASE user.told = <<>>
    <3>1. Counting /\ btn.clicks # 0 BY <1>1, <2>2 DEF IInv, SaidInv
    <3>2. kind.type \in {"monostable", "bistable"}
      BY <1>1, InputAssumption DEF IInv, Types, KindOK
    <3>3. Released => user.quiet <= Multiclick
      BY <1>1, <2>1, <3>1 DEF IInv, CountInv, AgeInv
    <3>4. ~(/\ user.quiet > Multiclick
            /\ kind.type = "monostable" => pin.last = "inactive")
      BY <2>1, <3>2, <3>3 DEF Released
    <3> QED BY <2>2, <3>4 DEF SaysWhatWasClicked
  <2>3. CASE user.told # <<>>
    <3>1. /\ Len(user.told) = 1
          /\ user.told[1].to = Destination(user.told[1].took)
          /\ user.told[1].took = 0 => user.n = 1
          /\ user.told[1].took \in {0, TakenFor(user.n)}
      BY <1>1, <2>3 DEF IInv, SaidInv
    <3>2. \A i \in DOMAIN user.told : i = 1 BY <2>1, <3>1, LenProperties
    <3> QED BY <2>3, <3>1, <3>2 DEF SaysWhatWasClicked
  <2> QED BY <2>2, <2>3
<1> QED BY <1>1, Invariance, PTL

--------------------------------------------------------------------------------
(* A count that opens the configuration mode is one of clicks.             *)
LEMMA TogglesDeliberately ==
  ASSUME IInv, pin.read # "none", ~user.crossed, sys.mode = "run", ~Advanced,
         TogglesIn(pin.read)
  PROVE  Clicked(user, pin.read).clicks >= PressCount
<1>1. PICK s : s = pin.read OBVIOUS
<1>2. s \in Levels /\ Types BY <1>1, ReadBound DEF IInv
<1>3. PICK v : v = Clicked(user, s) OBVIOUS
<1>4. /\ ~IsClick(s) => v.clicks = user.clicks
      /\ IsClick(s) =>
           v.clicks = IF user.quiet > Window THEN 1
                      ELSE IF user.clicks + 1 < PressCount THEN user.clicks + 1
                      ELSE PressCount
  BY <1>2, <1>3, ClickedUser
<1>5. /\ btn.clicks \in -1 .. PressCount /\ PressCount \in Nat /\ 1 < PressCount
      /\ user.quiet \in Int /\ user.clicks \in 0 .. PressCount
      /\ btn.since \in Int /\ Window \in Int /\ user.quiet <= btn.since
  BY <1>2, Times, OldBound DEF Types, BtnType, UserType, IInv, AgeInv
<1>6. PICK n : n = LegacyCount(s) OBVIOUS
<1>7. CfgButton /\ "cfg" \in kind.flags /\ n >= PressCount
  BY <1>1, <1>6 DEF TogglesIn, CfgButton
<1>8. n = IF btn.since >= Window THEN 1
          ELSE IF IsClick(s)
               THEN IF btn.clicks + 1 < PressCount THEN btn.clicks + 1 ELSE PressCount
          ELSE btn.clicks
  BY <1>2, <1>6, <1>7, LegacyCounts
<1>9. btn.since < Window BY <1>5, <1>7, <1>8
<1>10. btn.clicks <= user.clicks BY <1>5, <1>7, <1>9 DEF IInv, ClickInv
<1>11. ~(user.quiet > Window) /\ ~(btn.since >= Window) BY <1>5, <1>9
<1>12. v.clicks >= PressCount BY <1>4, <1>5, <1>7, <1>8, <1>10, <1>11
<1> QED BY <1>1, <1>3, <1>12

LEMMA CountsDeliberately ==
  ASSUME IInv, pin.read # "none", pin.last # pin.read, ~user.crossed, Advanced,
         btn.clicks # -1, IsClick(pin.read), OnToggle, btn.clicks + 1 >= PressCount
  PROVE  Clicked(user, pin.read).clicks >= PressCount
<1>1. PICK s : s = pin.read OBVIOUS
<1>2. s \in Levels /\ Types BY <1>1, ReadBound DEF IInv
<1>3. PICK v : v = Clicked(user, s) OBVIOUS
<1>4. v.clicks = IF user.quiet > Window THEN 1
                 ELSE IF user.clicks + 1 < PressCount THEN user.clicks + 1
                 ELSE PressCount
  BY <1>1, <1>2, <1>3, ClickedUser
<1>5. /\ btn.clicks \in -1 .. PressCount /\ PressCount \in Nat /\ 1 < PressCount
      /\ user.quiet \in Int /\ user.clicks \in 0 .. PressCount
      /\ Window \in Int /\ Multiclick \in Int /\ Multiclick < Window
  BY <1>2, Times, OldBound DEF Types, BtnType, UserType
<1>6. Counting /\ sys.mode = "run" /\ "cfg" \in kind.flags
  BY DEF Counting, Advanced, OnToggle
<1>7. btn.clicks <= user.clicks BY <1>6 DEF IInv, ClickInv
<1>8. user.quiet <= Multiclick BY <1>5, <1>6, Changing
<1>9. ~(user.quiet > Window) BY <1>5, <1>8
<1>10. v.clicks >= PressCount BY <1>4, <1>5, <1>7, <1>9
<1> QED BY <1>1, <1>3, <1>10

(* A button opens the configuration mode only when it has been held for    *)
(* the whole time, or after the whole number of clicks.                    *)
LEMMA OpensDeliberately ==
  ASSUME IInv, Next, sys.mode = "run", sys'.mode = "cfg", sys'.by = "button",
         ~user.crossed
  PROVE  \/ pin.last = "active" /\ user.quiet >= PressTime
         \/ user'.clicks >= PressCount
<1>1. Types /\ user \in UserType /\ pin \in PinType BY DEF IInv, Types
<1>2. ASSUME NEW ready \in BOOLEAN, Restart(ready) PROVE FALSE
  <2>1. sys'.by # "button" BY <1>1, <1>2, BootedGood DEF Restart, Types
  <2> QED BY <2>1
<1>3. ASSUME HeldLong PROVE pin.last = "active" /\ user.quiet >= PressTime
  BY <1>3 DEF HeldLong, IInv, AgeInv
<1>4. CASE Changes
  <2>1. pin.read # "none" /\ pin.read \in Levels BY <1>4, ReadBound DEF Changes
  <2>2. CASE Restart(sys.ready)
    <3>1. sys.ready \in BOOLEAN BY <1>1 DEF Types, SysType
    <3> QED BY <1>2, <2>2, <3>1
  <2>3. CASE Advanced /\ AdvancedChange(pin.read) /\ pin.last # pin.read
    <3> DEFINE counts == btn.clicks # -1 /\ IsClick(pin.read)
               c == IF counts THEN btn.clicks + 1 ELSE btn.clicks
               enters == counts /\ OnToggle /\ c >= PressCount
    <3>1. enters BY <2>3 DEF AdvancedChange
    <3>2. user' = Entered(Clicked(user, pin.read))
      BY <2>3, <3>1 DEF AdvancedChange
    <3>3. Clicked(user, pin.read) \in UserType BY <1>1, <2>1, ClickedUser
    <3>4. user'.clicks = Clicked(user, pin.read).clicks
      BY <3>2, <3>3, UncleanUser
    <3>5. btn.clicks + 1 >= PressCount BY <3>1
    <3> QED BY <2>1, <2>3, <3>1, <3>4, <3>5, CountsDeliberately
  <2>4. CASE ~Advanced /\ LegacyChange(pin.read)
    <3>1. /\ TogglesIn(pin.read) /\ user' = Entered(Clicked(user, pin.read))
      BY <2>4 DEF LegacyChange
    <3>2. Clicked(user, pin.read) \in UserType BY <1>1, <2>1, ClickedUser
    <3>3. user'.clicks = Clicked(user, pin.read).clicks
      BY <3>1, <3>2, UncleanUser
    <3> QED BY <2>1, <2>4, <3>1, <3>3, TogglesDeliberately
  <2>5. sys' # sys OBVIOUS
  <2> QED BY <1>4, <2>2, <2>3, <2>4, <2>5 DEF Changes, Notify
<1>5. CASE ClickTimer
  <2>1. CASE LegacyTimer
    <3>1. HeldLong \/ Restart(FALSE) BY <2>1 DEF LegacyTimer
    <3> QED BY <1>2, <1>3, <3>1
  <2>2. CASE AdvancedTimer
    <3>1. sys' # sys OBVIOUS
    <3>2. TimerHeld BY <2>2, <3>1 DEF AdvancedTimer, TimerQuiet
    <3>3. HeldLong BY <3>1, <3>2 DEF TimerHeld
    <3> QED BY <1>3, <3>3
  <2> QED BY <1>5, <2>1, <2>2 DEF ClickTimer
<1>6. CASE Configured
  <2>1. PICK ready \in {TRUE, sys.ready} : Restart(ready) BY <1>6 DEF Configured
  <2>2. ready \in BOOLEAN BY <1>1 DEF Types, SysType
  <2> QED BY <1>2, <2>1, <2>2
<1>7. CASE ServerEnters
  <2>1. sys' = CfgMode("server") BY <1>7 DEF ServerEnters
  <2> QED BY <1>1, <2>1, CfgModeType
<1>8. CASE Tick
  <2>1. sys \in SysType BY <1>1 DEF Types
  <2>2. sys'.mode = sys.mode BY <1>8, <2>1 DEF Tick, SysType
  <2> QED BY <2>2
<1>9. CASE \/ \E masked \in BOOLEAN : Edge(masked)
           \/ \E wanted \in Triggers : SetTriggers(wanted)
           \/ Debounces \/ LastReading \/ OtherTriggers
  <2>1. sys' = sys
    BY <1>9 DEF Edge, SetTriggers, Debounces, LastReading, OtherTriggers
  <2> QED BY <2>1
<1> QED BY <1>4, <1>5, <1>6, <1>7, <1>8, <1>9 DEF Next

THEOREM OpenedDeliberately == Spec => Deliberate
<1>1. IInv /\ [Next]_vars =>
        [sys.mode = "run" /\ sys'.mode = "cfg" /\ sys'.by = "button" /\ ~user.crossed =>
           \/ pin.last = "active" /\ user.quiet >= PressTime
           \/ user'.clicks >= PressCount]_vars
  BY OpensDeliberately
<1> QED BY <1>1, Invariance, PTL DEF Spec, Deliberate

(* The configuration mode a button has opened is not left by the end of    *)
(* the press that opened it.                                               *)
LEMMA LeavesWithAPress ==
  ASSUME IInv, sys.mode = "cfg", sys.by = "button", sys.boot > sys'.boot,
         Changes \/ ClickTimer
  PROVE  user.fresh \/ IsClick(pin.read)
<1> SUFFICES ASSUME ~user.fresh, ~IsClick(pin.read) PROVE FALSE
  OBVIOUS
<1>1. Types /\ sys.boot \in Int BY Times DEF IInv, Types, SysType
<1>2. btn.clicks <= 0 /\ btn.timer # "legacy" BY DEF IInv, ModeInv
<1>3. sys' # sys BY <1>1
<1>4. CfgMode("button") = sys BY DEF CfgMode
<1>5. ~Advanced BY DEF Advanced
<1>6. CASE Changes
  <2>1. pin.read # "none" /\ pin.read \in Levels BY <1>6, ReadBound DEF Changes
  <2>2. ClicksOut(pin.read)
    BY <1>3, <1>4, <1>5, <1>6 DEF Changes, Notify, LegacyChange
  <2>3. CfgButton /\ LegacyCount(pin.read) > 0 BY <2>2 DEF ClicksOut
  <2>4. LegacyCount(pin.read) = btn.clicks BY <1>1, <2>1, <2>3, LegacyCounts
  <2>5. btn.clicks \in Int BY <1>1, Times DEF Types, BtnType
  <2> QED BY <1>2, <2>3, <2>4, <2>5
<1>7. CASE ClickTimer
  <2>1. AdvancedTimer BY <1>2, <1>7 DEF ClickTimer, LegacyTimer
  <2>2. sys' = sys BY <1>4, <2>1 DEF AdvancedTimer, TimerHeld, TimerQuiet
  <2> QED BY <1>3, <2>2
<1> QED BY <1>6, <1>7

THEOREM EntryDoesNotLeave == Spec => EntryPressStays
<1>1. IInv /\ [Next]_vars =>
        [sys.mode = "cfg" /\ sys.by = "button" /\ sys.boot > sys'.boot
         /\ (Changes \/ ClickTimer)
           => user.fresh \/ IsClick(pin.read)]_vars
  BY LeavesWithAPress
<1> QED BY <1>1, Invariance, PTL DEF Spec, EntryPressStays
================================================================================
