-------------------- MODULE RollerShutterEstimate_proofs --------------------
(***************************************************************************)
(* What the shutter believes is so.  The position and tilt of a shutter    *)
(* whose given times are right are the real ones; and so are the times     *)
(* that automatic calibration measures with an ideal sensor, and the       *)
(* position estimated with them.  No alarm is false.                       *)
(***************************************************************************)
EXTENDS RollerShutter_proofs

-----------------------------------------------------------------------------
(* Position and tilt are the real ones.  A shutter is right if its given   *)
(* times, if it has any, are those of the real one, and if a tick is a     *)
(* whole number of steps of what it moves; a slat must turn no slower than *)
(* the blind travels if both move at once.                                 *)
FullTime(s, b) ==
  IF b.type \in {"keep", "closed"} THEN s.travel + s.slats ELSE s.travel
Divides(n) == \E k \in Nat : N = k * n
Right(s) ==
  IF s.travel = 0 THEN s.slats = 0
  ELSE /\ ~s.autoCal /\ "convert" \notin s.callers
       /\ Divides(s.travel) /\ (s.slats > 0 => Divides(s.slats)) /\ s.travel < TimeWrap
       /\ \A b \in s.blinds :
            /\ b.time = s.slats
            /\ b.type = "none" => s.slats = 0
            /\ b.type = "change" => s.slats <= s.travel
            /\ s.times \subseteq {Zero, <<FullTime(s, b), FullTime(s, b)>>}

(* The ticks the real shutter and its slats need to the end.               *)
Along(x, n, d) == IF d = Up THEN x ELSE n - x
Left(s, b, x, d) ==
  LET p == Along(x.position, s.travel, d)
      t == Along(x.tilt, s.slats, d)
  IN  IF b.type \in {"keep", "closed"} THEN p + t ELSE IF t > p THEN t ELSE p

(* No calibration of its own, and the flash has what it should.            *)
Given(r) ==
  /\ r \in State /\ ~r.autoCal /\ r.step = 0 /\ ~r.perform
  /\ r.auto = Zero /\ r.flash.auto = Zero
Stored(r) ==
  /\ r.flash.full = r.full /\ r.flash.blind = r.blind
  /\ r.flash.position = r.position
  /\ Known(r) /\ Tilts(r) => r.flash.tilt = r.tilt

(* A position that is known is the real one, and no run has been counted   *)
(* that was not made; one that is unknown has a run that brings it to the  *)
(* end.                                                                    *)
Fits(s, r, x) ==
  Known(r) => /\ r.full # Zero
              /\ Agrees(r.position, x.position, s.travel)
              /\ r.tilt \in Open..Closed => Agrees(r.tilt, x.tilt, s.slats)
              /\ Tilts(r) => r.tilt \in Open..Closed
Counts(s, r, x) ==
  \A d \in Direction :
    \/ Left(s, r.blind, x, d) = 0
    \/ IF Known(r) THEN r.ran[d] = 0
       ELSE Left(s, r.blind, x, d) * N + r.ran[d] <= FullTime(s, r.blind) * N
Built(s, b, x) ==
  /\ x \in [position : 0..s.travel, tilt : 0..s.slats]
  /\ b.type = "closed" => x.position = s.travel \/ x.tilt = 0
Exact(s, r, x) ==
  /\ Given(r) /\ r.blind \in s.blinds /\ r.full \in s.times
  /\ Built(s, r.blind, x) /\ Fits(s, r, x) /\ Counts(s, r, x)

(* A whole number of steps to a tick, and ticks from end to end.           *)
LEMMA WholeSteps ==
  ASSUME NEW n \in Nat \ {0}, NEW k \in Nat, N = k * n
  PROVE  N \div n = k /\ 1 <= k
<1>1. N \in Nat /\ 1 <= N
  BY Ranges
<1>2. (k * n) \div n = k
  OBVIOUS
<1>3. k # 0
  BY <1>1
<1>4. QED
  BY <1>2, <1>3

(* The estimate counts k steps where the real one, with n ticks from end   *)
(* to end, counts one tick.                                                *)
PerTick(n, k) == n \in Nat \ {0} /\ k \in Nat /\ N = k * n

(* So both agree when the estimate is k times the real one.                *)
LEMMA AgreesIs ==
  ASSUME NEW n, NEW k, PerTick(n, k), NEW p \in Int, NEW x \in Int
  PROVE  Agrees(p, x, n) <=> p - 1 = k * x
<1>0. n \in Nat \ {0} /\ k \in Nat /\ N = k * n
  BY DEF PerTick
<1>1. PICK m \in Int : m = p - 1
  OBVIOUS
<1>2. m * n = x * (k * n) <=> m = k * x
  <2>1. PICK c \in Int : c = k * x
    BY <1>0
  <2>2. x * (k * n) = c * n
    BY <1>0, <2>1
  <2>3. m * n = c * n <=> m = c
    BY <1>0
  <2>4. QED
    BY <2>1, <2>2, <2>3
<1>3. QED
  BY <1>0, <1>1, <1>2 DEF Agrees, Open

(* Where a shutter goes when it moves as far as a tick lets it: as far as  *)
(* the real one does, or nowhere when that stands at its end.              *)
LEMMA TickMoves ==
  ASSUME NEW n, NEW k, PerTick(n, k), NEW x \in 0..n,
         NEW p \in Int, p - 1 = k * x, NEW d \in Direction
  PROVE  LET y == Driven(d, x, n)
         IN  /\ y \in 0..n
             /\ Along(x, n, d) \in Nat /\ Along(y, n, d) \in Nat
             /\ (Ahead(p, d) = 0) <=> (Along(x, n, d) = 0)
             /\ Along(x, n, d) = 0 => y = x
             /\ Along(x, n, d) > 0 => /\ Along(y, n, d) = Along(x, n, d) - 1
                                      /\ AtMost(Ahead(p, d), k) = k
                                      /\ Toward(p, d, k) - 1 = k * y
<1> DEFINE y == Driven(d, x, n)
<1>0. n \in Nat \ {0} /\ k \in Nat /\ N = k * n
  BY DEF PerTick
<1> HIDE DEF y
<1>1. d = Up \/ (d = Down /\ Down # Up)
  BY <1>0 DEF Direction, Up, Down
<1>2. 1 <= k
  BY <1>0, WholeSteps
<1>3. CASE d = Up
  <2>1. Ahead(p, d) = k * x /\ Along(x, n, d) = x
    BY <1>0, <1>3 DEF Ahead, Along, Open
  <2>2. (k * x = 0) <=> (x = 0)
    BY <1>0, <1>2
  <2>3. CASE x = 0
    BY <1>0, <1>3, <2>1, <2>2, <2>3 DEF y, Driven, Along
  <2>4. CASE x > 0
    <3>1. y = x - 1 /\ y \in 0..n /\ Along(y, n, d) = x - 1
      BY <1>0, <1>3, <2>4 DEF y, Driven, Along
    <3>2. PICK a \in Int, b \in Int : a = k * x /\ b = k * (x - 1)
      BY <1>0
    <3>3. a = b + k /\ b >= 0
      BY <1>0, <2>4, <3>2
    <3>4. AtMost(a, k) = k
      BY <1>0, <3>3 DEF AtMost
    <3>5. Toward(p, d, k) - 1 = b
      BY <1>0, <1>3, <3>2, <3>3 DEF Toward
    <3>6. QED
      BY <1>0, <2>1, <2>2, <2>4, <3>1, <3>2, <3>4, <3>5 DEF y
  <2>5. QED
    BY <1>0, <2>3, <2>4
<1>4. CASE d = Down /\ Down # Up
  <2>1. Along(x, n, d) = n - x
    BY <1>0, <1>4 DEF Along
  <2>2. PICK a \in Int, b \in Int : a = k * x /\ b = k * (n - x)
    BY <1>0
  <2>3. k * n = a + b
    BY <1>0, <2>2
  <2>4. Ahead(p, d) = b
    BY <1>0, <1>4, <2>2, <2>3, Ranges DEF Ahead
  <2>5. (b = 0) <=> (n - x = 0)
    BY <1>0, <1>2, <2>2
  <2>6. CASE x = n
    BY <1>0, <1>4, <2>1, <2>4, <2>5, <2>6 DEF y, Driven, Along
  <2>7. CASE x < n
    <3>1. y = x + 1 /\ y \in 0..n /\ Along(y, n, d) = (n - x) - 1
      BY <1>0, <1>4, <2>7 DEF y, Driven, Along
    <3>2. PICK c \in Int : c = k * (x + 1)
      BY <1>0
    <3>3. c = a + k /\ b >= k
      <4>1. c = a + k
        BY <1>0, <2>2, <3>2
      <4>2. b = k * (n - x - 1) + k
        BY <1>0, <2>2
      <4>3. k * (n - x - 1) >= 0
        BY <1>0, <2>7
      <4>4. k * (n - x - 1) \in Int
        BY <1>0
      <4>5. QED
        BY <1>0, <4>1, <4>2, <4>3, <4>4
    <3>4. AtMost(b, k) = k
      BY <1>0, <3>3 DEF AtMost
    <3>5. Toward(p, d, k) - 1 = c
      BY <1>0, <1>4, <2>2, <3>3 DEF Toward
    <3>6. QED
      BY <1>0, <2>1, <2>4, <2>5, <2>7, <3>1, <3>2, <3>4, <3>5 DEF y
  <2>8. QED
    BY <1>0, <2>6, <2>7
<1>5. QED
  BY <1>0, <1>1, <1>3, <1>4 DEF y

(* What is right about a shutter that is followed.                         *)
Followed == shutter \in Shutters /\ Right(shutter) /\ shutter.travel > 0

(* The ticks it takes are numbers, and a tick a whole number of steps.     *)
LEMMA FollowedIs ==
  ASSUME Followed, NEW b \in shutter.blinds
  PROVE  /\ shutter.travel \in Nat \ {0} /\ shutter.slats \in Nat
         /\ b \in Blind /\ b.time = shutter.slats
         /\ b.type = "none" => shutter.slats = 0
         /\ b.type = "change" => shutter.slats <= shutter.travel
         /\ Divides(shutter.travel) /\ (shutter.slats > 0 => Divides(shutter.slats))
         /\ shutter.travel < TimeWrap
         /\ FullTime(shutter, b) \in Nat \ {0}
         /\ shutter.times \subseteq {Zero, <<FullTime(shutter, b), FullTime(shutter, b)>>}
         /\ "convert" \notin shutter.callers
<1>1. IsShutter(shutter)
  BY ConstantAssumption DEF Followed
<1>2. shutter.travel \in Nat \ {0} /\ shutter.slats \in Nat
  BY <1>1 DEF IsShutter, Followed
<1>3. b \in Blind
  BY <1>1 DEF IsShutter, Blind
<1>4. FullTime(shutter, b) \in Nat \ {0}
  BY <1>2 DEF FullTime
<1>5. QED
  BY <1>2, <1>3, <1>4 DEF Followed, Right

(* One tick nearer to the end, or there already.                           *)
LEMMA DrivenAlong ==
  ASSUME NEW n \in Nat, NEW x \in 0..n, NEW d \in Direction
  PROVE  LET y == Driven(d, x, n)
         IN  /\ y \in 0..n /\ Along(x, n, d) \in Nat /\ Along(y, n, d) \in Nat
             /\ IF Along(x, n, d) = 0 THEN y = x
                ELSE y # x /\ Along(y, n, d) = Along(x, n, d) - 1
<1>1. d = Up \/ (d = Down /\ Down # Up)
  BY DEF Direction, Up, Down
<1>2. QED
  BY <1>1 DEF Driven, Along

(* The slats turn.                                                         *)
Turning(b, x, d) ==
  /\ b.type # "none" /\ Driven(d, x.tilt, shutter.slats) # x.tilt
  /\ b.type = "closed" => x.position = shutter.travel

(* What moves when the motor runs: the slats, the shutter, or both.        *)
LEMMA DrivenToIs ==
  ASSUME Followed, rs.blind \in shutter.blinds, NEW x, Built(shutter, rs.blind, x),
         NEW d \in Direction
  PROVE  LET y    == DrivenTo(d, x)
             turn == Turning(rs.blind, x, d)
         IN  /\ y \in [position : 0..shutter.travel, tilt : 0..shutter.slats]
             /\ y.position = IF turn /\ rs.blind.type # "change" THEN x.position
                             ELSE Driven(d, x.position, shutter.travel)
             /\ y.tilt = IF turn THEN Driven(d, x.tilt, shutter.slats) ELSE x.tilt
<1>1. PICK n \in Nat, m \in Nat : n = shutter.travel /\ m = shutter.slats
  BY FollowedIs
<1>2. x \in [position : 0..n, tilt : 0..m]
  BY <1>1 DEF Built
<1>3. PICK p \in 0..n, t \in 0..m : p = Driven(d, x.position, n) /\ t = Driven(d, x.tilt, m)
  BY <1>2, DrivenIs
<1>4. [x EXCEPT !.tilt = t] # x <=> t # x.tilt
  BY <1>2
<1>5. [x EXCEPT !.tilt = t].tilt = t
  BY <1>2
<1>6. DrivenTo(d, x)
       = IF Turning(rs.blind, x, d)
         THEN IF rs.blind.type = "change" THEN [[x EXCEPT !.position = p] EXCEPT !.tilt = t]
              ELSE [x EXCEPT !.tilt = t]
         ELSE [x EXCEPT !.position = p]
  BY <1>1, <1>3, <1>4, <1>5 DEF DrivenTo, Turning
<1>7. QED
  BY <1>1, <1>2, <1>3, <1>6

(* Every tick brings a shutter one tick nearer to the end, for which it    *)
(* needs no more of them than its full time.                               *)
LEMMA LeftIs ==
  ASSUME Followed, rs.blind \in shutter.blinds, NEW x, Built(shutter, rs.blind, x),
         NEW d \in Direction
  PROVE  LET y       == DrivenTo(d, x)
             left(z) == Left(shutter, rs.blind, z, d)
         IN  /\ Built(shutter, rs.blind, y)
             /\ left(x) \in 0..FullTime(shutter, rs.blind) /\ left(y) \in Nat
             /\ left(x) = 0 =>
                  /\ y = x /\ ~Turning(rs.blind, x, d)
                  /\ Along(x.position, shutter.travel, d) = 0
                  /\ Along(x.tilt, shutter.slats, d) = 0
             /\ left(x) > 0 => left(y) = left(x) - 1
             /\ left(x) > 0 /\ ~Turning(rs.blind, x, d) =>
                  Along(x.position, shutter.travel, d) > 0
<1> DEFINE y == DrivenTo(d, x)
           turn == Turning(rs.blind, x, d)
<1>1. PICK n \in Nat, m \in Nat : n = shutter.travel /\ m = shutter.slats
  BY FollowedIs
<1>2. x \in [position : 0..n, tilt : 0..m] /\ y \in [position : 0..n, tilt : 0..m]
  BY <1>1, DrivenToIs DEF Built
<1>3. PICK p \in 0..n, t \in 0..m : p = Driven(d, x.position, n) /\ t = Driven(d, x.tilt, m)
  BY <1>2, DrivenIs
<1>4. /\ y.position = IF turn /\ rs.blind.type # "change" THEN x.position ELSE p
      /\ y.tilt = IF turn THEN t ELSE x.tilt
  BY <1>1, <1>3, DrivenToIs
<1>5. PICK ap \in Nat, at \in Nat, bp \in Nat, bt \in Nat :
        /\ ap = Along(x.position, n, d) /\ at = Along(x.tilt, m, d)
        /\ bp = Along(p, n, d) /\ bt = Along(t, m, d)
        /\ IF ap = 0 THEN p = x.position ELSE p # x.position /\ bp = ap - 1
        /\ IF at = 0 THEN t = x.tilt ELSE t # x.tilt /\ bt = at - 1
  <2>1. PICK xp \in 0..n, xt \in 0..m : xp = x.position /\ xt = x.tilt
    BY <1>2
  <2>2. /\ Along(xp, n, d) \in Nat /\ Along(p, n, d) \in Nat
        /\ IF Along(xp, n, d) = 0 THEN p = xp
           ELSE p # xp /\ Along(p, n, d) = Along(xp, n, d) - 1
    <3>1. p = Driven(d, xp, n)
      BY <1>3, <2>1
    <3>2. QED
      BY <3>1, DrivenAlong
  <2>3. /\ Along(xt, m, d) \in Nat /\ Along(t, m, d) \in Nat
        /\ IF Along(xt, m, d) = 0 THEN t = xt
           ELSE t # xt /\ Along(t, m, d) = Along(xt, m, d) - 1
    <3>1. t = Driven(d, xt, m)
      BY <1>3, <2>1
    <3>2. QED
      BY <3>1, DrivenAlong
  <2>4. QED
    BY <2>1, <2>2, <2>3
<1>6. /\ rs.blind.type \in TiltTypes
      /\ rs.blind.type = "none" => m = 0
      /\ rs.blind.type = "change" => m <= n
  BY <1>1, FollowedIs DEF Blind
<1>7. ap <= n /\ at <= m
  BY <1>2, <1>5 DEF Along
<1>8. turn <=> /\ rs.blind.type # "none" /\ at # 0
               /\ rs.blind.type = "closed" => x.position = n
  BY <1>1, <1>3, <1>5 DEF Turning
<1>9. d = Up \/ (d = Down /\ Down # Up)
  BY DEF Direction, Up, Down
<1>10. rs.blind.type = "closed" => x.position = n \/ x.tilt = 0
  BY <1>1 DEF Built
<1>11. rs.blind.type = "closed" /\ ap = 0 /\ x.position # n => at = 0
  BY <1>5, <1>9, <1>10 DEF Along
<1>12. rs.blind.type = "closed" /\ x.position # n /\ d = Up => at = 0
  BY <1>5, <1>10 DEF Along
<1>13. y = x <=> y.position = x.position /\ y.tilt = x.tilt
  BY <1>2
<1> HIDE DEF y, turn
<1> DEFINE left(z) == Left(shutter, rs.blind, z, d)
<1>14. /\ Along(y.position, n, d)
            = IF turn /\ rs.blind.type # "change" THEN ap ELSE bp
       /\ Along(y.tilt, m, d) = IF turn THEN bt ELSE at
  BY <1>4, <1>5
<1>15. /\ left(x) = IF rs.blind.type \in {"keep", "closed"} THEN ap + at
                    ELSE IF at > ap THEN at ELSE ap
       /\ left(y) = LET u == IF turn /\ rs.blind.type # "change" THEN ap ELSE bp
                        v == IF turn THEN bt ELSE at
                    IN  IF rs.blind.type \in {"keep", "closed"} THEN u + v
                        ELSE IF v > u THEN v ELSE u
  BY <1>1, <1>5, <1>14 DEF Left
<1>16. Built(shutter, rs.blind, y)
  <2>1. CASE rs.blind.type = "closed"
    <3>1. y.position = n \/ y.tilt = 0
      <4>1. CASE turn
        BY <1>4, <1>8, <2>1, <4>1
      <4>2. CASE ~turn /\ x.position # n
        BY <1>4, <1>10, <2>1, <4>2
      <4>3. CASE ~turn /\ x.position = n /\ d = Up
        <5>1. at = 0 /\ at = x.tilt
          BY <1>5, <1>8, <2>1, <4>3 DEF Along
        <5>2. QED
          BY <1>4, <4>3, <5>1
      <4>4. CASE ~turn /\ x.position = n /\ d = Down /\ Down # Up
        <5>1. ap = 0
          BY <1>5, <4>4 DEF Along
        <5>2. QED
          BY <1>4, <1>5, <4>4, <5>1
      <4>5. QED
        BY <1>9, <4>1, <4>2, <4>3, <4>4
    <3>2. QED
      BY <1>1, <1>2, <3>1 DEF Built
  <2>2. QED
    BY <1>1, <1>2, <2>1 DEF Built
<1>17. left(x) \in 0..FullTime(shutter, rs.blind)
  BY <1>1, <1>6, <1>7, <1>15 DEF FullTime, TiltTypes
<1>18. at <= m /\ (rs.blind.type = "none" => at = 0)
  BY <1>6, <1>7
<1>19. left(x) = 0 => /\ y = x /\ ~turn /\ ap = 0 /\ at = 0
  BY <1>4, <1>5, <1>8, <1>13, <1>15
<1>20. left(y) \in Nat
  BY <1>15
<1>21. left(x) > 0 => left(y) = left(x) - 1
  <2> HAVE left(x) > 0
  <2>1. CASE rs.blind.type = "none"
    BY <1>5, <1>8, <1>15, <1>18, <2>1
  <2>2. CASE rs.blind.type \in {"keep", "closed"} /\ turn
    BY <1>5, <1>8, <1>15, <2>2
  <2>3. CASE rs.blind.type \in {"keep", "closed"} /\ ~turn
    <3>1. ap # 0
      BY <1>8, <1>11, <1>15, <2>3
    <3>2. QED
      BY <1>5, <1>15, <2>3, <3>1
  <2>4. CASE rs.blind.type = "change"
    BY <1>5, <1>8, <1>15, <2>4
  <2>5. QED
    BY <1>6, <2>1, <2>2, <2>3, <2>4 DEF TiltTypes
<1>22. left(x) > 0 /\ ~turn => ap > 0
  <2> HAVE left(x) > 0 /\ ~turn
  <2>1. CASE rs.blind.type = "closed" /\ x.position # n
    BY <1>11, <1>15, <2>1
  <2>2. CASE ~(rs.blind.type = "closed" /\ x.position # n)
    BY <1>8, <1>15, <1>18, <2>2
  <2>3. QED
    BY <2>1, <2>2
<1>23. QED
  BY <1>1, <1>5, <1>16, <1>17, <1>19, <1>20, <1>21, <1>22 DEF y, turn

(* What the shutter believes before a tick counts: position and tilt are   *)
(* the real ones, and the run of the tick is all that has been counted, or *)
(* it was at its end before.                                               *)
Counting(r, x, d) ==
  /\ rs.blind \in shutter.blinds /\ r \in State /\ r.blind = rs.blind
  /\ Built(shutter, rs.blind, x) /\ Known(r) /\ Fits(shutter, r, x)
  /\ Left(shutter, rs.blind, x, d) = 0 \/ r.ran[d] = N

(* Its slats turn by the steps of a tick when the real ones turn.          *)
LEMMA SlatsTurned ==
  ASSUME Followed, NEW r, NEW x, NEW d \in Direction, Counting(r, x, d)
  PROVE  LET turn == Turning(rs.blind, x, d)
             t    == Toward(IF SlatsFixed(r) THEN Open ELSE r.tilt, d, SlatSteps(r, d))
         IN  /\ IF turn THEN SlatSteps(r, d) > 0 /\ SlatSteps(r, d) * r.blind.time = N
                ELSE SlatSteps(r, d) = 0
             /\ SlatSteps(r, d) \in Int
             /\ t \in Open..Closed => Agrees(t, DrivenTo(d, x).tilt, shutter.slats)
             /\ Tilts(r) => t \in Open..Closed
<1> DEFINE turn == Turning(rs.blind, x, d)
           t == Toward(IF SlatsFixed(r) THEN Open ELSE r.tilt, d, SlatSteps(r, d))
           y == DrivenTo(d, x)
<1>1. PICK n \in Nat \ {0}, m \in Nat : n = shutter.travel /\ m = shutter.slats
  BY FollowedIs DEF Counting
<1>2. /\ r \in State /\ r.blind = rs.blind /\ r.blind.time = m /\ rs.blind \in Blind
      /\ r.blind.type = "none" => m = 0
  BY <1>1, FollowedIs DEF Counting
<1>3. PICK xp \in 0..n, xt \in 0..m : xp = x.position /\ xt = x.tilt
  BY <1>1 DEF Counting, Built
<1>4. turn <=> /\ r.blind.type # "none" /\ Driven(d, xt, m) # xt
               /\ r.blind.type = "closed" => xp = n
  BY <1>1, <1>2, <1>3 DEF Turning
<1>5. y.tilt = IF turn THEN Driven(d, xt, m) ELSE xt
  BY <1>1, <1>3, DrivenToIs DEF Counting
<1> HIDE DEF turn, y
<1>6. CASE m = 0
  <2>1. SlatSteps(r, d) = 0
    BY <1>2, <1>6 DEF SlatSteps
  <2>2. ~turn
    BY <1>3, <1>4, <1>6 DEF Driven
  <2>3. ~Tilts(r) /\ \A q, z : Agrees(q, z, m)
    BY <1>2, <1>6 DEF Tilts, Agrees
  <2>4. QED
    BY <1>1, <2>1, <2>2, <2>3 DEF turn
<1>7. CASE m # 0
  <2>1. PICK j \in Nat : N = j * m
    BY <1>1, <1>7, FollowedIs DEF Counting, Divides
  <2>2. PICK k \in Nat : N = k * n
    BY <1>1, FollowedIs DEF Counting, Divides
  <2>3. Tilts(r) /\ r.tilt \in Open..Closed /\ Agrees(r.tilt, xt, m)
    BY <1>1, <1>2, <1>3, <1>7 DEF Tilts, Counting, Fits
  <2>4. PICK q \in Int : q = r.tilt /\ q - 1 = j * xt
    <3>1. PICK q \in Int : q = r.tilt
      BY <2>3, Ranges DEF Open
    <3>2. Agrees(q, xt, m) <=> q - 1 = j * xt
      <4>1. PerTick(m, j) /\ xt \in Int
        BY <1>7, <2>1 DEF PerTick
      <4>2. QED
        BY <4>1, AgreesIs
    <3>3. QED
      BY <2>3, <3>1, <3>2
  <2>5. PICK p \in Int : p = r.position /\ p - 1 = k * xp
    <3>1. PICK p \in Int : p = r.position
      BY <1>2 DEF State
    <3>2. Agrees(p, xp, n)
      BY <1>1, <1>3, <3>1 DEF Counting, Fits
    <3>3. Agrees(p, xp, n) <=> p - 1 = k * xp
      <4>1. PerTick(n, k) /\ xp \in Int
        BY <2>2 DEF PerTick
      <4>2. QED
        BY <4>1, AgreesIs
    <3>4. QED
      BY <3>1, <3>2, <3>3
  <2>6. (p = Closed) <=> (xp = n)
    <3>1. 1 <= k
      BY <2>2, WholeSteps
    <3>2. (k * xp = k * n) <=> (xp = n)
      BY <3>1
    <3>3. QED
      BY <2>2, <2>5, <3>2, Ranges
  <2>7. CASE SlatsFixed(r)
    <3>1. r.blind.type = "closed" /\ xp # n /\ xt = 0
      <4>1. r.blind.type = "closed" /\ xp # n
        BY <2>5, <2>6, <2>7 DEF SlatsFixed
      <4>2. QED
        BY <1>1, <1>2, <1>3, <4>1 DEF Counting, Built
    <3>2. SlatSteps(r, d) = 0 /\ ~turn
      BY <1>4, <2>7, <3>1 DEF SlatSteps
    <3>3. t = Open /\ y.tilt = 0
      BY <1>5, <2>7, <3>1, <3>2, NoSteps DEF Open
    <3>4. Agrees(Open, 0, m) /\ Open \in Open..Closed
      BY Ranges DEF Agrees, Open
    <3>5. QED
      BY <1>1, <3>2, <3>3, <3>4 DEF turn, y
  <2>8. CASE ~SlatsFixed(r)
    <3>1. r.blind.type = "closed" => xp = n
      BY <2>5, <2>6, <2>8 DEF SlatsFixed
    <3>2. turn <=> Driven(d, xt, m) # xt
      BY <1>2, <1>4, <1>7, <3>1
    <3>3. PICK a \in Nat : a = Along(xt, m, d) /\ (a # 0 <=> turn)
      BY <3>2, DrivenAlong
    <3>4. LET z == Driven(d, xt, m)
          IN  /\ z \in 0..m
              /\ (Ahead(q, d) = 0) <=> (a = 0)
              /\ a > 0 => /\ AtMost(Ahead(q, d), j) = j
                          /\ Toward(q, d, j) - 1 = j * z
      <4>1. PerTick(m, j)
        BY <1>7, <2>1 DEF PerTick
      <4>2. QED
        BY <2>4, <3>3, <4>1, TickMoves
    <3>5. Ahead(q, d) \in Int
      BY Ranges DEF Ahead, Open
    <3>6. SlatSteps(r, d) = AtMost(Ahead(q, d), r.ran[d] \div m)
      BY <1>2, <1>7, <2>4, <2>8 DEF SlatSteps
    <3>7. CASE turn
      <4>1. r.ran[d] = N
        BY <3>7, LeftIs DEF Counting, turn
      <4>2. N \div m = j /\ 1 <= j
        BY <1>7, <2>1, WholeSteps
      <4>3. SlatSteps(r, d) = j
        BY <3>3, <3>4, <3>6, <3>7, <4>1, <4>2
      <4>4. PICK z \in 0..m : z = y.tilt /\ Toward(q, d, j) - 1 = j * z
        BY <1>5, <3>3, <3>4, <3>7
      <4>5. PICK w \in Int : w = Toward(q, d, j)
        <5>1. q - j \in Int /\ q + j \in Int
          OBVIOUS
        <5>2. QED
          BY <5>1 DEF Toward
      <4>6. w \in Open..Closed /\ Agrees(w, z, m)
        <5>1. 0 <= j * z /\ j * z <= j * m
          <6>1. j * m = j * z + j * (m - z)
            OBVIOUS
          <6>2. j * z >= 0 /\ j * (m - z) >= 0 /\ j * z \in Int /\ j * (m - z) \in Int
            OBVIOUS
          <6>3. QED
            BY <6>1, <6>2
        <5>2. w \in Open..Closed
          BY <2>1, <4>4, <4>5, <5>1, Ranges DEF Open
        <5>3. Agrees(w, z, m) <=> w - 1 = j * z
          <6>1. PerTick(m, j) /\ z \in Int
            BY <1>7, <2>1 DEF PerTick
          <6>2. QED
            BY <6>1, AgreesIs
        <5>4. QED
          BY <4>4, <4>5, <5>2, <5>3
      <4>7. t = w
        BY <2>4, <2>8, <4>3, <4>5
      <4>8. QED
        BY <1>1, <1>2, <2>1, <3>7, <4>2, <4>3, <4>4, <4>6, <4>7 DEF turn, y
    <3>8. CASE ~turn
      <4>1. PICK c \in Nat : c = r.ran[d] \div m
        <5>1. PICK e \in Nat : e = r.ran[d]
          BY <1>2, TimingIs DEF State
        <5>2. QED
          BY <1>7, <5>1, QuotientIs
      <4>2. AtMost(0, c) = 0
        BY DEF AtMost
      <4>3. SlatSteps(r, d) = 0
        BY <3>3, <3>4, <3>6, <3>8, <4>1, <4>2
      <4>4. t = r.tilt /\ y.tilt = xt
        BY <1>5, <2>4, <2>8, <3>8, <4>3, NoSteps
      <4>5. QED
        BY <1>1, <2>3, <3>8, <4>3, <4>4 DEF turn, y
    <3>9. QED
      BY <3>7, <3>8
  <2>9. QED
    BY <2>7, <2>8
<1>8. QED
  BY <1>6, <1>7

(* Slats that turn have a blind, which waits for them unless both move.    *)
LEMMA TurningWaits ==
  ASSUME Followed, NEW r, NEW x, NEW d \in Direction, Counting(r, x, d)
  PROVE  Turning(rs.blind, x, d) => (OneAtATime(r) <=> r.blind.type # "change")
BY FollowedIs, Ranges DEF Counting, Turning, OneAtATime, TiltTypes, Blind

(* The shutter itself moves by the steps of a tick when the real one does, *)
(* which it does not while its slats turn, unless both move at once.       *)
LEMMA ShutterMoved ==
  ASSUME Followed, NEW r, NEW x, NEW d \in Direction, Counting(r, x, d)
  PROVE  LET waits == Turning(rs.blind, x, d) /\ rs.blind.type # "change"
             full  == FullTime(shutter, rs.blind)
             stands == Along(x.position, shutter.travel, d) = 0
         IN  /\ IF waits \/ stands THEN MoveSteps(r, d, full) = 0
                ELSE MoveSteps(r, d, full) * TravelTime(r, full) = N
             /\ (Ahead(r.position, d) = 0) <=> stands
             /\ Agrees(Toward(r.position, d, MoveSteps(r, d, full)),
                       DrivenTo(d, x).position, shutter.travel)
<1> DEFINE turn == Turning(rs.blind, x, d)
           full == FullTime(shutter, rs.blind)
           moves == MoveSteps(r, d, full)
           y == DrivenTo(d, x)
<1>1. PICK n \in Nat \ {0}, m \in Nat : n = shutter.travel /\ m = shutter.slats
  BY FollowedIs DEF Counting
<1>2. /\ r \in State /\ r.blind = rs.blind /\ r.blind.time = m
      /\ r.blind.type \in TiltTypes /\ n < TimeWrap
  BY <1>1, FollowedIs DEF Counting, Blind
<1>3. PICK xp \in 0..n : xp = x.position
  BY <1>1 DEF Counting, Built
<1>4. y.position = IF turn /\ r.blind.type # "change" THEN xp ELSE Driven(d, xp, n)
  BY <1>1, <1>2, <1>3, DrivenToIs DEF Counting
<1>5. (SlatSteps(r, d) > 0) <=> turn
  BY SlatsTurned
<1>6. TravelTime(r, full) = n
  <2>1. TimeWrap \in Nat \ {0}
    BY ConstantAssumption
  <2>2. n % TimeWrap = n
    BY <1>2, <2>1
  <2>3. full = IF r.blind.type \in {"keep", "closed"} THEN n + m ELSE n
    BY <1>1, <1>2 DEF FullTime
  <2>4. (n + m) - m = n
    OBVIOUS
  <2>5. QED
    BY <1>2, <2>2, <2>3, <2>4 DEF TravelTime, OneAtATime
<1> HIDE DEF turn, full, y
<1>7. PICK k \in Nat : N = k * n
  BY <1>1, FollowedIs DEF Counting, Divides
<1>8. PICK p \in Int : p = r.position /\ p - 1 = k * xp
  <2>1. PICK p \in Int : p = r.position
    BY <1>2 DEF State
  <2>2. Agrees(p, xp, n)
    BY <1>1, <1>3, <2>1 DEF Counting, Fits
  <2>3. PerTick(n, k) /\ xp \in Int
    BY <1>7 DEF PerTick
  <2>4. Agrees(p, xp, n) <=> p - 1 = k * xp
    BY <2>3, AgreesIs
  <2>5. QED
    BY <2>1, <2>2, <2>4
<1>9. PICK a \in Nat : a = Along(xp, n, d)
  BY DrivenAlong
<1>10. PICK z \in 0..n :
         /\ z = Driven(d, xp, n)
         /\ (Ahead(p, d) = 0) <=> (a = 0)
         /\ a = 0 => z = xp
         /\ a > 0 => /\ AtMost(Ahead(p, d), k) = k
                     /\ Toward(p, d, k) - 1 = k * z
  <2>1. PerTick(n, k)
    BY <1>7 DEF PerTick
  <2>2. QED
    BY <1>8, <1>9, <2>1, TickMoves
<1>11. moves = IF turn /\ r.blind.type # "change" THEN 0
               ELSE AtMost(Ahead(p, d), r.ran[d] \div n)
  BY <1>5, <1>6, <1>8, TurningWaits DEF MoveSteps, turn
<1>12. Toward(p, d, 0) = p /\ Agrees(p, xp, n)
  <2>1. Agrees(p, xp, n)
    BY <1>1, <1>3, <1>8 DEF Counting, Fits
  <2>2. QED
    BY <2>1, NoSteps
<1>13. CASE turn /\ r.blind.type # "change"
  BY <1>1, <1>2, <1>3, <1>4, <1>8, <1>9, <1>10, <1>11, <1>12, <1>13 DEF turn, full, y
<1>14. CASE ~(turn /\ r.blind.type # "change") /\ a = 0
  <2>1. PICK c \in Nat : c = r.ran[d] \div n
    <3>1. PICK e \in Nat : e = r.ran[d]
      BY <1>2, TimingIs DEF State
    <3>2. QED
      BY <3>1, QuotientIs
  <2>2. AtMost(0, c) = 0
    BY DEF AtMost
  <2>3. moves = 0
    BY <1>10, <1>11, <1>14, <2>1, <2>2
  <2>4. QED
    BY <1>1, <1>3, <1>4, <1>8, <1>9, <1>10, <1>12, <1>14, <2>3 DEF turn, full, y
<1>15. CASE ~(turn /\ r.blind.type # "change") /\ a > 0
  <2>1. r.ran[d] = N
    BY <1>1, <1>3, <1>9, <1>15, LeftIs DEF Counting
  <2>2. N \div n = k
    BY <1>7, WholeSteps
  <2>3. moves = k
    BY <1>10, <1>11, <1>15, <2>1, <2>2
  <2>4. PICK w \in Int : w = Toward(p, d, k)
    <3>1. p - k \in Int /\ p + k \in Int
      OBVIOUS
    <3>2. QED
      BY <3>1 DEF Toward
  <2>5. PerTick(n, k) /\ z \in Int
    BY <1>7 DEF PerTick
  <2>6. Agrees(w, z, n)
    <3>1. Agrees(w, z, n) <=> w - 1 = k * z
      BY <2>5, AgreesIs
    <3>2. QED
      BY <1>10, <1>15, <2>4, <3>1
  <2>7. y.position = z
    BY <1>4, <1>10, <1>15
  <2>8. QED
    BY <1>1, <1>2, <1>3, <1>6, <1>7, <1>8, <1>9, <1>10, <1>15, <2>3, <2>4, <2>6, <2>7
       DEF turn, full, y
<1>16. QED
  BY <1>13, <1>14, <1>15

(* So position and tilt stay the real ones, and the time of the tick is    *)
(* used up unless there is nothing left to do with it.                     *)
LEMMA MovedFits ==
  ASSUME Followed, NEW r, NEW x, NEW d \in Direction, Counting(r, x, d)
  PROVE  LET full == FullTime(shutter, rs.blind)
             y    == DrivenTo(d, x)
             m    == Moved(r, d, full)
         IN  /\ m \in State /\ Known(m)
             /\ Agrees(m.position, y.position, shutter.travel)
             /\ m.tilt \in Open..Closed => Agrees(m.tilt, y.tilt, shutter.slats)
             /\ Tilts(r) => m.tilt \in Open..Closed
             /\ m.ran = [r.ran EXCEPT ![d] = m.ran[d]]
             /\ Left(shutter, rs.blind, y, d) = 0 \/ m.ran[d] = 0
<1> DEFINE full == FullTime(shutter, rs.blind)
           y == DrivenTo(d, x)
           m == Moved(r, d, full)
           turn == Turning(rs.blind, x, d)
           stands == Along(x.position, shutter.travel, d) = 0
           spent == Spent(r, d, full)
<1>1. /\ r \in State /\ r.blind = rs.blind /\ full \in Nat
      /\ r.position \in Open..Closed
  BY FollowedIs, Ranges DEF Counting, Known, State, Open
<1>2. /\ m \in State /\ m.position \in Open..Closed
      /\ m.position = Toward(r.position, d, MoveSteps(r, d, full))
  BY <1>1, MovedTyped
<1>3. /\ m.tilt = Toward(IF SlatsFixed(r) THEN Open ELSE r.tilt, d, SlatSteps(r, d))
      /\ m.ran = [r.ran EXCEPT ![d] = r.ran[d] - spent]
  BY <1>1 DEF Moved, State
<1>4. m.ran[d] = r.ran[d] - spent
  BY <1>1, <1>3 DEF State, Timing
<1>5. PICK st : /\ st = SlatSteps(r, d) * r.blind.time
                /\ st = IF turn THEN N ELSE 0
  <2>1. PICK b \in Nat : b = r.blind.time
    BY <1>1 DEF State, Blind
  <2>2. 0 * b = 0
    OBVIOUS
  <2>3. QED
    BY <2>1, <2>2, SlatsTurned
<1>6. N \in Nat /\ N > 0
  BY ConstantAssumption
<1>7. spent = IF stands \/ (turn /\ r.blind.type # "change") THEN st
              ELSE MoveSteps(r, d, full) * TravelTime(r, full)
  <2>1. (Ahead(r.position, d) = 0) <=> stands
    BY ShutterMoved
  <2>2. st > 0 <=> turn
    BY <1>5, <1>6
  <2>3. QED
    BY <1>5, <2>1, <2>2, TurningWaits DEF Spent, turn
<1>8. spent = IF stands /\ ~turn THEN 0 ELSE N
  BY <1>1, <1>5, <1>7, ShutterMoved
<1>9. Left(shutter, rs.blind, y, d) = 0 \/ m.ran[d] = 0
  <2>1. CASE Left(shutter, rs.blind, x, d) = 0
    BY <2>1, LeftIs DEF Counting
  <2>2. CASE Left(shutter, rs.blind, x, d) # 0
    <3>1. r.ran[d] = N /\ Left(shutter, rs.blind, x, d) > 0
      BY <2>2, LeftIs DEF Counting
    <3>2. turn \/ ~stands
      BY <3>1, LeftIs DEF Counting
    <3>3. QED
      BY <1>4, <1>6, <1>8, <3>1, <3>2
  <2>3. QED
    BY <2>1, <2>2
<1>10. Known(m)
  BY <1>2, Ranges DEF Known, Open
<1> HIDE DEF m, spent, stands, turn
<1>11. m.ran = [r.ran EXCEPT ![d] = m.ran[d]]
  BY <1>3, <1>4
<1>12. QED
  BY <1>2, <1>3, <1>9, <1>10, <1>11, SlatsTurned, ShutterMoved DEF m

(* What has nothing to do with the estimate leaves it alone, and the flash *)
(* in accord with it.                                                      *)
Still(r, s) ==
  /\ s \in State
  /\ s.position = r.position /\ s.tilt = r.tilt /\ s.ran = r.ran
  /\ s.full = r.full /\ s.blind = r.blind /\ s.auto = r.auto /\ s.autoCal = r.autoCal
  /\ s.step = r.step /\ s.perform = r.perform /\ s.flash.auto = r.flash.auto
  /\ s.flash.full = r.flash.full /\ s.flash.blind = r.flash.blind
  /\ Stored(r) => Stored(s)

(* Two such calls are one.                                                 *)
LEMMA StillTwice ==
  ASSUME NEW r, NEW s, NEW t, Still(r, s), Still(s, t)
  PROVE  Still(r, t)
BY DEF Still

(* What the estimate was before, it is after such a call.                  *)
LEMMA StillKeeps ==
  ASSUME NEW r, NEW s, Still(r, s), NEW e, NEW x
  PROVE  /\ Given(r) => Given(s)
         /\ Known(s) <=> Known(r)
         /\ Exact(e, r, x) => Exact(e, s, x)
BY DEF Still, Given, Known, Exact, Fits, Counts, Tilts

(* What neither writes the estimate nor the flash is such a call,          *)
LEMMA UnwrittenStill ==
  ASSUME NEW r, NEW s \in State, s.position = r.position, s.tilt = r.tilt, s.ran = r.ran,
         s.full = r.full, s.blind = r.blind, s.auto = r.auto, s.autoCal = r.autoCal,
         s.step = r.step, s.perform = r.perform, s.flash = r.flash
  PROVE  Still(r, s)
BY DEF Still, Stored, Known, Tilts

(* and so is saving the state.                                             *)
LEMMA SavedStill ==
  ASSUME NEW r \in State
  PROVE  LET s == StateSaved(r)
         IN  /\ Still(r, s)
             /\ r.flash.full = r.full /\ r.flash.blind = r.blind => Stored(s)
<1> DEFINE s == StateSaved(r)
           f == [r.flash EXCEPT !.position = r.position, !.tilt = r.tilt]
<1>1. s \in State /\ r.flash \in Flash
  BY SavedTyped DEF State
<1>2. s = [r EXCEPT !.flash = f]
  BY DEF StateSaved, State
<1>3. /\ f.position = r.position /\ f.tilt = r.tilt /\ f.full = r.flash.full
      /\ f.auto = r.flash.auto /\ f.blind = r.flash.blind
  BY <1>1 DEF Flash
<1> HIDE DEF f
<1>4. /\ s.flash = f /\ s.position = r.position /\ s.tilt = r.tilt /\ s.ran = r.ran
      /\ s.full = r.full /\ s.blind = r.blind /\ s.auto = r.auto /\ s.autoCal = r.autoCal
      /\ s.step = r.step /\ s.perform = r.perform
  BY <1>2 DEF State
<1> HIDE DEF s
<1>5. r.flash.full = r.full /\ r.flash.blind = r.blind => Stored(s)
  BY <1>3, <1>4 DEF Stored
<1>6. Still(r, s)
  BY <1>1, <1>3, <1>4, <1>5 DEF Still, Stored
<1>7. QED
  BY <1>5, <1>6 DEF s

(* The relays and the trigger.                                             *)
LEMMA RelayStill ==
  ASSUME NEW r \in State, NEW d \in Direction, NEW hi
  PROVE  Still(r, RelayHi(r, d, hi))
<1> DEFINE s == RelayHi(r, d, hi)
<1>1. s \in State
  BY RelayTyped
<1>2. /\ s.position = r.position /\ s.tilt = r.tilt /\ s.ran = r.ran
      /\ s.full = r.full /\ s.blind = r.blind /\ s.auto = r.auto /\ s.autoCal = r.autoCal
      /\ s.step = r.step /\ s.perform = r.perform /\ s.flash = r.flash
  BY DEF RelayHi, State
<1>3. QED
  BY <1>1, <1>2, UnwrittenStill

(* What a call may write into other fields.                                *)
LEMMA FieldStill ==
  ASSUME NEW r \in State
  PROVE  /\ \A x \in BOOLEAN : /\ Still(r, [r EXCEPT !.buttonReq = x])
                               /\ Still(r, [r EXCEPT !.detected = x])
         /\ \A x \in SUBSET Flags : Still(r, [r EXCEPT !.flags = x])
         /\ \A x \in Task : Still(r, [r EXCEPT !.task = x])
         /\ \A x \in Trigger : Still(r, [r EXCEPT !.trigger = x])
         /\ \A x \in Request : Still(r, [r EXCEPT !.lastDirection = x])
<1>1. ASSUME NEW x \in BOOLEAN PROVE Still(r, [r EXCEPT !.buttonReq = x])
  <2> DEFINE s == [r EXCEPT !.buttonReq = x]
  <2>1. s \in State
    BY FieldTyped
  <2>2. /\ s.position = r.position /\ s.tilt = r.tilt /\ s.ran = r.ran
        /\ s.full = r.full /\ s.blind = r.blind /\ s.auto = r.auto /\ s.autoCal = r.autoCal
        /\ s.step = r.step /\ s.perform = r.perform /\ s.flash = r.flash
    BY DEF State
  <2>3. QED
    BY <2>1, <2>2, UnwrittenStill
<1>2. ASSUME NEW x \in BOOLEAN PROVE Still(r, [r EXCEPT !.detected = x])
  <2> DEFINE s == [r EXCEPT !.detected = x]
  <2>1. s \in State
    BY FieldTyped
  <2>2. /\ s.position = r.position /\ s.tilt = r.tilt /\ s.ran = r.ran
        /\ s.full = r.full /\ s.blind = r.blind /\ s.auto = r.auto /\ s.autoCal = r.autoCal
        /\ s.step = r.step /\ s.perform = r.perform /\ s.flash = r.flash
    BY DEF State
  <2>3. QED
    BY <2>1, <2>2, UnwrittenStill
<1>3. ASSUME NEW x \in SUBSET Flags PROVE Still(r, [r EXCEPT !.flags = x])
  <2> DEFINE s == [r EXCEPT !.flags = x]
  <2>1. s \in State
    BY FieldTyped
  <2>2. /\ s.position = r.position /\ s.tilt = r.tilt /\ s.ran = r.ran
        /\ s.full = r.full /\ s.blind = r.blind /\ s.auto = r.auto /\ s.autoCal = r.autoCal
        /\ s.step = r.step /\ s.perform = r.perform /\ s.flash = r.flash
    BY DEF State
  <2>3. QED
    BY <2>1, <2>2, UnwrittenStill
<1>4. ASSUME NEW x \in Task PROVE Still(r, [r EXCEPT !.task = x])
  <2> DEFINE s == [r EXCEPT !.task = x]
  <2>1. s \in State
    BY FieldTyped
  <2>2. /\ s.position = r.position /\ s.tilt = r.tilt /\ s.ran = r.ran
        /\ s.full = r.full /\ s.blind = r.blind /\ s.auto = r.auto /\ s.autoCal = r.autoCal
        /\ s.step = r.step /\ s.perform = r.perform /\ s.flash = r.flash
    BY DEF State
  <2>3. QED
    BY <2>1, <2>2, UnwrittenStill
<1>5. ASSUME NEW x \in Trigger PROVE Still(r, [r EXCEPT !.trigger = x])
  <2> DEFINE s == [r EXCEPT !.trigger = x]
  <2>1. s \in State
    BY FieldTyped
  <2>2. /\ s.position = r.position /\ s.tilt = r.tilt /\ s.ran = r.ran
        /\ s.full = r.full /\ s.blind = r.blind /\ s.auto = r.auto /\ s.autoCal = r.autoCal
        /\ s.step = r.step /\ s.perform = r.perform /\ s.flash = r.flash
    BY DEF State
  <2>3. QED
    BY <2>1, <2>2, UnwrittenStill
<1>6. ASSUME NEW x \in Request PROVE Still(r, [r EXCEPT !.lastDirection = x])
  <2> DEFINE s == [r EXCEPT !.lastDirection = x]
  <2>1. s \in State
    BY FieldTyped
  <2>2. /\ s.position = r.position /\ s.tilt = r.tilt /\ s.ran = r.ran
        /\ s.full = r.full /\ s.blind = r.blind /\ s.auto = r.auto /\ s.autoCal = r.autoCal
        /\ s.step = r.step /\ s.perform = r.perform /\ s.flash = r.flash
    BY DEF State
  <2>3. QED
    BY <2>1, <2>2, UnwrittenStill
<1>7. QED
  BY <1>1, <1>2, <1>3, <1>4, <1>5, <1>6

(* The trigger is armed.                                                   *)
LEMMA DelayedStill ==
  ASSUME NEW r \in State, NEW value \in Request, NEW wait \in Nat
  PROVE  Still(r, Delayed(r, value, wait))
<1> DEFINE s == Delayed(r, value, wait)
<1>1. s \in State
  BY DelayedTyped
<1>2. /\ s.position = r.position /\ s.tilt = r.tilt /\ s.ran = r.ran
      /\ s.full = r.full /\ s.blind = r.blind /\ s.auto = r.auto /\ s.autoCal = r.autoCal
      /\ s.step = r.step /\ s.perform = r.perform /\ s.flash = r.flash
  BY DEF Delayed, State
<1>3. QED
  BY <1>1, <1>2, UnwrittenStill

(* The motor is switched off,                                              *)
LEMMA StopStill ==
  ASSUME NEW r \in State, NEW stopDelay
  PROVE  Still(r, Stop(r, stopDelay))
<1> DEFINE one == RelayHi(r, Up, 0)
           low == RelayHi(one, Down, 0)
           s == [low EXCEPT !.buttonReq = FALSE]
<1>1. StopWait(r, stopDelay) \in Nat
  BY ConstantAssumption DEF State, StopWait
<1>2. Still(r, one) /\ one \in State
  BY Ranges, RelayStill DEF Still
<1> HIDE DEF one
<1>3. Still(one, low) /\ low \in State
  BY <1>2, Ranges, RelayStill DEF Still
<1> HIDE DEF low
<1>4. Still(low, s)
  BY <1>3, FieldStill
<1>5. Still(r, s)
  BY <1>2, <1>3, <1>4, StillTwice
<1>6. Stop(r, stopDelay) \in {Delayed(r, Off, StopWait(r, stopDelay)), s}
  BY DEF Stop, low, one
<1> HIDE DEF s
<1>7. QED
  BY <1>1, <1>5, <1>6, Ranges, DelayedStill

(* or on, at once or by the trigger.                                       *)
LEMMA StartStill ==
  ASSUME NEW r \in State, NEW d \in Direction
  PROVE  Still(r, Start(r, d))
<1> DEFINE q == Requested(r, d)
           low == Lowered(q, d)
           high == RelayHi(low, d, 1)
           s == [high EXCEPT !.buttonReq = FALSE]
<1>1. d \in Request /\ Opposite(d) \in Direction /\ r.flags \in SUBSET Flags
  BY Ranges DEF Opposite, State
<1>2. q \in State /\ Still(r, q)
  <2>1. q \in State
    BY <1>1 DEF State, Requested
  <2>2. q = [r EXCEPT !.lastDirection = d, !.flags = @ \ {"Failed", "Motor", "Lost"}]
    BY DEF Requested
  <2>3. QED
    BY <2>1, <2>2, UnwrittenStill DEF State
<1> HIDE DEF q
<1>3. low \in State /\ Still(r, low)
  BY <1>1, <1>2, RelayStill, StillTwice DEF Lowered, Still
<1> HIDE DEF low
<1>4. StartWait(low) \in Nat
  BY <1>3, ConstantAssumption DEF State, StartWait
<1>5. high \in State /\ Still(low, high)
  BY <1>3, RelayStill DEF Still
<1> HIDE DEF high
<1>6. Still(high, s)
  BY <1>5, FieldStill
<1>7. Still(r, s) /\ Still(r, Delayed(low, d, StartWait(low)))
  BY <1>1, <1>3, <1>4, <1>5, <1>6, DelayedStill, StillTwice
<1>8. Start(r, d) \in {Delayed(low, d, StartWait(low)), low, s}
  BY DEF Start, low, q, high
<1> HIDE DEF s
<1>9. QED
  BY <1>3, <1>7, <1>8

(* The whole of set_relay, as long as there is no calibration to abort.    *)
LEMMA SetRelayStill ==
  ASSUME NEW r \in State, r.step = 0, NEW value \in Request, NEW cancel, NEW stopDelay
  PROVE  Still(r, SetRelay(r, value, cancel, stopDelay))
<1> DEFINE c == IF cancel THEN Cancelled(r) ELSE r
           t == TriggerDisarmed(c)
<1>1. Aborted(r) = r
  BY DEF Aborted
<1>2. Still(r, c) /\ c \in State
  <2>1. Still(r, r)
    BY UnwrittenStill
  <2>2. Still(r, Cancelled(r))
    <3> DEFINE k == [r EXCEPT !.task = NoTask]
    <3>1. NoTask \in Task
      BY Ranges DEF Task, NoTask
    <3>2. Still(r, k) /\ k \in State
      BY <3>1, FieldStill DEF Still
    <3> HIDE DEF k
    <3>3. Still(k, StateSaved(k))
      BY <3>2, SavedStill
    <3>4. QED
      BY <3>2, <3>3, StillTwice DEF Cancelled, k
  <2>3. QED
    BY <2>1, <2>2 DEF Still
<1>3. SetRelay(r, value, cancel, stopDelay)
       = IF value = Off THEN Stop(t, stopDelay) ELSE Start(t, value)
  BY <1>1 DEF SetRelay
<1> HIDE DEF c
<1>4. Still(c, t) /\ t \in State
  <2>0. c.trigger \in Trigger
    BY <1>2 DEF State
  <2>1. PICK g \in Trigger : g = [c.trigger EXCEPT !.left = Disarmed]
    BY <2>0 DEF Trigger
  <2>2. t = [c EXCEPT !.trigger = g]
    BY <2>1 DEF TriggerDisarmed
  <2>3. QED
    BY <1>2, <2>2, FieldStill DEF Still
<1> HIDE DEF t
<1>5. value = Off \/ value \in Direction
  BY DEF Request, Direction
<1>6. QED
  BY <1>2, <1>3, <1>4, <1>5, StopStill, StartStill, StillTwice

(* What the timer marks is not the estimate.                               *)
LEMMA MarksStill ==
  ASSUME NEW r \in State, NEW d, NEW inMove \in BOOLEAN
  PROVE  /\ Still(r, r) /\ Still(r, MotorChecked(r, d, inMove))
         /\ Still(r, LostChecked(r, inMove)) /\ Still(r, PowerDetected(r, inMove))
         /\ r.step = 0 => Still(r, Autocalibrated(r, inMove))
<1>1. Still(r, r)
  BY UnwrittenStill
<1>2. r.flags \in SUBSET Flags
  BY DEF State
<1>3. /\ r.flags \cup {"Motor"} \in SUBSET Flags
      /\ r.flags \cup {"Lost"} \in SUBSET Flags
      /\ r.flags \ {"InProgress"} \in SUBSET Flags
  BY <1>2 DEF Flags
<1>4. Still(r, MotorChecked(r, d, inMove)) /\ Still(r, LostChecked(r, inMove))
  BY <1>1, <1>3, FieldStill DEF MotorChecked, LostChecked
<1>5. Still(r, PowerDetected(r, inMove))
  <2>1. (r.detected \/ inMove) \in BOOLEAN
    BY DEF State
  <2>2. QED
    BY <1>1, <2>1, FieldStill DEF PowerDetected
<1>6. r.step = 0 => Autocalibrated(r, inMove) = [r EXCEPT !.flags = r.flags \ {"InProgress"}]
  BY DEF Autocalibrated
<1>7. r.step = 0 => Still(r, Autocalibrated(r, inMove))
  BY <1>3, <1>6, FieldStill
<1>8. QED
  BY <1>1, <1>4, <1>5, <1>7

(* Nor is the state of a task or its direction.                            *)
LEMMA TaskStill ==
  ASSUME NEW r \in State
  PROVE  /\ \A x \in {Inactive, Active, Setting, SettingTilt} :
              Still(r, [r EXCEPT !.task.state = x])
         /\ \A d \in Request : Still(r, [r EXCEPT !.task.direction = d])
<1>1. r.task \in Task
  BY DEF State
<1>2. ASSUME NEW x \in {Inactive, Active, Setting, SettingTilt}
      PROVE  Still(r, [r EXCEPT !.task.state = x])
  <2>1. PICK t \in Task : t = [r.task EXCEPT !.state = x]
    BY <1>1 DEF Task
  <2>2. Still(r, [r EXCEPT !.task = t])
    BY FieldStill
  <2>3. QED
    BY <2>1, <2>2
<1>3. ASSUME NEW d \in Request PROVE Still(r, [r EXCEPT !.task.direction = d])
  <2>1. PICK t \in Task : t = [r.task EXCEPT !.direction = d]
    BY <1>1 DEF Task
  <2>2. Still(r, [r EXCEPT !.task = t])
    BY FieldStill
  <2>3. QED
    BY <2>1, <2>2
<1>4. QED
  BY <1>2, <1>3

(* A shutter that does not calibrate itself.                               *)
Plain(r) == r \in State /\ r.step = 0

(* It does not begin to by what leaves the estimate alone.                 *)
LEMMA PlainStill ==
  ASSUME NEW r, Plain(r), NEW s, Still(r, s)
  PROVE  Plain(s)
BY DEF Plain, Still

(* A task asks for a direction.                                            *)
LEMMA GoStill ==
  ASSUME NEW r, Plain(r), NEW d \in Request
  PROVE  Still(r, SetRelay([r EXCEPT !.task.direction = d], d, FALSE, 0))
<1> DEFINE s == [r EXCEPT !.task.direction = d]
<1>1. Still(r, s)
  BY TaskStill DEF Plain
<1> HIDE DEF s
<1>2. Still(s, SetRelay(s, d, FALSE, 0))
  BY <1>1, PlainStill, SetRelayStill DEF Plain
<1>3. Still(r, SetRelay(s, d, FALSE, 0))
  BY <1>1, <1>2, StillTwice
<1>4. QED
  BY <1>3 DEF s

(* It ends,                                                                *)
LEMMA TaskDoneStill ==
  ASSUME NEW r, Plain(r)
  PROVE  Still(r, TaskDone(r))
<1> DEFINE s == [r EXCEPT !.task.state = Inactive]
<1>1. Still(r, s)
  BY TaskStill DEF Plain
<1>2. [r EXCEPT !.task.state = Inactive, !.task.direction = Off]
        = [s EXCEPT !.task.direction = Off]
  BY DEF Plain, State, Task
<1>3. TaskDone(r) = SetRelay([s EXCEPT !.task.direction = Off], Off, FALSE, 0)
  BY <1>2 DEF TaskDone
<1> HIDE DEF s
<1>4. Still(s, TaskDone(r))
  BY <1>1, <1>3, Ranges, PlainStill, GoStill
<1>5. QED
  BY <1>1, <1>4, StillTwice

(* starts,                                                                 *)
LEMMA TaskStartedStill ==
  ASSUME NEW r, Plain(r), NEW full
  PROVE  Still(r, TaskStarted(r, full))
<1> DEFINE s == [r EXCEPT !.task.state = Setting]
           go(d) == SetRelay([s EXCEPT !.task.direction = d], d, FALSE, 0)
<1>1. TaskStarted(r, full) \in {s, go(Up), go(Down)}
  BY DEF TaskStarted
<1>2. Still(r, s)
  BY TaskStill DEF Plain
<1> HIDE DEF s
<1>3. Plain(s) /\ Up \in Request /\ Down \in Request
  BY <1>2, PlainStill, Ranges
<1>4. Still(s, go(Up)) /\ Still(s, go(Down))
  BY <1>3, GoStill
<1> HIDE DEF go
<1>5. Still(r, go(Up)) /\ Still(r, go(Down))
  BY <1>2, <1>4, StillTwice
<1>6. QED
  BY <1>1, <1>2, <1>5 DEF go, s

(* goes on with the tilt,                                                  *)
LEMMA TiltStartedStill ==
  ASSUME NEW r, Plain(r)
  PROVE  Still(r, TiltStarted(r))
<1> DEFINE s == [r EXCEPT !.task.state = SettingTilt]
           go(d) == SetRelay([s EXCEPT !.task.direction = d], d, FALSE, 0)
<1>1. TiltStarted(r) \in {TaskDone(s), go(Up), go(Down)}
  BY DEF TiltStarted
<1>2. Still(r, s)
  BY TaskStill DEF Plain
<1> HIDE DEF s
<1>3. Plain(s) /\ Up \in Request /\ Down \in Request
  BY <1>2, PlainStill, Ranges
<1>4. Still(s, go(Up)) /\ Still(s, go(Down)) /\ Still(s, TaskDone(s))
  BY <1>3, GoStill, TaskDoneStill
<1> HIDE DEF go
<1>5. Still(r, go(Up)) /\ Still(r, go(Down)) /\ Still(r, TaskDone(s))
  BY <1>2, <1>4, StillTwice
<1>6. QED
  BY <1>1, <1>5 DEF go, s

(* or has set the position.                                                *)
LEMMA PositionSetStill ==
  ASSUME NEW r, Plain(r), NEW inMove \in BOOLEAN
  PROVE  Still(r, PositionSet(r, inMove))
<1> DEFINE whole == \/ r.task.position = 0
                    \/ r.task.position = N /\ (FreeOfTilt(r) \/ r.task.tilt = N)
           l == IF whole THEN LostChecked(r, inMove) ELSE r
           s == [l EXCEPT !.task.direction = Off]
           stop == SetRelay(s, Off, FALSE, 0)
<1>1. PositionSet(r, inMove) \in {s, stop}
  BY DEF PositionSet
<1>2. Still(r, l)
  BY MarksStill DEF Plain
<1> HIDE DEF l
<1>3. Off \in Request /\ Plain(l)
  BY <1>2, Ranges, PlainStill
<1>4. Still(l, s) /\ Still(l, stop)
  BY <1>3, TaskStill, GoStill DEF Plain
<1> HIDE DEF s, stop
<1>5. Still(r, s) /\ Still(r, stop)
  BY <1>2, <1>4, StillTwice
<1>6. QED
  BY <1>1, <1>5 DEF stop, s, l

(* All that the timer does for a task.                                     *)
LEMMA TaskProcessedStill ==
  ASSUME NEW r, Plain(r), ~r.perform, NEW full, NEW inMove \in BOOLEAN
  PROVE  Still(r, TaskProcessed(r, full, inMove))
<1> DEFINE a == IF r.task.state = Active THEN TaskStarted(r, full) ELSE r
           b == IF a.task.state = Setting /\ a.task.direction = Off
                THEN TiltStarted(a) ELSE a
           c == IF b.task.state = Setting /\ Reached(b, full) /\ ~RunsOn(b, full, inMove)
                THEN PositionSet(b, inMove) ELSE b
           nearer == IF Percent(r.task.position) < 50 THEN Up ELSE Down
           near == SetRelay(r, nearer, FALSE, 0)
<1>1. TaskProcessed(r, full, inMove) \in {r, near, c, TaskDone(c)}
  BY DEF TaskProcessed
<1>2. \A q : Plain(q) => Still(q, q)
  BY MarksStill DEF Plain
<1>3. Still(r, a) /\ Plain(a)
  BY <1>2, TaskStartedStill, PlainStill
<1> HIDE DEF a
<1>4. Still(a, b) /\ Plain(b)
  BY <1>2, <1>3, TiltStartedStill, PlainStill
<1> HIDE DEF b
<1>5. Still(b, c) /\ Plain(c)
  BY <1>2, <1>4, PositionSetStill, PlainStill
<1> HIDE DEF c
<1>6. Still(r, c)
  BY <1>3, <1>4, <1>5, StillTwice
<1>7. Still(r, TaskDone(c))
  BY <1>5, <1>6, TaskDoneStill, StillTwice
<1>8. nearer \in Request
  BY Ranges
<1>9. Still(r, near)
  BY <1>8, SetRelayStill DEF Plain
<1> HIDE DEF near
<1>10. QED
  BY <1>1, <1>2, <1>6, <1>7, <1>9

(* The server is told.                                                     *)
LEMMA ReportedStill ==
  ASSUME NEW r, Plain(r)
  PROVE  Still(r, Reported(r))
<1>1. CommPeriod \in Nat /\ CommPeriod > 0 /\ r \in State
  BY ConstantAssumption DEF Plain
<1>2. \A c \in 0..(CommPeriod - 1) : Still(r, [r EXCEPT !.comm = c])
  <2> SUFFICES ASSUME NEW c \in 0..(CommPeriod - 1) PROVE Still(r, [r EXCEPT !.comm = c])
    OBVIOUS
  <2> DEFINE s == [r EXCEPT !.comm = c]
  <2>1. s \in State
    BY <1>1 DEF State
  <2>2. QED
    BY <1>1, <2>1, UnwrittenStill DEF State
<1>3. CASE r.comm < CommPeriod - 1
  <2>1. PICK n \in 0..(CommPeriod - 1) : n = r.comm
    BY <1>1 DEF State
  <2>2. PICK c \in 0..(CommPeriod - 1) : c = r.comm + 1
    BY <1>1, <1>3, <2>1
  <2>3. QED
    BY <1>2, <1>3, <2>2 DEF Reported
<1>4. CASE ~(r.comm < CommPeriod - 1)
  <2> DEFINE z == [r EXCEPT !.comm = 0]
             s == Sent(z)
  <2>1. 0 \in 0..(CommPeriod - 1)
    BY <1>1
  <2>2. Still(r, z) /\ z \in State
    BY <1>2, <2>1 DEF Still
  <2> HIDE DEF z
  <2>3. ValueOf(z) \in Told
    BY <2>2 DEF ValueOf, Told, State
  <2>4. s \in State
    BY <2>2, <2>3 DEF State, Sent
  <2>5. Still(z, s)
    BY <2>2, <2>4, UnwrittenStill DEF State, Sent
  <2> HIDE DEF s
  <2>6. Still(r, s) /\ Plain(s)
    BY <2>2, <2>5, StillTwice, PlainStill
  <2>7. Still(r, SetRelay(s, Off, FALSE, 0))
    BY <2>6, Ranges, SetRelayStill, StillTwice DEF Plain
  <2>8. Reported(r) \in {s, SetRelay(s, Off, FALSE, 0)}
    BY <1>4 DEF Reported, s, z
  <2>9. QED
    BY <2>6, <2>7, <2>8
<1>5. QED
  BY <1>3, <1>4

(* Time passes.                                                            *)
LEMMA AgedStill ==
  ASSUME NEW r \in State
  PROVE  Still(r, Aged(r))
<1> DEFINE s == Aged(r)
<1>1. s \in State
  BY AgedTyped
<1>2. /\ s.position = r.position /\ s.tilt = r.tilt /\ s.ran = r.ran
      /\ s.full = r.full /\ s.blind = r.blind /\ s.auto = r.auto /\ s.autoCal = r.autoCal
      /\ s.step = r.step /\ s.perform = r.perform /\ s.flash = r.flash
  BY DEF Aged, State
<1>3. QED
  BY <1>1, <1>2, UnwrittenStill

(* What move_position leaves alone.                                        *)
LEMMA MovedLeaves ==
  ASSUME NEW r, Given(r), NEW d, NEW full
  PROVE  LET m == Moved(r, d, full)
         IN  /\ m \in State => Given(m)
             /\ m.full = r.full /\ m.blind = r.blind /\ m.flash = r.flash
             /\ Known(r) /\ m.position = r.position /\ m.tilt = r.tilt /\ Stored(r) => Stored(m)
<1> DEFINE m == Moved(r, d, full)
<1>1. /\ m.full = r.full /\ m.blind = r.blind /\ m.auto = r.auto /\ m.autoCal = r.autoCal
      /\ m.step = r.step /\ m.perform = r.perform /\ m.flash = r.flash
  BY DEF Moved, Given, State
<1> HIDE DEF m
<1>2. m \in State => Given(m)
  BY <1>1 DEF Given
<1>3. Known(r) /\ m.position = r.position /\ m.tilt = r.tilt /\ Stored(r) => Stored(m)
  BY <1>1 DEF Stored, Known, Tilts
<1>4. QED
  BY <1>1, <1>2, <1>3 DEF m

(* A tick of a motor, in the direction d, of a shutter with a position.    *)
LEMMA PositionMovedExact ==
  ASSUME Followed, NEW r, NEW x, NEW d \in Direction, Counting(r, x, d), Given(r),
         r.full # Zero, r.full \in shutter.times, Stored(r), r.ran[Opposite(d)] = 0,
         NEW inMove \in BOOLEAN
  PROVE  LET s == PositionMoved(r, d, FullTime(shutter, rs.blind), inMove)
         IN  Exact(shutter, s, DrivenTo(d, x)) /\ Stored(s)
<1> DEFINE full == FullTime(shutter, rs.blind)
           y == DrivenTo(d, x)
           m == Moved(r, d, full)
           c == IF m.position # r.position \/ m.tilt # r.tilt THEN StateSaved(m) ELSE m
           lost == LostChecked(c, inMove)
           stopped == SetRelay(lost, Off, FALSE, 0)
<1>1. /\ r \in State /\ r.blind = rs.blind /\ rs.blind \in shutter.blinds /\ Known(r)
      /\ Built(shutter, rs.blind, x) /\ full # 0
  BY FollowedIs DEF Counting
<1>2. TiltGuessed(r) = r
  BY DEF TiltGuessed, Counting, Fits
<1>3. PositionMoved(r, d, full, inMove) \in {c, stopped}
  BY <1>1, <1>2 DEF PositionMoved
<1>4. /\ m \in State /\ Known(m)
      /\ Agrees(m.position, y.position, shutter.travel)
      /\ m.tilt \in Open..Closed => Agrees(m.tilt, y.tilt, shutter.slats)
      /\ Tilts(r) => m.tilt \in Open..Closed
      /\ m.ran = [r.ran EXCEPT ![d] = m.ran[d]]
      /\ Left(shutter, rs.blind, y, d) = 0 \/ m.ran[d] = 0
  BY MovedFits
<1>5. /\ Given(m) /\ m.full = r.full /\ m.blind = r.blind /\ m.flash = r.flash
      /\ m.position = r.position /\ m.tilt = r.tilt => Stored(m)
  BY <1>1, <1>4, MovedLeaves
<1>6. m.ran[Opposite(d)] = 0
  <2>1. Opposite(d) # d /\ Opposite(d) \in Direction
    BY Ranges DEF Opposite, Direction
  <2>2. r.ran \in Timing
    BY <1>1 DEF State
  <2>3. QED
    BY <1>4, <2>1, <2>2 DEF Timing
<1>7. Built(shutter, rs.blind, y)
  BY <1>1, LeftIs
<1> HIDE DEF m, y
<1>8. Exact(shutter, m, y)
  <2>1. Fits(shutter, m, y)
    BY <1>4, <1>5 DEF Fits, Tilts
  <2>2. Counts(shutter, m, y)
    <3>1. \A e \in Direction : e = d \/ e = Opposite(d)
      BY DEF Direction, Opposite
    <3>2. QED
      BY <1>1, <1>4, <1>5, <1>6, <3>1 DEF Counts
  <2>3. QED
    BY <1>1, <1>5, <1>7, <2>1, <2>2 DEF Exact
<1>9. Exact(shutter, c, y) /\ Stored(c) /\ Plain(c)
  <2>1. Still(m, StateSaved(m)) /\ Stored(StateSaved(m))
    <3>1. m.flash.full = m.full /\ m.flash.blind = m.blind
      BY <1>5 DEF Stored
    <3>2. QED
      BY <1>4, <3>1, SavedStill
  <2>2. Exact(shutter, c, y)
    BY <1>8, <2>1, StillKeeps
  <2>3. Stored(c)
    BY <1>5, <2>1
  <2>4. QED
    BY <2>2, <2>3 DEF Plain, Exact, Given
<1> HIDE DEF c
<1>10. Still(c, lost)
  BY <1>9, MarksStill DEF Plain
<1> HIDE DEF lost
<1>11. Still(c, stopped)
  BY <1>9, <1>10, Ranges, PlainStill, SetRelayStill, StillTwice DEF Plain
<1> HIDE DEF stopped
<1>12. Exact(shutter, stopped, y) /\ Stored(stopped)
  <2>1. Stored(stopped)
    BY <1>9, <1>11 DEF Still
  <2>2. QED
    BY <1>9, <1>11, <2>1, StillKeeps
<1>13. QED
  BY <1>3, <1>9, <1>12 DEF y

(* Nothing is left of the way to the end: this is the end.                 *)
LEMMA EndAgrees ==
  ASSUME Followed, rs.blind \in shutter.blinds, NEW x, Built(shutter, rs.blind, x),
         NEW d \in Direction, Left(shutter, rs.blind, x, d) = 0
  PROVE  /\ Agrees(EndOf(d), x.position, shutter.travel)
         /\ Agrees(EndOf(d), x.tilt, shutter.slats)
         /\ DrivenTo(d, x) = x
<1>1. PICK n \in Nat, m \in Nat : n = shutter.travel /\ m = shutter.slats
  BY FollowedIs
<1>2. PICK p \in 0..n, t \in 0..m : p = x.position /\ t = x.tilt
  BY <1>1 DEF Built
<1>3. DrivenTo(d, x) = x /\ Along(p, n, d) = 0 /\ Along(t, m, d) = 0
  BY <1>1, <1>2, LeftIs
<1>4. d = Up \/ (d = Down /\ Down # Up)
  BY DEF Direction, Up, Down
<1>5. CASE d = Up
  <2>1. p = 0 /\ t = 0 /\ EndOf(d) = Open
    BY <1>3, <1>5 DEF Along, EndOf
  <2>2. (Open - Open) * n = 0 * N /\ (Open - Open) * m = 0 * N
    BY Ranges DEF Open
  <2>3. QED
    BY <1>1, <1>2, <1>3, <2>1, <2>2 DEF Agrees
<1>6. CASE d = Down /\ Down # Up
  <2>1. p = n /\ t = m /\ EndOf(d) = Closed /\ Closed - Open = N
    BY <1>2, <1>3, <1>6, Ranges DEF Along, EndOf, Open
  <2>2. N * n = n * N /\ N * m = m * N
    BY Ranges
  <2>3. QED
    BY <1>1, <1>2, <1>3, <2>1, <2>2 DEF Agrees
<1>7. QED
  BY <1>4, <1>5, <1>6

(* The time of a tick is counted, with given times in full.                *)
LEMMA RanIs ==
  ASSUME NEW r, Given(r), NEW d \in Direction
  PROVE  LET a == RanOn(r, d)
         IN  /\ Given(a) /\ a.full = r.full /\ a.blind = r.blind /\ a.flash = r.flash
             /\ a.position = r.position /\ a.tilt = r.tilt
             /\ a.ran[Opposite(d)] = 0
             /\ a.ran[d] \in Nat /\ a.ran[d] <= r.ran[d] + N
             /\ r.ran[d] = 0 => a.ran[d] = N
<1> DEFINE a == RanOn(r, d)
<1>1. r \in State /\ N \in Nat /\ N > 0 /\ Counted(r) = N
  BY Ranges DEF Given, Counted, AutocalEnabled
<1>2. PICK n \in Nat : n = r.ran[d]
  BY <1>1, TimingIs DEF State
<1>3. PICK long \in Nat : long = LongestRun /\ N <= long
  <2>1. PICK k \in Nat : k = MaxRun + CommPeriod
    BY ConstantAssumption
  <2>2. MaxRun + CommPeriod + 1 = k + 1
    BY <2>1
  <2>3. N * (k + 1) = N * k + N
    BY <1>1, <2>1
  <2>4. N * k \in Nat
    BY <1>1, TimesNat
  <2>5. QED
    BY <1>1, <2>2, <2>3, <2>4 DEF LongestRun
<1>4. PICK more \in Nat : more = AtMost(long, n + N)
  BY <1>1, <1>2, <1>3 DEF AtMost
<1>5. more <= n + N /\ (n = 0 => more = N)
  BY <1>1, <1>2, <1>3, <1>4 DEF AtMost
<1>6. PICK ran \in Timing : ran = [r.ran EXCEPT ![d] = more, ![Opposite(d)] = 0]
  BY <1>1 DEF State, Timing
<1>7. a = [r EXCEPT !.ran = ran]
  BY <1>1, <1>2, <1>3, <1>4, <1>6 DEF RanOn, State
<1>8. ran[d] = more /\ ran[Opposite(d)] = 0
  <2>1. Opposite(d) # d /\ Opposite(d) \in Direction
    BY Ranges DEF Opposite, Direction
  <2>2. r.ran \in [Direction -> Nat]
    BY <1>1 DEF State, Timing
  <2>3. QED
    BY <1>6, <2>1, <2>2
<1>9. a \in State
  BY <1>1, <1>7, FieldTyped
<1>10. /\ a.ran = ran /\ a.full = r.full /\ a.blind = r.blind /\ a.flash = r.flash
       /\ a.position = r.position /\ a.tilt = r.tilt /\ a.auto = r.auto
       /\ a.autoCal = r.autoCal /\ a.step = r.step /\ a.perform = r.perform
  BY <1>1, <1>7 DEF State
<1> HIDE DEF a
<1>11. QED
  BY <1>2, <1>4, <1>5, <1>8, <1>9, <1>10 DEF Given, a

(* A position that was unknown is known when the motor has run for 110 %   *)
(* of the full time, at the end; the motor has got there before.           *)
NoPosition(r, x, d) ==
  /\ Given(r) /\ r.blind = rs.blind /\ rs.blind \in shutter.blinds
  /\ r.full = Zero \/ r.full = <<FullTime(shutter, rs.blind), FullTime(shutter, rs.blind)>>
  /\ r.full \in shutter.times
  /\ Built(shutter, rs.blind, x) /\ ~Known(r) /\ Stored(r)
  /\ r.ran[Opposite(d)] = 0
  /\ \/ Left(shutter, rs.blind, x, d) = 0
     \/ Left(shutter, rs.blind, DrivenTo(d, x), d) * N + r.ran[d]
          <= FullTime(shutter, rs.blind) * N

(* Without one it remains so while the time has not run out.               *)
LEMMA StillUnknown ==
  ASSUME Followed, NEW r, NEW x, NEW d \in Direction, NoPosition(r, x, d)
  PROVE  Exact(shutter, r, DrivenTo(d, x))
<1> DEFINE y == DrivenTo(d, x)
<1>1. PICK full \in Nat : full = FullTime(shutter, rs.blind)
  BY FollowedIs DEF NoPosition
<1>2. Built(shutter, rs.blind, y)
  BY LeftIs DEF NoPosition
<1>3. \/ Left(shutter, rs.blind, y, d) = 0
      \/ Left(shutter, rs.blind, y, d) * N + r.ran[d] <= full * N
  BY <1>1, LeftIs DEF NoPosition
<1>4. Left(shutter, rs.blind, y, Opposite(d)) * N + r.ran[Opposite(d)] <= full * N
  <2>1. Opposite(d) \in Direction
    BY Ranges DEF Opposite
  <2>2. PICK left \in 0..full : left = Left(shutter, rs.blind, y, Opposite(d))
    BY <1>1, <1>2, <2>1, LeftIs DEF NoPosition
  <2>3. left * N <= full * N /\ left * N \in Int
    BY <2>2, Ranges
  <2>4. r.ran[Opposite(d)] = 0
    BY DEF NoPosition
  <2>5. QED
    BY <2>2, <2>3, <2>4
<1> HIDE DEF y
<1>5. \A e \in Direction : e = d \/ e = Opposite(d)
  BY DEF Direction, Opposite
<1>6. Counts(shutter, r, y)
  BY <1>1, <1>3, <1>4, <1>5 DEF Counts, NoPosition
<1>7. QED
  BY <1>2, <1>6 DEF Exact, Fits, NoPosition, y

(* It forgets the tilt too,                                                *)
LEMMA VoidStill ==
  ASSUME NEW r \in State, ~Known(r)
  PROVE  LET v == Voided(r)
         IN  /\ v \in State /\ ~Known(v) /\ v.ran = r.ran
             /\ Given(r) => Given(v)
             /\ v.full = r.full /\ v.blind = r.blind
             /\ Stored(r) => Stored(v)
<1> DEFINE v == Voided(r)
<1>1. v \in State
  BY VoidedTyped
<1>2. /\ v.position = 0 /\ r.position = 0 /\ v.ran = r.ran /\ v.full = r.full /\ v.blind = r.blind
      /\ v.auto = r.auto /\ v.autoCal = r.autoCal /\ v.step = r.step
      /\ v.perform = r.perform /\ v.flash = r.flash
  BY DEF Voided, State, Known
<1> HIDE DEF v
<1>3. QED
  BY <1>1, <1>2 DEF Given, Stored, Known, v

(* or it is at the end.                                                    *)
LEMMA EndCounting ==
  ASSUME Followed, NEW r, NEW x, NEW d \in Direction, NoPosition(r, x, d),
         Left(shutter, rs.blind, x, d) = 0, r.full # Zero
  PROVE  LET s == StateSaved(At(r, EndOf(d)))
         IN  /\ Counting(s, x, d) /\ Given(s) /\ s.full = r.full /\ Stored(s)
             /\ s.ran[Opposite(d)] = 0
<1> DEFINE e == At(r, EndOf(d))
           s == StateSaved(e)
           tilt == IF Tilts(r) THEN EndOf(d) ELSE 0
<1>1. EndOf(d) \in 1..Closed /\ r \in State
  BY Ranges DEF EndOf, NoPosition, Given
<1>2. e \in State
  BY <1>1, AtTyped
<1>3. /\ e.position = EndOf(d) /\ e.tilt = tilt
      /\ e.ran = r.ran /\ e.full = r.full /\ e.blind = r.blind
      /\ e.auto = r.auto /\ e.autoCal = r.autoCal /\ e.step = r.step
      /\ e.perform = r.perform /\ e.flash = r.flash
  BY <1>1 DEF At, State
<1> HIDE DEF e
<1>4. Still(e, s)
  BY <1>2, SavedStill
<1>5. Stored(s)
  <2>1. e.flash.full = e.full /\ e.flash.blind = e.blind
    BY <1>3 DEF NoPosition, Stored
  <2>2. QED
    BY <1>2, <2>1, SavedStill
<1> HIDE DEF s
<1>6. /\ s \in State /\ s.position = EndOf(d) /\ s.tilt = tilt
      /\ s.ran = r.ran /\ s.full = r.full /\ s.blind = r.blind
  BY <1>3, <1>4 DEF Still
<1>7. Given(s)
  BY <1>3, <1>4 DEF Still, Given, NoPosition
<1>8. /\ Agrees(EndOf(d), x.position, shutter.travel)
      /\ Agrees(EndOf(d), x.tilt, shutter.slats)
  BY EndAgrees DEF NoPosition
<1>9. Fits(shutter, s, x)
  <2>1. 0 \notin Open..Closed /\ EndOf(d) \in Open..Closed
    BY <1>1 DEF Open
  <2>2. Tilts(s) <=> Tilts(r)
    BY <1>6 DEF Tilts
  <2>3. QED
    BY <1>6, <1>8, <2>1, <2>2 DEF Fits
<1>10. Known(s)
  BY <1>1, <1>6 DEF Known
<1>11. Counting(s, x, d)
  BY <1>6, <1>9, <1>10 DEF Counting, NoPosition
<1>12. QED
  BY <1>5, <1>6, <1>7, <1>11 DEF NoPosition, s, e

(* So the one or the other.                                                *)
LEMMA CalibratedExact ==
  ASSUME Followed, NEW r, NEW x, NEW d \in Direction, NoPosition(r, x, d),
         NEW inMove \in BOOLEAN
  PROVE  LET f == r.full[d]
             s == PositionMoved(Calibrated(r, d, f), d, f, inMove)
         IN  Exact(shutter, s, DrivenTo(d, x)) /\ Stored(s)
<1> DEFINE f == r.full[d]
           y == DrivenTo(d, x)
           k == Calibrated(r, d, f)
           c == [r EXCEPT !.flags = r.flags \cup {"InProgress"}]
<1>1. r \in State /\ r.flags \cup {"InProgress"} \in SUBSET Flags
  BY DEF NoPosition, Given, State, Flags
<1>2. PICK full \in Nat \ {0} : full = FullTime(shutter, rs.blind)
  BY FollowedIs DEF NoPosition
<1>3. f = IF r.full = Zero THEN 0 ELSE full
  BY <1>2 DEF NoPosition, Zero, Direction, Up, Down
<1>4. CASE r.full = Zero
  <2>1. k = r
    BY <1>3, <1>4 DEF Calibrated
  <2>2. PositionMoved(k, d, f, inMove) = r
    BY <1>3, <1>4, <2>1 DEF PositionMoved
  <2>3. QED
    BY <2>2, StillUnknown DEF NoPosition
<1>5. CASE r.full # Zero
  <2>1. Still(r, c) /\ c \in State
    BY <1>1, FieldStill DEF Still
  <2>2. k = IF ~Beyond(r.ran[d], f) THEN Voided(c) ELSE StateSaved(At(c, EndOf(d)))
    <3>1. c.ran[d] = r.ran[d]
      BY <2>1 DEF Still
    <3>2. QED
      BY <1>2, <1>3, <1>5 DEF Calibrated, NoPosition
  <2>3. NoPosition(c, x, d)
    BY <2>1 DEF NoPosition, Still, Given, Known
  <2> HIDE DEF c
  <2>4. CASE ~Beyond(r.ran[d], f)
    <3> DEFINE v == Voided(c)
    <3>1. NoPosition(v, x, d)
      BY <2>1, <2>3, VoidStill DEF NoPosition
    <3> HIDE DEF v
    <3>2. k = v
      BY <2>2, <2>4 DEF v
    <3>3. PositionMoved(k, d, f, inMove) = v
      BY <3>1, <3>2 DEF PositionMoved, NoPosition
    <3>4. QED
      BY <3>1, <3>3, StillUnknown DEF NoPosition
  <2>5. CASE Beyond(r.ran[d], f)
    <3>1. Left(shutter, rs.blind, x, d) = 0
      <4>1. PICK n \in Nat : n = r.ran[d]
        BY <1>1, TimingIs DEF State
      <4>2. n * 10 >= full * N * 11
        BY <1>3, <1>5, <2>5, <4>1 DEF Beyond
      <4>3. PICK p \in Nat : p = full * N /\ p > 0
        <5>1. full * N >= 1 /\ full * N \in Int
          BY Ranges
        <5>2. QED
          BY <5>1
      <4>4. n > p
        BY <4>1, <4>2, <4>3
      <4>5. PICK left \in Nat : left = Left(shutter, rs.blind, y, d)
        BY LeftIs DEF NoPosition
      <4>6. ~(left * N + n <= p)
        <5>1. PICK q \in Nat : q = left * N
          BY Ranges, TimesNat
        <5>2. QED
          BY <4>1, <4>3, <4>4, <5>1
      <4>7. QED
        BY <1>2, <4>1, <4>3, <4>5, <4>6 DEF NoPosition
    <3> DEFINE s == StateSaved(At(c, EndOf(d)))
    <3>2. k = s
      BY <2>2, <2>5
    <3>3. c.full = r.full
      BY <2>1 DEF Still
    <3>4. /\ Counting(s, x, d) /\ Given(s) /\ s.full = r.full /\ Stored(s)
          /\ s.ran[Opposite(d)] = 0
      BY <1>5, <2>3, <3>1, <3>3, EndCounting
    <3>5. r.full \in shutter.times
      BY DEF NoPosition
    <3> HIDE DEF s
    <3>6. QED
      BY <1>2, <1>3, <1>5, <3>2, <3>4, <3>5, PositionMovedExact
  <2>6. QED
    BY <2>4, <2>5
<1>6. QED
  BY <1>4, <1>5

(* All that the timer does for the direction in which the motor runs.      *)
LEMMA RunningExact ==
  ASSUME Followed, NEW r, NEW x, Exact(shutter, r, x), Stored(r), r.blind = rs.blind,
         NEW d \in Direction, NEW inMove \in BOOLEAN
  PROVE  LET s == Running(r, d, r.full, inMove)
         IN  Exact(shutter, s, DrivenTo(d, x)) /\ Stored(s)
<1> DEFINE a == RanOn(r, d)
           b == MotorChecked(a, d, inMove)
           c == Autocalibrated(b, inMove)
           f == InForce(c, r.full)[d]
           y == DrivenTo(d, x)
<1>1. Running(r, d, r.full, inMove) = PositionMoved(Calibrated(c, d, f), d, f, inMove)
  BY DEF Running, RanOn
<1>2. /\ Given(a) /\ a.full = r.full /\ a.blind = r.blind /\ a.flash = r.flash
      /\ a.position = r.position /\ a.tilt = r.tilt /\ a.ran[Opposite(d)] = 0
      /\ a.ran[d] \in Nat /\ a.ran[d] <= r.ran[d] + N
      /\ r.ran[d] = 0 => a.ran[d] = N
  BY RanIs DEF Exact
<1> HIDE DEF a
<1>3. Still(a, b) /\ Plain(b)
  BY <1>2, MarksStill, PlainStill DEF Plain, Given
<1> HIDE DEF b
<1>4. Still(b, c)
  BY <1>3, MarksStill DEF Plain
<1> HIDE DEF c
<1>5. Still(a, c)
  BY <1>3, <1>4, StillTwice
<1>6. /\ Given(c) /\ c.full = r.full /\ c.blind = rs.blind /\ c.ran = a.ran
      /\ Stored(c) /\ Known(c) = Known(r) /\ c.position = r.position /\ c.tilt = r.tilt
  <2>1. Given(c)
    BY <1>2, <1>5, StillKeeps
  <2>2. Stored(a)
    BY <1>2 DEF Stored, Known, Tilts
  <2>3. QED
    BY <1>2, <1>5, <2>1, <2>2 DEF Still, Known
<1>7. f = r.full[d]
  BY <1>6 DEF InForce, Given, Zero, Direction, Up, Down
<1>8. rs.blind \in shutter.blinds /\ r.full \in shutter.times /\ Built(shutter, rs.blind, x)
  BY DEF Exact
<1>9. PICK full \in Nat \ {0} :
        /\ full = FullTime(shutter, rs.blind)
        /\ r.full = Zero \/ r.full = <<full, full>>
  <2>1. shutter.times \subseteq {Zero, <<FullTime(shutter, rs.blind),
                                         FullTime(shutter, rs.blind)>>}
        /\ FullTime(shutter, rs.blind) \in Nat \ {0}
    BY <1>8, FollowedIs
  <2>2. QED
    BY <1>8, <2>1
<1> HIDE DEF f
<1>10. CASE Known(r)
  <2>1. r.full # Zero /\ f = full
    BY <1>7, <1>9, <1>10 DEF Exact, Fits, Direction, Up, Down
  <2>2. Calibrated(c, d, f) = c
    BY <1>6, <1>10 DEF Calibrated
  <2>3. Counting(c, x, d)
    <3>1. Fits(shutter, c, x)
      <4>1. Tilts(c) = Tilts(r)
        BY <1>6 DEF Tilts
      <4>2. QED
        BY <1>6, <4>1 DEF Exact, Fits
    <3>2. Left(shutter, rs.blind, x, d) = 0 \/ c.ran[d] = N
      BY <1>2, <1>6, <1>10 DEF Exact, Counts
    <3>3. QED
      BY <1>6, <1>8, <1>10, <3>1, <3>2 DEF Counting, Given
  <2>4. QED
    BY <1>1, <1>2, <1>6, <1>8, <1>9, <2>1, <2>2, <2>3, PositionMovedExact
<1>11. CASE ~Known(r)
  <2>1. NoPosition(c, x, d)
    <3>1. \/ Left(shutter, rs.blind, x, d) = 0
          \/ Left(shutter, rs.blind, y, d) * N + c.ran[d] <= full * N
      <4>1. PICK p \in Nat, q \in Nat :
              /\ p = Left(shutter, rs.blind, x, d) /\ q = Left(shutter, rs.blind, y, d)
              /\ p > 0 => q = p - 1
        BY <1>8, LeftIs
      <4>2. PICK n \in Nat : n = r.ran[d]
        BY TimingIs DEF Exact, Given, State
      <4>3. p > 0 => p * N + n <= full * N
        BY <1>9, <1>11, <4>1, <4>2 DEF Exact, Counts
      <4>4. p > 0 => p * N = q * N + N
        BY <4>1, Ranges
      <4>5. PICK i \in Nat, j \in Nat, k \in Nat : i = p * N /\ j = q * N /\ k = full * N
        BY Ranges, TimesNat
      <4>6. p > 0 => j + c.ran[d] <= k
        BY <1>2, <1>6, <4>2, <4>3, <4>4, <4>5, Ranges
      <4>7. QED
        BY <4>1, <4>5, <4>6
    <3>2. QED
      BY <1>2, <1>6, <1>8, <1>9, <1>11, <3>1 DEF NoPosition, Known
  <2>2. QED
    BY <1>1, <1>6, <1>7, <2>1, CalibratedExact
<1>12. QED
  BY <1>10, <1>11

(* What is followed of a shutter: the estimate, and what the flash has.    *)
Follows(r, x) == Exact(shutter, r, x) /\ Stored(r)

(* Calls that leave the estimate alone do so.                              *)
LEMMA StillFollows ==
  ASSUME NEW r, NEW s, NEW x, Follows(r, x), Still(r, s)
  PROVE  Follows(s, x) /\ s.blind = r.blind
BY StillKeeps DEF Follows, Still

(* It is one that does not calibrate itself.                               *)
LEMMA FollowsPlain ==
  ASSUME NEW r, NEW x, Follows(r, x)
  PROVE  Plain(r) /\ r \in State /\ r.step = 0
BY DEF Follows, Exact, Given, Plain

(* The motor stands, and with it what is counted.                          *)
LEMMA StandingFollows ==
  ASSUME Followed, NEW r, NEW x, Follows(r, x), r.blind = rs.blind
  PROVE  Follows(Standing(r), x)
<1> DEFINE s == Standing(r)
<1>1. r \in State /\ rs.blind \in shutter.blinds /\ Built(shutter, rs.blind, x)
  BY DEF Follows, Exact, Given
<1>2. s \in State
  BY <1>1, FlaggedTyped
<1>3. /\ s.position = r.position /\ s.tilt = r.tilt /\ s.ran = Zero
      /\ s.full = r.full /\ s.blind = r.blind /\ s.auto = r.auto /\ s.autoCal = r.autoCal
      /\ s.step = r.step /\ s.perform = r.perform /\ s.flash = r.flash
  BY <1>1 DEF Standing, State
<1> HIDE DEF s
<1>4. Given(s) /\ Stored(s) /\ Fits(shutter, s, x)
  BY <1>2, <1>3 DEF Follows, Exact, Given, Stored, Fits, Known, Tilts
<1>5. Counts(shutter, s, x)
  <2> SUFFICES ASSUME NEW d \in Direction
               PROVE  /\ s.ran[d] = 0
                      /\ Left(shutter, s.blind, x, d) * N + s.ran[d]
                           <= FullTime(shutter, s.blind) * N
    BY DEF Counts
  <2>1. s.ran[d] = 0
    BY <1>3 DEF Zero, Direction, Up, Down
  <2>2. PICK full \in Nat : full = FullTime(shutter, rs.blind)
    BY <1>1, FollowedIs
  <2>3. PICK left \in 0..full : left = Left(shutter, rs.blind, x, d)
    BY <1>1, <2>2, LeftIs
  <2>4. left * N <= full * N /\ left * N \in Int
    BY <2>3, Ranges
  <2>5. QED
    BY <1>3, <2>1, <2>2, <2>3, <2>4
<1>6. QED
  BY <1>3, <1>4, <1>5 DEF Follows, Exact, s

(* A tick.                                                                 *)
LEMMA TickFollows ==
  ASSUME Followed, Follows(rs, real), Tick
  PROVE  Follows(rs', real')
<1> DEFINE r == Aged(rs)
<1>1. PICK inMove \in InMove : rs' = TimerCb(r, inMove) /\ real' = Turned
  BY DEF Tick
<1>2. inMove \in BOOLEAN
  <2>1. Seen \in BOOLEAN
    BY DEF Seen
  <2>2. shutter.sensor \in {"none", "ideal", "any"}
    BY ConstantAssumption DEF IsShutter, Followed
  <2>3. QED
    BY <2>1, <2>2 DEF InMove
<1>3. rs \in State
  BY FollowsPlain
<1>4. Still(rs, r) /\ r.on = rs.on
  BY <1>3, AgedStill DEF Aged, State
<1>5. Follows(r, real) /\ r.blind = rs.blind
  BY <1>4, StillFollows
<1> HIDE DEF r
<1>6. TimesSelected(r) = r /\ ~AutocalEnabled(r)
  BY <1>5 DEF Follows, Exact, Given, TimesSelected, AutocalEnabled
<1> DEFINE p == PowerDetected(r, inMove)
<1>7. Still(r, p) /\ p.on = r.on
  <2>1. r \in State
    BY <1>5, FollowsPlain
  <2>2. p.on = r.on
    BY <2>1 DEF PowerDetected, State
  <2>3. QED
    BY <1>2, <2>1, <2>2, MarksStill
<1>8. Follows(p, real) /\ p.blind = rs.blind /\ p.full = r.full
  BY <1>5, <1>7, StillFollows DEF Still
<1> DEFINE m == CASE Up \in p.on -> Running(p, Up, r.full, inMove)
                  [] p.on = {Down} -> Running(p, Down, r.full, inMove)
                  [] OTHER -> Standing(p)
<1>9. rs' = Reported(TaskProcessed(AutocalChecked(m), InForce(m, r.full), inMove))
  BY <1>1, <1>6 DEF TimerCb
<1> HIDE DEF p
<1>10. Follows(m, real')
  <2>1. CASE Up \in p.on
    <3>1. Up \in rs.on /\ real' = DrivenTo(Up, real)
      BY <1>1, <1>4, <1>7, <2>1 DEF Turned
    <3>2. m = Running(p, Up, p.full, inMove)
      BY <1>8, <2>1
    <3>3. QED
      BY <1>2, <1>8, <3>1, <3>2, Ranges, RunningExact DEF Follows
  <2>2. CASE p.on = {Down} /\ Up \notin p.on
    <3>1. real' = DrivenTo(Down, real)
      BY <1>1, <1>4, <1>7, <2>2 DEF Turned
    <3>2. m = Running(p, Down, p.full, inMove)
      BY <1>8, <2>2
    <3>3. QED
      BY <1>2, <1>8, <3>1, <3>2, Ranges, RunningExact DEF Follows
  <2>3. CASE p.on # {Down} /\ Up \notin p.on
    <3>1. real' = real
      BY <1>1, <1>4, <1>7, <2>3 DEF Turned
    <3>2. m = Standing(p)
      BY <2>3
    <3>3. QED
      BY <1>8, <3>1, <3>2, StandingFollows
  <2>4. QED
    BY <2>1, <2>2, <2>3
<1> HIDE DEF m
<1>11. AutocalChecked(m) = m /\ ~m.perform /\ Plain(m)
  BY <1>10, FollowsPlain DEF AutocalChecked, AutocalEnabled, Follows, Exact, Given
<1> DEFINE t == TaskProcessed(m, InForce(m, r.full), inMove)
<1>12. Still(m, t)
  BY <1>2, <1>11, TaskProcessedStill
<1> HIDE DEF t
<1>13. Still(t, Reported(t))
  BY <1>11, <1>12, PlainStill, ReportedStill
<1>14. Still(m, rs')
  BY <1>9, <1>11, <1>12, <1>13, StillTwice DEF t
<1>15. QED
  BY <1>10, <1>14, StillFollows

(* The delayed trigger fires.                                              *)
LEMMA FiredStill ==
  ASSUME NEW r, Plain(r)
  PROVE  Still(r, Fired(r))
<1> DEFINE g == [r.trigger EXCEPT !.left = Disarmed, !.autoCal = FALSE]
           b == r.buttonReq \/ r.trigger.autoCal
           h == [r EXCEPT !.trigger = g]
           s == [h EXCEPT !.buttonReq = b]
<1>1. r \in State /\ r.trigger \in Trigger /\ r.trigger.value \in Request
  BY DEF Plain, State, Trigger
<1>2. g \in Trigger /\ b \in BOOLEAN
  BY <1>1 DEF Trigger
<1>3. s = [r EXCEPT !.trigger.left = Disarmed, !.trigger.autoCal = FALSE,
                    !.buttonReq = @ \/ r.trigger.autoCal]
  BY <1>1 DEF Trigger, State
<1>4. Fired(r) = SetRelay(s, r.trigger.value, FALSE, 0)
  BY <1>3 DEF Fired
<1> HIDE DEF g, b
<1>5. Still(r, h) /\ h \in State
  BY <1>1, <1>2, FieldStill DEF Still
<1> HIDE DEF h
<1>6. Still(h, s)
  BY <1>2, <1>5, FieldStill
<1> HIDE DEF s
<1>7. Still(r, s) /\ Plain(s)
  BY <1>5, <1>6, StillTwice, PlainStill
<1>8. Still(s, SetRelay(s, r.trigger.value, FALSE, 0))
  BY <1>1, <1>7, SetRelayStill DEF Plain
<1>9. QED
  BY <1>4, <1>7, <1>8, StillTwice

(* The shutter is moved step by step.                                      *)
LEMMA StepByStepStill ==
  ASSUME NEW r, Plain(r)
  PROVE  Still(r, StepByStep(r))
<1> DEFINE last == IF r.lastDirection # Off THEN r.lastDirection
                   ELSE IF Percent(r.position - 1) > 50 THEN Down ELSE Up
           s == IF Value(r) = Off THEN [r EXCEPT !.lastDirection = last] ELSE r
<1>1. last \in Direction /\ r \in State
  BY Ranges DEF Plain, State, Request, Direction
<1>2. StepByStep(r) = SetRelay(s, OrStop(r, Opposite(last)), TRUE, 0)
  BY DEF StepByStep
<1> HIDE DEF last
<1>3. last \in Request /\ OrStop(r, Opposite(last)) \in Request
  BY <1>1, Ranges, RequestIs
<1>4. Still(r, s)
  BY <1>1, <1>3, FieldStill, UnwrittenStill
<1> HIDE DEF s
<1>5. Still(s, SetRelay(s, OrStop(r, Opposite(last)), TRUE, 0))
  BY <1>3, <1>4, PlainStill, SetRelayStill DEF Plain
<1>6. QED
  BY <1>2, <1>4, <1>5, StillTwice

(* A position that is forgotten is no wrong one.                           *)
LEMMA ForgottenExact ==
  ASSUME Followed, NEW r, NEW x, Exact(shutter, r, x), r.blind = rs.blind,
         NEW v, Given(v), ~Known(v), v.ran = r.ran, v.blind = r.blind, v.full \in shutter.times
  PROVE  Exact(shutter, v, x)
<1>1. rs.blind \in shutter.blinds /\ Built(shutter, rs.blind, x)
  BY DEF Exact
<1>2. Counts(shutter, v, x)
  <2> SUFFICES ASSUME NEW d \in Direction, Left(shutter, r.blind, x, d) # 0
               PROVE  Left(shutter, r.blind, x, d) * N + r.ran[d]
                        <= FullTime(shutter, r.blind) * N
    BY DEF Counts
  <2>1. PICK full \in Nat : full = FullTime(shutter, rs.blind)
    BY <1>1, FollowedIs
  <2>2. PICK left \in 0..full : left = Left(shutter, rs.blind, x, d)
    BY <1>1, <2>1, LeftIs
  <2>3. left * N <= full * N /\ left * N \in Int
    BY <2>2, Ranges
  <2>4. QED
    BY <2>1, <2>2, <2>3 DEF Exact, Counts
<1>3. QED
  BY <1>1, <1>2 DEF Exact, Fits

(* Times are given: those of the shutter, or none.                         *)
LEMMA TimesAppliedFollows ==
  ASSUME Followed, NEW r, NEW x, Exact(shutter, r, x), r.blind = rs.blind,
         NEW t \in shutter.times
  PROVE  Follows(TimesApplied(r, t), x) /\ TimesApplied(r, t).blind = r.blind
         /\ (~Known(r) => ~Known(TimesApplied(r, t)))
<1> DEFINE w == [r EXCEPT !.full = t, !.auto = Zero]
           s == IF TimesReset(r, t) THEN Retimed(r, t) ELSE r
           y == s.perform /\ s.full = Zero
           p == [s EXCEPT !.perform = y]
           q == StateSaved(p)
           c == CfgSaved(q)
<1>1. t \in Timing /\ Zero \in Timing /\ r \in State /\ ~r.perform
  BY AskedIs, Ranges DEF Exact, Given, Followed
<1>2. /\ w \in State /\ w.full = t /\ w.auto = Zero /\ w.ran = r.ran /\ w.blind = r.blind
      /\ w.step = r.step /\ w.perform = r.perform /\ w.autoCal = r.autoCal
      /\ w.flash = r.flash
  <2>1. w \in State
    BY <1>1 DEF State
  <2>2. QED
    BY <1>1, <2>1 DEF State
<1> HIDE DEF w
<1>3. LET v == Voided(w)
      IN  /\ v \in State /\ v.position = 0 /\ v.full = t /\ v.auto = Zero /\ v.ran = r.ran
          /\ v.blind = r.blind /\ v.step = r.step /\ v.perform = r.perform
          /\ v.autoCal = r.autoCal /\ v.flash = r.flash
  <2>1. Voided(w) \in State
    BY <1>2, VoidedTyped
  <2>2. QED
    BY <1>2, <2>1 DEF Voided, State
<1>4. Exact(shutter, Voided(w), x) /\ ~Known(Voided(w)) /\ Voided(w).blind = r.blind
  <2>1. Given(Voided(w)) /\ ~Known(Voided(w))
    BY <1>3 DEF Exact, Given, Known
  <2>2. QED
    BY <1>3, <2>1, ForgottenExact
<1>5. Exact(shutter, s, x) /\ s.blind = r.blind /\ (~Known(r) => ~Known(s))
  BY <1>4 DEF Retimed, w
<1> HIDE DEF s
<1>6. s \in State /\ s.perform = FALSE
  BY <1>5 DEF Exact, Given, State
<1>7. p = s
  BY <1>6 DEF State
<1>8. Still(s, q) /\ q \in State
  BY <1>6, <1>7, SavedStill DEF Still
<1>9. q.flash.position = s.position /\ q.flash.tilt = s.tilt
  BY <1>6, <1>7 DEF StateSaved, State, Flash
<1> HIDE DEF q, p
<1>10. /\ c \in State /\ c.position = q.position /\ c.tilt = q.tilt /\ c.ran = q.ran
       /\ c.full = q.full /\ c.blind = q.blind /\ c.auto = q.auto /\ c.autoCal = q.autoCal
       /\ c.step = q.step /\ c.perform = q.perform
  <2>1. c \in State
    BY <1>8, SavedTyped
  <2>2. QED
    BY <1>8, <2>1 DEF CfgSaved, State
<1>11. /\ c.flash.auto = q.auto /\ c.flash.full = q.full /\ c.flash.blind = q.blind
       /\ c.flash.position = q.flash.position /\ c.flash.tilt = q.flash.tilt
  BY <1>8 DEF CfgSaved, State, Flash
<1> HIDE DEF c
<1>12. Stored(c)
  BY <1>8, <1>9, <1>10, <1>11 DEF Stored, Still
<1>13. Exact(shutter, q, x)
  BY <1>5, <1>8, StillKeeps
<1>14. Given(c)
  BY <1>10, <1>11, <1>13 DEF Exact, Given
<1>15. Exact(shutter, c, x)
  BY <1>10, <1>13, <1>14 DEF Exact, Fits, Counts, Known, Tilts
<1>16. TimesApplied(r, t) = c
  BY <1>7 DEF TimesApplied, s, p, q, c
<1>17. QED
  BY <1>5, <1>8, <1>10, <1>12, <1>15, <1>16 DEF Follows, Still, Known

(* A task is added; it saves the state, too.                               *)
LEMMA TaskAddedFollows ==
  ASSUME NEW r, NEW x, Exact(shutter, r, x), NEW p \in Keep..N, NEW t \in Keep..N,
         r.flash.full = r.full, r.flash.blind = r.blind,
         AsAsked(r, p, t) => Stored(r)
  PROVE  Follows(TaskAdded(r, p, t), x)
<1> DEFINE runs  == r.task.state # Inactive
           tilt  == IF t = Keep /\ runs THEN r.task.tilt ELSE t
           kept  == IF p = Keep /\ r.task.state \in {Active, Setting}
                    THEN r.task.position ELSE p
           fixed == r.blind.type = "closed"
           pos   == IF fixed /\ kept = Keep /\ tilt # Keep THEN N ELSE kept
           free  == pos = N \/ (pos = Keep /\ r.position = Closed)
           k     == [state |-> Active, position |-> pos, direction |-> Off,
                     tilt |-> IF fixed /\ ~free THEN 0 ELSE tilt]
           s     == [r EXCEPT !.task = k]
<1>1. TaskAdded(r, p, t) = IF AsAsked(r, p, t) THEN r ELSE StateSaved(s)
  BY DEF TaskAdded
<1>2. r \in State /\ r.task.tilt \in Keep..N /\ r.task.position \in Keep..N
  BY DEF Exact, Given, State, Task
<1>3. N \in Keep..N /\ 0 \in Keep..N /\ Off \in Request
  BY Ranges
<1>4. tilt \in Keep..N /\ kept \in Keep..N
  BY <1>2
<1> HIDE DEF tilt, kept
<1>5. pos \in Keep..N
  BY <1>3, <1>4
<1> HIDE DEF pos
<1>6. (IF fixed /\ ~free THEN 0 ELSE tilt) \in Keep..N
  BY <1>3, <1>4
<1>7. k \in Task
  BY <1>3, <1>5, <1>6 DEF Task
<1> HIDE DEF k
<1>8. Still(r, s) /\ s \in State
  BY <1>2, <1>7, FieldStill DEF Still
<1> HIDE DEF s
<1>9. Still(s, StateSaved(s)) /\ Stored(StateSaved(s))
  BY <1>8, SavedStill DEF Still
<1>10. Exact(shutter, StateSaved(s), x)
  BY <1>8, <1>9, StillTwice, StillKeeps
<1>11. QED
  BY <1>1, <1>9, <1>10 DEF Follows

(* Recalibration forgets the position.                                     *)
LEMMA RecalibrateFollows ==
  ASSUME Followed, Follows(rs, real), NEW t \in shutter.times, Recalibrate(t)
  PROVE  Follows(rs', real)
<1> DEFINE w == [rs EXCEPT !.step = 0, !.auto = Zero]
           void == Voided(w)
           back == [void EXCEPT !.tilt = rs.tilt]
<1>1. rs' \in {TaskAdded(TimesApplied(void, t), 0, 0), TaskAdded(void, 0, 0),
               TaskAdded(TimesApplied(back, rs.full), 0, 0)}
  BY DEF Recalibrate, By
<1>2. rs \in State /\ 0 \in Keep..N /\ rs.full \in shutter.times /\ rs.tilt \in Unset..Closed
  BY Ranges DEF Follows, Exact, Given, State
<1>3. w = rs
  BY DEF Follows, Exact, Given, State
<1>4. /\ void \in State /\ void.position = 0
      /\ void.ran = rs.ran /\ void.full = rs.full /\ void.blind = rs.blind
      /\ void.auto = rs.auto /\ void.autoCal = rs.autoCal /\ void.step = rs.step
      /\ void.perform = rs.perform /\ void.flash = rs.flash
  <2>1. void \in State /\ void = [rs EXCEPT !.position = 0, !.tilt = 0]
    BY <1>2, <1>3, VoidedTyped DEF Voided
  <2> HIDE DEF void
  <2>2. QED
    BY <1>2, <2>1 DEF State
<1> HIDE DEF void
<1>5. /\ back \in State /\ back.position = 0
      /\ back.ran = rs.ran /\ back.full = rs.full /\ back.blind = rs.blind
      /\ back.auto = rs.auto /\ back.autoCal = rs.autoCal /\ back.step = rs.step
      /\ back.perform = rs.perform /\ back.flash = rs.flash
  BY <1>2, <1>4 DEF State
<1> HIDE DEF back
<1>6. Exact(shutter, void, real) /\ Exact(shutter, back, real) /\ ~Known(void) /\ ~Known(back)
  <2>1. Given(void) /\ Given(back) /\ ~Known(void) /\ ~Known(back)
    BY <1>4, <1>5 DEF Follows, Exact, Given, Known
  <2>2. QED
    BY <1>2, <1>4, <1>5, <2>1, ForgottenExact DEF Follows
<1>7. \A r : ~Known(r) => ~AsAsked(r, 0, 0)
  BY DEF AsAsked, Known, RawPosition, Keep
<1>8. ASSUME NEW r, NEW u \in shutter.times, Exact(shutter, r, real), ~Known(r),
             r.blind = rs.blind
      PROVE  Follows(TaskAdded(TimesApplied(r, u), 0, 0), real)
  <2> DEFINE s == TimesApplied(r, u)
  <2>1. Follows(s, real) /\ ~Known(s)
    BY <1>8, TimesAppliedFollows
  <2> HIDE DEF s
  <2>2. Exact(shutter, s, real) /\ s.flash.full = s.full /\ s.flash.blind = s.blind
    BY <2>1 DEF Follows, Stored
  <2>3. Follows(TaskAdded(s, 0, 0), real)
    BY <1>2, <1>7, <2>1, <2>2, TaskAddedFollows
  <2>4. QED
    BY <2>3 DEF s
<1>9. Follows(TaskAdded(void, 0, 0), real)
  <2>1. void.flash.full = void.full /\ void.flash.blind = void.blind
    BY <1>4 DEF Follows, Stored
  <2>2. QED
    BY <1>2, <1>6, <1>7, <2>1, TaskAddedFollows
<1>10. QED
  BY <1>1, <1>2, <1>4, <1>5, <1>6, <1>8, <1>9

(* A configuration that does not convert the shutter.                      *)
LEMMA ConfigureFollows ==
  ASSUME Followed, Follows(rs, real), NEW swap, NEW m \in -1..100, NEW t \in shutter.times,
         NEW b, Configure(swap, m, t, b)
  PROVE  Follows(rs', real)
<1> DEFINE s == IF swap THEN MotorSwapped(rs) ELSE rs
           k == MarginApplied(s, m)
           u == [k EXCEPT !.blind = b]
<1>1. rs' = TimesApplied(u, t) /\ b = rs.blind
  BY FollowedIs DEF Configure, By, Follows, Exact
<1>2. Still(rs, s) /\ s \in State
  <2>1. rs \in State
    BY FollowsPlain
  <2>2. MotorSwapped(rs) \in State
    BY <2>1, SwappedTyped
  <2>3. LET z == MotorSwapped(rs)
        IN  /\ z.position = rs.position /\ z.tilt = rs.tilt /\ z.ran = rs.ran
            /\ z.full = rs.full /\ z.blind = rs.blind /\ z.auto = rs.auto
            /\ z.autoCal = rs.autoCal /\ z.step = rs.step /\ z.perform = rs.perform
            /\ z.flash = rs.flash
    BY <2>1 DEF MotorSwapped, State
  <2>4. Still(rs, MotorSwapped(rs)) /\ Still(rs, rs)
    BY <2>1, <2>2, <2>3, UnwrittenStill
  <2>5. QED
    BY <2>1, <2>2, <2>4
<1> HIDE DEF s
<1>3. Still(s, k) /\ k \in State
  <2>1. MarginApplied(s, m) \in State
    BY <1>2, MarginTyped
  <2>2. LET z == MarginApplied(s, m)
        IN  /\ z.position = s.position /\ z.tilt = s.tilt /\ z.ran = s.ran
            /\ z.full = s.full /\ z.blind = s.blind /\ z.auto = s.auto
            /\ z.autoCal = s.autoCal /\ z.step = s.step /\ z.perform = s.perform
            /\ z.flash = s.flash
    BY <1>2 DEF MarginApplied, State
  <2>3. QED
    BY <2>1, <2>2, UnwrittenStill
<1> HIDE DEF k
<1>4. Follows(k, real) /\ k.blind = rs.blind
  BY <1>2, <1>3, StillTwice, StillFollows
<1>5. u = k
  BY <1>1, <1>3, <1>4 DEF State
<1>6. QED
  BY <1>1, <1>4, <1>5, TimesAppliedFollows DEF Follows

(* What a restart finds in the flash.                                      *)
LEMMA BootedFollows ==
  ASSUME Followed, NEW f \in Flash, f.auto = Zero, f.blind = rs.blind,
         rs.blind \in shutter.blinds, f.full \in shutter.times,
         NEW x, Built(shutter, rs.blind, x),
         f.position # 0 =>
           /\ f.full # Zero /\ Agrees(f.position, x.position, shutter.travel)
           /\ f.blind.type # "none" /\ f.blind.time # 0 =>
                f.tilt \in Open..Closed /\ Agrees(f.tilt, x.tilt, shutter.slats)
  PROVE  Follows(Booted(f, FALSE), x)
<1> DEFINE b == Booted(f, FALSE)
<1>1. b \in State
  BY BootedTyped
<1>2. /\ b.position = f.position /\ b.ran = Zero /\ b.full = f.full /\ b.blind = f.blind
      /\ b.tilt = IF f.blind.type # "none" /\ f.blind.time # 0 THEN f.tilt ELSE Unset
      /\ b.auto = f.auto /\ b.autoCal = FALSE /\ b.step = 0 /\ b.perform = FALSE
      /\ b.flash = f
  BY DEF Booted
<1> HIDE DEF b
<1>3. Given(b) /\ Stored(b)
  BY <1>1, <1>2 DEF Given, Stored, Known, Tilts
<1>4. Unset \notin Open..Closed
  BY DEF Unset, Open
<1>5. Fits(shutter, b, x)
  BY <1>2, <1>4 DEF Fits, Known, Tilts
<1>6. Counts(shutter, b, x)
  <2> SUFFICES ASSUME NEW d \in Direction
               PROVE  /\ b.ran[d] = 0
                      /\ Left(shutter, b.blind, x, d) * N + b.ran[d]
                           <= FullTime(shutter, b.blind) * N
    BY DEF Counts
  <2>1. b.ran[d] = 0
    BY <1>2 DEF Zero, Direction, Up, Down
  <2>2. PICK full \in Nat : full = FullTime(shutter, rs.blind)
    BY FollowedIs
  <2>3. PICK left \in 0..full : left = Left(shutter, rs.blind, x, d)
    BY <2>2, LeftIs
  <2>4. left * N <= full * N /\ left * N \in Int
    BY <2>3, Ranges
  <2>5. QED
    BY <1>2, <2>1, <2>2, <2>3, <2>4
<1>7. QED
  BY <1>2, <1>3, <1>5, <1>6 DEF Follows, Exact, b

(* The power fails and returns.                                            *)
LEMMA PowerFollows ==
  ASSUME Followed, Follows(rs, real), PowerCycle
  PROVE  Follows(rs', real)
<1> DEFINE f == rs.flash
<1>1. rs' = Booted(f, FALSE) /\ f \in Flash
  BY FollowsPlain DEF PowerCycle, By, Follows, Exact, Given, State
<1>2. /\ f.auto = Zero /\ f.blind = rs.blind /\ rs.blind \in shutter.blinds
      /\ f.full = rs.full /\ f.full \in shutter.times /\ Built(shutter, rs.blind, real)
      /\ f.position = rs.position
      /\ Known(rs) /\ Tilts(rs) => f.tilt = rs.tilt
  BY DEF Follows, Exact, Given, Stored
<1>3. f.position # 0 =>
        /\ f.full # Zero /\ Agrees(f.position, real.position, shutter.travel)
        /\ f.blind.type # "none" /\ f.blind.time # 0 =>
             f.tilt \in Open..Closed /\ Agrees(f.tilt, real.tilt, shutter.slats)
  BY <1>2 DEF Follows, Exact, Fits, Known, Tilts
<1> HIDE DEF f
<1>4. QED
  BY <1>1, <1>2, <1>3, BootedFollows

(* Whatever is asked for.                                                  *)
LEMMA AskFollows ==
  ASSUME Followed, Follows(rs, real), Ask
  PROVE  Follows(rs', real) /\ UNCHANGED <<real, shutter>>
<1>1. UNCHANGED <<real, shutter>>
  BY DEF Ask, ButtonPressed, ButtonReleased, ButtonClicked, HoldReleased, ServerMoves,
         ServerOrStop, ServerSteps, ServerTask, Recalibrate, Configure, PowerCycle, By
<1>2. Plain(rs) /\ rs \in State /\ rs.step = 0 /\ shutter \in Shutters
      /\ Exact(shutter, rs, real)
  BY FollowsPlain DEF Followed, Follows
<1>3. ASSUME NEW r, Follows(r, real), NEW value \in Request, NEW cancel, NEW wait
      PROVE  Follows(SetRelay(r, value, cancel, wait), real)
  BY <1>3, FollowsPlain, SetRelayStill, StillFollows
<1>4. ASSUME NEW d \in Direction,
             ButtonPressed(d) \/ ButtonReleased(d) \/ ButtonClicked(d)
      PROVE  Follows(rs', real)
  <2>1. OrStop(rs, d) \in Request /\ d \in Request /\ Off \in Request
    BY Ranges, RequestIs
  <2>2. rs' \in {SetRelay(rs, d, TRUE, 1), SetRelay(rs, Off, TRUE, 1),
                 SetRelay(rs, Off, TRUE, 0), SetRelay(rs, OrStop(rs, d), TRUE, 1)}
    BY <1>4 DEF ButtonPressed, ButtonReleased, ButtonClicked, By
  <2>3. QED
    BY <1>3, <2>1, <2>2
<1>5. ASSUME HoldReleased PROVE Follows(rs', real)
  BY <1>3, <1>5, Ranges DEF HoldReleased, By
<1>6. ASSUME NEW t \in shutter.times,
             \/ \E value \in Request : ServerMoves(value, t)
             \/ \E d \in Direction : ServerOrStop(d, t)
             \/ ServerSteps(t)
             \/ \E p, y \in shutter.tasks \cup {Keep} : ServerTask(p, y, t)
             \/ Recalibrate(t)
             \/ \E swap \in BOOLEAN, m \in shutter.margins, b \in shutter.blinds :
                  Configure(swap, m, t, b)
      PROVE  Follows(rs', real)
  <2> DEFINE r == TimesApplied(rs, t)
  <2>1. Follows(r, real)
    BY <1>2, TimesAppliedFollows
  <2>2. CASE \E value \in Request : ServerMoves(value, t)
    <3>1. PICK value \in Request : rs' = SetRelay(r, value, TRUE, 0)
      BY <2>2 DEF ServerMoves, By
    <3> HIDE DEF r
    <3>2. QED
      BY <1>3, <2>1, <3>1
  <2>3. CASE \E d \in Direction : ServerOrStop(d, t)
    <3>1. PICK d \in Direction : rs' = SetRelay(r, OrStop(r, d), TRUE, 0)
      BY <2>3 DEF ServerOrStop, By
    <3> HIDE DEF r
    <3>2. QED
      BY <1>3, <2>1, <3>1, RequestIs
  <2>4. CASE ServerSteps(t)
    <3>1. rs' = StepByStep(r)
      BY <2>4 DEF ServerSteps, By
    <3> HIDE DEF r
    <3>2. QED
      BY <2>1, <3>1, FollowsPlain, StepByStepStill, StillFollows
  <2>5. CASE \E p, y \in shutter.tasks \cup {Keep} : ServerTask(p, y, t)
    <3>1. PICK p \in Keep..N, y \in Keep..N : rs' = TaskAdded(r, p, y)
      BY <1>2, <2>5, AskedIs DEF ServerTask, By
    <3> HIDE DEF r
    <3>2. QED
      BY <2>1, <3>1, TaskAddedFollows DEF Follows, Stored
  <2>6. CASE Recalibrate(t)
    BY <2>6, RecalibrateFollows
  <2>7. CASE \E swap \in BOOLEAN, m \in shutter.margins, b \in shutter.blinds :
               Configure(swap, m, t, b)
    <3>1. PICK swap \in BOOLEAN, m \in -1..100, b \in Blind : Configure(swap, m, t, b)
      BY <1>2, <2>7, AskedIs
    <3>2. QED
      BY <3>1, ConfigureFollows
  <2>8. QED
    BY <1>6, <2>2, <2>3, <2>4, <2>5, <2>6, <2>7
<1>7. ASSUME PowerCycle PROVE Follows(rs', real)
  BY <1>7, PowerFollows
<1>8. QED
  BY <1>1, <1>4, <1>5, <1>6, <1>7 DEF Ask

(* What is followed from the start stays in sight.                         *)
Tracked == shutter \in Shutters /\ (Right(shutter) /\ shutter.travel > 0 => Follows(rs, real))

(* At the start the flash may hold a position, which is right.             *)
LEMMA TrackedInit == Init => Tracked
<1> SUFFICES ASSUME Init, Right(shutter), shutter.travel > 0 PROVE Follows(rs, real)
  BY DEF Init, Tracked
<1>1. Followed /\ ~shutter.autoCal
  <2>1. IsShutter(shutter)
    BY ConstantAssumption DEF Init
  <2>2. shutter.travel # 0
    BY <2>1 DEF IsShutter
  <2>3. QED
    BY <2>2 DEF Init, Followed, Right
<1>2. PICK p \in 0..Closed, y \in 0..Closed, t \in shutter.times, m \in shutter.margins,
           b \in shutter.blinds :
        LET f == [position |-> p, tilt |-> y, full |-> t, auto |-> Zero, blind |-> b,
                  addMargin |-> m, swapped |-> FALSE]
        IN  /\ p # 0 => t # Zero
            /\ (y # 0) <=> (p # 0 /\ b.time # 0)
            /\ b.type = "closed" /\ p # Closed => y <= Open
            /\ rs = Booted(f, shutter.autoCal)
            /\ real \in [position : 0..shutter.travel, tilt : 0..shutter.slats]
            /\ b.type = "closed" /\ real.position # shutter.travel => real.tilt = 0
            /\ BothAgree(f, real)
  BY ZenonT(60) DEF Init
<1> DEFINE f == [position |-> p, tilt |-> y, full |-> t, auto |-> Zero, blind |-> b,
                 addMargin |-> m, swapped |-> FALSE]
<1>3. t \in Timing /\ m \in -1..100 /\ b \in Blind /\ Zero \in Timing /\ y \in Unset..Closed
  BY <1>1, AskedIs, Ranges DEF Followed
<1>4. f \in Flash
  BY <1>3 DEF Flash
<1>5. rs = Booted(f, FALSE)
  BY <1>1, <1>2, AskedIs DEF Followed
<1>6. rs.blind = b
  BY <1>5 DEF Booted
<1>7. Built(shutter, b, real)
  BY <1>2 DEF Built
<1>8. p # 0 => /\ t # Zero /\ Agrees(p, real.position, shutter.travel)
               /\ b.type # "none" /\ b.time # 0 =>
                    y \in Open..Closed /\ Agrees(y, real.tilt, shutter.slats)
  <2>1. y # 0 => y \in Open..Closed
    BY Ranges DEF Open
  <2>2. BothAgree(f, real)
    BY <1>2
  <2>3. QED
    BY <1>2, <2>1, <2>2 DEF BothAgree
<1>9. /\ f.position = p /\ f.tilt = y /\ f.full = t /\ f.auto = Zero /\ f.blind = b
  OBVIOUS
<1> HIDE DEF f
<1>10. Follows(Booted(f, FALSE), real)
  BY <1>1, <1>4, <1>6, <1>7, <1>8, <1>9, BootedFollows
<1>11. QED
  BY <1>5, <1>10

(* Requests, the delayed trigger, ticks and power cuts keep it so.         *)
LEMMA TrackedStep == Tracked /\ [Next]_vars => Tracked'
<1> SUFFICES ASSUME Tracked, [Next]_vars PROVE Tracked'
  OBVIOUS
<1>1. shutter' = shutter
  BY DEF Next, Ask, ButtonPressed, ButtonReleased, ButtonClicked, HoldReleased, ServerMoves,
         ServerOrStop, ServerSteps, ServerTask, Recalibrate, Configure, PowerCycle, By,
         TriggerFires, Tick, vars
<1>2. ASSUME Right(shutter), shutter.travel > 0 PROVE Follows(rs, real)'
  <2>1. Followed /\ Follows(rs, real)
    BY <1>2 DEF Followed, Tracked
  <2>2. Follows(rs, real)' <=> Follows(rs', real')
    BY <1>1 DEF Follows, Exact, Fits, Counts, Built, Left, FullTime, Stored, Given
  <2>3. CASE Ask
    BY <2>1, <2>2, <2>3, AskFollows
  <2>4. CASE TriggerFires
    <3>1. Follows(rs', real)
      BY <2>1, <2>4, FollowsPlain, FiredStill, StillFollows DEF TriggerFires
    <3>2. QED
      BY <2>2, <2>4, <3>1 DEF TriggerFires
  <2>5. CASE Tick
    BY <2>1, <2>2, <2>5, TickFollows
  <2>6. CASE UNCHANGED vars
    BY <2>1, <2>2, <2>6 DEF vars
  <2>7. QED
    BY <2>3, <2>4, <2>5, <2>6 DEF Next
<1>3. QED
  BY <1>1, <1>2 DEF Tracked

(* The position and the tilt a shutter with right times believes to have   *)
(* are the real ones, whatever is asked for and in whatever order: after   *)
(* stops and reversals in the middle, times taken away and given again,    *)
(* recalibration, a swapped motor and power cuts while it moves.  Nothing  *)
(* is lost by rounding, the slats do not cost the shutter a part of a run, *)
(* and what has not run is never counted.  A shutter that is recalibrated  *)
(* is told its position again only when it really stands at its end.       *)
THEOREM PositionIsReal == Spec => [](Right(shutter) => PositionAgrees)
<1>1. Init => Tracked
  BY TrackedInit
<1>2. Tracked /\ [Next]_vars => Tracked'
  BY TrackedStep
<1>3. Tracked => (Right(shutter) => PositionAgrees)
  <2> SUFFICES ASSUME Tracked, Right(shutter) PROVE PositionAgrees
    OBVIOUS
  <2>1. shutter.travel \in Nat
    BY ConstantAssumption DEF Tracked, IsShutter
  <2>2. CASE shutter.travel = 0
    <3>1. shutter.slats = 0
      BY <2>2 DEF Right
    <3>2. QED
      BY <2>2, <3>1 DEF PositionAgrees, BothAgree, Agrees
  <2>3. CASE shutter.travel > 0
    <3>1. Fits(shutter, rs, real)
      BY <2>3 DEF Tracked, Follows, Exact
    <3>2. QED
      BY <3>1 DEF PositionAgrees, BothAgree, Fits, Known
  <2>4. QED
    BY <2>1, <2>2, <2>3
<1>4. QED
  BY <1>1, <1>2, <1>3, PTL DEF Spec

-----------------------------------------------------------------------------
(* Automatic calibration measures the real way.  A shutter is sensed if    *)
(* its sensor sees the motor whenever it moves, a tick is a whole number   *)
(* of steps, its given times, if it has any, are right, and the limits     *)
(* leave room: the way is no shorter than the shortest that is accepted    *)
(* and than the time for which the sensor is ignored, no longer than the   *)
(* longest, and a last tick begins near the end; and the motor is given a  *)
(* margin to reach it.                                                     *)
Sensed(s) ==
  /\ s.autoCal /\ s.sensor = "ideal" /\ s.slats = 0
  /\ s.blinds \subseteq {[type |-> "none", time |-> 0]}
  /\ s.travel > 1 /\ Divides(s.travel)
  /\ s.times \subseteq {Zero, <<s.travel, s.travel>>}
  /\ FilterTime \in 1..s.travel /\ MinTime <= s.travel
  /\ s.travel <= MaxTime /\ s.travel <= MaxRun
  /\ 100 <= NearEnd * s.travel /\ 0 \notin s.margins
Sensing == shutter \in Shutters /\ Sensed(shutter)
TrueTimes == {Zero, <<shutter.travel, shutter.travel>>}
Way(x, d) == Along(x.position, shutter.travel, d)

(* Times are the real ones, and when both are measured there is a          *)
(* position.                                                               *)
Timed(r) ==
  /\ r.full \in TrueTimes /\ r.blind = [type |-> "none", time |-> 0]
  /\ \A d \in Direction : r.auto[d] \in {0, shutter.travel}
  /\ AutocalDone(r) => Known(r)

(* A motor that rested for a tick, or has just started, has run nowhere.   *)
Rested(r) == (r.on = {} /\ r.stopAge > 0) \/ r.startAge = 0 => r.ran = Zero

(* A known position is the real one, with nothing left to count unless the *)
(* end is reached; an unknown one is no farther from the end than the rest *)
(* of the way.                                                             *)
Located(r, x) ==
  /\ Known(r) => Agrees(r.position, x.position, shutter.travel)
  /\ \A d \in Direction :
       \/ Way(x, d) = 0
       \/ IF Known(r) THEN r.ran[d] = 0
          ELSE Way(x, d) * N + r.ran[d] <= shutter.travel * N

(* The sensor has seen a motor that moves.                                 *)
Noticed(r, x) ==
  \A d \in Direction :
    /\ Known(r) /\ r.full = Zero /\ r.on = {d} /\ r.startAge > 0 /\ Way(x, d) > 0
    => r.detected

(* While the way is measured, what was counted is the way so far.          *)
Measuring(r, x) ==
  LET d == StepDirection(r.step)
  IN  r.step > 1 /\ r.full = Zero =>
        /\ Way(x, d) > 0 /\ r.ran[d] = (shutter.travel - Way(x, d)) * N
        /\ r.on = {} => r.ran[d] = 0
        /\ r.on # {} /\ r.startAge > 0 => r.detected

(* A task goes where there is room, and there was no alarm.                *)
Heads(r) ==
  /\ r.task.state = Active => r.task.direction = Off
  /\ r.task.state = Setting =>
       /\ r.task.direction = Up => r.task.position # N
       /\ r.task.direction = Down => r.task.position # 0
Silent(r) == r.flags \cap {"Failed", "Motor", "Lost"} = {} /\ r.margin > 0

Senses(r, x) ==
  /\ Timed(r) /\ Rested(r) /\ Located(r, x) /\ Noticed(r, x) /\ Heads(r) /\ Silent(r)

-----------------------------------------------------------------------------
(* What calls that move nothing do to all this: they write other fields,   *)
Serves(r, s) ==
  /\ s \in State
  /\ s.ran = r.ran /\ s.blind = r.blind /\ s.detected = r.detected
  /\ r.margin > 0 => s.margin > 0
  /\ s.flags \subseteq r.flags \cup {"InProgress"}
  /\ Heads(r) => Heads(s)

(* keep position and times or forget them, and lead;                       *)
Settled(r, s) ==
  \/ s.position = r.position /\ s.full = r.full /\ s.auto = r.auto
  \/ s.position = 0 /\ s.auto = Zero /\ s.full \in TrueTimes
Spares(r, s) == Serves(r, s) /\ Settled(r, s) /\ Good(s) /\ Leads(r, s)

(* and measuring goes on as it was, or has ended.                          *)
GoesOn(r, s) ==
  s.step > 1 /\ s.full = Zero =>
    s.step = r.step /\ r.full = Zero /\ (s.on = r.on \/ r.on = {})

(* Two such calls are one.                                                 *)
LEMMA ServesTwice ==
  ASSUME NEW r, NEW s, NEW t, Serves(r, s), Serves(s, t)
  PROVE  Serves(r, t)
BY DEF Serves
(* and what one leaves of the measuring the other does.                    *)
LEMMA SparesTwice ==
  ASSUME NEW r, NEW s, NEW t, Spares(r, s), Spares(s, t)
  PROVE  Spares(r, t) /\ (GoesOn(r, s) /\ GoesOn(s, t) => GoesOn(r, t))
<1>1. Serves(r, t)
  BY ServesTwice DEF Spares
<1>2. Leads(r, t) /\ Good(t)
  BY LeadsTwice DEF Spares
<1>3. Settled(r, t)
  BY DEF Spares, Settled
<1>4. GoesOn(r, s) /\ GoesOn(s, t) => GoesOn(r, t)
  BY DEF GoesOn
<1>5. QED
  BY <1>1, <1>2, <1>3, <1>4 DEF Spares

(* What writes none of these fields.                                       *)
LEMMA UnwrittenServes ==
  ASSUME NEW r, NEW s \in State, s.ran = r.ran, s.blind = r.blind, s.detected = r.detected,
         s.margin = r.margin, s.flags = r.flags, s.task = r.task
  PROVE  Serves(r, s)
BY DEF Serves, Heads

(* The sensor's way to the end.                                            *)
LEMMA WayIs ==
  ASSUME Sensing, NEW x \in Places(shutter), NEW d \in Direction
  PROVE  /\ Way(x, d) \in 0..shutter.travel
         /\ Way(x, Opposite(d)) = shutter.travel - Way(x, d)
         /\ shutter.travel \in Nat /\ shutter.travel > 1
<1>1. PICK n \in Nat : n = shutter.travel /\ n > 1
  BY ConstantAssumption DEF Sensing, Sensed, IsShutter
<1>2. PICK p \in 0..n : p = x.position
  BY <1>1 DEF Places
<1>3. QED
  BY <1>1, <1>2 DEF Way, Along, Opposite, Direction, Up, Down

(* So they keep what is known of the position.                             *)
LEMMA SparesKeeps ==
  ASSUME Sensing, NEW r, Good(r), NEW x \in Places(shutter), Senses(r, x),
         NEW s, Spares(r, s)
  PROVE  Senses(s, x)
<1>1. Timed(s)
  <2>1. Zero[Up] = 0 /\ Zero[Down] = 0 /\ ~(0 > 0)
    BY DEF Zero, Up, Down
  <2>2. QED
    BY <2>1 DEF Senses, Timed, Spares, Serves, Settled, AutocalDone, Known, Direction
<1>2. Rested(s)
  BY ConstantAssumption DEF Spares, Serves, Leads, SameDrive, Senses, Rested, Good,
                            AgesTell, Pause, Unset
<1>3. Located(s, x)
  <2>1. Known(s) => Agrees(s.position, x.position, shutter.travel)
    BY DEF Spares, Settled, Known, Senses, Located
  <2>2. ASSUME NEW d \in Direction
        PROVE  \/ Way(x, d) = 0
               \/ IF Known(s) THEN s.ran[d] = 0
                  ELSE Way(x, d) * N + s.ran[d] <= shutter.travel * N
    <3>1. \/ Way(x, d) = 0
          \/ IF Known(r) THEN r.ran[d] = 0
             ELSE Way(x, d) * N + r.ran[d] <= shutter.travel * N
      BY DEF Senses, Located
    <3>2. s.ran = r.ran /\ (Known(s) => Known(r))
      BY DEF Spares, Serves, Settled, Known
    <3>3. Way(x, d) * N + 0 <= shutter.travel * N
      <4> DEFINE n == shutter.travel
                  w == Way(x, d)
      <4>1. n \in Nat /\ w \in 0..n
        BY WayIs
      <4> HIDE DEF n, w
      <4>2. w * N <= n * N
        BY <4>1, ConstantAssumption
      <4>3. w * N \in Int
        BY <4>1, ConstantAssumption
      <4>4. QED
        BY <4>2, <4>3 DEF n, w
    <3>4. QED
      BY <3>1, <3>2, <3>3
  <2>3. QED
    BY <2>1, <2>2 DEF Located
<1>4. Noticed(s, x)
  BY DEF Spares, Serves, Settled, Leads, SameDrive, Senses, Noticed, Known
<1>5. Heads(s) /\ Silent(s)
  BY DEF Spares, Serves, Senses, Silent
<1>6. QED
  BY <1>1, <1>2, <1>3, <1>4, <1>5 DEF Senses

(* And of the way that is being measured.                                  *)
LEMMA GoesOnMeasuring ==
  ASSUME NEW r, Good(r), NEW x, Measuring(r, x), NEW s, Spares(r, s), GoesOn(r, s)
  PROVE  Measuring(s, x)
BY ConstantAssumption DEF Measuring, GoesOn, Spares, Serves, Leads, SameDrive, Good,
                          AgesTell

(* Small calls: the state is saved,                                        *)
LEMMA SavedServes ==
  ASSUME NEW r \in State
  PROVE  Serves(r, StateSaved(r)) /\ Serves(r, CfgSaved(r))
<1>1. StateSaved(r) \in State /\ CfgSaved(r) \in State
  BY SavedTyped
<1>2. Serves(r, StateSaved(r))
  <2> DEFINE s == StateSaved(r)
  <2>1. /\ s.ran = r.ran /\ s.blind = r.blind /\ s.detected = r.detected
        /\ s.margin = r.margin /\ s.flags = r.flags /\ s.task = r.task
    BY DEF StateSaved, State
  <2>2. QED
    BY <1>1, <2>1, UnwrittenServes
<1>3. Serves(r, CfgSaved(r))
  <2> DEFINE s == CfgSaved(r)
  <2>1. /\ s.ran = r.ran /\ s.blind = r.blind /\ s.detected = r.detected
        /\ s.margin = r.margin /\ s.flags = r.flags /\ s.task = r.task
    BY DEF CfgSaved, State
  <2>2. QED
    BY <1>1, <2>1, UnwrittenServes
<1>4. QED
  BY <1>2, <1>3

(* the position is forgotten,                                              *)
LEMMA VoidedServes ==
  ASSUME NEW r \in State
  PROVE  Serves(r, Voided(r))
<1> DEFINE s == Voided(r)
<1>1. s \in State
  BY VoidedTyped
<1>2. /\ s.ran = r.ran /\ s.blind = r.blind /\ s.detected = r.detected
      /\ s.margin = r.margin /\ s.flags = r.flags /\ s.task = r.task
  BY DEF Voided, State
<1>3. QED
  BY <1>1, <1>2, UnwrittenServes

(* a relay is switched,                                                    *)
LEMMA RelayServes ==
  ASSUME NEW r \in State, NEW d \in Direction, NEW hi
  PROVE  Serves(r, RelayHi(r, d, hi))
<1> DEFINE s == RelayHi(r, d, hi)
<1>1. s \in State
  BY RelayTyped
<1>2. /\ s.ran = r.ran /\ s.blind = r.blind /\ s.detected = r.detected
      /\ s.margin = r.margin /\ s.flags = r.flags /\ s.task = r.task
  BY DEF RelayHi, State
<1>3. QED
  BY <1>1, <1>2, UnwrittenServes

(* one of the other fields is written,                                     *)
LEMMA FieldServes ==
  ASSUME NEW r \in State
  PROVE  /\ \A v \in BOOLEAN : /\ Serves(r, [r EXCEPT !.buttonReq = v])
                               /\ Serves(r, [r EXCEPT !.perform = v])
         /\ \A v \in Trigger : Serves(r, [r EXCEPT !.trigger = v])
         /\ \A v \in SUBSET Flags :
              v \subseteq r.flags \cup {"InProgress"} => Serves(r, [r EXCEPT !.flags = v])
         /\ \A v \in 0..3, a \in Timing : Serves(r, Stepped(r, v, a))
<1>1. ASSUME NEW v \in BOOLEAN
      PROVE  Serves(r, [r EXCEPT !.buttonReq = v]) /\ Serves(r, [r EXCEPT !.perform = v])
  <2>1. [r EXCEPT !.buttonReq = v] \in State /\ [r EXCEPT !.perform = v] \in State
    BY FieldTyped
  <2>2. QED
    BY <2>1, UnwrittenServes DEF State
<1>2. ASSUME NEW v \in Trigger PROVE Serves(r, [r EXCEPT !.trigger = v])
  <2>1. [r EXCEPT !.trigger = v] \in State
    BY FieldTyped
  <2>2. QED
    BY <2>1, UnwrittenServes DEF State
<1>3. ASSUME NEW v \in SUBSET Flags, v \subseteq r.flags \cup {"InProgress"}
      PROVE  Serves(r, [r EXCEPT !.flags = v])
  <2> DEFINE s == [r EXCEPT !.flags = v]
  <2>1. s \in State
    BY FieldTyped
  <2>2. /\ s.ran = r.ran /\ s.blind = r.blind /\ s.detected = r.detected
        /\ s.margin = r.margin /\ s.flags = v /\ s.task = r.task
    BY DEF State
  <2> HIDE DEF s
  <2>3. QED
    BY <1>3, <2>1, <2>2 DEF Serves, Heads, s
<1>4. ASSUME NEW v \in 0..3, NEW a \in Timing PROVE Serves(r, Stepped(r, v, a))
  <2> DEFINE s == Stepped(r, v, a)
  <2>1. s \in State
    BY StepWritten
  <2>2. /\ s.ran = r.ran /\ s.blind = r.blind /\ s.detected = r.detected
        /\ s.margin = r.margin /\ s.flags = r.flags /\ s.task = r.task
    BY DEF Stepped, State
  <2>3. QED
    BY <2>1, <2>2, UnwrittenServes
<1>5. QED
  BY <1>1, <1>2, <1>3, <1>4

(* the trigger is armed,                                                   *)
LEMMA DelayedServes ==
  ASSUME NEW r \in State, NEW value \in Request, NEW wait \in Nat
  PROVE  Serves(r, Delayed(r, value, wait))
<1> DEFINE s == Delayed(r, value, wait)
<1>1. s \in State
  BY DelayedTyped
<1>2. /\ s.ran = r.ran /\ s.blind = r.blind /\ s.detected = r.detected
      /\ s.margin = r.margin /\ s.flags = r.flags /\ s.task = r.task
  BY DEF Delayed, State
<1>3. QED
  BY <1>1, <1>2, UnwrittenServes

(* the motor is switched off,                                              *)
LEMMA StopServes ==
  ASSUME NEW r \in State, NEW stopDelay
  PROVE  Serves(r, Stop(r, stopDelay))
<1> DEFINE one == RelayHi(r, Up, 0)
           low == RelayHi(one, Down, 0)
           s == [low EXCEPT !.buttonReq = FALSE]
<1>1. StopWait(r, stopDelay) \in Nat
  BY ConstantAssumption DEF State, StopWait
<1>2. Serves(r, one) /\ one \in State
  BY Ranges, RelayServes DEF Serves
<1> HIDE DEF one
<1>3. Serves(one, low) /\ low \in State
  BY <1>2, Ranges, RelayServes DEF Serves
<1> HIDE DEF low
<1>4. Serves(low, s)
  BY <1>3, FieldServes
<1>5. Serves(r, s)
  BY <1>2, <1>3, <1>4, ServesTwice
<1>6. Stop(r, stopDelay) \in {Delayed(r, Off, StopWait(r, stopDelay)), s}
  BY DEF Stop, low, one
<1> HIDE DEF s
<1>7. QED
  BY <1>1, <1>5, <1>6, Ranges, DelayedServes

(* or on.                                                                  *)
LEMMA StartServes ==
  ASSUME NEW r \in State, NEW d \in Direction
  PROVE  Serves(r, Start(r, d))
<1> DEFINE q == Requested(r, d)
           low == Lowered(q, d)
           high == RelayHi(low, d, 1)
           s == [high EXCEPT !.buttonReq = FALSE]
<1>1. d \in Request /\ Opposite(d) \in Direction /\ r.flags \in SUBSET Flags
  BY Ranges DEF Opposite, State
<1>2. q \in State /\ Serves(r, q)
  <2>1. q \in State
    BY <1>1 DEF State, Requested
  <2>2. /\ q.ran = r.ran /\ q.blind = r.blind /\ q.detected = r.detected
        /\ q.margin = r.margin /\ q.task = r.task
        /\ q.flags = r.flags \ {"Failed", "Motor", "Lost"}
    BY DEF Requested, State
  <2> HIDE DEF q
  <2>3. QED
    BY <2>1, <2>2 DEF Serves, Heads
<1> HIDE DEF q
<1>3. low \in State /\ Serves(r, low)
  BY <1>1, <1>2, RelayServes, ServesTwice DEF Lowered, Serves
<1> HIDE DEF low
<1>4. StartWait(low) \in Nat
  BY <1>3, ConstantAssumption DEF State, StartWait
<1>5. high \in State /\ Serves(low, high)
  BY <1>3, RelayServes DEF Serves
<1> HIDE DEF high
<1>6. Serves(high, s)
  BY <1>5, FieldServes
<1>7. Serves(r, s) /\ Serves(r, Delayed(low, d, StartWait(low)))
  BY <1>1, <1>3, <1>4, <1>5, <1>6, DelayedServes, ServesTwice
<1>8. Start(r, d) \in {Delayed(low, d, StartWait(low)), low, s}
  BY DEF Start, low, q, high
<1> HIDE DEF s
<1>9. QED
  BY <1>3, <1>7, <1>8

(* a calibration is broken off, a task cancelled, the trigger disarmed:    *)
LEMMA BeforeServes ==
  ASSUME NEW r \in State
  PROVE  /\ Serves(r, Aborted(r)) /\ Serves(r, Cancelled(r))
         /\ Serves(r, TriggerDisarmed(r)) /\ Serves(r, r)
<1>1. Serves(r, r)
  BY UnwrittenServes
<1>2. Serves(r, Aborted(r))
  <2> DEFINE w == [r EXCEPT !.step = 0, !.full = Zero, !.auto = Zero]
  <2>1. w \in State
    <3>1. Zero \in Timing /\ 0 \in 0..3
      BY Ranges
    <3>2. QED
      BY <3>1 DEF State
  <2>2. /\ w.ran = r.ran /\ w.blind = r.blind /\ w.detected = r.detected
        /\ w.margin = r.margin /\ w.flags = r.flags /\ w.task = r.task
    BY DEF State
  <2>3. Aborted(r) \in {r, Voided(w)}
    BY DEF Aborted
  <2> HIDE DEF w
  <2>4. Serves(r, w) /\ Serves(w, Voided(w))
    BY <2>1, <2>2, UnwrittenServes, VoidedServes
  <2>5. QED
    BY <1>1, <2>3, <2>4, ServesTwice
<1>3. Serves(r, Cancelled(r))
  <2> DEFINE c == [r EXCEPT !.task = NoTask]
  <2>1. NoTask \in Task /\ NoTask.state = Inactive
    BY Ranges DEF Task, NoTask
  <2>2. c \in State
    BY <2>1, FieldTyped
  <2>3. /\ c.ran = r.ran /\ c.blind = r.blind /\ c.detected = r.detected
        /\ c.margin = r.margin /\ c.flags = r.flags /\ c.task = NoTask
    BY DEF State
  <2>4. Cancelled(r) = StateSaved(c)
    BY DEF Cancelled
  <2> HIDE DEF c
  <2>5. Heads(c)
    BY <2>1, <2>3 DEF Heads, Active, Inactive, Setting
  <2>6. Serves(r, c) /\ Serves(c, StateSaved(c))
    BY <2>2, <2>3, <2>5, SavedServes DEF Serves
  <2>7. QED
    BY <2>4, <2>6, ServesTwice
<1>4. Serves(r, TriggerDisarmed(r))
  <2> DEFINE s == TriggerDisarmed(r)
  <2>1. s \in State
    BY DisarmedTyped
  <2>2. /\ s.ran = r.ran /\ s.blind = r.blind /\ s.detected = r.detected
        /\ s.margin = r.margin /\ s.flags = r.flags /\ s.task = r.task
    BY DEF TriggerDisarmed, State
  <2>3. QED
    BY <2>1, <2>2, UnwrittenServes
<1>5. QED
  BY <1>1, <1>2, <1>3, <1>4

(* and all these together.                                                 *)
LEMMA SetRelayServes ==
  ASSUME NEW r \in State, NEW value \in Request, NEW cancel, NEW stopDelay
  PROVE  Serves(r, SetRelay(r, value, cancel, stopDelay))
<1> DEFINE a == Aborted(r)
           c == IF cancel THEN Cancelled(a) ELSE a
           t == TriggerDisarmed(c)
           s == SetRelay(r, value, cancel, stopDelay)
<1>1. a \in State /\ Serves(r, a)
  BY BeforeServes DEF Serves
<1> HIDE DEF a
<1>2. c \in State /\ Serves(a, c)
  BY <1>1, BeforeServes DEF Serves
<1> HIDE DEF c
<1>3. t \in State /\ Serves(c, t)
  BY <1>2, BeforeServes DEF Serves
<1>4. s = IF value = Off THEN Stop(t, stopDelay) ELSE Start(t, value)
  BY DEF SetRelay, t, c, a
<1> HIDE DEF t, s
<1>5. Serves(t, s)
  <2>1. CASE value = Off
    BY <1>3, <1>4, <2>1, StopServes
  <2>2. CASE value # Off
    <3>1. value \in Direction
      BY <2>2 DEF Request, Direction, Off
    <3>2. QED
      BY <1>3, <1>4, <2>2, <3>1, StartServes
  <2>3. QED
    BY <2>1, <2>2
<1>6. Serves(r, s)
  BY <1>1, <1>2, <1>3, <1>5, ServesTwice
<1>7. QED
  BY <1>6 DEF s

(* What keeps position and times,                                          *)
LEMMA AlikeSpares ==
  ASSUME NEW r, NEW s, Serves(r, s), Alike(r, s), Good(s), Leads(r, s)
  PROVE  /\ Spares(r, s)
         /\ s.on = r.on \/ r.on = {} \/ ~(s.step > 1) => GoesOn(r, s)
BY DEF Spares, Settled, Alike, GoesOn

(* and what breaks off a calibration.                                      *)
LEMMA BrokenSpares ==
  ASSUME NEW r, NEW s, Serves(r, s), Broken(s), Good(s), Leads(r, s)
  PROVE  Spares(r, s) /\ GoesOn(r, s)
<1>1. Settled(r, s)
  BY DEF Settled, Broken, TrueTimes
<1>2. GoesOn(r, s)
  BY DEF GoesOn, Broken
<1>3. QED
  BY <1>1, <1>2 DEF Spares

(* A relay is set from outside: it spares everything.                      *)
LEMMA SetRelaySpares ==
  ASSUME NEW r, Sane(r), ~r.buttonReq, NEW value \in Request, NEW cancel, NEW stopDelay
  PROVE  LET s == SetRelay(r, value, cancel, stopDelay)
         IN  Spares(r, s) /\ GoesOn(r, s) /\ s.step = 0
<1> DEFINE s == SetRelay(r, value, cancel, stopDelay)
<1>1. Serves(r, s) /\ r.step \in 0..3
  BY SetRelayServes DEF Sane, State
<1>2. Good(s) /\ Leads(r, s)
  BY SetRelayGood DEF Sane
<1>3. /\ s.step = 0
      /\ r.step = 0 => Alike(r, s)
      /\ r.step > 0 => Broken(s)
  BY SetRelayFrees DEF Free
<1> HIDE DEF s
<1>4. r.step = 0 => Spares(r, s) /\ GoesOn(r, s)
  BY <1>1, <1>2, <1>3, AlikeSpares
<1>5. r.step > 0 => Spares(r, s) /\ GoesOn(r, s)
  BY <1>1, <1>2, <1>3, BrokenSpares
<1>6. QED
  BY <1>1, <1>3, <1>4, <1>5 DEF s

(* A start or a stop that is a part of calibration does so too.            *)
LEMMA ReadySpares ==
  ASSUME NEW r, Sane(r), r.buttonReq, NEW value \in Request,
         value # Off => r.position = 0
  PROVE  LET s == SetRelay(r, value, FALSE, 0)
         IN  Spares(r, s) /\ Alike(r, s)
<1> DEFINE s == SetRelay(r, value, FALSE, 0)
<1>1. Serves(r, s)
  BY SetRelayServes DEF Sane
<1>2. Good(s) /\ Leads(r, s)
  BY SetRelayGood DEF Sane
<1>3. Alike(r, s)
  <2>1. CASE value = Off
    BY <2>1, SetRelayRests
  <2>2. CASE value # Off
    <3>1. value \in Direction
      BY <2>2 DEF Request, Direction, Off
    <3>2. QED
      BY <2>2, <3>1, SetRelayDrives
  <2>3. QED
    BY <2>1, <2>2
<1> HIDE DEF s
<1>4. QED
  BY <1>1, <1>2, <1>3, AlikeSpares DEF s

(* Calls that spare what is known of the position, and with which the      *)
(* measuring goes on or has ended, are composed.                           *)
Respects(r, s) == Spares(r, s) /\ GoesOn(r, s)

(* Two such calls are one.                                                 *)
LEMMA RespectsTwice ==
  ASSUME NEW r, NEW s, NEW t, Respects(r, s), Respects(s, t)
  PROVE  Respects(r, t)
BY SparesTwice DEF Respects

(* What keeps position, times, step and relays.                            *)
LEMMA SameRespects ==
  ASSUME NEW r, NEW s, Serves(r, s), Good(s), Leads(r, s), SameTimes(r, s),
         s.step = r.step, s.on = r.on
  PROVE  Respects(r, s)
BY DEF Respects, Spares, Settled, SameTimes, GoesOn

(* Doing nothing is such a call.                                           *)
LEMMA SelfRespects ==
  ASSUME NEW r \in State, Good(r)
  PROVE  Respects(r, r)
BY BeforeServes, SameRespects DEF SameTimes, Leads, SameDrive

(* Positions of other times are void.                                      *)
LEMMA SelectedRespects ==
  ASSUME NEW r \in State, Good(r), r.full \in TrueTimes
  PROVE  Respects(r, TimesSelected(r))
<1> DEFINE z == Stepped(r, 0, Zero)
           s == TimesSelected(r)
<1>1. Good(s) /\ Leads(r, s)
  BY TimesSelectedSound DEF Sound, Safe
<1>2. 0 \in 0..3 /\ Zero \in Timing
  BY Ranges
<1>3. z \in State /\ Serves(r, z) /\ z.step = 0 /\ z.auto = Zero /\ z.full = r.full
  BY <1>2, FieldServes, StepWritten
<1>4. Stepped(r, 0, Zero) = [r EXCEPT !.auto = Zero, !.step = 0]
  BY DEF Stepped
<1>5. \/ s = r
      \/ s = Voided(r) /\ r.auto = Zero
      \/ s = Voided(z)
  BY <1>4 DEF TimesSelected
<1> HIDE DEF z, s
<1>6. CASE s = r
  BY <1>6, SelfRespects DEF s
<1>7. CASE s = Voided(r) /\ r.auto = Zero
  <2>1. /\ s.position = 0 /\ s.full = r.full /\ s.auto = r.auto /\ s.step = r.step
        /\ s.on = r.on
    BY <1>7 DEF Voided, State
  <2>2. QED
    BY <1>1, <1>7, <2>1, VoidedServes DEF Respects, Spares, Settled, GoesOn, s
<1>8. CASE s = Voided(z)
  <2>1. s.position = 0 /\ s.full = z.full /\ s.auto = z.auto /\ s.step = z.step
    BY <1>3, <1>8 DEF Voided, State
  <2>2. Serves(r, s)
    BY <1>3, <1>8, VoidedServes, ServesTwice
  <2>3. QED
    BY <1>1, <1>3, <2>1, <2>2 DEF Respects, Spares, Settled, GoesOn, s
<1>9. QED
  BY <1>5, <1>6, <1>7, <1>8 DEF s

(* Calibration is wanted,                                                  *)
LEMMA AutocalCheckedRespects ==
  ASSUME NEW r \in State, Good(r)
  PROVE  Respects(r, AutocalChecked(r))
<1> DEFINE p == [r EXCEPT !.perform = TRUE]
           s == AutocalChecked(r)
<1>1. Good(s) /\ Leads(r, s)
  BY EstimateAside, AsideGood DEF Good
<1>2. Serves(r, p)
  BY FieldServes
<1>3. SameTimes(r, p) /\ p.step = r.step /\ p.on = r.on
  BY DEF SameTimes, State
<1>4. s \in {r, p}
  BY DEF AutocalChecked
<1> HIDE DEF p, s
<1>5. CASE s = r
  BY <1>5, SelfRespects DEF s
<1>6. CASE s = p
  BY <1>1, <1>2, <1>3, <1>6, SameRespects DEF s
<1>7. QED
  BY <1>4, <1>5, <1>6 DEF s

(* and begins.                                                             *)
LEMMA AutocalStartedRespects ==
  ASSUME NEW r, Cal(r), r.perform
  PROVE  Respects(r, AutocalStarted(r))
<1> DEFINE z == Begun(r)
           y == Ready(z)
           s == SetRelay(y, Up, FALSE, 0)
<1>1. r \in State /\ Good(r) /\ r.position = 0
  BY DEF Cal, Sane, Based
<1>2. AutocalStarted(r) = s
  BY DEF AutocalStarted, Begun
<1>3. /\ z \in State /\ SameDrive(r, z) /\ z.step = 1 /\ SameTimes(r, z)
  BY <1>1, BegunIs DEF SameTimes
<1>4. Serves(r, z)
  <2>1. /\ z.ran = r.ran /\ z.blind = r.blind /\ z.detected = r.detected
        /\ z.margin = r.margin /\ z.flags = r.flags /\ z.task = r.task
    BY <1>1 DEF Begun, State
  <2>2. QED
    BY <1>3, <2>1, UnwrittenServes
<1> HIDE DEF z
<1>5. y \in State /\ Alike(z, y) /\ y.buttonReq /\ Serves(z, y) /\ SameDrive(z, y)
  BY <1>3, ReadyIs, FieldServes DEF Ready
<1> HIDE DEF y
<1>6. Sane(y)
  BY <1>1, <1>3, <1>5, SaneKept DEF Cal, SameDrive
<1>7. Spares(y, s) /\ Alike(y, s)
  <2>1. y.position = 0 /\ Up \in Request
    BY <1>1, <1>3, <1>5, Ranges DEF Alike, SameTimes
  <2>2. QED
    BY <1>5, <1>6, <2>1, ReadySpares
<1> HIDE DEF s
<1>8. Serves(r, s)
  BY <1>4, <1>5, <1>7, ServesTwice DEF Spares
<1>9. Good(s) /\ Leads(r, s)
  BY <1>1, <1>2, AutocalStartedSafe DEF Safe
<1>10. SameTimes(r, s) /\ s.step = 1
  BY <1>3, <1>5, <1>7 DEF Alike, SameTimes
<1>11. QED
  BY <1>2, <1>8, <1>9, <1>10 DEF Respects, Spares, Settled, SameTimes, GoesOn

(* A start that was put off.                                               *)
LEMMA FiredRespects ==
  ASSUME NEW r, Cal(r), r.trigger.left # Disarmed
  PROVE  Respects(r, Fired(r))
<1> DEFINE z == [r EXCEPT !.trigger.left = Disarmed, !.trigger.autoCal = FALSE,
                          !.buttonReq = @ \/ r.trigger.autoCal]
           value == r.trigger.value
           s == SetRelay(z, value, FALSE, 0)
<1>1. r \in State /\ Sane(r) /\ Good(r) /\ Based(r) /\ ~r.buttonReq
  BY DEF Cal, Sane, Based
<1>2. Fired(r) = s
  BY DEF Fired
<1>3. r.trigger \in Trigger
  BY <1>1 DEF State
<1>4. PICK t \in Trigger : t = [r.trigger EXCEPT !.left = Disarmed, !.autoCal = FALSE]
  BY <1>3 DEF Trigger, Disarmed
<1>5. PICK b \in BOOLEAN : b = r.trigger.autoCal
  BY <1>3 DEF Trigger
<1>6. z = [r EXCEPT !.trigger = t, !.buttonReq = b]
  BY <1>1, <1>4, <1>5 DEF State
<1>7. z \in State
  BY <1>1, <1>6, ZenonT(60) DEF State
<1>8. SameDrive(r, z) /\ z.buttonReq = b /\ Alike(r, z)
  BY <1>1, <1>6 DEF State, SameDrive, Alike
<1>9. /\ z.ran = r.ran /\ z.blind = r.blind /\ z.detected = r.detected
      /\ z.margin = r.margin /\ z.flags = r.flags /\ z.task = r.task
      /\ z.swapped = r.swapped
  BY <1>1, <1>6 DEF State
<1> HIDE DEF z
<1>10. Sane(z) /\ Serves(r, z)
  BY <1>1, <1>7, <1>8, <1>9, SaneKept, UnwrittenServes
<1>11. value \in Request
  BY <1>3 DEF Trigger
<1>12. Good(s) /\ Leads(r, s)
  BY <1>1, <1>2, FiredGood
<1>13. Respects(r, z)
  BY <1>8, <1>9, <1>10, SameRespects DEF SameDrive, Alike, SameTimes, Leads, Sane
<1> HIDE DEF s
<1>14. CASE b
  <2>1. r.on = {} /\ r.position = 0
    BY <1>1, <1>5, <1>14 DEF Based, Held
  <2>2. Spares(z, s) /\ Alike(z, s)
    BY <1>8, <1>10, <1>11, <1>14, <2>1, ReadySpares DEF Alike, s
  <2>3. Serves(r, s) /\ Alike(r, s)
    BY <1>8, <1>10, <2>2, ServesTwice, AlikeTwice DEF Spares
  <2>4. QED
    BY <1>2, <1>12, <2>1, <2>3, AlikeSpares DEF Respects
<1>15. CASE ~b
  <2>1. Respects(z, s)
    BY <1>8, <1>10, <1>11, <1>15, SetRelaySpares DEF Respects, s
  <2>2. QED
    BY <1>2, <1>13, <2>1, RespectsTwice
<1>16. QED
  BY <1>14, <1>15

(* The server is told, and a relay that was on for too long is opened.     *)
LEMMA ReportedRespects ==
  ASSUME NEW r, Cal(r)
  PROVE  Respects(r, Reported(r))
<1> DEFINE early == [r EXCEPT !.comm = @ + 1]
           z == [r EXCEPT !.comm = 0]
           s == Sent(z)
           stop == SetRelay(s, Off, FALSE, 0)
<1>1. r \in State /\ Sane(r) /\ Good(r) /\ ~r.buttonReq
  BY DEF Cal, Sane, Based
<1>2. CommPeriod \in Nat /\ CommPeriod > 0
  BY ConstantAssumption
<1>3. ASSUME NEW q \in State, SameDrive(r, q), q.swapped = r.swapped, SameTimes(r, q),
             q.step = r.step,
             q.ran = r.ran, q.blind = r.blind, q.detected = r.detected,
             q.margin = r.margin, q.flags = r.flags, q.task = r.task
      PROVE  Respects(r, q) /\ Sane(q)
  <2>1. Serves(r, q) /\ Sane(q)
    BY <1>1, <1>3, UnwrittenServes, SaneKept
  <2>2. Good(q) /\ Leads(r, q)
    BY <1>3, <2>1 DEF Sane, Leads
  <2>3. QED
    BY <1>3, <2>1, <2>2, SameRespects DEF SameDrive
<1>4. CASE r.comm < CommPeriod - 1
  <2>1. PICK n \in 0..(CommPeriod - 1) : n = r.comm
    BY <1>1 DEF State
  <2>2. PICK c \in 0..(CommPeriod - 1) : c = r.comm + 1
    BY <1>2, <1>4, <2>1
  <2>3. early = [r EXCEPT !.comm = c]
    BY <1>1, <2>2 DEF State
  <2>4. early \in State
    BY <1>1, <2>3 DEF State
  <2>5. /\ SameDrive(r, early) /\ early.swapped = r.swapped /\ SameTimes(r, early)
        /\ early.step = r.step
        /\ early.ran = r.ran /\ early.blind = r.blind /\ early.detected = r.detected
        /\ early.margin = r.margin /\ early.flags = r.flags /\ early.task = r.task
    BY <1>1, <2>3 DEF State, SameDrive, SameTimes
  <2> HIDE DEF early
  <2>6. Respects(r, early)
    BY <1>3, <2>4, <2>5
  <2>7. QED
    BY <1>4, <2>6 DEF Reported, early
<1>5. CASE ~(r.comm < CommPeriod - 1)
  <2>1. 0 \in 0..(CommPeriod - 1)
    BY <1>2
  <2>2. z \in State
    BY <1>1, <2>1 DEF State
  <2>3. /\ SameDrive(r, z) /\ z.swapped = r.swapped /\ SameTimes(r, z)
        /\ z.step = r.step /\ z.buttonReq = r.buttonReq
        /\ z.ran = r.ran /\ z.blind = r.blind /\ z.detected = r.detected
        /\ z.margin = r.margin /\ z.flags = r.flags /\ z.task = r.task
    BY <1>1 DEF State, SameDrive, SameTimes
  <2>4. Reported(r) \in {stop, s}
    BY <1>5 DEF Reported
  <2> HIDE DEF z
  <2>5. ValueOf(z) \in Told
    BY <2>2 DEF ValueOf, Told, State
  <2>6. s \in State
    BY <2>2, <2>5 DEF State, Sent
  <2>7. /\ SameDrive(r, s) /\ s.swapped = r.swapped /\ SameTimes(r, s)
        /\ s.step = r.step /\ s.buttonReq = r.buttonReq
        /\ s.ran = r.ran /\ s.blind = r.blind /\ s.detected = r.detected
        /\ s.margin = r.margin /\ s.flags = r.flags /\ s.task = r.task
    BY <2>2, <2>3 DEF State, SameDrive, SameTimes, Sent
  <2> HIDE DEF s
  <2>8. Respects(r, s) /\ Sane(s)
    BY <1>3, <2>6, <2>7
  <2>9. Respects(s, stop)
    BY <1>1, <2>7, <2>8, Ranges, SetRelaySpares DEF Respects
  <2> HIDE DEF stop
  <2>10. Respects(r, stop)
    BY <2>8, <2>9, RespectsTwice
  <2>11. QED
    BY <2>4, <2>8, <2>10 DEF s, z, stop
<1>6. QED
  BY <1>4, <1>5

(* A task writes its own state,                                            *)
LEMMA TaskServes ==
  ASSUME NEW r \in State,
         NEW x \in {Inactive, Active, Setting, SettingTilt}, NEW d \in Request,
         LET t == [r.task EXCEPT !.state = x, !.direction = d]
         IN  /\ t.state = Active => t.direction = Off
             /\ t.state = Setting => /\ t.direction = Up => t.position # N
                                     /\ t.direction = Down => t.position # 0
  PROVE  LET s == [r EXCEPT !.task.state = x, !.task.direction = d]
         IN  s \in State /\ Serves(r, s) /\ Serves(r, SetRelay(s, d, FALSE, 0))
<1> DEFINE t == [r.task EXCEPT !.state = x, !.direction = d]
           s == [r EXCEPT !.task.state = x, !.task.direction = d]
<1>1. r.task \in Task
  BY DEF State
<1>2. t \in Task
  BY <1>1, ZenonT(30) DEF Task
<1>3. s = [r EXCEPT !.task = t]
  BY <1>1 DEF State
<1>4. /\ t.state = Active => t.direction = Off
      /\ t.state = Setting => /\ t.direction = Up => t.position # N
                              /\ t.direction = Down => t.position # 0
  OBVIOUS
<1> HIDE DEF t
<1>5. s \in State
  BY <1>2, <1>3, FieldTyped
<1>6. /\ s.ran = r.ran /\ s.blind = r.blind /\ s.detected = r.detected
      /\ s.margin = r.margin /\ s.flags = r.flags /\ s.task = t
  BY <1>3 DEF State
<1> HIDE DEF s
<1>7. Serves(r, s)
  BY <1>4, <1>5, <1>6 DEF Serves, Heads
<1>8. Serves(s, SetRelay(s, d, FALSE, 0))
  BY <1>5, SetRelayServes
<1>9. QED
  BY <1>5, <1>7, <1>8, ServesTwice DEF s

(* The same in two writes.                                                 *)
LEMMA TaskWrites ==
  ASSUME NEW r \in State, NEW x, NEW d
  PROVE  LET s == [r EXCEPT !.task.state = x]
         IN  [s EXCEPT !.task.direction = d] =
               [r EXCEPT !.task.state = x, !.task.direction = d]
BY DEF State, Task

(* A shutter that does not tilt and is given a margin; its task heads      *)
(* where there is room.                                                    *)
Simple(r) ==
  /\ r \in State /\ r.blind = [type |-> "none", time |-> 0]
  /\ r.margin > 0 /\ Heads(r)

(* It stays so.                                                            *)
LEMMA ServesSimple ==
  ASSUME NEW r, Simple(r), NEW s, Serves(r, s)
  PROVE  Simple(s)
BY DEF Simple, Serves

(* Its tasks go on with the position alone.                                *)
LEMMA SimpleTask ==
  ASSUME NEW r, Simple(r), Known(r), NEW full
  PROVE  /\ ~Tilting(r) /\ FreeOfTilt(r)
         /\ \A d \in Direction : AheadOfTilt(r, d, full) = 0
         /\ r.task.position \in Keep..N /\ RawPosition(r) \in 0..N
         /\ \A d \in Direction : Beside(r, full, d) = RawPosition(r) - r.task.position
<1>1. ~Tilting(r) /\ FreeOfTilt(r)
  BY DEF Simple, Tilting, FreeOfTilt
<1>2. r.task.position \in Keep..N /\ RawPosition(r) \in 0..N
  <2>1. r.position \in 0..N + 1 /\ r.position # 0 /\ N \in Nat
    BY Ranges DEF Simple, State, Known, Closed
  <2>2. r.task \in Task
    BY DEF Simple, State
  <2>3. QED
    BY <2>1, <2>2 DEF Task, RawPosition
<1>3. \A d \in Direction : Beside(r, full, d) = RawPosition(r) - r.task.position
  <2>1. PICK p \in Int, q \in Int : p = RawPosition(r) /\ q = r.task.position
    BY <1>2, Ranges DEF Keep
  <2>2. (p - q) * 1 = p - q
    OBVIOUS
  <2>3. QED
    BY <1>1, <2>1, <2>2 DEF Beside, Scale
<1>4. \A d \in Direction : AheadOfTilt(r, d, full) = 0
  BY <1>1 DEF AheadOfTilt
<1>5. QED
  BY <1>1, <1>2, <1>3, <1>4

(* A task starts,                                                          *)
LEMMA TaskStartedServes ==
  ASSUME NEW r, Simple(r), Known(r), r.task.state = Active, NEW full
  PROVE  Serves(r, TaskStarted(r, full))
<1> DEFINE s == [r EXCEPT !.task.state = Setting]
           w(d) == [s EXCEPT !.task.direction = d]
           go(d) == SetRelay(w(d), d, FALSE, 0)
           turn == IF Tilting(r) THEN r.task.tilt - RawTilt(r) ELSE 0
           past == Beside(r, full, IF turn > 0 THEN Down ELSE Up) + turn * r.blind.time
<1>1. r \in State /\ r.task \in Task /\ r.task.direction = Off
  BY DEF Simple, State, Heads
<1>2. /\ r.task.position \in Keep..N /\ RawPosition(r) \in 0..N
      /\ past = RawPosition(r) - r.task.position
  <2>1. turn = 0 /\ r.blind.time = 0
    BY SimpleTask DEF Simple
  <2>2. Beside(r, full, Up) = RawPosition(r) - r.task.position
        /\ r.task.position \in Keep..N /\ RawPosition(r) \in 0..N
    BY SimpleTask, Ranges
  <2>3. past = Beside(r, full, Up) + 0
    BY <2>1
  <2> HIDE DEF past
  <2>4. QED
    BY <2>2, <2>3, Ranges DEF Keep
<1>3. \/ TaskStarted(r, full) = s
      \/ TaskStarted(r, full) = go(Up) /\ past > 0
      \/ TaskStarted(r, full) = go(Down) /\ past < 0
  <2>1. TaskStarted(r, full) = CASE r.task.position # Keep /\ past > 0 -> go(Up)
                                 [] r.task.position # Keep /\ past < 0 -> go(Down)
                                 [] OTHER -> s
    BY DEF TaskStarted
  <2> HIDE DEF past, go, s
  <2>2. QED
    BY <2>1
<1> HIDE DEF past
<1>4. /\ past > 0 => r.task.position # N
      /\ past < 0 => r.task.position # 0
  BY <1>2, Ranges DEF Keep
<1>5. \A d \in Direction : w(d) = [r EXCEPT !.task.state = Setting, !.task.direction = d]
  BY <1>1, TaskWrites
<1>6. Serves(r, s)
  <2>1. [r EXCEPT !.task.state = Setting] =
          [r EXCEPT !.task.state = Setting, !.task.direction = Off]
    BY <1>1 DEF State, Task
  <2>2. LET t == [r.task EXCEPT !.state = Setting, !.direction = Off]
        IN  /\ t.state = Active => t.direction = Off
            /\ t.state = Setting => /\ t.direction = Up => t.position # N
                                    /\ t.direction = Down => t.position # 0
    BY <1>1 DEF Task, Setting, Active, Off, Up, Down
  <2>3. QED
    BY <1>1, <2>1, <2>2, Ranges, TaskServes
<1>7. ASSUME NEW d \in Direction, d = Up => r.task.position # N,
             d = Down => r.task.position # 0
      PROVE  Serves(r, go(d))
  <2>1. LET t == [r.task EXCEPT !.state = Setting, !.direction = d]
        IN  /\ t.state = Active => t.direction = Off
            /\ t.state = Setting => /\ t.direction = Up => t.position # N
                                    /\ t.direction = Down => t.position # 0
    BY <1>1, <1>7 DEF Task, Setting, Active
  <2>2. d \in Request
    BY Ranges
  <2>3. QED
    BY <1>1, <1>5, <2>1, <2>2, TaskServes
<1> HIDE DEF s, go
<1>8. Up \in Direction /\ Down \in Direction /\ Up # Down
  BY Ranges
<1>9. QED
  BY <1>3, <1>4, <1>6, <1>7, <1>8

(* ends,                                                                   *)
LEMMA TaskDoneServes ==
  ASSUME NEW r \in State
  PROVE  Serves(r, TaskDone(r))
<1>1. r.task \in Task
  BY DEF State
<1>2. LET t == [r.task EXCEPT !.state = Inactive, !.direction = Off]
      IN  /\ t.state = Active => t.direction = Off
          /\ t.state = Setting => /\ t.direction = Up => t.position # N
                                  /\ t.direction = Down => t.position # 0
  BY <1>1 DEF Task, Setting, Active, Inactive
<1>3. QED
  BY <1>2, Ranges, TaskServes DEF TaskDone

(* goes on with the tilt, which is none,                                   *)
LEMMA TiltStartedServes ==
  ASSUME NEW r \in State
  PROVE  Serves(r, TiltStarted(r))
<1> DEFINE s == [r EXCEPT !.task.state = SettingTilt]
           w(d) == [s EXCEPT !.task.direction = d]
           go(d) == SetRelay(w(d), d, FALSE, 0)
<1>1. r.task \in Task /\ r.task.direction \in Request
  BY DEF State, Task
<1>2. TiltStarted(r) \in {TaskDone(s), go(Up), go(Down)}
  BY DEF TiltStarted
<1>3. ASSUME NEW d \in Request
      PROVE  LET t == [r.task EXCEPT !.state = SettingTilt, !.direction = d]
             IN  /\ t.state = Active => t.direction = Off
                 /\ t.state = Setting => /\ t.direction = Up => t.position # N
                                         /\ t.direction = Down => t.position # 0
  BY <1>1 DEF Task, Setting, Active, SettingTilt
<1>4. Serves(r, s) /\ s \in State
  <2>1. s = [r EXCEPT !.task.state = SettingTilt, !.task.direction = r.task.direction]
    BY <1>1 DEF State, Task
  <2> HIDE DEF s
  <2>2. QED
    BY <1>1, <1>3, <2>1, TaskServes
<1>5. ASSUME NEW d \in Direction PROVE Serves(r, go(d))
  <2>1. d \in Request
    BY Ranges
  <2>2. w(d) = [r EXCEPT !.task.state = SettingTilt, !.task.direction = d]
    BY TaskWrites
  <2>3. QED
    BY <1>3, <2>1, <2>2, TaskServes
<1> HIDE DEF s, go
<1>6. Serves(r, TaskDone(s))
  BY <1>4, TaskDoneServes, ServesTwice
<1>7. QED
  BY <1>2, <1>5, <1>6, Ranges

(* (What is positive stays so.)                                             *)
LEMMA TimesPositive ==
  ASSUME NEW a \in Nat, NEW b \in Nat, a > 0, b > 0
  PROVE  a * b \in Nat /\ a * b > 0
<1>1. \A x, y \in Nat : x > 0 /\ y > 0 => x * y > 0
  OBVIOUS
<1>2. QED
  BY <1>1, TimesNat

(* or has set the position: with no tilt, and nothing run since the end    *)
(* was reached, a sensor that still sees the motor is not held against it. *)
Honest(r, inMove) == AutocalDone(r) /\ inMove => r.ran = Zero

(* A task that ends finds its shutter at the end that it asked for, so     *)
(* that no position is taken to be lost.                                   *)
LEMMA NotLost ==
  ASSUME NEW r, Simple(r), Known(r), r.task.state = Setting, NEW inMove, Honest(r, inMove),
         NEW full \in Timing, AutocalDone(r) => full[Up] > 0 /\ full[Down] > 0,
         Reached(r, full), ~RunsOn(r, full, inMove), r.task.position \in {0, N}
  PROVE  LostChecked(r, inMove) = r
<1> SUFFICES ASSUME AutocalDone(r), inMove PROVE FALSE
  BY DEF LostChecked
<1> DEFINE m == TaskMargin(r, inMove)
<1>1. /\ \A d \in Direction : AheadOfTilt(r, d, full) = 0
      /\ RawPosition(r) \in 0..N /\ FreeOfTilt(r)
      /\ \A d \in Direction : Beside(r, full, d) = RawPosition(r) - r.task.position
  BY SimpleTask
<1>2. r.ran = Zero
  BY DEF Honest
<1>3. r.position \in Int /\ r.margin \in Int /\ r.margin > 0
  BY Ranges DEF Simple, State, Closed, DefaultMargin
<1>4. m \in Nat /\ m > 0
  BY <1>3 DEF TaskMargin, DefaultMargin
<1> HIDE DEF m
<1>5. PICK d \in Direction : r.position = EndOf(d)
  <2>1. CASE r.task.direction = Up /\ Beside(r, full, Down) <= -AheadOfTilt(r, Up, full)
    <3>1. r.task.position = 0
      BY <2>1 DEF Simple, Heads
    <3>2. RawPosition(r) <= 0
      <4>1. RawPosition(r) - 0 <= -0
        BY <1>1, <2>1, <3>1, Ranges
      <4>2. QED
        BY <1>1, <4>1, Ranges
    <3>3. r.position = EndOf(Up)
      BY <1>1, <1>3, <3>2 DEF RawPosition, EndOf, Open
    <3>4. QED
      BY <3>3, Ranges
  <2>2. CASE r.task.direction = Down /\ Beside(r, full, Up) >= AheadOfTilt(r, Down, full)
    <3>1. r.task.position = N
      BY <2>2 DEF Simple, Heads
    <3>2. RawPosition(r) >= N
      <4>1. RawPosition(r) - N >= 0
        BY <1>1, <2>2, <3>1, Ranges
      <4>2. QED
        BY <1>1, <4>1, Ranges
    <3>3. r.position = EndOf(Down)
      BY <1>1, <1>3, <3>2, Ranges DEF RawPosition, EndOf, Closed
    <3>4. QED
      BY <3>3, Ranges
  <2>3. QED
    BY <2>1, <2>2 DEF Reached
<1>6. full[d] \in Nat /\ full[d] > 0 /\ r.ran[d] = 0
  <2>1. d \in {Up, Down}
    BY DEF Direction
  <2>2. QED
    BY <1>2, <2>1, TimingIs DEF Zero, Up, Down
<1>7. 0 * 100 < m * full[d] * N
  <2> DEFINE f == full[d]
  <2>1. m \in Nat /\ m > 0 /\ f \in Nat /\ f > 0
    BY <1>4, <1>6
  <2> HIDE DEF f
  <2>2. m * f \in Nat /\ m * f > 0
    BY <2>1, TimesPositive
  <2>3. m * f * N \in Nat /\ m * f * N > 0
    BY <2>2, Ranges, TimesPositive
  <2>4. 0 * 100 < m * f * N
    BY <2>3
  <2>5. QED
    BY <2>4 DEF f
<1>8. RunsOn(r, full, inMove)
  BY <1>1, <1>5, <1>6, <1>7 DEF RunsOn, m
<1>9. QED
  BY <1>8

(* A task that has set the position stops the motor or goes on to the      *)
(* tilt.                                                                   *)
LEMMA PositionSetServes ==
  ASSUME NEW r \in State, NEW inMove, FreeOfTilt(r), r.task.state = Setting,
         r.task.position \in {0, N} => LostChecked(r, inMove) = r
  PROVE  Serves(r, PositionSet(r, inMove))
<1> DEFINE s == [r EXCEPT !.task.direction = Off]
           stop == SetRelay(s, Off, FALSE, 0)
<1>1. PositionSet(r, inMove) \in {s, stop}
  BY DEF PositionSet
<1>2. r.task \in Task
  BY DEF State
<1>3. s = [r EXCEPT !.task.state = Setting, !.task.direction = Off]
  BY <1>2 DEF State, Task
<1>4. LET t == [r.task EXCEPT !.state = Setting, !.direction = Off]
      IN  /\ t.state = Active => t.direction = Off
          /\ t.state = Setting => /\ t.direction = Up => t.position # N
                                  /\ t.direction = Down => t.position # 0
  BY <1>2 DEF Task, Setting, Active, Off, Up, Down
<1> HIDE DEF s
<1>5. Serves(r, s) /\ Serves(r, stop)
  BY <1>3, <1>4, Ranges, TaskServes
<1>6. QED
  BY <1>1, <1>5 DEF s

(* All that the timer does for a task.                                     *)
LEMMA TaskProcessedRespects ==
  ASSUME NEW r, Cal(r), Simple(r), AutocalDone(r) => Known(r), NEW inMove,
         Honest(r, inMove), NEW full \in Timing,
         AutocalDone(r) => full[Up] > 0 /\ full[Down] > 0
  PROVE  Respects(r, TaskProcessed(r, full, inMove))
<1> DEFINE a == IF r.task.state = Active THEN TaskStarted(r, full) ELSE r
           b == IF a.task.state = Setting /\ a.task.direction = Off
                THEN TiltStarted(a) ELSE a
           c == IF b.task.state = Setting /\ Reached(b, full) /\ ~RunsOn(b, full, inMove)
                THEN PositionSet(b, inMove) ELSE b
           nearer == IF Percent(r.task.position) < 50 THEN Up ELSE Down
           near == SetRelay(r, nearer, FALSE, 0)
           s == TaskProcessed(r, full, inMove)
<1>1. r \in State /\ Sane(r) /\ Good(r) /\ ~r.buttonReq
  BY DEF Cal, Sane, Based
<1>2. Good(s) /\ Leads(r, s)
  BY <1>1, TaskProcessedSound DEF Sound, Safe
<1>3. Respects(r, r)
  BY <1>1, SelfRespects
<1>4. CASE NothingToDo(r)
  BY <1>3, <1>4 DEF TaskProcessed
<1>5. CASE ~NothingToDo(r) /\ r.perform
  <2>1. s = AutocalStarted(r)
    BY <1>5 DEF TaskProcessed
  <2>2. QED
    BY <1>5, <2>1, AutocalStartedRespects
<1>6. CASE ~NothingToDo(r) /\ ~r.perform /\ ~Known(r)
  <2>1. s \in {r, near}
    BY <1>6 DEF TaskProcessed
  <2>2. nearer \in Request
    BY Ranges
  <2> HIDE DEF nearer
  <2>3. Respects(r, near)
    BY <1>1, <2>2, SetRelaySpares DEF Respects
  <2> HIDE DEF s, near
  <2>4. QED
    BY <1>3, <2>1, <2>3 DEF s
<1>7. CASE ~NothingToDo(r) /\ ~r.perform /\ Known(r)
  <2>1. r.step = 0
    <3>1. r.step \in 0..3
      BY <1>1 DEF State
    <3>2. QED
      BY <1>7, <3>1 DEF NothingToDo
  <2>2. s \in {c, TaskDone(c)}
    BY <1>7 DEF TaskProcessed
  <2> HIDE DEF s
  <2>3. Works(r, a) /\ Serves(r, a)
    <3>1. Works(r, r) /\ Serves(r, r)
      BY <1>1, BeforeServes DEF Works, Alike
    <3>2. QED
      BY <1>7, <2>1, <3>1, TaskStartedWorks, TaskStartedServes
  <2> HIDE DEF a
  <2>4. Cal(a) /\ a.step = 0 /\ a \in State
    BY <2>1, <2>3 DEF Works, Alike, Cal, Sane
  <2>5. Works(r, b) /\ Serves(r, b)
    <3>1. Works(a, TiltStarted(a)) /\ Serves(a, TiltStarted(a))
      BY <2>4, TiltStartedWorks, TiltStartedServes
    <3>2. Works(r, TiltStarted(a)) /\ Serves(r, TiltStarted(a))
      BY <2>3, <3>1, WorksTwice, ServesTwice
    <3>3. QED
      BY <2>3, <3>2
  <2> HIDE DEF b
  <2>6. /\ Cal(b) /\ b.step = 0 /\ b \in State /\ Simple(b) /\ Known(b)
        /\ b.auto = r.auto /\ b.ran = r.ran
    BY <1>7, <2>1, <2>5, ServesSimple DEF Works, Alike, Cal, Sane, Known
  <2>7. Works(r, c) /\ Serves(r, c)
    <3>1. CASE b.task.state = Setting /\ Reached(b, full) /\ ~RunsOn(b, full, inMove)
      <4>1. FreeOfTilt(b)
        BY <2>6, SimpleTask
      <4>2. /\ AutocalDone(b) => full[Up] > 0 /\ full[Down] > 0
            /\ Honest(b, inMove)
        BY <2>6 DEF AutocalDone, Honest
      <4>3. b.task.position \in {0, N} => LostChecked(b, inMove) = b
        BY <2>6, <3>1, <4>2, NotLost
      <4>4. Serves(b, PositionSet(b, inMove)) /\ Works(b, PositionSet(b, inMove))
        BY <2>6, <3>1, <4>1, <4>3, PositionSetServes, PositionSetWorks
      <4>5. c = PositionSet(b, inMove)
        BY <3>1
      <4> HIDE DEF c
      <4>6. QED
        BY <2>5, <4>4, <4>5, WorksTwice, ServesTwice
    <3>2. CASE ~(b.task.state = Setting /\ Reached(b, full) /\ ~RunsOn(b, full, inMove))
      BY <2>5, <3>2
    <3>3. QED
      BY <3>1, <3>2
  <2> HIDE DEF c
  <2>8. Works(r, TaskDone(c)) /\ Serves(r, TaskDone(c))
    <3>1. Cal(c) /\ c.step = 0 /\ c \in State
      BY <2>1, <2>7 DEF Works, Alike, Cal, Sane
    <3>2. Works(c, TaskDone(c)) /\ Serves(c, TaskDone(c))
      BY <3>1, TaskDoneWorks, TaskDoneServes
    <3>3. QED
      BY <2>7, <3>2, WorksTwice, ServesTwice
  <2>9. Works(r, s) /\ Serves(r, s)
    BY <2>2, <2>7, <2>8
  <2>10. Alike(r, s) /\ ~(s.step > 1)
    BY <2>1, <2>9 DEF Works, Alike
  <2>11. Respects(r, s)
    BY <1>2, <2>9, <2>10, AlikeSpares DEF Respects, s
  <2>12. QED
    BY <2>11 DEF s
<1>8. QED
  BY <1>4, <1>5, <1>6, <1>7

(* Times of the server are applied.                                        *)
LEMMA TimesAppliedServes ==
  ASSUME NEW r \in State, NEW t \in Timing
  PROVE  Serves(r, TimesApplied(r, t))
<1> DEFINE w == Times(r, t, Zero)
           u == IF TimesReset(r, t) THEN Retimed(r, t) ELSE r
           y == u.perform /\ u.full = Zero
           p == [u EXCEPT !.perform = y]
<1>1. TimesApplied(r, t) = CfgSaved(StateSaved(p))
  BY DEF TimesApplied
<1>2. w \in State
  <2>1. Zero \in Timing
    BY Ranges
  <2>2. QED
    BY <2>1 DEF State, Times
<1>3. /\ w.ran = r.ran /\ w.blind = r.blind /\ w.detected = r.detected
      /\ w.margin = r.margin /\ w.flags = r.flags /\ w.task = r.task
  BY DEF Times, State
<1>4. Retimed(r, t) = Voided(w)
  BY DEF Retimed, Times
<1> HIDE DEF w
<1>5. Serves(r, w) /\ Serves(w, Voided(w)) /\ Serves(r, r)
  BY <1>2, <1>3, UnwrittenServes, VoidedServes, BeforeServes
<1>6. Serves(r, u) /\ u \in State
  BY <1>4, <1>5, ServesTwice DEF Serves
<1> HIDE DEF u
<1>7. y \in BOOLEAN
  BY <1>6 DEF State
<1> HIDE DEF y
<1>8. p \in State /\ Serves(u, p)
  BY <1>6, <1>7, FieldServes DEF Serves
<1> HIDE DEF p
<1>9. Serves(p, StateSaved(p)) /\ StateSaved(p) \in State
  BY <1>8, SavedServes, SavedTyped
<1>10. Serves(StateSaved(p), CfgSaved(StateSaved(p)))
  BY <1>9, SavedServes
<1>11. QED
  BY <1>1, <1>6, <1>8, <1>9, <1>10, ServesTwice

(* Times that are given again, or taken away, end the measuring at once.   *)
LEMMA TimesAppliedSpares ==
  ASSUME NEW r, Cal(r), r.autoCal, NEW t \in Timing, t \in TrueTimes
  PROVE  LET s == TimesApplied(r, t)
         IN  /\ Spares(r, s) /\ Sane(s) /\ ~s.buttonReq
             /\ OneRetiming(r, s) => Respects(r, s) /\ Cal(s)
<1> DEFINE s == TimesApplied(r, t)
<1>1. r \in State /\ Good(r) /\ Sane(r) /\ Based(r)
  BY DEF Cal, Sane
<1>2. Serves(r, s)
  BY <1>1, TimesAppliedServes
<1>3. /\ Sane(s) /\ Based(s) /\ s.step = r.step /\ s.autoCal = r.autoCal /\ s.on = r.on
      /\ IF TimesReset(r, t) THEN s.position = 0 /\ s.full = t /\ s.auto = Zero
         ELSE SameTimes(r, s)
  BY <1>1, TimesAppliedIs
<1>4. Good(s) /\ Leads(r, s)
  BY <1>1, TimesAppliedAside, AsideGood DEF Good
<1>5. Settled(r, s)
  BY <1>3 DEF Settled, SameTimes
<1>6. OneRetiming(r, s) => Cal(s)
  BY TimesAppliedLeaves DEF Leaves
<1> HIDE DEF s
<1>7. Spares(r, s)
  BY <1>2, <1>4, <1>5 DEF Spares
<1>8. OneRetiming(r, s) => GoesOn(r, s)
  <2>1. SUFFICES ASSUME OneRetiming(r, s), s.step > 1, s.full = Zero
                 PROVE  r.full = Zero
    BY <1>3 DEF GoesOn
  <2>2. r.step > 0 /\ s.step > 0
    <3>1. r.step \in 0..3
      BY <1>1 DEF State
    <3>2. QED
      BY <1>3, <2>1, <3>1
  <2>3. AutocalEnabled(s)
    BY <1>3, <2>1 DEF AutocalEnabled
  <2>4. AutocalEnabled(r)
    BY <2>1, <2>2, <2>3 DEF OneRetiming
  <2>5. QED
    BY <2>4 DEF AutocalEnabled
<1>9. QED
  BY <1>3, <1>6, <1>7, <1>8 DEF Respects, Based, s

(* The same for requests.  A calibration that has ended measures nothing.  *)
LEMMA EndedGoesOn ==
  ASSUME NEW r, NEW s, s.step = 0
  PROVE  GoesOn(r, s)
BY DEF GoesOn

(* The shutter is moved after times were set,                              *)
LEMMA MovesRespects ==
  ASSUME NEW r, NEW s, Spares(r, s), Sane(s), ~s.buttonReq, NEW value \in Request,
         NEW cancel, NEW stopDelay
  PROVE  Respects(r, SetRelay(s, value, cancel, stopDelay))
<1> DEFINE u == SetRelay(s, value, cancel, stopDelay)
<1>1. Spares(s, u) /\ u.step = 0
  BY SetRelaySpares
<1> HIDE DEF u
<1>2. QED
  BY <1>1, SparesTwice, EndedGoesOn DEF Respects, u

(* step by step,                                                           *)
LEMMA StepRespects ==
  ASSUME NEW r, NEW s, Spares(r, s), Sane(s), ~s.buttonReq
  PROVE  Respects(r, StepByStep(s))
<1> DEFINE last == IF s.lastDirection # Off THEN s.lastDirection
                   ELSE IF Percent(s.position - 1) > 50 THEN Down ELSE Up
           k == [s EXCEPT !.lastDirection = last]
           u == IF Value(s) = Off THEN k ELSE s
<1>1. s \in State /\ Good(s)
  BY DEF Sane
<1>2. last \in Direction
  BY <1>1, Ranges DEF State, Request, Direction
<1>3. StepByStep(s) = SetRelay(u, OrStop(s, Opposite(last)), TRUE, 0)
  BY DEF StepByStep
<1> HIDE DEF last
<1>4. last \in Request /\ OrStop(s, Opposite(last)) \in Request
  BY <1>2, Ranges, RequestIs
<1>5. k \in State
  BY <1>1, <1>4, FieldTyped
<1>6. /\ SameDrive(s, k) /\ SameTimes(s, k) /\ k.step = s.step /\ k.on = s.on
      /\ k.swapped = s.swapped /\ k.buttonReq = s.buttonReq
      /\ k.ran = s.ran /\ k.blind = s.blind /\ k.detected = s.detected
      /\ k.margin = s.margin /\ k.flags = s.flags /\ k.task = s.task
  BY <1>1 DEF SameDrive, SameTimes, State
<1> HIDE DEF k
<1>7. Sane(k) /\ Spares(s, k)
  <2>1. Sane(k) /\ Serves(s, k)
    BY <1>5, <1>6, SaneKept, UnwrittenServes
  <2>2. QED
    BY <1>6, <2>1, SameRespects DEF Sane, Leads, Respects
<1>8. Sane(u) /\ ~u.buttonReq /\ Spares(r, u)
  BY <1>6, <1>7, SparesTwice
<1> HIDE DEF u
<1>9. QED
  BY <1>3, <1>4, <1>8, MovesRespects

(* a task is written down,                                                 *)
LEMMA TaskAddedServes ==
  ASSUME NEW r \in State, NEW p \in Keep..N, NEW t \in Keep..N
  PROVE  Serves(r, TaskAdded(r, p, t))
<1> DEFINE runs  == r.task.state # Inactive
           tilt  == IF t = Keep /\ runs THEN r.task.tilt ELSE t
           kept  == IF p = Keep /\ r.task.state \in {Active, Setting}
                    THEN r.task.position ELSE p
           fixed == r.blind.type = "closed"
           pos   == IF fixed /\ kept = Keep /\ tilt # Keep THEN N ELSE kept
           free  == pos = N \/ (pos = Keep /\ r.position = Closed)
           k     == [state |-> Active, position |-> pos, direction |-> Off,
                     tilt |-> IF fixed /\ ~free THEN 0 ELSE tilt]
           s     == [r EXCEPT !.task = k]
<1>1. TaskAdded(r, p, t) \in {r, StateSaved(s)}
  BY DEF TaskAdded
<1>2. r.task.tilt \in Keep..N /\ r.task.position \in Keep..N
  BY DEF State, Task
<1>3. N \in Keep..N /\ 0 \in Keep..N /\ Off \in Request
  BY Ranges
<1>4. tilt \in Keep..N /\ kept \in Keep..N
  BY <1>2
<1> HIDE DEF tilt, kept
<1>5. pos \in Keep..N
  BY <1>3, <1>4
<1> HIDE DEF pos
<1>6. (IF fixed /\ ~free THEN 0 ELSE tilt) \in Keep..N
  BY <1>3, <1>4
<1>7. k \in Task /\ k.state = Active /\ k.direction = Off
  BY <1>3, <1>5, <1>6 DEF Task
<1> HIDE DEF k
<1>8. s \in State
  BY <1>7, FieldTyped
<1>9. /\ s.ran = r.ran /\ s.blind = r.blind /\ s.detected = r.detected
      /\ s.margin = r.margin /\ s.flags = r.flags /\ s.task = k
  BY DEF State
<1> HIDE DEF s
<1>10. Heads(s)
  BY <1>7, <1>9 DEF Heads, Active, Setting
<1>11. Serves(r, s)
  BY <1>8, <1>9, <1>10 DEF Serves
<1>12. Serves(s, StateSaved(s))
  BY <1>8, SavedServes
<1>13. QED
  BY <1>1, <1>11, <1>12, BeforeServes, ServesTwice

(* A task asks for a place only.                                           *)
LEMMA TaskAddedRespects ==
  ASSUME NEW r, Cal(r), NEW p \in Keep..N, NEW t \in Keep..N
  PROVE  LET s == TaskAdded(r, p, t) IN  Respects(r, s) /\ Cal(s)
<1> DEFINE s == TaskAdded(r, p, t)
<1>1. r \in State /\ Good(r) /\ Shaped(r)
  BY DEF Cal, Sane, Good
<1>2. Serves(r, s)
  BY <1>1, TaskAddedServes
<1>3. Works(r, s)
  BY TaskAddedWorks
<1>4. Aside(r, s)
  BY <1>1, TaskAddedAside
<1> HIDE DEF s
<1>5. Good(s) /\ Leads(r, s)
  BY <1>1, <1>4, AsideGood
<1>6. SameTimes(r, s) /\ s.step = r.step /\ s.on = r.on
  BY <1>3, <1>4 DEF Works, Alike, SameTimes, Aside, SameDrive
<1>7. QED
  BY <1>2, <1>3, <1>5, <1>6, SameRespects DEF Works, s

(* after times were set, too,                                              *)
LEMMA TimedTaskRespects ==
  ASSUME NEW r, Cal(r), r.autoCal, NEW t \in Timing, t \in TrueTimes,
         NEW p \in Keep..N, NEW y \in Keep..N,
         OneRetiming(r, TaskAdded(TimesApplied(r, t), p, y))
  PROVE  Respects(r, TaskAdded(TimesApplied(r, t), p, y))
<1> DEFINE s == TimesApplied(r, t)
           u == TaskAdded(s, p, y)
<1>1. Sane(s)
  BY TimesAppliedIs DEF Cal
<1>2. OneRetiming(r, s) => Respects(r, s) /\ Cal(s)
  BY TimesAppliedSpares
<1> HIDE DEF s
<1>3. u.step = s.step /\ u.full = s.full /\ u.autoCal = s.autoCal
  <2>1. s \in State /\ s.flash \in Flash
    BY <1>1 DEF Sane, State
  <2>2. PICK k : u = s \/ u = StateSaved([s EXCEPT !.task = k])
    BY DEF TaskAdded
  <2> HIDE DEF u
  <2>3. QED
    BY <2>1, <2>2 DEF StateSaved, State
<1>4. OneRetiming(r, s)
  BY <1>3 DEF OneRetiming, AutocalEnabled, s
<1>5. Respects(s, u)
  BY <1>2, <1>4, TaskAddedRespects
<1>6. QED
  BY <1>2, <1>4, <1>5, RespectsTwice DEF s

(* what was measured is forgotten to be measured again,                    *)
LEMMA ForgottenRespects ==
  ASSUME NEW r, Cal(r), r.full \in TrueTimes
  PROVE  Respects(r, Forgotten(r))
<1> DEFINE z == Stepped(r, 0, Zero)
           s == Voided(z)
<1>1. r \in State /\ Sane(r) /\ Good(r) /\ 0 \in 0..3 /\ Zero \in Timing
  BY Ranges DEF Cal, Sane
<1>2. /\ z \in State /\ SameDrive(r, z) /\ z.step = 0 /\ z.auto = Zero
      /\ z.full = r.full /\ Serves(r, z)
  BY <1>1, StepWritten, FieldServes
<1>3. z.swapped = r.swapped
  BY <1>1 DEF Stepped, State
<1>4. Forgotten(r) = s
  BY DEF Forgotten, Stepped
<1> HIDE DEF z
<1>5. Serves(r, s)
  BY <1>2, VoidedServes, ServesTwice
<1>6. /\ SameDrive(z, s) /\ s.position = 0 /\ s.full = z.full /\ s.auto = z.auto
      /\ s.step = z.step /\ s.swapped = z.swapped
  BY <1>2 DEF Voided, SameDrive, State
<1> HIDE DEF s
<1>7. Good(s) /\ Leads(r, s)
  BY <1>1, <1>2, <1>3, <1>5, <1>6, SaneKept DEF SameDrive, Sane, Leads, Serves
<1>8. QED
  BY <1>2, <1>4, <1>5, <1>6, <1>7, EndedGoesOn DEF Respects, Spares, Settled

(* Recalibration begins with no position, whoever asks for it.             *)
LEMMA RecalibrateRespects ==
  ASSUME Cal(rs), rs.autoCal, rs.full \in TrueTimes, NEW t \in Timing, t \in TrueTimes,
         Recalibrate(t)
  PROVE  Respects(rs, rs')
<1> DEFINE void == Forgotten(rs)
           back == [void EXCEPT !.tilt = rs.tilt]
           Void(s) == Respects(rs, s) /\ Cal(s) /\ s.autoCal
<1>1. rs' \in {TaskAdded(TimesApplied(void, t), 0, 0), TaskAdded(void, 0, 0),
               TaskAdded(TimesApplied(back, rs.full), 0, 0)}
  BY DEF Recalibrate, By, Forgotten
<1>2. rs.tilt \in Unset..Closed /\ rs.full \in Timing
  BY DEF Cal, Sane, State
<1>3. Void(void) /\ void.step = 0
  BY ForgottenIs, ForgottenRespects
<1> HIDE DEF void
<1>4. Void(back) /\ back.step = 0
  <2>1. void \in State /\ Sane(void) /\ Good(void)
    BY <1>3 DEF Cal, Sane
  <2>2. back \in State
    BY <1>2, <2>1 DEF State
  <2>3. /\ SameDrive(void, back) /\ Marked(void, back) /\ back.swapped = void.swapped
        /\ SameTimes(void, back) /\ back.step = void.step
        /\ back.ran = void.ran /\ back.blind = void.blind
        /\ back.detected = void.detected /\ back.margin = void.margin
        /\ back.flags = void.flags /\ back.task = void.task
    BY <2>1 DEF SameDrive, SameTimes, Marked, Alike, State
  <2> HIDE DEF back
  <2>4. Sane(back) /\ Cal(back) /\ back.autoCal
    BY <1>3, <2>1, <2>2, <2>3, SaneKept, MarkedKeeps DEF Marked, Alike
  <2>5. Serves(void, back) /\ Good(back) /\ Leads(void, back)
    BY <2>2, <2>3, <2>4, UnwrittenServes DEF Sane, Leads
  <2>6. Respects(void, back)
    BY <2>3, <2>5, SameRespects DEF SameDrive
  <2>7. QED
    BY <1>3, <2>3, <2>4, <2>6, RespectsTwice
<1> HIDE DEF back
<1>5. ASSUME NEW s, Void(s), s.step = 0, NEW x \in Timing, x \in TrueTimes
      PROVE  Void(TimesApplied(s, x))
  <2>1. OneRetiming(s, TimesApplied(s, x))
    BY <1>5 DEF OneRetiming
  <2>2. Respects(s, TimesApplied(s, x)) /\ Cal(TimesApplied(s, x))
    BY <1>5, <2>1, TimesAppliedSpares
  <2>3. TimesApplied(s, x).autoCal = s.autoCal
    BY <1>5, TimesAppliedIs DEF Cal
  <2>4. QED
    BY <1>5, <2>2, <2>3, RespectsTwice
<1>6. ASSUME NEW s, Void(s) PROVE Respects(rs, TaskAdded(s, 0, 0))
  BY <1>6, Ranges, TaskAddedRespects, RespectsTwice
<1>7. QED
  BY <1>1, <1>2, <1>3, <1>4, <1>5, <1>6

(* and a configuration: it has the same way to tilt, which is none.        *)
LEMMA ConfigureRespects ==
  ASSUME Sensing, Cal(rs), rs.autoCal, rs.blind = [type |-> "none", time |-> 0],
         NEW m \in -1..100, m # 0, NEW t \in Timing, t \in TrueTimes, NEW b \in Blind,
         b = rs.blind, Configure(FALSE, m, t, b), OneRetiming(rs, rs')
  PROVE  Respects(rs, rs')
<1> DEFINE k == MarginApplied(rs, m)
           u == [k EXCEPT !.blind = b]
<1>1. rs' = TimesApplied(u, t)
  BY DEF Configure, By
<1>2. rs \in State /\ Sane(rs) /\ Good(rs)
  BY DEF Cal, Sane
<1>3. k \in State
  BY <1>2, MarginTyped
<1>4. /\ SameDrive(rs, k) /\ Marked(rs, k) /\ SameTimes(rs, k) /\ k.swapped = rs.swapped
      /\ k.step = rs.step /\ k.ran = rs.ran /\ k.blind = rs.blind
      /\ k.detected = rs.detected /\ k.flags = rs.flags /\ k.task = rs.task
  BY <1>2 DEF MarginApplied, SameDrive, SameTimes, Marked, Alike, State
<1>5. rs.margin > 0 => k.margin > 0
  <2>1. m \in Int /\ (m >= 0 => m > 0) /\ DefaultMargin > 0
    BY DEF DefaultMargin
  <2>2. k.margin \in {rs.margin, IF m >= 0 THEN m ELSE DefaultMargin}
    BY <1>2 DEF MarginApplied, State
  <2>3. QED
    BY <2>1, <2>2
<1> HIDE DEF k
<1>6. u = k
  BY <1>3, <1>4 DEF State
<1>7. Serves(rs, k)
  BY <1>3, <1>4, <1>5 DEF Serves, Heads
<1>8. Sane(k) /\ Good(k) /\ Leads(rs, k)
  BY <1>2, <1>3, <1>4, SaneKept DEF Sane, Leads
<1>9. Respects(rs, k)
  BY <1>4, <1>7, <1>8, SameRespects DEF SameDrive
<1>10. Cal(k) /\ k.autoCal = rs.autoCal /\ k.full = rs.full
  BY <1>4, <1>8, MarkedKeeps DEF Marked, Alike
<1>11. OneRetiming(k, TimesApplied(k, t))
  BY <1>1, <1>4, <1>6, <1>10 DEF OneRetiming, AutocalEnabled
<1>12. Respects(k, TimesApplied(k, t))
  BY <1>10, <1>11, TimesAppliedSpares
<1>13. QED
  BY <1>1, <1>6, <1>9, <1>12, RespectsTwice

(* Every request.                                                          *)
LEMMA SensedAsks ==
  ASSUME Sensing
  PROVE  /\ \A t \in shutter.times : t \in Timing /\ t \in TrueTimes
         /\ \A m \in shutter.margins : m \in -1..100 /\ m # 0
         /\ \A b \in shutter.blinds : b \in Blind /\ b = [type |-> "none", time |-> 0]
         /\ shutter.tasks \cup {Keep} \subseteq Keep..N
         /\ shutter \in Shutters /\ shutter.autoCal
<1>1. shutter \in Shutters /\ Sensed(shutter)
  BY DEF Sensing
<1>2. QED
  BY <1>1, AskedIs DEF Sensed, TrueTimes

(* Every request.                                                          *)
LEMMA AskRespects ==
  ASSUME Undisturbed, Sensing, TypeOK, Calibrating, Timed(rs), Ask, OneRetimingPerTick
  PROVE  Respects(rs, rs')
<1>1. /\ rs \in State /\ Cal(rs) /\ Sane(rs) /\ Good(rs) /\ ~rs.buttonReq
      /\ OneRetiming(rs, rs') /\ rs.autoCal
  BY SensedAsks DEF TypeOK, Calibrating, OneRetimingPerTick, OneRetiming, Cal, Sane, Based
<1>2. "power" \notin shutter.callers /\ "swap" \notin shutter.callers
  BY SensedAsks DEF Undisturbed
<1>3. Spares(rs, rs)
  BY <1>1, SelfRespects DEF Respects
<1>4. rs.full \in TrueTimes /\ rs.blind = [type |-> "none", time |-> 0]
  BY DEF Timed
<1>5. ASSUME NEW d \in Direction,
             ButtonPressed(d) \/ ButtonReleased(d) \/ ButtonClicked(d)
      PROVE  Respects(rs, rs')
  <2>1. OrStop(rs, d) \in Request /\ d \in Request /\ Off \in Request
    BY Ranges, RequestIs
  <2>2. rs' \in {SetRelay(rs, d, TRUE, 1), SetRelay(rs, Off, TRUE, 1),
                 SetRelay(rs, Off, TRUE, 0), SetRelay(rs, OrStop(rs, d), TRUE, 1)}
    BY <1>5 DEF ButtonPressed, ButtonReleased, ButtonClicked, By
  <2>3. QED
    BY <1>1, <1>3, <2>1, <2>2, MovesRespects
<1>6. ASSUME HoldReleased PROVE Respects(rs, rs')
  BY <1>1, <1>3, <1>6, Ranges, MovesRespects DEF HoldReleased, By
<1>7. ASSUME NEW t \in shutter.times,
             \/ \E value \in Request : ServerMoves(value, t)
             \/ \E d \in Direction : ServerOrStop(d, t)
             \/ ServerSteps(t)
             \/ \E p, y \in shutter.tasks \cup {Keep} : ServerTask(p, y, t)
             \/ Recalibrate(t)
             \/ \E swap \in BOOLEAN, m \in shutter.margins, b \in shutter.blinds :
                  Configure(swap, m, t, b)
      PROVE  Respects(rs, rs')
  <2> DEFINE r == TimesApplied(rs, t)
  <2>1. t \in Timing /\ t \in TrueTimes
    BY SensedAsks
  <2>2. Spares(rs, r) /\ Sane(r) /\ ~r.buttonReq
    BY <1>1, <2>1, TimesAppliedSpares
  <2>3. CASE \E value \in Request : ServerMoves(value, t)
    <3>1. PICK value \in Request : rs' = SetRelay(r, value, TRUE, 0)
      BY <2>3 DEF ServerMoves, By
    <3> HIDE DEF r
    <3>2. QED
      BY <2>2, <3>1, MovesRespects
  <2>4. CASE \E d \in Direction : ServerOrStop(d, t)
    <3>1. PICK d \in Direction : rs' = SetRelay(r, OrStop(r, d), TRUE, 0)
      BY <2>4 DEF ServerOrStop, By
    <3> HIDE DEF r
    <3>2. QED
      BY <2>2, <3>1, RequestIs, MovesRespects
  <2>5. CASE ServerSteps(t)
    <3>1. rs' = StepByStep(r)
      BY <2>5 DEF ServerSteps, By
    <3> HIDE DEF r
    <3>2. QED
      BY <2>2, <3>1, StepRespects
  <2>6. CASE \E p, y \in shutter.tasks \cup {Keep} : ServerTask(p, y, t)
    <3>1. PICK p \in Keep..N, y \in Keep..N : rs' = TaskAdded(r, p, y)
      BY <2>6, SensedAsks DEF ServerTask, By
    <3>2. QED
      BY <1>1, <2>1, <3>1, TimedTaskRespects
  <2>7. CASE Recalibrate(t)
    BY <1>1, <1>4, <2>1, <2>7, RecalibrateRespects
  <2>8. CASE \E swap \in BOOLEAN, m \in shutter.margins, b \in shutter.blinds :
               Configure(swap, m, t, b)
    <3>1. PICK swap \in BOOLEAN, m \in shutter.margins, b \in shutter.blinds :
             Configure(swap, m, t, b)
      BY <2>8
    <3>2. swap = FALSE
      BY <1>2, <3>1 DEF Configure
    <3>3. m \in -1..100 /\ m # 0 /\ b \in Blind /\ b = rs.blind
      BY <1>4, SensedAsks
    <3>4. Configure(FALSE, m, t, b)
      BY <3>1, <3>2
    <3>5. QED
      BY <1>1, <1>4, <2>1, <3>3, <3>4, ConfigureRespects
  <2>9. QED
    BY <1>7, <2>3, <2>4, <2>5, <2>6, <2>7, <2>8
<1>8. ~PowerCycle
  BY <1>2 DEF PowerCycle, By
<1>9. QED
  BY <1>5, <1>6, <1>7, <1>8 DEF Ask

-----------------------------------------------------------------------------
(* A tick.  The motor turns one way, and the sensor sees it unless it is   *)
(* at the end or gets there; in the first tick of a run also then.         *)
Turns(r, d, x, y, inMove) ==
  /\ Cal(r) /\ r.autoCal /\ r.on = {d} /\ r.startAge > 0 /\ (r.step > 0 => r.full = Zero)
  /\ Timed(r) /\ Heads(r) /\ Silent(r) /\ Located(r, x)
  /\ x \in Places(shutter) /\ y \in Places(shutter)
  /\ y.position = Driven(d, x.position, shutter.travel)
  /\ inMove => Way(x, d) > 0
  /\ ~inMove => Way(y, d) = 0
  /\ inMove /\ Way(y, d) = 0 => r.ran = Zero
  /\ r.full = Zero /\ Way(x, d) > 0 /\ (Known(r) \/ Way(y, d) > 0 \/ r.step > 1)
     => r.detected
  /\ r.step > 1 => Way(x, d) > 0 /\ r.ran[d] = (shutter.travel - Way(x, d)) * N

(* The way that is left.                                                   *)
LEMMA TurnsWay ==
  ASSUME Sensing, NEW r, NEW d \in Direction, NEW x, NEW y, NEW inMove,
         Turns(r, d, x, y, inMove)
  PROVE  /\ shutter.travel \in Nat /\ shutter.travel > 1
         /\ Way(x, d) \in 0..shutter.travel /\ Way(y, d) \in 0..shutter.travel
         /\ Way(y, Opposite(d)) = shutter.travel - Way(y, d)
         /\ Way(x, d) = 0 => Way(y, d) = 0 /\ y.position = x.position
         /\ Way(x, d) > 0 => Way(y, d) = Way(x, d) - 1
<1> DEFINE n == shutter.travel
<1>1. /\ x \in Places(shutter) /\ y \in Places(shutter)
      /\ y.position = Driven(d, x.position, n)
  BY DEF Turns
<1>2. n \in Nat /\ n > 1 /\ Way(x, d) \in 0..n /\ Way(y, d) \in 0..n
      /\ Way(y, Opposite(d)) = n - Way(y, d)
  BY <1>1, WayIs
<1>3. PICK p \in 0..n : p = x.position
  BY <1>1 DEF Places
<1>4. /\ Along(p, n, d) \in Nat
      /\ IF Along(p, n, d) = 0 THEN Driven(d, p, n) = p
         ELSE Along(Driven(d, p, n), n, d) = Along(p, n, d) - 1
  BY <1>2, <1>3, DrivenAlong
<1>5. Way(x, d) = Along(p, n, d) /\ Way(y, d) = Along(Driven(d, p, n), n, d)
  BY <1>1, <1>3 DEF Way
<1> HIDE DEF n
<1>6. Way(x, d) = 0 => Way(y, d) = 0 /\ y.position = x.position
  BY <1>1, <1>3, <1>4, <1>5
<1>7. QED
  BY <1>2, <1>4, <1>5, <1>6 DEF n

(* What is counted is the way, too.                                        *)
Sums(n, w, v, q, c, more) ==
  /\ more \in Nat
  /\ w > 0 /\ w * N + q <= n * N => v * N + more <= n * N /\ more <= n * N
  /\ w > 0 /\ q = 0 /\ c = N => more = N
  /\ w > 0 /\ q = (n - w) * N /\ c = N => more = (n - v) * N

(* One more tick keeps the sums, and the cap on the run is beyond them.    *)
LEMMA RunsCount ==
  ASSUME NEW n \in Nat, NEW w \in 0..n, NEW c \in {0, N}, NEW q \in Nat,
         NEW v \in 0..n, w > 0 => v = w - 1, NEW more,
         n <= MaxRun, more = AtMost(LongestRun, q + c)
  PROVE  Sums(n, w, v, q, c, more)
<1>1. N \in Nat /\ N >= 1
  BY Ranges
<1>2. PICK l \in Nat : LongestRun = l * N /\ n <= l /\ 1 <= l
  <2>1. PICK l \in Nat : l = MaxRun + CommPeriod + 1 /\ l > MaxRun
    BY ConstantAssumption
  <2>2. LongestRun = l * N
    BY <1>1, <2>1 DEF LongestRun
  <2>3. MaxRun \in Nat
    BY ConstantAssumption
  <2>4. QED
    BY <2>1, <2>2, <2>3
<1>3. PICK lN \in Nat : lN = l * N /\ N <= lN
  <2>1. l * N \in Nat
    BY <1>1, TimesNat
  <2>2. l * N = (l - 1) * N + N
    BY <1>1, <1>2
  <2>3. (l - 1) * N \in Nat
    BY <1>1, <1>2, TimesNat
  <2>4. QED
    BY <1>1, <2>1, <2>2, <2>3
<1>4. c \in Nat /\ c <= N
  BY <1>1
<1>5. more \in Nat /\ more <= q + c /\ (q + c <= lN => more = q + c)
  BY <1>2, <1>3, <1>4 DEF AtMost
<1>6. ASSUME w > 0, w * N + q <= n * N PROVE v * N + more <= n * N /\ more <= n * N
  <2>1. v \in Nat /\ w = v + 1
    BY <1>6
  <2>2. w * N = v * N + N
    BY <1>1, <2>1
  <2>3. v * N \in Nat /\ n * N \in Nat
    BY <1>1, <2>1, TimesNat
  <2>4. QED
    BY <1>1, <1>4, <1>5, <1>6, <2>2, <2>3
<1>7. ASSUME w > 0, q = 0, c = N PROVE more = N
  BY <1>1, <1>3, <1>5, <1>7
<1>8. ASSUME w > 0, q = (n - w) * N, c = N PROVE more = (n - v) * N
  <2>1. n - v = (n - w) + 1 /\ n - v \in Nat /\ n - w \in Nat
    BY <1>8
  <2>2. (n - v) * N = (n - w) * N + N
    BY <1>1, <2>1
  <2>3. n - v <= l
    BY <1>2, <2>1
  <2>4. (n - v) * N <= lN
    <3>1. l * N = (n - v) * N + (l - (n - v)) * N
      BY <1>1, <1>2, <2>1
    <3>2. (l - (n - v)) * N \in Nat
      BY <1>1, <1>2, <2>1, <2>3, TimesNat
    <3>3. (n - v) * N \in Nat
      BY <1>1, <2>1, TimesNat
    <3>4. QED
      BY <1>3, <3>1, <3>2, <3>3
  <2>5. QED
    BY <1>5, <1>8, <2>2, <2>4
<1>9. QED
  BY <1>5, <1>6, <1>7, <1>8 DEF Sums

(* What a tick adds to the run of the motor.                               *)
LEMMA TurnsRun ==
  ASSUME Sensing, NEW r, NEW d \in Direction, NEW x, NEW y, NEW inMove,
         Turns(r, d, x, y, inMove)
  PROVE  LET a == RanOn(r, d)
             n == shutter.travel
         IN  /\ a.ran[d] \in Nat /\ a.ran[Opposite(d)] = 0
             /\ ~Known(r) /\ Way(x, d) > 0 => /\ Way(y, d) * N + a.ran[d] <= n * N
                                              /\ a.ran[d] <= n * N
             /\ Known(r) /\ Way(x, d) > 0 => a.ran[d] = N
             /\ r.step > 1 => a.ran[d] = (n - Way(y, d)) * N
<1> DEFINE n == shutter.travel
           w == Way(x, d)
           v == Way(y, d)
           q == r.ran[d]
           c == Counted(r)
           a == RanOn(r, d)
           more == a.ran[d]
<1>1. r \in State /\ q \in Nat
  BY TimingIs DEF Turns, Cal, Sane, State
<1>2. n \in Nat /\ w \in 0..n /\ v \in 0..n /\ (w > 0 => v = w - 1)
  BY TurnsWay
<1>3. n <= MaxRun
  BY DEF Sensing, Sensed
<1>4. a.ran[Opposite(d)] = 0 /\ more = AtMost(LongestRun, q + c)
  BY <1>1, RanOnIs
<1>5. c \in {0, N}
  BY DEF Counted
<1>6. c = 0 => r.full = Zero /\ ~r.detected
  BY Ranges DEF Counted, AutocalEnabled
<1>7. /\ w > 0 => (~Known(r) => w * N + q <= n * N) /\ (Known(r) => q = 0)
      /\ w > 0 /\ (Known(r) \/ r.step > 1) /\ r.full = Zero => r.detected
      /\ r.step > 1 => w > 0 /\ q = (n - w) * N
  <2>1. /\ Located(r, x)
        /\ r.full = Zero /\ w > 0 /\ (Known(r) \/ r.step > 1) => r.detected
        /\ r.step > 1 => w > 0 /\ q = (n - w) * N
    BY DEF Turns
  <2>2. w > 0 => IF Known(r) THEN q = 0 ELSE w * N + q <= n * N
    BY <1>2, <2>1 DEF Located
  <2>3. QED
    BY <2>1, <2>2
<1> HIDE DEF n, w, v, q, c, more, a
<1>8. Sums(n, w, v, q, c, more)
  BY <1>1, <1>2, <1>3, <1>4, <1>5, RunsCount
<1>9. w > 0 /\ (Known(r) \/ r.step > 1) => c = N
  BY <1>5, <1>6, <1>7
<1>10. QED
  BY <1>4, <1>7, <1>8, <1>9 DEF Sums, n, w, v, more, a

(* So near the end that the last tick leads there, no sensor is expected   *)
(* to see the motor: a sound motor raises no alarm.                        *)
LEMMA QuotientAbove ==
  ASSUME NEW a \in Nat, NEW t \in Nat \ {0}, NEW b \in Int, a >= b * t
  PROVE  a \div t >= b
<1>1. PICK m \in Int : m = a \div t
  BY QuotientIs
<1>2. a < (m + 1) * t
  BY <1>1
<1>3. b * t < (m + 1) * t
  BY <1>2
<1>4. \A i, j \in Int : i * t < j * t => i < j
  OBVIOUS
<1>5. b < m + 1
  BY <1>1, <1>3, <1>4
<1>6. QED
  BY <1>1, <1>5

(* A quotient is no larger than a bound of whole multiples,                *)
LEMMA QuotientBelow ==
  ASSUME NEW a \in Nat, NEW t \in Nat \ {0}, NEW b \in Int, a <= b * t
  PROVE  a \div t <= b
<1>1. PICK m \in Int : m = a \div t
  BY QuotientIs
<1>2. m * t <= a
  BY <1>1, QuotientIs
<1>3. m * t < (b + 1) * t
  BY <1>1, <1>2
<1>4. \A i, j \in Int : i * t < j * t => i < j
  OBVIOUS
<1>5. m < b + 1
  BY <1>1, <1>3, <1>4
<1>6. QED
  BY <1>1, <1>5

(* so that the last tick of the way begins and ends near its end, as the   *)
(* code measures it in percent.                                            *)
LEMMA NearTheEnd ==
  ASSUME NEW n, NEW k, PerTick(n, k), 100 <= NearEnd * n, NEW w \in {0, 1}
  PROVE  Percent(k * w) <= NearEnd /\ Percent(k * (n - w)) >= 100 - NearEnd
<1>1. n \in Nat \ {0} /\ k \in Nat /\ N = k * n /\ N \in Nat \ {0} /\ 1 <= k
  BY Ranges, WholeSteps DEF PerTick
<1>2. PICK e \in 0..100 : e = NearEnd
  BY ConstantAssumption
<1>3. PICK q \in Nat : q = k * w /\ q <= k
  BY <1>1
<1>4. 100 * k <= e * N
  <2>1. PICK g \in Nat : g = e * n
    BY <1>1, <1>2, TimesNat
  <2>2. g >= 100
    BY <1>2, <2>1
  <2>3. g * k >= 100 * k
    BY <1>1, <2>1, <2>2
  <2>4. e * N = g * k
    BY <1>1, <1>2, <2>1
  <2>5. QED
    BY <2>3, <2>4
<1>5. PICK eN \in Nat : eN = e * N
  BY <1>1, <1>2, TimesNat
<1>6. 100 * q <= eN /\ 100 * q \in Nat
  BY <1>1, <1>3, <1>4, <1>5
<1>7. (100 * q) \div N <= e
  BY <1>1, <1>2, <1>5, <1>6, QuotientBelow
<1>8. PICK p \in Nat : p = k * (n - w) /\ p = N - q
  <2>1. k * (n - w) = k * n - k * w
    BY <1>1
  <2>2. n - w \in Nat
    BY <1>1
  <2>3. k * (n - w) \in Nat
    BY <1>1, <2>2, TimesNat
  <2>4. QED
    BY <1>1, <1>3, <2>1, <2>3
<1>9. 100 * p >= (100 - e) * N
  <2>1. (100 - e) * N = 100 * N - eN
    BY <1>1, <1>2, <1>5
  <2>2. 100 * p = 100 * N - 100 * q
    BY <1>1, <1>3, <1>8
  <2>3. QED
    BY <1>1, <1>6, <2>1, <2>2, <1>5
<1>10. (100 * p) \div N >= 100 - e
  <2>1. 100 * p \in Nat /\ 100 - e \in Int
    BY <1>2, <1>8
  <2>2. QED
    BY <1>1, <1>9, <2>1, QuotientAbove
<1>11. QED
  BY <1>2, <1>3, <1>7, <1>8, <1>10 DEF Percent

(* A motor that is sensed as it turns raises no alarm.                     *)
LEMMA TurnsUnalarmed ==
  ASSUME Sensing, NEW r, NEW d \in Direction, NEW x, NEW y, NEW inMove,
         Turns(r, d, x, y, inMove)
  PROVE  MotorChecked(RanOn(r, d), d, inMove) = RanOn(r, d)
<1> DEFINE n == shutter.travel
           a == RanOn(r, d)
           p == r.position
<1>1. r \in State /\ a.position = p /\ a.auto = r.auto
  BY RanOnIs DEF Turns, Cal, Sane
<1> HIDE DEF a
<1>2. SUFFICES ASSUME AutocalDone(a), ~inMove, FarFromEnd(a, d) PROVE FALSE
  BY DEF MotorChecked, a
<1>3. Known(r) /\ Agrees(p, x.position, n)
  BY <1>1, <1>2 DEF Turns, Timed, AutocalDone, Located
<1>4. /\ n \in Nat /\ n > 1 /\ Way(x, d) \in 0..n /\ Way(y, d) = 0
      /\ Way(x, d) > 0 => Way(y, d) = Way(x, d) - 1
  <2>1. Way(y, d) = 0
    BY <1>2 DEF Turns
  <2>2. QED
    BY <2>1, TurnsWay
<1>5. PICK w \in {0, 1} : w = Way(x, d)
  BY <1>4
<1>6. PICK k \in Nat : N = k * n
  BY DEF Sensing, Sensed, Divides
<1>7. PerTick(n, k) /\ 100 <= NearEnd * n
  BY <1>4, <1>6 DEF PerTick, Sensing, Sensed
<1>8. PICK z \in 0..n : z = x.position
  BY DEF Turns, Places
<1>9. p - 1 = k * z
  <2>1. p \in Int
    BY <1>1, Ranges DEF State, Closed
  <2>2. QED
    BY <1>3, <1>7, <1>8, <2>1, AgreesIs
<1>10. Percent(k * w) <= NearEnd /\ Percent(k * (n - w)) >= 100 - NearEnd
  BY <1>7, NearTheEnd
<1>11. NearEnd \in Int /\ Percent(p - 1) \in Int
  <2>1. N \in Nat \ {0} /\ k * z \in Nat
    BY <1>6, <1>8, Ranges, TimesNat
  <2>2. PICK m \in Nat : m = k * z
    BY <2>1
  <2>3. 100 * m \in Nat
    BY <2>2
  <2>4. (100 * m) \div N \in Nat
    BY <2>1, <2>3, QuotientIs
  <2>5. QED
    BY <1>9, <2>2, <2>4, ConstantAssumption DEF Percent
<1> HIDE DEF p
<1>12. CASE d = Up
  <2>1. z = w
    BY <1>5, <1>8, <1>12 DEF Way, Along
  <2>2. Percent(p - 1) <= NearEnd
    BY <1>9, <1>10, <2>1
  <2>3. QED
    BY <1>1, <1>2, <1>11, <1>12, <2>2 DEF FarFromEnd
<1>13. CASE d # Up
  <2>1. z = n - w
    BY <1>4, <1>5, <1>8, <1>13 DEF Way, Along
  <2>2. Percent(p - 1) >= 100 - NearEnd
    BY <1>9, <1>10, <2>1
  <2>3. p # 0
    BY <1>3 DEF Known, p
  <2>4. QED
    BY <1>1, <1>2, <1>11, <1>13, <2>2, <2>3 DEF FarFromEnd
<1>14. QED
  BY <1>12, <1>13

(* What a run may write: the counted time, and what the calls write.       *)
Tends(r, s) ==
  /\ s \in State /\ s.blind = r.blind /\ s.detected = r.detected
  /\ r.margin > 0 => s.margin > 0
  /\ s.flags \subseteq r.flags \cup {"InProgress"}
  /\ Heads(r) => Heads(s)

(* Two such calls are one.                                                 *)
LEMMA TendsTwice ==
  ASSUME NEW r, NEW s, NEW t, Tends(r, s), Tends(s, t)
  PROVE  Tends(r, t)
BY DEF Tends

(* A call that writes none of these fields is one of them,                 *)
LEMMA ServesTends ==
  ASSUME NEW r, NEW s, Serves(r, s)
  PROVE  Tends(r, s) /\ s.ran = r.ran
BY DEF Serves, Tends

(* and so is one that writes the position and the run.                     *)
LEMMA UnwrittenTends ==
  ASSUME NEW r, NEW s \in State, s.blind = r.blind, s.detected = r.detected,
         s.margin = r.margin, s.flags = r.flags, s.task = r.task
  PROVE  Tends(r, s)
BY DEF Tends, Heads

(* With the right position, or the rest of the way counted, it is well.    *)
Arrived(r, d, y, s) ==
  /\ s.full \in TrueTimes /\ \A e \in Direction : s.auto[e] \in {0, shutter.travel}
  /\ AutocalDone(s) => Known(s)
  /\ Known(s) => Agrees(s.position, y.position, shutter.travel)
  /\ s.ran[Opposite(d)] = 0
  /\ \/ Way(y, d) = 0
     \/ IF Known(s) THEN s.ran[d] = 0
        ELSE Way(y, d) * N + s.ran[d] <= shutter.travel * N
  /\ Known(s) /\ s.full = Zero /\ Way(y, d) > 0 => r.detected

(* What such calls make of a motor that turns is what is known a tick      *)
(* later, if position and run are right.                                   *)
LEMMA TurnsSensed ==
  ASSUME Sensing, NEW r, NEW d \in Direction, NEW x, NEW y, NEW inMove,
         Turns(r, d, x, y, inMove), NEW s, Tends(r, s), Good(s), Leads(r, s),
         Arrived(r, d, y, s)
  PROVE  Senses(s, y)
<1> DEFINE n == shutter.travel
<1>1. /\ r.on = {d} /\ r.startAge > 0 /\ r.blind = [type |-> "none", time |-> 0]
      /\ Heads(r) /\ Silent(r)
  BY DEF Turns, Timed
<1>2. n \in Nat /\ Way(y, d) \in 0..n /\ Way(y, Opposite(d)) = n - Way(y, d)
  BY TurnsWay
<1>3. Timed(s)
  BY <1>1 DEF Timed, Tends, Arrived
<1>4. Rested(s)
  BY <1>1 DEF Rested, Leads, SameDrive, Good, AgesTell, Unset
<1>5. Located(s, y)
  <2>1. ASSUME NEW e \in Direction
        PROVE  \/ Way(y, e) = 0
               \/ IF Known(s) THEN s.ran[e] = 0 ELSE Way(y, e) * N + s.ran[e] <= n * N
    <3>1. CASE e = d
      BY <3>1 DEF Arrived
    <3>2. CASE e # d
      <4>1. e = Opposite(d)
        BY <3>2 DEF Direction, Opposite
      <4>2. s.ran[e] = 0 /\ Way(y, e) = n - Way(y, d)
        BY <1>2, <4>1 DEF Arrived
      <4>3. PICK i \in Nat : i = n - Way(y, d) /\ i <= n
        BY <1>2
      <4>4. i * N + 0 <= n * N
        <5>1. i * N <= n * N
          BY <1>2, <4>3, Ranges
        <5>2. i * N \in Nat
          BY <4>3, Ranges, TimesNat
        <5>3. QED
          BY <5>1, <5>2
      <4>5. QED
        BY <4>2, <4>3, <4>4
    <3>3. QED
      BY <3>1, <3>2
  <2>2. QED
    BY <2>1 DEF Located, Arrived
<1>6. Noticed(s, y)
  BY <1>1 DEF Noticed, Leads, SameDrive, Arrived, Tends
<1>7. Heads(s) /\ Silent(s)
  BY <1>1 DEF Tends, Silent
<1>8. QED
  BY <1>3, <1>4, <1>5, <1>6, <1>7 DEF Senses

(* Counting writes the times of the run alone.                             *)
LEMMA RanOnTends ==
  ASSUME NEW r \in State, NEW d \in Direction
  PROVE  LET a == RanOn(r, d)
         IN  Tends(r, a) /\ a.blind = r.blind /\ a.tilt = r.tilt /\ a.flags = r.flags
<1> DEFINE a == RanOn(r, d)
<1>1. a \in State
  BY RanOnIs
<1>2. /\ a.blind = r.blind /\ a.detected = r.detected /\ a.margin = r.margin
      /\ a.flags = r.flags /\ a.task = r.task /\ a.tilt = r.tilt
  BY DEF RanOn, State
<1>3. QED
  BY <1>1, <1>2, UnwrittenTends

(* The steps of a tick, when there are no slats.                           *)
Shifted(r, d, p, left) == [r EXCEPT !.position = p, !.ran = [r.ran EXCEPT ![d] = left]]

(* Without slats the time that has run becomes steps of the position, as   *)
(* many as there is room for.                                              *)
LEMMA SimplyMoved ==
  ASSUME NEW r \in State, r.blind = [type |-> "none", time |-> 0], NEW d \in Direction,
         NEW full \in Nat \ {0}, r.position \in Open..Closed,
         NEW j, j = AtMost(Ahead(r.position, d), r.ran[d] \div full),
         NEW left, left = r.ran[d] - (IF Ahead(r.position, d) = 0 THEN 0 ELSE j * full)
  PROVE  /\ TiltGuessed(r) = r /\ Moved(r, d, full) \in State
         /\ Moved(r, d, full) = Shifted(r, d, Toward(r.position, d, j), left)
<1> DEFINE m == Moved(r, d, full)
           p == Toward(r.position, d, j)
<1>1. r.blind.type = "none" /\ r.blind.time = 0
  OBVIOUS
<1>2. TiltGuessed(r) = r
  BY <1>1 DEF TiltGuessed, Tilts
<1>3. SlatSteps(r, d) = 0 /\ ~SlatsFixed(r)
  BY <1>1 DEF SlatSteps, SlatsFixed
<1>4. TravelTime(r, full) = full
  BY <1>1 DEF TravelTime, OneAtATime
<1>5. MoveSteps(r, d, full) = j
  BY <1>3, <1>4 DEF MoveSteps
<1>6. r.ran[d] - Spent(r, d, full) = left
  BY <1>1, <1>3, <1>4, <1>5 DEF Spent
<1>7. Toward(r.tilt, d, 0) = r.tilt
  <2>1. r.tilt \in Int
    BY Ranges DEF State, Unset, Closed
  <2>2. QED
    BY <2>1, NoSteps
<1>8. m = [r EXCEPT !.tilt = r.tilt, !.position = p, !.ran[d] = left]
  <2>1. m = [r EXCEPT !.tilt = Toward(@, d, 0), !.position = Toward(@, d, j),
                      !.ran[d] = @ - Spent(r, d, full)]
    BY <1>3, <1>5 DEF Moved
  <2> DEFINE spent == Spent(r, d, full)
  <2>2. m = [r EXCEPT !.tilt = Toward(r.tilt, d, 0), !.position = p,
                      !.ran[d] = r.ran[d] - spent]
    BY <2>1, ZenonT(60)
  <2>3. QED
    BY <1>6, <1>7, <2>2
<1>9. m \in State
  BY MovedTyped
<1> HIDE DEF p, m
<1>10. m = Shifted(r, d, p, left)
  BY <1>8 DEF State, Shifted
<1>11. QED
  BY <1>2, <1>9, <1>10 DEF p, m

(* At the end there is nothing to move; the motor may be stopped.          *)
LEMMA EndStays ==
  ASSUME NEW r, Sane(r), ~r.buttonReq, r.step = 0,
         r.blind = [type |-> "none", time |-> 0], NEW d \in Direction,
         NEW full \in Nat \ {0}, r.position = EndOf(d), NEW inMove,
         inMove => ~AutocalDone(r)
  PROVE  LET s == PositionMoved(r, d, full, inMove)
         IN  Serves(r, s) /\ Alike(r, s)
<1> DEFINE m == Moved(r, d, full)
           stop == SetRelay(r, Off, FALSE, 0)
           j == AtMost(Ahead(r.position, d), r.ran[d] \div full)
<1>1. r \in State /\ r.position \in Open..Closed /\ Known(r)
  BY TimingIs, Ranges DEF Sane, EndOf, Known, Open
<1>2. Ahead(r.position, d) = 0
  BY Ranges DEF Ahead, EndOf, Open, Direction
<1>3. PICK i \in Nat : i = r.ran[d] \div full
  BY <1>1, TimingIs, QuotientIs DEF State
<1>4. j = 0
  BY <1>2, <1>3 DEF AtMost
<1>5. Toward(r.position, d, 0) = r.position
  BY <1>1, Ranges, NoSteps
<1>6. r.ran \in Timing /\ r.ran[d] \in Nat /\ r.ran[d] - 0 = r.ran[d]
  BY <1>1, TimingIs DEF State
<1>7. TiltGuessed(r) = r /\ m = Shifted(r, d, r.position, r.ran[d])
  <2> HIDE DEF j
  <2> DEFINE left == r.ran[d] - (IF Ahead(r.position, d) = 0 THEN 0 ELSE j * full)
  <2>1. left = r.ran[d]
    BY <1>2, <1>6
  <2> HIDE DEF left
  <2>2. TiltGuessed(r) = r /\ m = Shifted(r, d, Toward(r.position, d, j), left)
    BY <1>1, SimplyMoved DEF j, left
  <2>3. QED
    BY <1>4, <1>5, <2>1, <2>2
<1>8. [r.ran EXCEPT ![d] = r.ran[d]] = r.ran
  BY <1>6 DEF Timing
<1>9. m = r
  <2>1. m = [r EXCEPT !.position = r.position, !.ran = r.ran]
    BY <1>7, <1>8 DEF Shifted
  <2>2. QED
    BY <1>1, <2>1 DEF State
<1> HIDE DEF m, j
<1>10. LostChecked(r, inMove) = r
  BY DEF LostChecked
<1>11. PositionMoved(r, d, full, inMove) \in {r, stop}
  BY <1>1, <1>7, <1>9, <1>10 DEF PositionMoved, m
<1>12. Serves(r, stop) /\ Alike(r, stop)
  BY <1>1, Ranges, SetRelayServes, SetRelayFrees
<1>13. QED
  BY <1>1, <1>11, <1>12, BeforeServes DEF Alike

(* Before the end it moves by the steps of the tick, and goes on.          *)
LEMMA MovesOn ==
  ASSUME NEW r, Sane(r), r.blind = [type |-> "none", time |-> 0], r.margin > 0,
         NEW d \in Direction, NEW n, NEW k, PerTick(n, k), NEW x \in 0..n,
         r.position - 1 = k * x, Known(r), Along(x, n, d) > 0, r.ran[d] = N, NEW inMove
  PROVE  LET s == PositionMoved(r, d, n, inMove)
         IN  /\ Tends(r, s) /\ s.full = r.full /\ s.auto = r.auto /\ s.step = r.step
             /\ Known(s) /\ s.position - 1 = k * Driven(d, x, n)
             /\ s.ran[d] = 0 /\ s.ran[Opposite(d)] = r.ran[Opposite(d)]
<1> DEFINE p == Toward(r.position, d, k)
           m == Moved(r, d, n)
           ran == [r.ran EXCEPT ![d] = 0]
           u == IF m.position # r.position \/ m.tilt # r.tilt THEN StateSaved(m) ELSE m
           s == PositionMoved(r, d, n, inMove)
           j == AtMost(Ahead(r.position, d), r.ran[d] \div n)
<1>1. /\ r \in State /\ r.position \in Open..Closed /\ r.position \in Int
      /\ n \in Nat \ {0} /\ k \in Nat /\ N = k * n
  BY Ranges DEF Sane, Known, State, PerTick, Open, Closed
<1>2. /\ AtMost(Ahead(r.position, d), k) = k /\ p - 1 = k * Driven(d, x, n)
      /\ ~(Ahead(r.position, d) = 0)
  BY <1>1, TickMoves
<1>3. N \div n = k
  BY <1>1, WholeSteps
<1>4. j = k
  BY <1>2, <1>3
<1>5. r.ran \in Timing /\ Opposite(d) # d
  BY <1>1 DEF State, Opposite, Direction, Up, Down
<1> DEFINE left == r.ran[d] - (IF Ahead(r.position, d) = 0 THEN 0 ELSE j * n)
<1> HIDE DEF j
<1>6. TiltGuessed(r) = r /\ m \in State
      /\ m = Shifted(r, d, Toward(r.position, d, j), left)
  BY <1>1, SimplyMoved DEF j
<1>7. left = 0
  BY <1>1, <1>2, <1>4, Ranges
<1> HIDE DEF left
<1>8. m = [r EXCEPT !.position = p, !.ran = ran]
  BY <1>4, <1>6, <1>7 DEF Shifted
<1> HIDE DEF p
<1>9. /\ m.position = p /\ m.ran = ran /\ m.full = r.full /\ m.auto = r.auto
      /\ m.blind = r.blind /\ m.detected = r.detected /\ m.margin = r.margin
      /\ m.flags = r.flags /\ m.task = r.task /\ m.step = r.step
  BY <1>1, <1>8 DEF State
<1>10. p \in Open..Closed
  <2>1. m.position \in Open..Closed
    BY <1>1, MovedTyped
  <2>2. QED
    BY <1>9, <2>1
<1>11. ran[d] = 0 /\ ran[Opposite(d)] = r.ran[Opposite(d)]
  BY <1>5 DEF Timing
<1> HIDE DEF m, ran
<1>12. Tends(r, m)
  BY <1>6, <1>9, UnwrittenTends
<1>13. /\ Tends(r, u) /\ u.ran = m.ran /\ u.position = m.position /\ u.full = m.full
       /\ u.auto = m.auto /\ u.step = m.step /\ u.margin = m.margin
  <2>1. Serves(m, StateSaved(m)) /\ Alike(m, StateSaved(m))
    BY <1>6, SavedServes, SavedAlike
  <2>2. StateSaved(m).margin = m.margin
    BY <1>6 DEF StateSaved, State
  <2>3. QED
    BY <1>12, <2>1, <2>2, ServesTends, TendsTwice DEF Alike
<1> HIDE DEF u
<1>14. u.ran[d] = 0 /\ u.margin > 0 /\ u.margin \in Int
  BY <1>1, <1>9, <1>11, <1>13 DEF State, DefaultMargin
<1>15. ~(u.ran[d] * 100 >= n * N * u.margin)
  <2>1. n * N \in Nat /\ n * N > 0 /\ u.margin \in Nat
    BY <1>1, <1>14, Ranges, TimesPositive
  <2>2. n * N * u.margin \in Nat /\ n * N * u.margin > 0
    BY <1>14, <2>1, TimesPositive
  <2>3. u.ran[d] * 100 = 0
    BY <1>14
  <2>4. QED
    BY <2>2, <2>3
<1>16. s = u
  BY <1>1, <1>6, <1>15 DEF PositionMoved, u, m
<1> HIDE DEF s
<1>17. Known(u)
  BY <1>9, <1>10, <1>13 DEF Known, Open
<1>18. QED
  BY <1>2, <1>9, <1>11, <1>13, <1>16, <1>17 DEF s

(* A motor that runs freely, its time counted.                             *)
Runs(r, d, x, y, inMove, c) ==
  /\ Turns(r, d, x, y, inMove) /\ Cal(c) /\ c.step = 0 /\ Tends(r, c) /\ c.on = r.on
  /\ SameTimes(r, c) /\ c.ran[Opposite(d)] = 0
  /\ ~Known(r) /\ Way(x, d) > 0 => /\ Way(y, d) * N + c.ran[d] <= shutter.travel * N
                                   /\ c.ran[d] <= shutter.travel * N
  /\ Known(r) /\ Way(x, d) > 0 => c.ran[d] = N
Arrives(r, d, y, inMove, s) == Tends(r, s) /\ Arrived(r, d, y, s) /\ Honest(s, inMove)

(* Taking an end for the position writes the position.                     *)
LEMMA AtServes ==
  ASSUME NEW r \in State, NEW end \in 1..Closed
  PROVE  /\ At(r, end) \in State /\ Serves(r, At(r, end))
         /\ Serves(r, StateSaved(At(r, end)))
<1> DEFINE s == At(r, end)
<1>1. s \in State
  BY AtTyped
<1>2. /\ s.ran = r.ran /\ s.blind = r.blind /\ s.detected = r.detected
      /\ s.margin = r.margin /\ s.flags = r.flags /\ s.task = r.task
  BY DEF At, State
<1> HIDE DEF s
<1>3. Serves(r, s) /\ Serves(s, StateSaved(s))
  BY <1>1, <1>2, UnwrittenServes, SavedServes
<1>4. QED
  BY <1>1, <1>3, ServesTwice DEF s

(* Who has no room ahead is at the end.                                    *)
LEMMA EndIs ==
  ASSUME NEW p \in Int, NEW d \in Direction
  PROVE  Ahead(p, d) = 0 <=> p = EndOf(d)
BY Ranges DEF Ahead, EndOf, Open, Direction

(* At the end of the way the end is the position.                          *)
LEMMA EndIsReal ==
  ASSUME Sensing, NEW y \in Places(shutter), NEW d \in Direction, Way(y, d) = 0
  PROVE  Agrees(EndOf(d), y.position, shutter.travel)
<1> DEFINE n == shutter.travel
<1>1. n \in Nat /\ n > 1
  BY WayIs
<1>2. PICK k \in Nat : PerTick(n, k)
  BY <1>1 DEF Sensing, Sensed, Divides, PerTick
<1>3. PICK p \in 0..n : p = y.position
  BY DEF Places
<1>4. Along(p, n, d) = 0
  BY <1>3 DEF Way
<1>5. EndOf(d) - 1 = k * p /\ EndOf(d) \in Int
  <2>1. CASE d = Up
    BY <1>2, <1>4, <2>1, Ranges DEF Along, EndOf, Open, PerTick
  <2>2. CASE d = Down
    <3>1. p = n
      BY <1>1, <1>4, <2>2, Ranges DEF Along
    <3>2. QED
      BY <1>2, <2>2, <3>1, Ranges DEF EndOf, PerTick
  <2>3. QED
    BY <2>1, <2>2 DEF Direction
<1>6. p \in Int
  OBVIOUS
<1> HIDE DEF n
<1>7. Agrees(EndOf(d), p, n)
  BY <1>2, <1>5, <1>6, AgreesIs
<1>8. QED
  BY <1>3, <1>7 DEF n

(* The times that are in force in the direction.                           *)
LEMMA FreeTimes ==
  ASSUME Sensing, NEW r, Cal(r), r.autoCal, Timed(r), NEW full,
         full = IF AutocalEnabled(r) THEN r.auto ELSE r.full, NEW d \in Direction
  PROVE  LET f == IF r.auto[d] > 0 THEN r.auto[d] ELSE full[d]
         IN  /\ f \in {0, shutter.travel}
             /\ Known(r) \/ AutocalDone(r) => f = shutter.travel
<1>1. r.full \in TrueTimes /\ (\A e \in Direction : r.auto[e] \in {0, shutter.travel})
      /\ (AutocalDone(r) => Known(r))
  BY DEF Timed
<1>2. shutter.travel \in Nat /\ shutter.travel > 1
  BY ConstantAssumption DEF Sensing, Sensed, IsShutter
<1>3. r.position # 0 /\ r.full = Zero => AutocalDone(r)
  BY DEF Cal, Based
<1>4. r.full[d] \in {0, shutter.travel} /\ (r.full # Zero => r.full[d] = shutter.travel)
  BY <1>1 DEF TrueTimes, Zero, Direction, Down, Up
<1>5. full[d] \in {0, shutter.travel}
  BY <1>1, <1>4
<1>6. AutocalDone(r) => r.auto[d] > 0
  BY DEF AutocalDone, Direction
<1>7. r.full # Zero => full = r.full
  BY DEF AutocalEnabled
<1>8. QED
  BY <1>1, <1>2, <1>3, <1>4, <1>5, <1>6, <1>7 DEF Known

(* As long as the position is not known, the rest of the way is counted.   *)
LEMMA LostRuns ==
  ASSUME Sensing, NEW r, NEW d \in Direction, NEW x, NEW y, NEW inMove,
         Turns(r, d, x, y, inMove), ~Known(r),
         NEW s, Tends(r, s), s.position = 0, s.full = r.full, s.auto = r.auto,
         s.ran[Opposite(d)] = 0,
         Way(x, d) > 0 => Way(y, d) * N + s.ran[d] <= shutter.travel * N
  PROVE  Arrives(r, d, y, inMove, s)
<1>1. Timed(r) /\ ~AutocalDone(r)
  BY DEF Turns, Timed
<1>2. ~AutocalDone(s) /\ ~Known(s)
  BY <1>1 DEF AutocalDone, Known
<1>3. Way(x, d) > 0 \/ Way(y, d) = 0
  BY TurnsWay
<1>4. s.full \in TrueTimes /\ \A e \in Direction : s.auto[e] \in {0, shutter.travel}
  BY <1>1 DEF Timed
<1>5. QED
  BY <1>2, <1>3, <1>4 DEF Arrives, Arrived, Honest

(* A shutter that is at the end stays there.                               *)
Unseen(inMove) == ~inMove

(* A shutter that was just found at its end stays there.                   *)
LEMMA EndRuns ==
  ASSUME Sensing, NEW r, NEW d \in Direction, NEW x, NEW y, NEW inMove,
         Turns(r, d, x, y, inMove), Unseen(inMove), Way(y, d) = 0,
         NEW k, Sane(k), Tends(r, k), ~k.buttonReq, k.step = 0, k.position = EndOf(d),
         k.full \in TrueTimes, \A e \in Direction : k.auto[e] \in {0, shutter.travel},
         k.ran[Opposite(d)] = 0
  PROVE  LET s == PositionMoved(k, d, shutter.travel, inMove)
         IN  Arrives(r, d, y, inMove, s) /\ s.step = 0
<1> DEFINE n == shutter.travel
           s == PositionMoved(k, d, n, inMove)
<1>1. Timed(r) /\ y \in Places(shutter)
  BY DEF Turns
<1>2. n \in Nat \ {0}
  BY TurnsWay
<1>3. k.blind = [type |-> "none", time |-> 0]
  BY <1>1 DEF Tends, Timed
<1>4. Agrees(EndOf(d), y.position, n)
  BY <1>1, EndIsReal
<1> HIDE DEF n
<1>5. Serves(k, s) /\ Alike(k, s)
  BY <1>2, <1>3, EndStays DEF Unseen
<1> HIDE DEF s
<1>6. Tends(r, s)
  BY <1>5, ServesTends, TendsTwice
<1>7. /\ s.position = EndOf(d) /\ s.full = k.full /\ s.auto = k.auto /\ s.ran = k.ran
      /\ s.step = 0 /\ Known(s)
  BY <1>5, Ranges DEF Alike, Known, EndOf, Open, Closed
<1>8. Arrived(r, d, y, s)
  BY <1>1, <1>2, <1>4, <1>7 DEF Arrived, n
<1>9. QED
  BY <1>6, <1>7, <1>8 DEF Arrives, Honest, Unseen, s, n

(* A known position moves as the shutter does.                             *)
LEMMA KnownRuns ==
  ASSUME Sensing, NEW r, NEW d \in Direction, NEW x, NEW y, NEW inMove, NEW c,
         Runs(r, d, x, y, inMove, c), Known(r), Way(x, d) > 0
  PROVE  Arrives(r, d, y, inMove, PositionMoved(c, d, shutter.travel, inMove))
<1> DEFINE n == shutter.travel
           s == PositionMoved(c, d, n, inMove)
<1>1. /\ Turns(r, d, x, y, inMove) /\ c.ran[Opposite(d)] = 0 /\ c.ran[d] = N
      /\ Timed(r) /\ Silent(r) /\ Located(r, x) /\ x \in Places(shutter)
      /\ y.position = Driven(d, x.position, n) /\ (r.full = Zero => r.detected)
      /\ Cal(c) /\ Tends(r, c) /\ c.position = r.position /\ c.full = r.full
      /\ c.auto = r.auto
  BY DEF Runs, Turns, SameTimes
<1>2. n \in Nat /\ n > 1
  BY <1>1, TurnsWay
<1>3. PICK k \in Nat : PerTick(n, k)
  BY <1>2 DEF Sensing, Sensed, Divides, PerTick
<1>4. PICK p \in 0..n : p = x.position
  BY <1>1 DEF Places
<1>5. Sane(c) /\ c.blind = [type |-> "none", time |-> 0] /\ c.margin > 0
  BY <1>1 DEF Cal, Tends, Timed, Silent
<1>6. c.position \in Int /\ Known(c)
  BY <1>1, <1>5, Ranges DEF Sane, State, Known, Closed
<1>7. Agrees(c.position, p, n)
  BY <1>1, <1>4 DEF Located
<1>8. p \in Int /\ Along(p, n, d) > 0
  BY <1>4 DEF Way
<1> HIDE DEF n
<1>9. c.position - 1 = k * p
  BY <1>3, <1>6, <1>7, <1>8, AgreesIs
<1>10. /\ Tends(c, s) /\ s.full = c.full /\ s.auto = c.auto /\ s.step = c.step
       /\ Known(s) /\ s.position - 1 = k * Driven(d, p, n)
       /\ s.ran[d] = 0 /\ s.ran[Opposite(d)] = c.ran[Opposite(d)]
  BY <1>1, <1>3, <1>4, <1>5, <1>6, <1>8, <1>9, MovesOn
<1> HIDE DEF s
<1>11. s \in State /\ s.position \in Int /\ s.ran \in Timing
  BY <1>10, Ranges DEF Tends, State, Closed
<1>12. Driven(d, p, n) \in Int
  BY <1>2, <1>4, DrivenIs
<1>13. Agrees(s.position, y.position, n)
  BY <1>1, <1>3, <1>4, <1>10, <1>11, <1>12, AgreesIs
<1>14. s.ran = Zero
  <2>1. s.ran[Up] = 0 /\ s.ran[Down] = 0
    BY <1>1, <1>10 DEF Direction, Opposite
  <2>2. QED
    BY <1>11, <2>1 DEF Timing, Direction, Zero, Up, Down
<1>15. s.full \in TrueTimes /\ \A e \in Direction : s.auto[e] \in {0, n}
  BY <1>1, <1>10 DEF Timed, n
<1>16. Arrived(r, d, y, s)
  BY <1>1, <1>10, <1>13, <1>15 DEF Arrived, n
<1>17. QED
  BY <1>1, <1>10, <1>14, <1>16, TendsTwice DEF Arrives, Honest, s, n

(* A run with given times writes the position.                             *)
LEMMA CalibratedServes ==
  ASSUME NEW r \in State, NEW d \in Direction, NEW full
  PROVE  Serves(r, Calibrated(r, d, full))
<1> DEFINE v == r.flags \cup {"InProgress"}
           g == [r EXCEPT !.flags = v]
           k == Calibrated(r, d, full)
<1>1. v \in SUBSET Flags /\ v \subseteq r.flags \cup {"InProgress"}
  BY DEF State, Flags
<1>2. Serves(r, g)
  BY <1>1, FieldServes
<1>3. g \in State
  BY <1>2 DEF Serves
<1>4. Serves(r, r)
  BY BeforeServes
<1>5. k \in {r, Voided(g), StateSaved(At(g, EndOf(d)))}
  BY DEF Calibrated
<1> HIDE DEF g, k
<1>6. Serves(g, Voided(g))
  BY <1>3, VoidedServes
<1>7. EndOf(d) \in 1..Closed
  BY Ranges DEF EndOf
<1>8. Serves(g, StateSaved(At(g, EndOf(d))))
  BY <1>3, <1>7, AtServes
<1>9. Serves(r, k)
  BY <1>2, <1>4, <1>5, <1>6, <1>8, ServesTwice
<1>10. QED
  BY <1>9 DEF k

(* The run of a motor that is not calibrated.                              *)
LEMMA FreeArrives ==
  ASSUME Sensing, NEW r, NEW d \in Direction, NEW x, NEW y, NEW inMove, NEW c,
         Runs(r, d, x, y, inMove, c), NEW full \in Timing,
         full = IF AutocalEnabled(r) THEN r.auto ELSE r.full
  PROVE  LET f == InForce(c, full)[d]
         IN  Arrives(r, d, y, inMove, PositionMoved(Calibrated(c, d, f), d, f, inMove))
<1> DEFINE n == shutter.travel
           f == InForce(c, full)[d]
           k == Calibrated(c, d, f)
           s == PositionMoved(k, d, f, inMove)
<1>1. /\ Turns(r, d, x, y, inMove) /\ Cal(r) /\ r.autoCal /\ Timed(r)
      /\ Cal(c) /\ Sane(c) /\ Based(c) /\ c \in State /\ c.step = 0 /\ Tends(r, c)
      /\ c.position = r.position /\ c.full = r.full /\ c.auto = r.auto /\ ~c.buttonReq
  BY DEF Runs, Turns, SameTimes, Cal, Sane, Based
<1>2. n \in Nat /\ n > 1 /\ N \in Nat /\ N >= 1
  BY <1>1, TurnsWay, Ranges
<1>3. f = IF r.auto[d] > 0 THEN r.auto[d] ELSE full[d]
  BY <1>1, InForceOf
<1>4. f \in {0, n} /\ (Known(r) => f = n)
  BY <1>1, <1>3, FreeTimes
<1> HIDE DEF f
<1>5. f \in Nat
  BY <1>2, <1>4
<1>6. /\ Sane(k) /\ k.full = c.full /\ k.auto = c.auto
      /\ k.step = c.step /\ k.ran = c.ran /\ k.buttonReq = c.buttonReq
      /\ Known(c) \/ f = 0 => k = c
      /\ f # 0 /\ ~Known(c) /\ ~Beyond(c.ran[d], f) => k.position = 0
  BY <1>1, CalibratedIs
<1>7. Tends(r, k)
  BY <1>1, CalibratedServes, ServesTends, TendsTwice
<1>8. ~Known(k) \/ f = 0 => s = k
  BY DEF PositionMoved
<1>9. Known(c) <=> Known(r)
  BY <1>1 DEF Known
<1>10. /\ k.full \in TrueTimes /\ \A e \in Direction : k.auto[e] \in {0, n}
       /\ k.ran[Opposite(d)] = 0 /\ k.step = 0 /\ ~k.buttonReq
       /\ Way(x, d) = 0 => Unseen(inMove) /\ Way(y, d) = 0
  <2>1. Way(x, d) = 0 => Unseen(inMove)
    BY <1>1 DEF Turns, Unseen
  <2>2. Way(x, d) = 0 => Way(y, d) = 0
    BY <1>1, TurnsWay
  <2>3. c.ran[Opposite(d)] = 0
    BY DEF Runs
  <2>4. QED
    BY <1>1, <1>6, <2>1, <2>2, <2>3 DEF Timed
<1>11. ASSUME ~Known(r), k.position = 0 PROVE Arrives(r, d, y, inMove, s)
  <2>1. /\ c.ran[Opposite(d)] = 0
        /\ Way(x, d) > 0 => Way(y, d) * N + c.ran[d] <= n * N
    BY <1>11 DEF Runs
  <2>2. s = k
    BY <1>8, <1>11 DEF Known
  <2>3. QED
    BY <1>1, <1>6, <1>7, <1>11, <2>1, <2>2, LostRuns
<1>12. ASSUME ~Known(r), k.position # 0 PROVE Arrives(r, d, y, inMove, s)
  <2>1. f = n /\ Beyond(c.ran[d], n) /\ ~Known(c)
    BY <1>1, <1>4, <1>6, <1>9, <1>12 DEF Known
  <2>2. Way(x, d) = 0
    <3>1. Way(x, d) > 0 => c.ran[d] <= n * N
      BY <1>12 DEF Runs
    <3>2. n * N \in Nat /\ n * N > 0
      BY <1>2, TimesPositive
    <3>3. n * N * 11 = 11 * (n * N)
      BY <3>2
    <3>4. c.ran[d] \in Nat
      BY <1>1, TimingIs DEF State
    <3>5. c.ran[d] * 10 >= n * N * 11
      BY <2>1 DEF Beyond
    <3>6. ~(Way(x, d) > 0)
      BY <3>1, <3>2, <3>3, <3>4, <3>5
    <3>7. Way(x, d) \in 0..n
      BY <1>1, TurnsWay
    <3>8. QED
      BY <1>2, <3>6, <3>7
  <2>3. k.position = EndOf(d)
    <3> DEFINE g == [c EXCEPT !.flags = @ \cup {"InProgress"}]
    <3>1. k = StateSaved(At(g, EndOf(d)))
      BY <1>2, <1>9, <1>12, <2>1 DEF Calibrated
    <3>2. g \in State
      BY <1>1 DEF State, Flags
    <3>3. QED
      BY <3>1, <3>2 DEF StateSaved, At, State
  <2>4. s = PositionMoved(k, d, n, inMove)
    BY <2>1
  <2>5. QED
    BY <1>1, <1>6, <1>7, <1>10, <2>2, <2>3, <2>4, EndRuns
<1>13. ASSUME Known(r) PROVE Arrives(r, d, y, inMove, s)
  <2>1. k = c /\ f = n
    BY <1>4, <1>6, <1>9, <1>13
  <2>2. CASE Way(x, d) > 0
    BY <1>13, <2>1, <2>2, KnownRuns
  <2>3. CASE ~(Way(x, d) > 0)
    <3>1. Way(x, d) = 0 /\ x \in Places(shutter) /\ Located(r, x)
      <4>1. Way(x, d) \in 0..n
        BY <1>1, TurnsWay
      <4>2. QED
        BY <1>1, <1>2, <2>3, <4>1 DEF Turns
    <3>2. c.position = EndOf(d)
      <4>1. PICK j \in Nat : PerTick(n, j)
        BY <1>2 DEF Sensing, Sensed, Divides, PerTick
      <4>2. PICK p \in 0..n : p = x.position
        BY <3>1 DEF Places
      <4>3. c.position \in Int /\ Agrees(c.position, p, n) /\ p \in Int
        BY <1>1, <1>13, <3>1, <4>2, Ranges DEF Located, State, Closed
      <4>4. Along(p, n, d) = 0
        BY <3>1, <4>2 DEF Way
      <4> HIDE DEF n
      <4>5. c.position - 1 = j * p
        BY <4>1, <4>3, AgreesIs
      <4>6. Ahead(c.position, d) = 0
        BY <4>1, <4>2, <4>3, <4>4, <4>5, TickMoves
      <4>7. QED
        BY <4>3, <4>6, EndIs
    <3>3. QED
      BY <1>1, <1>6, <1>7, <1>10, <2>1, <3>1, <3>2, EndRuns
  <2>4. QED
    BY <2>2, <2>3
<1> HIDE DEF s
<1>14. Arrives(r, d, y, inMove, s)
  BY <1>11, <1>12, <1>13
<1>15. QED
  BY <1>14 DEF s, k, f

(* The timer of a motor that is not calibrated.                            *)
LEMMA FreeRunSenses ==
  ASSUME Sensing, NEW r, NEW d \in Direction, NEW x, NEW y, NEW inMove,
         Turns(r, d, x, y, inMove), r.step = 0, NEW full \in Timing,
         full = IF AutocalEnabled(r) THEN r.auto ELSE r.full
  PROVE  LET s == Running(r, d, full, inMove)
         IN  Senses(s, y) /\ Honest(s, inMove) /\ s.step = 0
<1> DEFINE a == RanOn(r, d)
           c == Autocalibrated(a, inMove)
           f == InForce(c, full)[d]
           s == PositionMoved(Calibrated(c, d, f), d, f, inMove)
<1>1. Cal(r) /\ r \in State /\ Good(r) /\ d \in r.on
  BY DEF Turns, Cal, Sane
<1>2. MotorChecked(a, d, inMove) = a
  BY TurnsUnalarmed
<1>3. Running(r, d, full, inMove) = s
  BY <1>2 DEF Running, RanOn
<1>4. /\ a.ran[Opposite(d)] = 0
      /\ ~Known(r) /\ Way(x, d) > 0 => /\ Way(y, d) * N + a.ran[d] <= shutter.travel * N
                                       /\ a.ran[d] <= shutter.travel * N
      /\ Known(r) /\ Way(x, d) > 0 => a.ran[d] = N
  BY TurnsRun
<1>5. /\ Cal(a) /\ a.position = r.position /\ a.full = r.full /\ a.auto = r.auto
      /\ a.step = r.step /\ a.on = r.on /\ a.autoCal = r.autoCal
  BY <1>1, RanOnKeeps
<1>6. Tends(r, a)
  BY <1>1, RanOnTends
<1> HIDE DEF a
<1>7. Sane(c) /\ Marked(a, c) /\ Serves(a, c)
  <2>1. a \in State /\ a.flags \in SUBSET Flags /\ Sane(a)
    BY <1>5 DEF Cal, Sane, State
  <2>2. PICK v \in SUBSET Flags : v = a.flags \ {"InProgress"}
    BY <2>1
  <2>3. c = [a EXCEPT !.flags = v]
    BY <1>5, <2>1, <2>2 DEF Autocalibrated, State
  <2>4. v \subseteq a.flags \cup {"InProgress"}
    BY <2>2
  <2>5. Serves(a, [a EXCEPT !.flags = v])
    BY <2>1, <2>4, FieldServes
  <2>6. LET t == [a EXCEPT !.flags = v] IN Sane(t) /\ Marked(a, t)
    BY <2>1, FlagsMarked
  <2>7. QED
    BY <2>3, <2>5, <2>6
<1> HIDE DEF c
<1>8. Runs(r, d, x, y, inMove, c)
  <2>1. Cal(c)
    BY <1>5, <1>7, MarkedKeeps
  <2>2. Tends(r, c) /\ c.ran = a.ran
    BY <1>6, <1>7, ServesTends, TendsTwice
  <2>3. c.step = 0 /\ c.on = r.on /\ SameTimes(r, c)
    BY <1>5, <1>7 DEF Marked, Alike, SameTimes
  <2>4. QED
    BY <1>4, <2>1, <2>2, <2>3 DEF Runs
<1>9. Arrives(r, d, y, inMove, s)
  BY <1>8, FreeArrives
<1>10. s.step = 0
  <2>1. Cal(c) /\ c.step = 0 /\ d \in c.on /\ c.full = a.full /\ c.auto = a.auto
        /\ c.autoCal = a.autoCal
    BY <1>1, <1>7, <1>8 DEF Runs, Marked, Alike
  <2>2. full = IF AutocalEnabled(c) THEN c.auto ELSE c.full
    BY <1>5, <2>1 DEF AutocalEnabled
  <2>3. QED
    BY <2>1, <2>2, FreeRun
<1>11. Good(s) /\ Leads(r, s)
  BY <1>1, <1>3, RunningSound DEF Sound, Safe
<1> HIDE DEF s
<1>12. Senses(s, y)
  BY <1>9, <1>11, TurnsSensed DEF Arrives
<1>13. QED
  BY <1>3, <1>9, <1>10, <1>12 DEF Arrives

(* The end of a direction is reached, and the measured time is no shorter  *)
(* than the shortest that is accepted: calibration goes on.                *)
LEMMA EndMeasures ==
  ASSUME NEW r, Calibrates(r), NEW took \in Nat, took = r.ran[StepDirection(r.step)] \div N,
         r.step # 1 => took >= MinTime
  PROVE  LET s == EndReached(r)
         IN  /\ Serves(r, s) /\ Cal(s) /\ s.full = Zero
             /\ r.step = 1 => s.step = 2 /\ s.position = 0 /\ s.auto = r.auto
             /\ r.step = 2 => /\ s.step = 3 /\ s.position = 0
                              /\ s.auto = [r.auto EXCEPT ![Down] = took]
             /\ r.step = 3 => /\ s.step = 0 /\ s.position = Open
                              /\ s.auto = [r.auto EXCEPT ![Up] = took]
<1> DEFINE s == EndReached(r)
<1>1. /\ r \in State /\ r.step \in 1..3 /\ Cal(r) /\ r.full = Zero /\ Measured(r)
      /\ r.step = 2 => Whole(r.ran[Down])
  BY DEF Calibrates, Cal, Sane, State, Steady, AutocalEnabled
<1>2. r.auto \in Timing /\ MinTime \in Nat \ {0}
  BY <1>1, ConstantAssumption DEF State
<1>3. ASSUME NEW z, Serves(r, z), NEW value \in Request
      PROVE  Serves(r, SetRelay(Ready(z), value, FALSE, 0))
  <2> DEFINE y == Ready(z)
  <2>1. z \in State
    BY <1>3 DEF Serves
  <2>2. Serves(z, y)
    BY <2>1, FieldServes DEF Ready
  <2> HIDE DEF y
  <2>3. y \in State
    BY <2>2 DEF Serves
  <2>4. Serves(y, SetRelay(y, value, FALSE, 0))
    BY <2>3, SetRelayServes
  <2>5. QED
    BY <1>3, <2>2, <2>4, ServesTwice DEF y
<1>4. ASSUME NEW step \in 2..3, NEW auto \in Timing, Expected(r, step, auto),
             s = SetRelay(Ready(Stepped(r, step, auto)), StepDirection(step), FALSE, 0)
      PROVE  /\ Serves(r, s) /\ Cal(s) /\ s.full = Zero /\ s.step = step /\ s.position = 0
             /\ s.auto = auto
  <2> DEFINE d == StepDirection(step)
             u == SetRelay(Ready(Stepped(r, step, auto)), d, FALSE, 0)
  <2>1. Serves(r, Stepped(r, step, auto))
    <3>1. step \in 0..3
      OBVIOUS
    <3>2. QED
      BY <1>1, <3>1, FieldServes
  <2>2. d \in Request
    BY Ranges DEF StepDirection
  <2>3. /\ Cal(u) /\ u.position = 0 /\ u.auto = auto /\ u.full = Zero
        /\ u.step = step
    <3> HIDE DEF s
    <3>1. Expected(r, step, auto)
      BY <1>4
    <3>2. QED
      BY <3>1, NextDirection, ZenonT(60)
  <2> HIDE DEF d
  <2>4. Serves(r, u)
    BY <1>3, <2>1, <2>2
  <2>5. s = u
    BY <1>4 DEF d
  <2> HIDE DEF s, u
  <2>6. QED
    BY <2>3, <2>4, <2>5
<1>5. CASE r.step = 1
  <2>1. r.auto = Zero /\ Whole(r.ran[Down])
    <3>1. r.ran[Down] = 0 * N /\ 0 \in Nat
      BY <1>5, Ranges DEF Calibrates
    <3>2. QED
      BY <1>1, <1>5, <3>1 DEF Measured, Whole
  <2>2. [r EXCEPT !.step = 2] = Stepped(r, 2, r.auto)
    BY <1>1 DEF Stepped, State
  <2>3. s = SetRelay(Ready(Stepped(r, 2, r.auto)), StepDirection(2), FALSE, 0)
    BY <1>5, <2>2 DEF EndReached, StepDirection
  <2>4. 2 \in 2..3 /\ Expected(r, 2, r.auto)
    BY <2>1 DEF Expected
  <2> HIDE DEF s
  <2>5. /\ Serves(r, s) /\ Cal(s) /\ s.full = Zero /\ s.step = 2 /\ s.position = 0
        /\ s.auto = r.auto
    BY <1>2, <1>4, <2>3, <2>4
  <2>6. QED
    BY <1>5, <2>5 DEF s
<1>6. CASE r.step = 2
  <2>1. PICK auto \in Timing : auto = [r.auto EXCEPT ![Down] = took]
    BY <1>1, MeasuredTyped
  <2>2. auto[Down] = took /\ auto[Up] = 0
    <3>1. r.auto = Zero
      BY <1>1, <1>6 DEF Measured
    <3>2. QED
      BY <2>1, <3>1 DEF Zero, Up, Down
  <2>3. [r EXCEPT !.step = 3, !.auto[Down] = took] = Stepped(r, 3, auto)
    BY <1>1, <2>1 DEF Stepped, State
  <2>4. s = SetRelay(Ready(Stepped(r, 3, auto)), StepDirection(3), FALSE, 0)
    <3>1. StepDirection(3) = Up
      BY DEF StepDirection
    <3>2. ~(took < MinTime)
      BY <1>2, <1>6
    <3>3. s = SetRelay(Ready([r EXCEPT !.step = 3, !.auto[Down] = took]), Up, FALSE, 0)
      BY <1>6, <3>2 DEF EndReached
    <3>4. QED
      BY <2>3, <3>1, <3>3
  <2>5. 3 \in 2..3 /\ Expected(r, 3, auto)
    BY <1>2, <1>6, <2>2 DEF Expected
  <2> HIDE DEF s
  <2>6. /\ Serves(r, s) /\ Cal(s) /\ s.full = Zero /\ s.step = 3 /\ s.position = 0
        /\ s.auto = auto
    BY <1>4, <2>4, <2>5
  <2>7. QED
    BY <1>6, <2>1, <2>6 DEF s
<1>7. CASE r.step = 3
  <2>1. PICK auto \in Timing : auto = [r.auto EXCEPT ![Up] = took]
    BY <1>1, MeasuredTyped
  <2>2. auto[Down] > 0 /\ auto[Up] > 0
    <3>1. r.auto[Down] > 0 /\ took > 0
      BY <1>1, <1>2, <1>7 DEF Measured
    <3>2. QED
      BY <1>2, <2>1, <3>1 DEF Timing, Direction, Up, Down
  <2> DEFINE flags == r.flags \ {"InProgress"}
             z == Ended(r, auto, flags)
             w == CfgSaved(StateSaved(At(z, Open)))
  <2>3. [r EXCEPT !.step = 0, !.auto[Up] = took, !.flags = @ \ {"InProgress"}] = z
    BY <1>1, <2>1 DEF Ended, State
  <2>4. s = SetRelay(Ready(w), Off, FALSE, 0)
    <3>1. ~(took < MinTime)
      BY <1>2, <1>7
    <3>2. s = SetRelay(Ready(CfgSaved(StateSaved(At(
                [r EXCEPT !.step = 0, !.auto[Up] = took, !.flags = @ \ {"InProgress"}],
                Open)))), Off, FALSE, 0)
      BY <1>7, <3>1 DEF EndReached
    <3> HIDE DEF s
    <3>3. QED
      BY <2>3, <3>2
  <2>5. /\ Cal(s) /\ s.position = Open /\ s.auto = auto /\ s.full = Zero /\ s.step = 0
    <3> HIDE DEF s
    <3>1. QED
      BY <1>7, <2>2, <2>4, LastDirection
  <2>6. Serves(r, w)
    <3>1. flags \in SUBSET Flags
      BY <1>1 DEF State
    <3>2. z \in State
      BY <1>1, <3>1, StepEnded
    <3>3. /\ z.ran = r.ran /\ z.blind = r.blind /\ z.detected = r.detected
          /\ z.margin = r.margin /\ z.flags = flags /\ z.task = r.task
      BY <1>1 DEF Ended, State
    <3> HIDE DEF z
    <3>4. Serves(r, z)
      BY <3>2, <3>3 DEF Serves, Heads
    <3>5. At(z, Open) \in State /\ Serves(z, StateSaved(At(z, Open)))
      BY <3>2, Ranges, AtServes
    <3> DEFINE v == StateSaved(At(z, Open))
    <3> HIDE DEF v
    <3>6. v \in State /\ Serves(z, v)
      BY <3>5 DEF v, Serves
    <3>7. Serves(v, CfgSaved(v))
      BY <3>6, SavedServes
    <3>8. QED
      BY <3>4, <3>6, <3>7, ServesTwice DEF v
  <2> HIDE DEF w, s
  <2>7. Serves(r, s)
    BY <1>3, <2>4, <2>6, Ranges
  <2>8. QED
    BY <1>7, <2>1, <2>5, <2>7 DEF s
<1>8. QED
  BY <1>1, <1>5, <1>6, <1>7

(* A motor that is calibrated, its time counted.                           *)
Steps(r, d, x, y, inMove, g) ==
  /\ Turns(r, d, x, y, inMove) /\ r.step > 0 /\ d = StepDirection(r.step)
  /\ Calibrates(g) /\ Tends(r, g) /\ SameTimes(r, g) /\ g.step = r.step /\ g.on = r.on
  /\ g.ran[d] \in Nat /\ g.ran[Opposite(d)] = 0
  /\ Way(x, d) > 0 => /\ Way(y, d) * N + g.ran[d] <= shutter.travel * N
                      /\ g.ran[d] <= shutter.travel * N
  /\ r.step > 1 => g.ran[d] = (shutter.travel - Way(y, d)) * N

(* Until the end is reached calibration goes on.                           *)
LEMMA StepRuns ==
  ASSUME Sensing, NEW r, NEW d \in Direction, NEW x, NEW y, NEW inMove, NEW g,
         Steps(r, d, x, y, inMove, g), r.step > 1 => Way(y, d) > 0
  PROVE  Arrives(r, d, y, inMove, g) /\ Measuring(g, y)
<1>1. /\ Turns(r, d, x, y, inMove) /\ r.step > 0 /\ d = StepDirection(r.step)
      /\ Calibrates(g) /\ Tends(r, g) /\ g.step = r.step /\ g.on = r.on /\ g.full = r.full
      /\ g.auto = r.auto /\ g.position = r.position /\ g.ran[Opposite(d)] = 0
      /\ Way(x, d) > 0 => Way(y, d) * N + g.ran[d] <= shutter.travel * N
      /\ r.step > 1 => g.ran[d] = (shutter.travel - Way(y, d)) * N
  BY DEF Steps, SameTimes
<1>2. g.position = 0 /\ ~Known(r) /\ g.full = Zero
  BY <1>1 DEF Calibrates, Cal, Based, AutocalEnabled, Known
<1>3. Arrives(r, d, y, inMove, g)
  BY <1>1, <1>2, LostRuns
<1>4. Measuring(g, y)
  <2>1. /\ r.on = {d} /\ g.detected = r.detected
        /\ r.full = Zero /\ Way(x, d) > 0 /\ r.step > 1 => r.detected
        /\ r.step > 1 => Way(x, d) > 0
    BY <1>1 DEF Turns, Tends
  <2>2. QED
    BY <1>1, <1>2, <2>1 DEF Measuring
<1>5. QED
  BY <1>3, <1>4

(* When it is, the motor stands for a while.                               *)
LEMMA StepTurns ==
  ASSUME Sensing, NEW r, NEW d, NEW x, NEW y, NEW inMove,
         Turns(r, d, x, y, inMove), d = StepDirection(r.step), r.step \in 1..2,
         Way(y, d) = 0, NEW s, s.step = r.step + 1, Drives(s, StepDirection(s.step)),
         Leads(r, s), s.ran[Opposite(d)] = 0
  PROVE  Measuring(s, y)
<1>1. d \in Direction /\ StepDirection(s.step) = Opposite(d) /\ Opposite(d) # d
  BY Ranges DEF StepDirection, Opposite
<1>2. /\ Way(y, Opposite(d)) = shutter.travel - 0
      /\ shutter.travel \in Nat /\ shutter.travel > 1
  BY <1>1, TurnsWay
<1>3. r.on = {d}
  BY DEF Turns
<1>4. s.on = {}
  BY <1>1, <1>3 DEF Leads, SameDrive, Drives
<1>5. PICK n \in Nat : n = shutter.travel /\ n > 1
  BY <1>2
<1>6. (n - n) * N = 0
  BY <1>5, Ranges
<1>7. QED
  BY <1>1, <1>2, <1>4, <1>5, <1>6 DEF Measuring

(* The tick in which the end is reached.                                   *)
LEMMA StepEnds ==
  ASSUME Sensing, NEW r, NEW d \in Direction, NEW x, NEW y, NEW inMove, NEW g,
         Steps(r, d, x, y, inMove, g), Unseen(inMove)
  PROVE  LET c == EndReached(g)
             f == InForce(c, r.auto)[d]
             s == PositionMoved(Calibrated(c, d, f), d, f, inMove)
         IN  Leads(r, s) => Arrives(r, d, y, inMove, s) /\ Measuring(s, y)
<1> DEFINE n == shutter.travel
           c == EndReached(g)
           f == InForce(c, r.auto)[d]
           k == Calibrated(c, d, f)
           s == PositionMoved(k, d, f, inMove)
<1>1. /\ Turns(r, d, x, y, inMove) /\ r.step > 0 /\ d = StepDirection(r.step)
      /\ Calibrates(g) /\ Tends(r, g) /\ g.step = r.step /\ g.full = r.full
      /\ g.auto = r.auto /\ g.position = r.position /\ g.ran[Opposite(d)] = 0
      /\ g.ran[d] \in Nat /\ (r.step > 1 => g.ran[d] = (n - Way(y, d)) * N)
  BY DEF Steps, SameTimes
<1>2. Timed(r) /\ Way(y, d) = 0
  BY <1>1 DEF Turns, Unseen
<1>3. /\ n \in Nat /\ n > 1 /\ MinTime \in Nat \ {0} /\ MinTime <= n
  BY <1>1, TurnsWay, ConstantAssumption DEF Sensing, Sensed
<1>4. /\ g \in State /\ g.step \in 1..3 /\ Measured(g) /\ g.auto \in Timing
      /\ g.full = Zero /\ g.position = 0 /\ g.autoCal
  BY <1>1 DEF Calibrates, Cal, Sane, State, Steady, AutocalEnabled, Based
<1>5. PICK took \in Nat : took = g.ran[StepDirection(g.step)] \div N
                          /\ (r.step > 1 => took = n)
  <2>1. g.ran[d] \div N \in Nat
    BY <1>1, Ranges, QuotientIs
  <2>2. r.step > 1 => g.ran[d] = n * N
    BY <1>1, <1>2, <1>3
  <2>3. (n * N) \div N = n
    BY <1>3, Ranges
  <2>4. QED
    BY <1>1, <2>1, <2>2, <2>3
<1> HIDE DEF n
<1>6. g.step # 1 => took >= MinTime
  BY <1>1, <1>3, <1>4, <1>5
<1>7. /\ Serves(g, c) /\ Cal(c) /\ c.full = Zero
      /\ g.step = 1 => c.step = 2 /\ c.position = 0 /\ c.auto = g.auto
      /\ g.step = 2 => /\ c.step = 3 /\ c.position = 0
                       /\ c.auto = [g.auto EXCEPT ![Down] = took]
      /\ g.step = 3 => /\ c.step = 0 /\ c.position = Open
                       /\ c.auto = [g.auto EXCEPT ![Up] = took]
  BY <1>1, <1>5, <1>6, EndMeasures
<1> HIDE DEF c
<1>8. /\ Sane(c) /\ c \in State /\ c.ran = g.ran /\ Tends(r, c) /\ ~c.buttonReq
      /\ c.ran[Opposite(d)] = 0
  BY <1>1, <1>7, ServesTends, TendsTwice DEF Cal, Sane, Based
<1>9. f = IF c.auto[d] > 0 THEN c.auto[d] ELSE g.auto[d]
  BY <1>1, InForceOf
<1>10. Zero \in TrueTimes /\ c.full \in TrueTimes
  BY <1>7 DEF TrueTimes
<1>11. /\ Sane(k) /\ k.full = c.full /\ k.auto = c.auto
       /\ k.step = c.step /\ k.ran = c.ran /\ k.on = c.on
       /\ k.trigger = c.trigger
       /\ Known(c) \/ f = 0 => k = c
       /\ f # 0 /\ ~Known(c) /\ ~Beyond(c.ran[d], f) => k.position = 0
  BY <1>8, CalibratedIs
<1>12. ~Known(k) \/ f = 0 => s = k
  BY DEF PositionMoved
<1> HIDE DEF s
<1>13. ASSUME Leads(r, s), r.step = 1 PROVE Arrives(r, d, y, inMove, s) /\ Measuring(s, y)
  <2>1. c.auto = Zero /\ d = Up /\ c.position = 0 /\ c.step = 2
    BY <1>1, <1>4, <1>7, <1>13 DEF Measured, StepDirection
  <2>2. f = 0
    BY <1>1, <1>4, <1>9, <1>13, <2>1 DEF Measured, Zero, Up, Down
  <2>3. s = c
    BY <1>11, <1>12, <2>2
  <2>4. Drives(c, StepDirection(c.step))
    BY <1>7, <2>1 DEF Cal, Steady
  <2>5. Measuring(s, y)
    <3>1. r.step \in 1..2 /\ c.step = r.step + 1
      BY <1>13, <2>1
    <3>2. QED
      BY <1>1, <1>2, <1>8, <1>13, <2>3, <2>4, <3>1, StepTurns
  <2>6. Arrived(r, d, y, s)
    BY <1>2, <1>8, <1>10, <2>1, <2>3
       DEF Arrived, AutocalDone, Known, Zero, Direction, Up, Down
  <2>7. ~AutocalDone(s)
    BY <2>1, <2>3 DEF AutocalDone, Zero, Up, Down
  <2>8. QED
    BY <1>8, <2>3, <2>5, <2>6, <2>7 DEF Arrives, Honest
<1>14. ASSUME Leads(r, s), r.step = 2 PROVE Arrives(r, d, y, inMove, s) /\ Measuring(s, y)
  <2>1. g.auto = Zero /\ d = Down /\ c.position = 0 /\ c.step = 3 /\ took = n
        /\ c.auto = [g.auto EXCEPT ![Down] = n]
    BY <1>1, <1>4, <1>5, <1>7, <1>14 DEF Measured, StepDirection
  <2>2. c.auto[Down] = n /\ c.auto[Up] = 0
    BY <2>1 DEF Zero, Up, Down
  <2>3. f = n
    BY <1>3, <1>9, <2>1, <2>2
  <2>4. ~Beyond(c.ran[d], f)
    <3>1. c.ran[d] = n * N /\ (n * N) \div N = n
      BY <1>1, <1>2, <1>3, <1>8, <1>14, Ranges
    <3>2. Whole(n * N)
      BY <1>3 DEF Whole
    <3>3. ~Beyond(n * N, n)
      BY <1>3, <3>1, <3>2, NotBeyond
    <3>4. QED
      BY <2>3, <3>1, <3>3
  <2>5. k.position = 0 /\ s = k
    BY <1>3, <1>11, <1>12, <2>1, <2>3, <2>4 DEF Known
  <2>6. Drives(k, StepDirection(k.step))
    BY <1>7, <1>11, <2>1 DEF Cal, Steady, Drives
  <2>7. Measuring(s, y)
    <3>1. r.step \in 1..2 /\ k.step = r.step + 1
      BY <1>11, <1>14, <2>1
    <3>2. QED
      BY <1>1, <1>2, <1>8, <1>11, <1>14, <2>5, <2>6, <3>1, StepTurns
  <2>8. Tends(r, k)
    BY <1>8, CalibratedServes, ServesTends, TendsTwice
  <2>9. Arrived(r, d, y, s)
    <3>1. \A e \in Direction : s.auto[e] \in {0, n}
      BY <1>11, <2>2, <2>5 DEF Direction
    <3>2. ~AutocalDone(s) /\ ~Known(s)
      BY <1>11, <2>2, <2>5 DEF AutocalDone, Known
    <3>3. s.full \in TrueTimes /\ s.ran[Opposite(d)] = 0
      BY <1>8, <1>10, <1>11, <2>5
    <3>4. QED
      BY <1>2, <3>1, <3>2, <3>3 DEF Arrived, n
  <2>10. ~AutocalDone(s)
    BY <1>11, <2>2, <2>5 DEF AutocalDone
  <2>11. QED
    BY <2>5, <2>7, <2>8, <2>9, <2>10 DEF Arrives, Honest
<1>15. ASSUME r.step = 3 PROVE Arrives(r, d, y, inMove, s) /\ Measuring(s, y)
  <2>1. g.auto[Down] = n /\ d = Up /\ c.position = Open /\ c.step = 0
        /\ c.auto = [g.auto EXCEPT ![Up] = n]
    <3>1. g.auto[Down] > 0 /\ d = Up /\ took = n
      BY <1>1, <1>4, <1>5, <1>15 DEF Measured, StepDirection
    <3>2. g.auto[Down] \in {0, n}
      BY <1>1, <1>2, Ranges DEF Timed, n
    <3>3. QED
      BY <1>1, <1>7, <1>15, <3>1, <3>2
  <2>2. c.auto[Down] = n /\ c.auto[Up] = n
    BY <1>4, <2>1 DEF Timing, Direction, Up, Down
  <2>3. f = n /\ Known(c)
    BY <1>3, <1>9, <2>1, <2>2 DEF Known, Open
  <2>4. k = c
    BY <1>11, <2>3
  <2>5. /\ c.position = EndOf(d)
        /\ \A e \in Direction : c.auto[e] \in {0, n}
    BY <2>1, <2>2 DEF EndOf, Direction
  <2>6. LET v == PositionMoved(c, d, n, inMove)
        IN  Arrives(r, d, y, inMove, v) /\ v.step = 0
    <3>1. \A e \in Direction : c.auto[e] \in {0, shutter.travel}
      BY <2>5 DEF n
    <3> DEFINE v == PositionMoved(c, d, shutter.travel, inMove)
    <3>2. /\ Turns(r, d, x, y, inMove) /\ Way(y, d) = 0 /\ Sane(c) /\ Tends(r, c)
          /\ ~c.buttonReq /\ c.step = 0 /\ c.position = EndOf(d) /\ c.full \in TrueTimes
          /\ c.ran[Opposite(d)] = 0
      BY <1>1, <1>2, <1>8, <1>10, <2>1, <2>5
    <3>3. Arrives(r, d, y, inMove, v) /\ v.step = 0
      BY <3>1, <3>2, EndRuns
    <3>4. QED
      BY <3>3 DEF n
  <2>7. s = PositionMoved(c, d, n, inMove)
    BY <2>3, <2>4 DEF s
  <2>8. QED
    BY <2>6, <2>7 DEF Measuring
<1>16. r.step \in 1..3
  BY <1>1, <1>4
<1>17. Leads(r, s) => Arrives(r, d, y, inMove, s) /\ Measuring(s, y)
  BY <1>13, <1>14, <1>15, <1>16
<1>18. QED
  BY <1>17 DEF s, k, f, c

(* The time is counted, calibration notes that it goes on.                 *)
LEMMA StepsBegin ==
  ASSUME Sensing, NEW r, NEW d \in Direction, NEW x, NEW y, NEW inMove,
         Turns(r, d, x, y, inMove), r.step > 0
  PROVE  /\ d = StepDirection(r.step)
         /\ Steps(r, d, x, y, inMove, Calibration(RanOn(r, d)))
         /\ Calibration(RanOn(r, d)).ran = RanOn(r, d).ran
<1> DEFINE a == RanOn(r, d)
           g == Calibration(a)
<1>1. /\ Cal(r) /\ r \in State /\ r.autoCal /\ r.on = {d} /\ r.full = Zero
      /\ Drives(r, StepDirection(r.step)) /\ r.position = 0
  BY DEF Turns, Cal, Sane, Steady, Based
<1>2. d = StepDirection(r.step) /\ r.trigger.left = Disarmed
  BY <1>1 DEF Drives
<1>3. /\ Cal(a) /\ a.position = r.position /\ a.full = r.full /\ a.auto = r.auto
      /\ a.step = r.step /\ a.on = r.on /\ a.autoCal = r.autoCal
  BY <1>1, RanOnKeeps
<1>4. a.trigger = r.trigger
  BY <1>1, RanOnIs
<1>5. /\ a.ran[d] \in Nat /\ a.ran[Opposite(d)] = 0
      /\ ~Known(r) /\ Way(x, d) > 0 =>
           /\ Way(y, d) * N + a.ran[d] <= shutter.travel * N
           /\ a.ran[d] <= shutter.travel * N
      /\ r.step > 1 => a.ran[d] = (shutter.travel - Way(y, d)) * N
  BY TurnsRun
<1>6. Tends(r, a)
  BY <1>1, RanOnTends
<1> HIDE DEF a
<1>7. Sane(g) /\ Marked(a, g) /\ Cal(g)
  BY <1>3, FlagsMarked, MarkedKeeps DEF Cal
<1>8. Serves(a, g)
  <2>1. a \in State /\ a.flags \in SUBSET Flags
    BY <1>6 DEF Tends, State
  <2>2. PICK v \in SUBSET Flags : v = a.flags \cup {"InProgress"}
    BY <2>1 DEF Flags
  <2>3. g = [a EXCEPT !.flags = v]
    BY <2>1, <2>2 DEF Calibration, State
  <2>4. QED
    BY <2>1, <2>2, <2>3, FieldServes
<1> HIDE DEF g
<1>9. Tends(r, g) /\ g.ran = a.ran
  BY <1>6, <1>8, ServesTends, TendsTwice
<1>10. SameTimes(r, g) /\ g.step = r.step /\ g.on = r.on /\ g.trigger.left = Disarmed
       /\ g.autoCal = r.autoCal
  BY <1>2, <1>3, <1>4, <1>7 DEF Marked, Alike, SameTimes
<1>11. g.step = 1 => g.ran[Down] = 0
  BY <1>2, <1>5, <1>9, <1>10 DEF StepDirection, Opposite
<1>12. Calibrates(g)
  BY <1>1, <1>2, <1>7, <1>10, <1>11 DEF Calibrates, AutocalEnabled, SameTimes
<1>13. ~Known(r)
  BY <1>1 DEF Known
<1>14. Steps(r, d, x, y, inMove, g)
  BY <1>2, <1>5, <1>9, <1>10, <1>12, <1>13 DEF Steps
<1>15. QED
  BY <1>2, <1>9, <1>14 DEF g, a

(* While the way is measured the sensor sees the motor until the end.      *)
LEMMA StepsSeen ==
  ASSUME Sensing, NEW r, NEW d \in Direction, NEW x, NEW y, NEW inMove, NEW g,
         Steps(r, d, x, y, inMove, g)
  PROVE  /\ ~Unseen(inMove) =>
              g.ran[d] <= N * MaxTime /\ (r.step > 1 => Way(y, d) > 0)
         /\ Unseen(inMove) => (r.step > 1 => g.ran[d] >= N * FilterTime)
<1> DEFINE n == shutter.travel
<1>1. /\ Turns(r, d, x, y, inMove) /\ g.ran[d] \in Nat
      /\ Way(x, d) > 0 => g.ran[d] <= n * N
      /\ r.step > 1 => g.ran[d] = (n - Way(y, d)) * N
  BY DEF Steps
<1>2. /\ ~Unseen(inMove) => Way(x, d) > 0
      /\ Unseen(inMove) => Way(y, d) = 0
      /\ ~Unseen(inMove) /\ Way(y, d) = 0 => r.ran = Zero
      /\ r.step > 1 => Way(x, d) > 0 /\ r.ran[d] = (n - Way(x, d)) * N
  BY <1>1 DEF Turns, Unseen
<1>3. /\ n \in Nat /\ n > 1 /\ Way(x, d) \in 0..n /\ Way(y, d) \in 0..n
      /\ Way(x, d) > 0 => Way(y, d) = Way(x, d) - 1
  BY <1>1, TurnsWay
<1>4. /\ MaxTime \in Nat /\ FilterTime \in Nat /\ N \in Nat /\ N >= 1
      /\ n <= MaxTime /\ FilterTime <= n
  BY ConstantAssumption, Ranges DEF Sensing, Sensed
<1>5. n * N <= N * MaxTime /\ N * FilterTime <= n * N
  BY <1>3, <1>4
<1> HIDE DEF n
<1>6. n * N \in Nat /\ N * MaxTime \in Nat /\ N * FilterTime \in Nat
  BY <1>3, <1>4, TimesNat
<1>7. ASSUME ~Unseen(inMove)
      PROVE  g.ran[d] <= N * MaxTime /\ (r.step > 1 => Way(y, d) > 0)
  <2>1. g.ran[d] <= N * MaxTime
    BY <1>1, <1>2, <1>5, <1>6, <1>7
  <2>2. ASSUME r.step > 1, Way(y, d) = 0 PROVE FALSE
    <3>1. r.ran[d] = 0
      BY <1>2, <1>7, <2>2 DEF Zero, Direction, Up, Down
    <3>2. n - Way(x, d) \in Nat /\ n - Way(x, d) > 0
      BY <1>2, <1>3, <2>2
    <3>3. (n - Way(x, d)) * N > 0
      BY <1>4, <3>2, TimesPositive
    <3>4. QED
      BY <1>2, <2>2, <3>1, <3>3
  <2>3. QED
    BY <1>3, <2>1, <2>2
<1>8. ASSUME Unseen(inMove), r.step > 1 PROVE g.ran[d] >= N * FilterTime
  <2>1. g.ran[d] = n * N
    BY <1>1, <1>2, <1>3, <1>8
  <2>2. QED
    BY <1>5, <1>6, <2>1
<1>9. QED
  BY <1>7, <1>8

(* The timer of a motor that is calibrated.                                *)
LEMMA CalibratingSenses ==
  ASSUME Sensing, NEW r, NEW d \in Direction, NEW x, NEW y, NEW inMove,
         Turns(r, d, x, y, inMove), r.step > 0, NEW full, full = r.auto
  PROVE  LET s == Running(r, d, full, inMove)
         IN  Senses(s, y) /\ Honest(s, inMove) /\ Measuring(s, y)
<1> DEFINE a == RanOn(r, d)
           g == Calibration(a)
           c == Autocalibrated(a, inMove)
           f == InForce(c, r.auto)[d]
           s == PositionMoved(Calibrated(c, d, f), d, f, inMove)
           short == \A e \in Direction : a.ran[e] < N * FilterTime
<1>1. Good(r) /\ r \in State
  BY DEF Turns, Cal, Sane
<1>2. MotorChecked(a, d, inMove) = a
  BY TurnsUnalarmed
<1>3. Running(r, d, full, inMove) = s
  BY <1>2 DEF Running, RanOn
<1>4. d = StepDirection(r.step) /\ Steps(r, d, x, y, inMove, g) /\ g.ran = a.ran
  BY StepsBegin
<1>5. a.step = r.step /\ r.step \in 0..3
  BY <1>1, RanOnIs DEF State
<1> HIDE DEF a
<1>6. /\ short \/ (~Unseen(inMove) /\ a.ran[d] <= N * MaxTime) => c = g
      /\ ~short /\ Unseen(inMove) => c = EndReached(g)
  <2>1. N * MaxTime \in Nat /\ a.ran[d] \in Nat
    <3>1. N \in Nat /\ MaxTime \in Nat
      BY ConstantAssumption
    <3>2. g.ran[d] \in Nat
      BY <1>4 DEF Steps
    <3>3. QED
      BY <1>4, <3>1, <3>2, TimesNat
  <2>2. a.ran[d] <= N * MaxTime => ~(a.ran[d] > N * MaxTime)
    BY <2>1
  <2>3. short => c = g
    BY <1>5 DEF Autocalibrated
  <2>4. ~short /\ Unseen(inMove) => c = EndReached(g)
    BY <1>5 DEF Autocalibrated, Unseen
  <2>5. ~short /\ ~Unseen(inMove) /\ a.ran[d] <= N * MaxTime => c = g
    BY <1>4, <1>5, <2>2 DEF Autocalibrated, Unseen
  <2>6. QED
    BY <2>3, <2>4, <2>5
<1> HIDE DEF g, c
<1>7. /\ ~Unseen(inMove) => a.ran[d] <= N * MaxTime /\ (r.step > 1 => Way(y, d) > 0)
      /\ Unseen(inMove) => (r.step > 1 => a.ran[d] >= N * FilterTime)
  BY <1>4, StepsSeen
<1>8. Good(s) /\ Leads(r, s)
  BY <1>1, <1>3, RunningSound DEF Sound, Safe
<1>9. Arrives(r, d, y, inMove, s) /\ Measuring(s, y)
  <2>1. ASSUME c = g, r.step > 1 => Way(y, d) > 0
        PROVE  Arrives(r, d, y, inMove, s) /\ Measuring(s, y)
    <3>1. Arrives(r, d, y, inMove, g) /\ Measuring(g, y)
      BY <1>4, <2>1, StepRuns
    <3>2. g.auto = r.auto /\ r.auto[d] = 0
      <4>1. g.auto = r.auto /\ g.step = r.step /\ Measured(g) /\ d = StepDirection(r.step)
        BY <1>4 DEF Steps, SameTimes, Calibrates, Cal, Steady, AutocalEnabled
      <4>2. QED
        BY <4>1 DEF Measured, StepDirection, Zero, Up, Down
    <3>3. f = 0
      BY <2>1, <3>2, InForceOf
    <3> HIDE DEF f
    <3>4. s = g
      BY <2>1, <3>3 DEF Calibrated, PositionMoved
    <3> HIDE DEF s
    <3>5. QED
      BY <3>1, <3>4
  <2>2. CASE ~Unseen(inMove)
    BY <1>6, <1>7, <2>1, <2>2
  <2>3. CASE Unseen(inMove) /\ short
    <3>1. ~(r.step > 1)
      <4>1. N * FilterTime \in Nat /\ a.ran[d] \in Nat
        <5>1. N \in Nat /\ FilterTime \in Nat
          BY ConstantAssumption
        <5>2. g.ran[d] \in Nat
          BY <1>4 DEF Steps
        <5>3. QED
          BY <1>4, <5>1, <5>2, TimesNat
      <4>2. a.ran[d] < N * FilterTime
        BY <2>3
      <4>3. QED
        BY <1>7, <2>3, <4>1, <4>2
    <3>2. QED
      BY <1>6, <2>1, <2>3, <3>1
  <2>4. CASE Unseen(inMove) /\ ~short
    BY <1>4, <1>6, <1>8, <2>4, StepEnds
  <2>5. QED
    BY <2>2, <2>3, <2>4
<1> HIDE DEF s
<1>10. Senses(s, y)
  BY <1>8, <1>9, TurnsSensed DEF Arrives
<1>11. QED
  BY <1>3, <1>9, <1>10 DEF Arrives

(* The timer of a motor that stands.                                       *)
LEMMA StandingSenses ==
  ASSUME Sensing, NEW r, Cal(r), r.on = {}, NEW x \in Places(shutter),
         Timed(r), Located(r, x), Heads(r), Silent(r), Measuring(r, x), NEW inMove
  PROVE  LET s == Standing(r)
         IN  Senses(s, x) /\ Honest(s, inMove) /\ Measuring(s, x)
<1> DEFINE v == IF r.step = 0 THEN r.flags \ {"InProgress"} ELSE r.flags
           s == Standing(r)
<1>1. r \in State
  BY DEF Cal, Sane
<1>2. /\ s.ran = Zero /\ s.flags = v /\ s.on = {} /\ s.startAge = r.startAge
      /\ s.stopAge = r.stopAge /\ s.position = r.position /\ s.tilt = r.tilt
      /\ s.full = r.full /\ s.auto = r.auto /\ s.blind = r.blind /\ s.step = r.step
      /\ s.detected = r.detected /\ s.margin = r.margin /\ s.task = r.task
  BY <1>1 DEF Standing, State
<1> HIDE DEF s
<1>3. v \subseteq r.flags
  OBVIOUS
<1>4. \A d \in Direction : Zero[d] = 0
  BY DEF Zero, Direction, Up, Down
<1>5. Timed(s) /\ Rested(s) /\ Heads(s) /\ Silent(s) /\ Noticed(s, x)
  BY <1>2, <1>3 DEF Timed, Rested, Heads, Silent, Noticed, AutocalDone, Known
<1>6. Located(s, x)
  <2>1. ASSUME NEW d \in Direction, Way(x, d) # 0, ~Known(s)
        PROVE  Way(x, d) * N + s.ran[d] <= shutter.travel * N
    <3>1. PICK w \in Nat, n \in Nat : w = Way(x, d) /\ n = shutter.travel /\ w <= n
      BY WayIs
    <3>2. w * N <= n * N /\ w * N \in Nat
      BY <3>1, Ranges, TimesNat
    <3>3. QED
      BY <1>2, <1>4, <3>1, <3>2
  <2>2. QED
    BY <1>2, <1>4, <2>1 DEF Located, Known
<1>7. Honest(s, inMove)
  BY <1>2 DEF Honest
<1>8. Measuring(s, x)
  <2>1. StepDirection(s.step) \in Direction
    BY Ranges DEF StepDirection
  <2>2. QED
    BY <1>2, <1>4, <2>1 DEF Measuring
<1>9. QED
  BY <1>5, <1>6, <1>7, <1>8 DEF Senses, s

(* A tick of a shutter without slats: the motor goes a step along its way, *)
(* and its sensor sees it if it has not reached the end.                   *)
LEMMA TurnedSeen ==
  ASSUME Sensing, real \in Places(shutter), rs.blind = [type |-> "none", time |-> 0],
         NEW d \in Direction, rs.on = {d}
  PROVE  /\ Turned \in Places(shutter)
         /\ Turned.position = Driven(d, real.position, shutter.travel)
         /\ Seen <=> /\ Way(real, d) > 0
                     /\ Way(Turned, d) = 0 => rs.startAge = 0
         /\ Way(real, d) \in Nat /\ Way(Turned, d) \in Nat
         /\ Way(real, d) = 0 => Way(Turned, d) = 0
<1> DEFINE p == Driven(d, real.position, shutter.travel)
<1>1. PICK n \in Nat : n = shutter.travel /\ n > 1
  BY ConstantAssumption DEF Sensing, Sensed, IsShutter
<1>2. PICK k \in 0..n : k = real.position
  BY <1>1 DEF Places
<1>3. Turned = [real EXCEPT !.position = p]
  <2>1. DrivenTo(d, real) = [real EXCEPT !.position = p]
    BY DEF DrivenTo
  <2>2. Turned = DrivenTo(d, real)
    BY Ranges DEF Turned, Direction
  <2>3. QED
    BY <2>1, <2>2
<1>4. Turned \in Places(shutter)
  BY TurnedIs DEF Sensing
<1>5. Turned.position = p /\ (Turned = real <=> p = k)
  BY <1>2, <1>3 DEF Places
<1>6. /\ d = Up => p = IF k > 0 THEN k - 1 ELSE 0
      /\ d = Down => p = IF k < n THEN k + 1 ELSE n
  BY <1>1, <1>2, Ranges DEF Driven
<1> HIDE DEF p
<1>7. /\ d = Up => Way(real, d) = k /\ Way(Turned, d) = p
      /\ d = Down => Way(real, d) = n - k /\ Way(Turned, d) = n - p
  BY <1>1, <1>2, <1>5, Ranges DEF Way, Along
<1>8. d = Up \/ d = Down
  BY DEF Direction
<1>9. /\ p # k <=> Way(real, d) > 0
      /\ p # k => (p \in {0, n} <=> Way(Turned, d) = 0)
      /\ Way(real, d) \in Nat /\ Way(Turned, d) \in Nat
      /\ Way(real, d) = 0 => Way(Turned, d) = 0
  BY <1>1, <1>2, <1>6, <1>7, <1>8
<1>10. QED
  BY <1>1, <1>4, <1>5, <1>9 DEF Seen, p

(* One that stands stays where it is.                                      *)
LEMMA TurnedStands ==
  ASSUME rs.on = {}
  PROVE  Turned = real /\ ~Seen
BY DEF Turned, Seen

(* What the times do to a record is the same a tick later.                 *)
SameButAge(r, s) ==
  /\ s.on = r.on /\ s.ran = r.ran /\ s.position = r.position /\ s.task = r.task
  /\ s.step = r.step /\ s.detected = r.detected /\ s.flags = r.flags /\ s.full = r.full
  /\ s.auto = r.auto /\ s.autoCal = r.autoCal /\ s.blind = r.blind /\ s.margin = r.margin

(* So the times are chosen before the tick or after it, with the same      *)
(* result.                                                                 *)
LEMMA SelectedAged ==
  ASSUME NEW r \in State
  PROVE  LET t == TimesSelected(r)
             s == TimesSelected(Aged(r))
         IN  /\ SameButAge(t, s)
             /\ t.startAge = r.startAge /\ t.stopAge = r.stopAge
             /\ t.on = r.on /\ s.startAge = Aged(r).startAge
<1> DEFINE a == Aged(r)
<1>1. a \in State
  BY AgedTyped
<1>2. SameButAge(r, a)
  BY DEF Aged, State, SameButAge
<1> HIDE DEF a
<1>3. ASSUME NEW q \in State
      PROVE  LET s == TimesSelected(q)
             IN  /\ s.on = q.on /\ s.ran = q.ran /\ s.task = q.task
                 /\ s.detected = q.detected /\ s.flags = q.flags
                 /\ s.full = q.full /\ s.autoCal = q.autoCal
                 /\ s.blind = q.blind /\ s.margin = q.margin
                 /\ s.startAge = q.startAge /\ s.stopAge = q.stopAge
                 /\ s.position = IF (AutocalEnabled(q) /\ q.auto # Zero)
                                    \/ (~AutocalEnabled(q) /\ q.auto = Zero /\ q.step = 0)
                                 THEN q.position ELSE 0
                 /\ s.auto = IF AutocalEnabled(q) THEN q.auto ELSE Zero
                 /\ s.step = IF AutocalEnabled(q) THEN q.step ELSE 0
  <2> DEFINE z == [q EXCEPT !.position = 0, !.tilt = 0]
             y == [[q EXCEPT !.auto = Zero, !.step = 0] EXCEPT !.position = 0, !.tilt = 0]
  <2>1. CASE AutocalEnabled(q) /\ q.auto = Zero
    <3>1. TimesSelected(q) = z
      BY <2>1 DEF TimesSelected, Voided
    <3>2. QED
      BY <2>1, <3>1 DEF State
  <2>2. CASE AutocalEnabled(q) /\ q.auto # Zero
    <3>1. TimesSelected(q) = q
      BY <2>2 DEF TimesSelected
    <3>2. QED
      BY <2>2, <3>1
  <2>3. CASE ~AutocalEnabled(q) /\ (q.auto # Zero \/ q.step # 0)
    <3>1. TimesSelected(q) = y
      BY <2>3 DEF TimesSelected, Voided
    <3>2. QED
      BY <2>3, <3>1 DEF State
  <2>4. CASE ~AutocalEnabled(q) /\ ~(q.auto # Zero \/ q.step # 0)
    <3>1. TimesSelected(q) = q
      BY <2>4 DEF TimesSelected
    <3>2. QED
      BY <2>4, <3>1
  <2>5. QED
    BY <2>1, <2>2, <2>3, <2>4
<1> DEFINE t == TimesSelected(r)
           s == TimesSelected(a)
<1>4. /\ t.on = r.on /\ t.ran = r.ran /\ t.task = r.task /\ t.detected = r.detected
      /\ t.flags = r.flags /\ t.full = r.full /\ t.autoCal = r.autoCal
      /\ t.blind = r.blind /\ t.margin = r.margin
      /\ t.startAge = r.startAge /\ t.stopAge = r.stopAge
      /\ t.position = IF (AutocalEnabled(r) /\ r.auto # Zero)
                         \/ (~AutocalEnabled(r) /\ r.auto = Zero /\ r.step = 0)
                      THEN r.position ELSE 0
      /\ t.auto = IF AutocalEnabled(r) THEN r.auto ELSE Zero
      /\ t.step = IF AutocalEnabled(r) THEN r.step ELSE 0
  BY <1>3
<1>5. /\ s.on = a.on /\ s.ran = a.ran /\ s.task = a.task /\ s.detected = a.detected
      /\ s.flags = a.flags /\ s.full = a.full /\ s.autoCal = a.autoCal
      /\ s.blind = a.blind /\ s.margin = a.margin
      /\ s.startAge = a.startAge
      /\ s.position = IF (AutocalEnabled(a) /\ a.auto # Zero)
                         \/ (~AutocalEnabled(a) /\ a.auto = Zero /\ a.step = 0)
                      THEN a.position ELSE 0
      /\ s.auto = IF AutocalEnabled(a) THEN a.auto ELSE Zero
      /\ s.step = IF AutocalEnabled(a) THEN a.step ELSE 0
  BY <1>1, <1>3
<1> HIDE DEF s, t
<1>6. AutocalEnabled(a) <=> AutocalEnabled(r)
  BY <1>2 DEF AutocalEnabled, SameButAge
<1>7. SameButAge(t, s)
  BY <1>2, <1>4, <1>5, <1>6 DEF SameButAge
<1>8. QED
  BY <1>4, <1>5, <1>7 DEF s, t, a

(* A motor that is on is old enough after a tick.                          *)
LEMMA AgedStarts ==
  ASSUME NEW r \in State, Good(r), r.on # {}, FilterTime > 0
  PROVE  Aged(r).startAge > 0
<1>1. PICK l \in Nat : l = Window + StopDelay + FilterTime /\ l > 0
  BY ConstantAssumption
<1>2. PICK k \in Nat : k = r.startAge
  BY DEF Good, AgesTell
<1>3. Aged(r).startAge = Older(k, l)
  BY <1>1, <1>2 DEF Aged, State
<1>4. QED
  BY <1>1, <1>2, <1>3 DEF Older, AtMost, Unset

(* All that is known but the ages outlives the tick.                       *)
LEMMA SameSenses ==
  ASSUME NEW t, NEW s, SameButAge(t, s), NEW x
  PROVE  /\ Timed(t) => Timed(s)
         /\ Located(t, x) => Located(s, x)
         /\ Heads(t) => Heads(s)
         /\ Silent(t) => Silent(s)
BY DEF SameButAge, Timed, Located, Heads, Silent, AutocalDone, Known

(* The motor of a shutter that is sensed turns.                            *)
LEMMA TickTurns ==
  ASSUME Sensing, Cal(rs), rs.autoCal, real \in Places(shutter),
         Senses(rs, real), Measuring(rs, real), NEW d \in Direction, rs.on = {d},
         NEW r, r = TimesSelected(Aged(rs)), Cal(r), r.step > 0 => AutocalEnabled(r),
         NEW s, s = PowerDetected(r, Seen)
  PROVE  Turns(s, d, real, Turned, Seen)
<1> DEFINE t == TimesSelected(rs)
<1>1. rs \in State /\ Good(rs) /\ r \in State
  BY DEF Cal, Sane
<1>2. /\ SameButAge(t, r) /\ t.startAge = rs.startAge /\ t.on = rs.on
      /\ r.startAge = Aged(rs).startAge
  BY <1>1, SelectedAged
<1>3. Senses(t, real) /\ Measuring(t, real)
  <2>1. Respects(rs, t)
    BY <1>1, SelectedRespects DEF Senses, Timed
  <2>2. QED
    BY <1>1, <2>1, SparesKeeps, GoesOnMeasuring DEF Respects
<1> HIDE DEF t
<1>4. r.startAge > 0
  <2>1. FilterTime > 0
    BY ConstantAssumption DEF Sensing, Sensed
  <2>2. rs.on # {}
    OBVIOUS
  <2>3. QED
    BY <1>1, <1>2, <2>1, <2>2, AgedStarts
<1>5. /\ Cal(s) /\ s.on = r.on /\ s.ran = r.ran /\ s.position = r.position
      /\ s.full = r.full /\ s.auto = r.auto /\ s.step = r.step /\ s.autoCal = r.autoCal
  <2>1. Seen \in BOOLEAN /\ Sane(r)
    BY DEF Seen, Cal
  <2>2. Sane(s) /\ Marked(r, s)
    BY <2>1, DetectedMarked
  <2>3. QED
    BY <2>2, MarkedKeeps DEF Marked, Alike
<1>6. /\ s.startAge = r.startAge /\ s.task = r.task /\ s.flags = r.flags
      /\ s.blind = r.blind /\ s.margin = r.margin
      /\ AutocalEnabled(r) => (s.detected <=> r.detected \/ Seen)
  <2>1. r.on # {} /\ r.detected \in BOOLEAN
    BY <1>1, <1>2 DEF State, SameButAge
  <2>2. s = IF AutocalEnabled(r) THEN [r EXCEPT !.detected = @ \/ Seen] ELSE r
    BY <2>1 DEF PowerDetected
  <2>3. QED
    BY <1>1, <2>1, <2>2, Zenon DEF State
<1>7. /\ Turned \in Places(shutter)
      /\ Turned.position = Driven(d, real.position, shutter.travel)
      /\ Seen <=> /\ Way(real, d) > 0
                  /\ Way(Turned, d) = 0 => rs.startAge = 0
      /\ Way(real, d) \in Nat /\ Way(Turned, d) \in Nat
      /\ Way(real, d) = 0 => Way(Turned, d) = 0
  BY TurnedSeen DEF Senses, Timed
<1> DEFINE x == Way(real, d)
           y == Way(Turned, d)
<1>8. x \in Nat /\ y \in Nat /\ (x = 0 => y = 0)
  BY <1>7
<1>9. Timed(s) /\ Heads(s) /\ Silent(s) /\ Located(s, real)
  <2>1. Timed(r) /\ Heads(r) /\ Silent(r) /\ Located(r, real)
    BY <1>2, <1>3, SameSenses DEF Senses
  <2>2. QED
    BY <1>5, <1>6, <2>1 DEF Timed, Heads, Silent, Located, AutocalDone, Known
<1> HIDE DEF x, y
<1>10. s.autoCal /\ s.on = {d} /\ (s.step > 0 => s.full = Zero)
  <2>1. Cal(Aged(rs)) /\ Aged(rs).autoCal = rs.autoCal
    BY AgedKeeps DEF Same
  <2>2. r.autoCal = rs.autoCal
    BY <2>1, SelectedKeeps
  <2>3. r.on = rs.on
    BY <1>2 DEF SameButAge
  <2>4. QED
    BY <1>5, <2>2, <2>3 DEF AutocalEnabled
<1>11. ~Seen => y = 0
  BY <1>7, <1>8 DEF x, y
<1>12. Seen /\ y = 0 => s.ran = Zero
  <2>1. Seen /\ y = 0 => t.startAge = 0
    BY <1>2, <1>7 DEF y
  <2>2. QED
    BY <1>2, <1>3, <1>5, <2>1 DEF Senses, Rested, SameButAge
<1>13. s.step > 1 => x > 0 /\ s.ran[d] = (shutter.travel - x) * N
  <2>0. s.step > 1 => s.step > 0
    BY <1>1, <1>5 DEF State
  <2>1. s.step > 1 => StepDirection(s.step) = d
    BY <1>5, <1>10, <2>0 DEF Cal, Steady, Drives
  <2>2. QED
    <3>1. s.step > 1 => t.step > 1 /\ t.full = Zero /\ t.step = s.step /\ t.ran = s.ran
      BY <1>2, <1>5, <1>10, <2>0 DEF SameButAge
    <3>2. QED
      BY <1>3, <2>1, <3>1 DEF Measuring, x
<1>14. s.full = Zero /\ x > 0 /\ (Known(s) \/ y > 0 \/ s.step > 1) => s.detected
  <2>1. SUFFICES ASSUME s.full = Zero, x > 0, Known(s) \/ y > 0 \/ s.step > 1
                 PROVE  s.detected
    OBVIOUS
  <2>2. s.detected <=> r.detected \/ Seen
    BY <1>5, <1>6, <1>10, <2>1 DEF AutocalEnabled
  <2>3. CASE y > 0 \/ rs.startAge = 0
    BY <1>7, <1>8, <2>1, <2>2, <2>3 DEF x, y
  <2>4. CASE ~(y > 0) /\ rs.startAge # 0
    <3>1. t.startAge > 0
      BY <1>1, <1>2, <2>4 DEF Good, AgesTell
    <3>2. Known(s) => t.detected
      BY <1>2, <1>3, <1>5, <2>1, <3>1 DEF Senses, Noticed, SameButAge, Known, x
    <3>3. s.step > 1 => t.detected
      BY <1>2, <1>3, <1>5, <2>1, <3>1 DEF Measuring, SameButAge
    <3>4. QED
      BY <1>2, <2>1, <2>2, <2>4, <3>2, <3>3 DEF SameButAge
  <2>5. QED
    BY <1>8, <2>3, <2>4
<1>15. QED
  BY <1>4, <1>5, <1>6, <1>7, <1>8, <1>9, <1>10, <1>11, <1>12, <1>13, <1>14 DEF Turns, x, y

(* The timer has counted, and moved the position.                          *)
LEMMA TickCounts ==
  ASSUME Sensing, Cal(rs), rs.autoCal, real \in Places(shutter),
         Senses(rs, real), Measuring(rs, real),
         NEW r, r = TimesSelected(Aged(rs)), NEW full,
         full = IF AutocalEnabled(Aged(rs)) THEN r.auto ELSE r.full,
         NEW p, p = PowerDetected(r, Seen)
  PROVE  LET m == CASE Up \in p.on -> Running(p, Up, full, Seen)
                    [] p.on = {Down} -> Running(p, Down, full, Seen)
                    [] OTHER -> Standing(p)
         IN  /\ Cal(m) /\ m.autoCal = rs.autoCal /\ full \in Timing
             /\ Senses(m, Turned) /\ Honest(m, Seen) /\ Measuring(m, Turned)
<1> DEFINE a == Aged(rs)
           m == CASE Up \in p.on -> Running(p, Up, full, Seen)
                  [] p.on = {Down} -> Running(p, Down, full, Seen)
                  [] OTHER -> Standing(p)
<1>1. rs \in State /\ Good(rs)
  BY DEF Cal, Sane
<1>2. Cal(a) /\ Same(rs, a)
  BY AgedKeeps
<1> HIDE DEF a
<1>3. /\ Cal(r) /\ r.full = a.full /\ r.auto = a.auto /\ r.autoCal = a.autoCal
      /\ r.step > 0 => AutocalEnabled(r)
  BY <1>2, SelectedKeeps DEF a
<1>4. r.on = rs.on
  BY <1>1, SelectedAged DEF SameButAge
<1>5. Cal(p) /\ Marked(r, p)
  <2>1. Seen \in BOOLEAN /\ Sane(r)
    BY <1>3 DEF Seen, Cal
  <2>2. QED
    BY <1>3, <2>1, DetectedMarked, MarkedKeeps
<1>6. /\ p.on = rs.on /\ p.step = r.step /\ p.autoCal = rs.autoCal
      /\ p.full = r.full /\ p.auto = r.auto
      /\ p.step > 0 => AutocalEnabled(p)
      /\ full = IF AutocalEnabled(p) THEN p.auto ELSE p.full
  BY <1>2, <1>3, <1>4, <1>5 DEF Marked, Alike, AutocalEnabled, Same, a
<1>7. full \in Timing /\ p.step \in 0..3
  BY <1>5, <1>6 DEF Cal, Sane, State
<1>8. ASSUME NEW d \in Direction, rs.on = {d}
      PROVE  LET s == Running(p, d, full, Seen)
             IN  /\ Cal(s) /\ s.autoCal = rs.autoCal
                 /\ Senses(s, Turned) /\ Honest(s, Seen) /\ Measuring(s, Turned)
  <2> DEFINE s == Running(p, d, full, Seen)
  <2>1. Turns(p, d, real, Turned, Seen)
    BY <1>3, <1>8, TickTurns
  <2>2. Cal(s) /\ s.autoCal = rs.autoCal
    <3>1. d \in p.on
      BY <1>6, <1>8
    <3>2. QED
      BY <1>5, <1>6, <3>1, RunningKeeps
  <2>3. Senses(s, Turned) /\ Honest(s, Seen) /\ Measuring(s, Turned)
    <3>1. CASE p.step = 0
      <4>1. Senses(s, Turned) /\ Honest(s, Seen) /\ s.step = 0
        BY <1>6, <1>7, <2>1, <3>1, FreeRunSenses
      <4> HIDE DEF s
      <4>2. QED
        BY <4>1 DEF Measuring
    <3>2. CASE p.step > 0
      <4>1. full = p.auto
        BY <1>6, <3>2
      <4>2. QED
        BY <2>1, <3>2, <4>1, CalibratingSenses
    <3>3. QED
      BY <1>7, <3>1, <3>2
  <2> HIDE DEF s
  <2>4. QED
    BY <2>2, <2>3 DEF s
<1>9. ASSUME rs.on = {}
      PROVE  LET s == Standing(p)
             IN  /\ Cal(s) /\ s.autoCal = rs.autoCal
                 /\ Senses(s, Turned) /\ Honest(s, Seen) /\ Measuring(s, Turned)
  <2> DEFINE t == TimesSelected(rs)
             s == Standing(p)
  <2>1. Respects(rs, t)
    BY <1>1, SelectedRespects DEF Senses, Timed
  <2>2. Senses(t, real) /\ Measuring(t, real)
    BY <1>1, <2>1, SparesKeeps, GoesOnMeasuring DEF Respects
  <2>3. SameButAge(t, r) /\ t.on = {}
    BY <1>1, <1>9, SelectedAged
  <2> HIDE DEF t
  <2>4. p = [r EXCEPT !.detected = FALSE]
    BY <1>4, <1>9 DEF PowerDetected
  <2>5. /\ p.blind = r.blind /\ p.position = r.position /\ p.ran = r.ran
        /\ p.task = r.task /\ p.flags = r.flags /\ p.margin = r.margin
    BY <1>3, <2>4 DEF Cal, Sane, State
  <2>6. Timed(p) /\ Located(p, real) /\ Heads(p) /\ Silent(p)
    <3>1. Timed(r) /\ Located(r, real) /\ Heads(r) /\ Silent(r)
      BY <2>2, <2>3, SameSenses DEF Senses
    <3>2. QED
      BY <1>6, <2>5, <3>1 DEF Timed, Located, Heads, Silent, AutocalDone, Known
  <2>7. Measuring(p, real)
    BY <1>6, <1>9, <2>2, <2>3, <2>5 DEF Measuring, SameButAge
  <2>8. Turned = real /\ p.on = {}
    BY <1>6, <1>9, TurnedStands
  <2>9. Senses(s, Turned) /\ Honest(s, Seen) /\ Measuring(s, Turned)
    BY <1>5, <2>6, <2>7, <2>8, StandingSenses
  <2>10. Cal(s) /\ s.autoCal = rs.autoCal
    BY <1>5, <1>6, StandingKeeps
  <2> HIDE DEF s
  <2>11. QED
    BY <2>9, <2>10 DEF s
<1>10. rs.on \in {{}, {Up}, {Down}}
  BY <1>1 DEF Good, AgesTell
<1>11. CASE rs.on = {}
  <2>1. m = Standing(p)
    BY <1>6, <1>11
  <2> HIDE DEF m
  <2>2. QED
    BY <1>7, <1>9, <1>11, <2>1 DEF m
<1>12. CASE rs.on = {Up}
  <2>1. m = Running(p, Up, full, Seen)
    BY <1>6, <1>12
  <2> HIDE DEF m
  <2>2. QED
    BY <1>7, <1>8, <1>12, <2>1, Ranges DEF m
<1>13. CASE rs.on = {Down}
  <2>1. m = Running(p, Down, full, Seen)
    BY <1>6, <1>13, Ranges
  <2> HIDE DEF m
  <2>2. QED
    BY <1>7, <1>8, <1>13, <2>1, Ranges DEF m
<1>14. QED
  BY <1>10, <1>11, <1>12, <1>13

(* What comes after that in the timer respects it: calibration, task and   *)
(* report.                                                                 *)
LEMMA AfterSenses ==
  ASSUME Sensing, NEW m, Cal(m), m.autoCal, NEW x \in Places(shutter),
         Senses(m, x), Measuring(m, x), NEW inMove, Honest(m, inMove), NEW full \in Timing
  PROVE  LET u == Reported(TaskProcessed(AutocalChecked(m), InForce(m, full), inMove))
         IN  Senses(u, x) /\ Measuring(u, x)
<1> DEFINE c == AutocalChecked(m)
           g == InForce(m, full)
           t == TaskProcessed(c, g, inMove)
           u == Reported(t)
<1>1. m \in State /\ Good(m)
  BY DEF Cal, Sane
<1>2. Respects(m, c) /\ Cal(c)
  BY <1>1, AutocalCheckedRespects, AutocalCheckedLeaves DEF Leaves
<1>3. c.auto = m.auto /\ c.ran = m.ran
  <2>1. c \in {m, [m EXCEPT !.perform = TRUE]}
    BY DEF AutocalChecked
  <2>2. QED
    BY <1>1, <2>1 DEF State
<1> HIDE DEF c
<1>4. g \in Timing /\ (AutocalDone(c) => g[Up] > 0 /\ g[Down] > 0)
  <2>1. g \in Timing
    BY <1>1, InForceIs
  <2>2. \A d \in Direction : g[d] = IF m.auto[d] > 0 THEN m.auto[d] ELSE full[d]
    BY InForceOf
  <2> HIDE DEF g
  <2>3. QED
    BY <1>3, <2>1, <2>2, Ranges DEF AutocalDone
<1> HIDE DEF g
<1>5. Senses(c, x)
  BY <1>1, <1>2, SparesKeeps DEF Respects
<1>6. Simple(c) /\ (AutocalDone(c) => Known(c))
  BY <1>2, <1>5 DEF Senses, Timed, Silent, Simple, Cal, Sane
<1>7. Honest(c, inMove)
  BY <1>3 DEF Honest, AutocalDone
<1>8. Respects(c, t) /\ Cal(t)
  BY <1>2, <1>4, <1>6, <1>7, TaskProcessedRespects, TaskProcessedLeaves DEF Leaves
<1> HIDE DEF t
<1>9. Respects(t, u)
  BY <1>8, ReportedRespects
<1> HIDE DEF u
<1>10. Respects(m, u)
  BY <1>2, <1>8, <1>9, RespectsTwice
<1>11. Senses(u, x) /\ Measuring(u, x)
  BY <1>1, <1>10, SparesKeeps, GoesOnMeasuring DEF Respects
<1>12. QED
  BY <1>11 DEF u, t, g, c

(* A tick.                                                                 *)
LEMMA TickSenses ==
  ASSUME Sensing, Cal(rs), rs.autoCal, real \in Places(shutter),
         Senses(rs, real), Measuring(rs, real), Tick
  PROVE  Senses(rs', real') /\ Measuring(rs', real')
<1> DEFINE a == Aged(rs)
           r == TimesSelected(a)
           full == IF AutocalEnabled(a) THEN r.auto ELSE r.full
           p == PowerDetected(r, Seen)
           m == CASE Up \in p.on -> Running(p, Up, full, Seen)
                  [] p.on = {Down} -> Running(p, Down, full, Seen)
                  [] OTHER -> Standing(p)
           u == Reported(TaskProcessed(AutocalChecked(m), InForce(m, full), Seen))
<1>1. rs' = TimerCb(a, Seen) /\ real' = Turned
  <2>1. InMove = {Seen}
    BY DEF InMove, Sensing, Sensed
  <2>2. QED
    BY <2>1 DEF Tick
<1>2. TimerCb(a, Seen) = u
  BY DEF TimerCb
<1>3. /\ Cal(m) /\ m.autoCal = rs.autoCal /\ full \in Timing
      /\ Senses(m, Turned) /\ Honest(m, Seen) /\ Measuring(m, Turned)
  BY TickCounts
<1> HIDE DEF m, full
<1>4. Turned \in Places(shutter)
  BY TurnedIs DEF Sensing
<1>5. Senses(u, Turned) /\ Measuring(u, Turned)
  BY <1>3, <1>4, AfterSenses
<1>6. QED
  BY <1>1, <1>2, <1>5

(* It is so when the shutter is switched on.                               *)
LEMMA SensesInit ==
  ASSUME Init, Sensing
  PROVE  Senses(rs, real) /\ Measuring(rs, real)
<1>1. PICK p \in 0..Closed, y \in 0..Closed, t \in shutter.times, m \in shutter.margins,
           b \in shutter.blinds :
        LET f == [position |-> p, tilt |-> y, full |-> t, auto |-> Zero, blind |-> b,
                  addMargin |-> m, swapped |-> FALSE]
        IN  /\ rs = Booted(f, shutter.autoCal)
            /\ real \in [position : 0..shutter.travel, tilt : 0..shutter.slats]
            /\ BothAgree(f, real)
  BY ZenonT(60) DEF Init
<1> DEFINE f == [position |-> p, tilt |-> y, full |-> t, auto |-> Zero, blind |-> b,
                 addMargin |-> m, swapped |-> FALSE]
<1>2. /\ t \in TrueTimes /\ b = [type |-> "none", time |-> 0]
      /\ real \in Places(shutter)
  BY <1>1, SensedAsks DEF Places
<1>3. rs = Booted(f, shutter.autoCal) /\ BothAgree(f, real)
  BY <1>1
<1>4. f.position = p /\ f.full = t /\ f.auto = Zero /\ f.blind = b
  OBVIOUS
<1> HIDE DEF f
<1>5. /\ rs.on = {} /\ rs.ran = Zero /\ rs.position = p /\ rs.full = t /\ rs.auto = Zero
      /\ rs.blind = b /\ rs.step = 0 /\ rs.flags = {} /\ rs.margin = DefaultMargin
      /\ rs.task = NoTask
  BY <1>3, <1>4 DEF Booted
<1>6. \A d \in Direction : Zero[d] = 0
  BY DEF Zero, Direction, Up, Down
<1>7. Timed(rs)
  BY <1>2, <1>5, <1>6, Ranges DEF Timed, AutocalDone
<1>8. Rested(rs)
  BY <1>5 DEF Rested
<1>9. Located(rs, real)
  <2>1. Known(rs) => Agrees(rs.position, real.position, shutter.travel)
    BY <1>3, <1>4, <1>5 DEF Known, BothAgree
  <2>2. ASSUME NEW d \in Direction PROVE Way(real, d) * N + rs.ran[d] <= shutter.travel * N
    <3>1. PICK w \in Nat, n \in Nat : w = Way(real, d) /\ n = shutter.travel /\ w <= n
      BY <1>2, WayIs
    <3>2. w * N <= n * N /\ w * N \in Nat
      BY <3>1, Ranges, TimesNat
    <3>3. QED
      BY <1>5, <1>6, <3>1, <3>2
  <2>3. QED
    BY <1>5, <1>6, <2>1, <2>2 DEF Located
<1>10. Noticed(rs, real)
  BY <1>5 DEF Noticed
<1>11. Heads(rs) /\ Silent(rs)
  BY <1>5 DEF Heads, Silent, NoTask, DefaultMargin, Inactive, Active, Setting
<1>12. Measuring(rs, real)
  BY <1>5 DEF Measuring
<1>13. QED
  BY <1>7, <1>8, <1>9, <1>10, <1>11, <1>12 DEF Senses

(* Every step keeps it.                                                    *)
Sensible == Sensing => Senses(rs, real) /\ Measuring(rs, real)

(* Requests, delayed starts and ticks.                                     *)
LEMMA SensibleStep ==
  ASSUME Undisturbed, TypeOK, Calibrating, Sensible, [Next]_vars,
         [OneRetimingPerTick]_vars
  PROVE  Sensible'
<1>1. shutter' = shutter
  BY DEF Next, Ask, ButtonPressed, ButtonReleased, ButtonClicked, HoldReleased, ServerMoves,
         ServerOrStop, ServerSteps, ServerTask, Recalibrate, Configure, PowerCycle, By,
         TriggerFires, Tick, vars
<1>2. SUFFICES ASSUME Sensing PROVE Senses(rs', real') /\ Measuring(rs', real')
  <2>1. /\ Timed(rs') => Timed(rs)'
        /\ Located(rs', real') => Located(rs, real)'
        /\ Noticed(rs', real') => Noticed(rs, real)'
    BY <1>1 DEF Timed, TrueTimes, Located, Noticed, Way
  <2>2. Senses(rs', real') => Senses(rs, real)'
    BY <2>1 DEF Senses
  <2>3. Measuring(rs', real') => Measuring(rs, real)'
    BY <1>1 DEF Measuring, Way
  <2>4. Sensing' => Sensing
    BY <1>1 DEF Sensing
  <2>5. QED
    BY <2>2, <2>3, <2>4 DEF Sensible
<1>3. Senses(rs, real) /\ Measuring(rs, real)
  BY <1>2 DEF Sensible
<1>4. /\ Cal(rs) /\ Good(rs) /\ rs.autoCal /\ real \in Places(shutter)
  BY <1>2 DEF Calibrating, TypeOK, Sensing, Sensed, Cal, Sane, Places
<1>5. ASSUME Respects(rs, rs'), real' = real
      PROVE  Senses(rs', real') /\ Measuring(rs', real')
  BY <1>2, <1>3, <1>4, <1>5, SparesKeeps, GoesOnMeasuring DEF Respects
<1>6. CASE Ask /\ OneRetimingPerTick
  <2>1. real' = real
    BY <1>6 DEF Ask, ButtonPressed, ButtonReleased, ButtonClicked, HoldReleased,
                ServerMoves, ServerOrStop, ServerSteps, ServerTask, Recalibrate,
                Configure, PowerCycle, By
  <2>2. Respects(rs, rs')
    BY <1>2, <1>3, <1>6, AskRespects DEF Senses
  <2>3. QED
    BY <1>5, <2>1, <2>2
<1>7. CASE TriggerFires
  <2>1. rs' = Fired(rs) /\ real' = real /\ rs.trigger.left # Disarmed
    BY <1>7 DEF TriggerFires, Disarmed
  <2>2. QED
    BY <1>4, <1>5, <2>1, FiredRespects
<1>8. CASE Tick
  BY <1>2, <1>3, <1>4, <1>8, TickSenses
<1>9. CASE UNCHANGED vars
  BY <1>3, <1>9 DEF vars
<1>10. QED
  BY <1>6, <1>7, <1>8, <1>9 DEF Next, vars

(* What that says of the three properties.                                 *)
LEMMA SensesSays ==
  ASSUME Sensing, Senses(rs, real)
  PROVE  MeasuredAgrees /\ NoFalseAlarm /\ PositionAgrees
<1>1. MeasuredAgrees
  <2>1. \A d \in Direction : rs.auto[d] \in {0, shutter.travel}
    BY DEF Senses, Timed
  <2>2. QED
    BY <2>1, Ranges DEF MeasuredAgrees, AutocalDone, Direction
<1>2. NoFalseAlarm
  BY DEF Senses, Silent, NoFalseAlarm
<1>3. PositionAgrees
  BY DEF Senses, Located, Known, PositionAgrees, BothAgree, Agrees, Sensing, Sensed
<1>4. QED
  BY <1>1, <1>2, <1>3

(* It is so in every state of the program.                                 *)
LEMMA AlwaysSensible ==
  ASSUME Undisturbed
  PROVE  Spec /\ [][OneRetimingPerTick]_vars => []Sensible
<1>1. Init => Calibrating /\ Sensible
  BY CalibratingInit, SensesInit DEF Sensible
<1>2. TypeOK /\ Calibrating /\ [Next]_vars /\ [OneRetimingPerTick]_vars => Calibrating'
  BY CalibratingStep
<1>3. TypeOK /\ Calibrating /\ Sensible /\ [Next]_vars /\ [OneRetimingPerTick]_vars
      => Sensible'
  BY SensibleStep
<1>4. QED
  BY <1>1, <1>2, <1>3, TypeCorrect, PTL DEF Spec

(* Automatic calibration measures the real travel time: in both            *)
(* directions, to the tick, wherever the shutter stood when it began, and  *)
(* whatever buttons, server, tasks and recalibration broke off on the way. *)
(* What is counted in the second and third step starts at an end that was  *)
(* really reached, because the sensor sees the motor until then and a step *)
(* that is broken off leaves nothing behind.                               *)
THEOREM MeasuresRight ==
  ASSUME Undisturbed
  PROVE  Spec /\ [][OneRetimingPerTick]_vars => [](Sensed(shutter) => MeasuredAgrees)
<1>1. TypeOK /\ Sensible => (Sensed(shutter) => MeasuredAgrees)
  BY SensesSays DEF Sensible, Sensing, TypeOK
<1>2. QED
  BY <1>1, AlwaysSensible, TypeCorrect, PTL

(* A sound motor raises no alarm: neither does calibration fail, nor is    *)
(* the motor taken for broken as it runs, nor its position for lost when a *)
(* task ends.                                                              *)
THEOREM AlarmsRight ==
  ASSUME Undisturbed
  PROVE  Spec /\ [][OneRetimingPerTick]_vars => [](Sensed(shutter) => NoFalseAlarm)
<1>1. TypeOK /\ Sensible => (Sensed(shutter) => NoFalseAlarm)
  BY SensesSays DEF Sensible, Sensing, TypeOK
<1>2. QED
  BY <1>1, AlwaysSensible, TypeCorrect, PTL

(* The position estimated with the measured times is the real one.         *)
THEOREM PositionMeasured ==
  ASSUME Undisturbed
  PROVE  Spec /\ [][OneRetimingPerTick]_vars => [](Sensed(shutter) => PositionAgrees)
<1>1. TypeOK /\ Sensible => (Sensed(shutter) => PositionAgrees)
  BY SensesSays DEF Sensible, Sensing, TypeOK
<1>2. QED
  BY <1>1, AlwaysSensible, TypeCorrect, PTL
=============================================================================
