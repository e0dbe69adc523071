------------------------------ MODULE Mqtt_proofs ------------------------------
(* The MQTT client for pools of every size, queues and send buffers of every   *)
(* length, and every number of faults: while the client is connected, every    *)
(* topic is in the pool, or the newest message about it that the broker has    *)
(* not read yet tells its value, or the broker holds it.                       *)
EXTENDS Mqtt, SequenceTheorems, FiniteSetTheorems, WellFoundedInduction, TLAPS

--------------------------------------------------------------------------------
(* The parts of the client that mqtt_sync works on, with their values.         *)
Devs == [mode : {"run", "cfg"}, started : BOOLEAN, iterate : BOOLEAN,
         resolving : BOOLEAN, down : Never .. Watchdog,
         status : {"connecting", "connected", "ready", "disconnected"}]
Clients ==
  [error : {"ok", "initial", "uncalled", "socket", "full", "refused"},
   wait : 0 .. Retry, hold : 0 .. Longest, quiet : 0 .. KeepAlive]
Pubs == [pool : SUBSET Pool, next : 0 .. Topics, overruns : 0 .. 2,
         sub : 0 .. Subs + 1]
Entry == [m : Message, state : {"unsent", "sent", "done"}]
Answers == Message \cup {Plain("refused")}
Nets == [wifi : BOOLEAN, closing : BOOLEAN, session : BOOLEAN,
         gethost : {"none", "pending", "lost"},
         tcp : {"none", "connecting", "open"},
         out : Seq(Message), in : Seq(Answers)]
Parts == [d : Devs, c : Clients, q : Seq(Entry), n : Nets]

(* The queue and the send buffer hold what fits into them.                     *)
Fits(s) == s \in Parts /\ Len(s.q) <= QueueMax /\ Len(s.n.out) <= InFlight

(* Without an open connection nothing is under way, and a client that connects *)
(* has nothing to send yet.                                                    *)
Idle(s) ==
  /\ s.n.tcp # "open" => s.n.out = <<>> /\ s.n.in = <<>>
  /\ s.n.tcp = "connecting" => /\ s.c.error \in {"initial", "uncalled"}
                               /\ s.q = <<>> /\ s.d.status # "ready"

(* The queue is cut into the messages that are done, those that were sent and  *)
(* the others: those that were sent are the ones whose answers come in and, after*)
(* them, the ones the broker has still to read, in this order.                 *)
AnswersTo(a, m) == a = m \/ (a.kind = "refused" /\ m.kind = "connect")

Cut(q, n, a, b) ==
  /\ b = a + Len(n.in) + Len(n.out) /\ b <= Len(q)
  /\ \A i \in 1 .. Len(q) : q[i].state = IF i <= a THEN "done"
                                         ELSE IF i <= b THEN "sent" ELSE "unsent"
  /\ \A i \in 1 .. Len(n.in) : AnswersTo(n.in[i], q[a + i].m)
  /\ \A i \in 1 .. Len(n.out) : n.out[i] = q[a + Len(n.in) + i].m

(* The last message about topic i after the first c of the queue tells v; if   *)
(* there is none, the broker holds v already.                                  *)
About(m, i) == m.kind = "publish" /\ m.topic = i
LastAbout(q, j, i) ==
  About(q[j].m, i) /\ \A l \in 1 .. Len(q) : l > j => ~About(q[l].m, i)

Tells(q, c, i, k, v) ==
  /\ \A j \in 1 .. Len(q) : j > c /\ LastAbout(q, j, i) => q[j].m.v = v
  /\ (\A j \in 1 .. Len(q) : j > c => ~About(q[j].m, i)) => k = v

(* While the client is up, this holds of every topic outside the pool, c being *)
(* the number of messages the broker has read.                                 *)
Up(s) == s.d.status = "ready" /\ s.c.error \in {"ok", "full"} /\ s.n.tcp = "open"

OnWay(s, pool, k, v) ==
  s.n.tcp = "open" =>
    \E a \in Nat, b \in Nat :
      /\ Cut(s.q, s.n, a, b)
      /\ Up(s) => \A i \in Pool : i \in pool \/ Tells(s.q, a + Len(s.n.in), i, k[i], v[i])

Good(s, pool, k, v) == Fits(s) /\ Idle(s) /\ OnWay(s, pool, k, v)

IInv == TypeOK /\ Good(Here, pub.pool, kept, val)

--------------------------------------------------------------------------------
(* Least and greatest members.                                                 *)

LEMMA LeastOf ==
  ASSUME NEW S, S \subseteq Nat, S # {}
  PROVE  \E p \in S : \A q \in S : p <= q
<1> DEFINE R == {ss \in Nat \X Nat : ss[1] < ss[2]}
<1>1. IsWellFoundedOn(R, Nat)
  BY NatLessThanWellFounded, Zenon DEF OpToRel
<1> HIDE DEF R
<1>2. PICK p \in S : \A q \in S : ~(<<q, p>> \in R)
  BY <1>1, WFMin
<1>3. \A q \in S : ~(q < p)
  BY <1>2 DEF R
<1>4. QED
  BY <1>3

LEMMA GreatestOf ==
  ASSUME NEW n \in Nat, NEW S, S \subseteq 1 .. n, S # {}
  PROVE  \E p \in S : \A q \in S : p >= q
<1> DEFINE T == {n - x : x \in S}
<1>1. T \subseteq Nat /\ T # {}
  <2>1. \A x \in 1 .. n : n - x \in Nat
    OBVIOUS
  <2>2. QED
    BY <2>1
<1>2. PICK t \in T : \A u \in T : t <= u
  BY <1>1, LeastOf
<1>3. PICK p \in S : t = n - p
  OBVIOUS
<1>4. ASSUME NEW q \in S PROVE p >= q
  <2>1. n - p <= n - q
    BY <1>2, <1>3
  <2>2. QED
    BY <2>1
<1>5. QED
  BY <1>4

LEMMA MinIs ==
  ASSUME NEW S, S \subseteq Int, NEW m \in S, \A x \in S : m <= x
  PROVE  Min(S) = m
<1>1. Min(S) \in S /\ \A x \in S : Min(S) <= x
  BY DEF Min
<1>2. PICK i \in Int, k \in Int : i = m /\ k = Min(S)
  BY <1>1
<1>3. k <= i /\ i <= k
  BY <1>1, <1>2
<1>4. QED
  BY <1>2, <1>3

LEMMA MaxIs ==
  ASSUME NEW S, S \subseteq Int, NEW m \in S, \A x \in S : m >= x
  PROVE  Max(S) = m
<1>1. Max(S) \in S /\ \A x \in S : Max(S) >= x
  BY DEF Max
<1>2. PICK i \in Int, k \in Int : i = m /\ k = Max(S)
  BY <1>1
<1>3. k >= i /\ i >= k
  BY <1>1, <1>2
<1>4. QED
  BY <1>2, <1>3

(* What the code writes as a comparison of two numbers.                        *)
LEMMA MinOfTwo ==
  ASSUME NEW x \in Int, NEW y \in Int
  PROVE  Min({x, y}) = IF x <= y THEN x ELSE y
<1>1. CASE x <= y
  BY <1>1, MinIs
<1>2. CASE ~(x <= y)
  BY <1>2, MinIs
<1>3. QED
  BY <1>1, <1>2

(* The constants are numbers, and no hold time is longer than the longest.     *)
LEMMA Bounds ==
  /\ Topics \in Nat /\ BoardMax \in 0 .. Topics /\ Subs \in Nat
  /\ QueueMax \in Nat \ {0} /\ InFlight \in Nat \ {0} /\ Retry \in Nat
  /\ KeepAlive \in Nat /\ Watchdog \in Nat \ {0} /\ Faults \in Nat
  /\ Longest \in Nat
  /\ PoolDelay \in 0 .. Longest /\ FullHold \in 0 .. Longest /\ StuckHold \in 0 .. Longest
<1>1. {Topics, BoardMax, Subs, QueueMax, InFlight, PoolDelay, FullHold, StuckHold, Retry,
       KeepAlive, Watchdog, Faults} \subseteq Nat
  BY MqttAssumption
<1>2. /\ Topics \in Nat /\ BoardMax \in Nat /\ Subs \in Nat /\ QueueMax \in Nat
      /\ InFlight \in Nat /\ PoolDelay \in Nat /\ FullHold \in Nat /\ StuckHold \in Nat
      /\ Retry \in Nat /\ KeepAlive \in Nat /\ Watchdog \in Nat /\ Faults \in Nat
  BY <1>1
<1>3. PICK m \in {PoolDelay, FullHold, StuckHold} :
        \A x \in {PoolDelay, FullHold, StuckHold} : m >= x
  BY <1>2
<1>4. Longest = m
  BY <1>2, <1>3, MaxIs DEF Longest
<1>5. QED
  BY <1>2, <1>3, <1>4, MqttAssumption

(* Only a publication is about a topic.                                        *)
LEMMA MessageKinds ==
  ASSUME NEW kind \in {"connect", "subscribe", "ping"}
  PROVE  /\ Plain(kind) \in Message
         /\ \A i \in Pool : ~About(Plain(kind), i)
BY DEF Plain, Message, About

(* The publication of a topic is about this topic and tells its value.         *)
LEMMA StateMessage ==
  ASSUME val \in [Pool -> BOOLEAN], NEW i \in Pool
  PROVE  /\ State(i) \in Message /\ State(i).v = val[i]
         /\ \A j \in Pool : About(State(i), j) <=> j = i
BY DEF State, Message, About

--------------------------------------------------------------------------------
(* The queue.                                                                  *)

LEMMA CleanedIs ==
  ASSUME NEW q \in Seq(Entry)
  PROVE  /\ Cleaned(q) \in Seq(Entry)
         /\ Len(Cleaned(q)) <= Len(q)
<1>1. CASE \A i \in DOMAIN q : q[i].state = "done"
  BY <1>1, EmptySeq, LenProperties DEF Cleaned
<1>2. CASE ~(\A i \in DOMAIN q : q[i].state = "done")
  <2> DEFINE S == {i \in DOMAIN q : q[i].state # "done"}
  <2>1. PICK len \in Nat : len = Len(q) /\ DOMAIN q = 1 .. len
    BY LenProperties
  <2>2. S \subseteq 1 .. len /\ S # {}
    BY <1>2, <2>1
  <2>3. S \subseteq Nat /\ S \subseteq Int
    BY <2>2
  <2> HIDE DEF S
  <2>4. \E m \in S : \A x \in S : m <= x
    BY <2>2, <2>3, LeastOf
  <2>5. PICK m \in 1 .. len : m \in S /\ \A x \in S : m <= x
    BY <2>2, <2>4
  <2>6. Min(S) = m
    BY <2>3, <2>5, MinIs
  <2>7. Cleaned(q) = SubSeq(q, m, len)
    BY <1>2, <2>1, <2>6 DEF Cleaned, S
  <2>8. \A i \in m .. len : q[i] \in Entry
    BY <2>1, ElementOfSeq
  <2>9. /\ SubSeq(q, m, len) \in Seq(Entry)
        /\ Len(SubSeq(q, m, len)) = len - m + 1
    BY <2>8, SubSeqProperties
  <2>10. QED
    BY <2>1, <2>7, <2>9
<1>3. QED
  BY <1>1, <1>2

(* The lengths a cut is about.                                                 *)
LEMMA Lengths ==
  ASSUME NEW q \in Seq(Entry), NEW n \in Nets
  PROVE  /\ Len(q) \in Nat /\ Len(n.in) \in Nat /\ Len(n.out) \in Nat
         /\ DOMAIN q = 1 .. Len(q)
BY LenProperties DEF Nets

(* What is cleaned away is what is done.                                       *)
LEMMA CleanedFrom ==
  ASSUME NEW q \in Seq(Entry), NEW n \in Nets, NEW a \in Nat, NEW b \in Nat,
         Cut(q, n, a, b), NEW len \in Nat, len = Len(q)
  PROVE  /\ Len(Cleaned(q)) = len - a
         /\ \A i \in 1 .. len - a : Cleaned(q)[i] = q[a + i]
<1>1. PICK in \in Nat, out \in Nat : in = Len(n.in) /\ out = Len(n.out)
  BY Lengths
<1>2. b = a + in + out /\ b <= len
  BY <1>1 DEF Cut
<1>3. /\ DOMAIN q = 1 .. len /\ a <= b
      /\ \A i \in 1 .. len : (q[i].state # "done") <=> (i > a)
  <2>1. DOMAIN q = 1 .. len /\ a <= b
    BY <1>2, Lengths
  <2>2. ASSUME NEW i \in 1 .. len
        PROVE  (q[i].state # "done") <=> (i > a)
    <3>1. q[i].state = IF i <= a THEN "done" ELSE IF i <= b THEN "sent" ELSE "unsent"
      BY DEF Cut
    <3>2. QED
      BY <3>1
  <2>3. QED
    BY <2>1, <2>2
<1>4. CASE a = len
  <2>1. \A i \in DOMAIN q : q[i].state = "done"
    BY <1>3, <1>4
  <2>2. Cleaned(q) = <<>>
    BY <2>1 DEF Cleaned
  <2>3. QED
    BY <1>4, <2>2
<1>5. CASE a # len
  <2> DEFINE S == {i \in DOMAIN q : q[i].state # "done"}
  <2>1. a < len
    BY <1>2, <1>3, <1>5
  <2>2. S = a + 1 .. len
    BY <1>3
  <2> HIDE DEF S
  <2>3. Min(S) = a + 1 /\ S # {}
    <3>1. a + 1 \in S /\ S \subseteq Int /\ \A x \in S : a + 1 <= x
      BY <2>1, <2>2
    <3>2. QED
      BY <3>1, MinIs
  <2>4. Cleaned(q) = SubSeq(q, a + 1, len)
    BY <2>3 DEF Cleaned, S
  <2>5. \A i \in a + 1 .. len : q[i] \in Entry
    BY ElementOfSeq
  <2>6. /\ Len(SubSeq(q, a + 1, len)) = IF a + 1 <= len THEN len - (a + 1) + 1 ELSE 0
        /\ \A i \in 1 .. len - (a + 1) + 1 : SubSeq(q, a + 1, len)[i] = q[(a + 1) + i - 1]
    BY <2>5, SubSeqProperties
  <2>7. \A i \in 1 .. len - a : (a + 1) + i - 1 = a + i
    OBVIOUS
  <2>8. QED
    BY <2>1, <2>4, <2>6, <2>7
<1>6. QED
  BY <1>4, <1>5

(* The cut of what is left, which tells the same.                              *)
LEMMA CleanedCut ==
  ASSUME NEW q \in Seq(Entry), NEW n \in Nets, NEW a \in Nat, NEW b \in Nat,
         Cut(q, n, a, b)
  PROVE  /\ Cut(Cleaned(q), n, 0, b - a) /\ b - a \in Nat
         /\ \A c \in Nat, i \in Pool, k \in BOOLEAN, v \in BOOLEAN :
              Tells(q, a + c, i, k, v) => Tells(Cleaned(q), c, i, k, v)
<1> DEFINE r == Cleaned(q)
<1>1. PICK in \in Nat, out \in Nat, len \in Nat :
        in = Len(n.in) /\ out = Len(n.out) /\ len = Len(q)
  BY Lengths
<1>2. b = a + in + out /\ b <= len
  BY <1>1 DEF Cut
<1>3. Len(r) = len - a /\ \A i \in 1 .. len - a : r[i] = q[a + i]
  BY <1>1, CleanedFrom
<1> HIDE DEF r
<1>4. Cut(r, n, 0, b - a)
  <2>1. ASSUME NEW i \in 1 .. len - a
        PROVE  r[i].state = IF i <= 0 THEN "done"
                            ELSE IF i <= b - a THEN "sent" ELSE "unsent"
    <3>1. r[i] = q[a + i] /\ a + i \in 1 .. len
      BY <1>3
    <3>2. q[a + i].state = IF a + i <= a THEN "done"
                           ELSE IF a + i <= b THEN "sent" ELSE "unsent"
      BY <1>1, <3>1 DEF Cut
    <3>3. QED
      BY <3>1, <3>2
  <2>2. ASSUME NEW i \in 1 .. in
        PROVE  AnswersTo(n.in[i], r[0 + i].m)
    <3>1. i \in 1 .. len - a /\ 0 + i = i
      BY <1>2
    <3>2. AnswersTo(n.in[i], q[a + i].m)
      BY <1>1 DEF Cut
    <3>3. QED
      BY <1>3, <3>1, <3>2
  <2>3. ASSUME NEW i \in 1 .. out
        PROVE  n.out[i] = r[0 + in + i].m
    <3>1. 0 + in + i \in 1 .. len - a /\ a + (0 + in + i) = a + in + i
      BY <1>2
    <3>2. n.out[i] = q[a + in + i].m
      BY <1>1 DEF Cut
    <3>3. QED
      BY <1>3, <3>1, <3>2
  <2>4. b - a = 0 + in + out /\ b - a <= len - a
    BY <1>2
  <2>5. QED
    BY <1>1, <1>3, <2>1, <2>2, <2>3, <2>4 DEF Cut
<1>5. ASSUME NEW c \in Nat, NEW i \in Pool, NEW k \in BOOLEAN, NEW v \in BOOLEAN,
             Tells(q, a + c, i, k, v)
      PROVE  Tells(r, c, i, k, v)
  <2>1. ASSUME NEW j \in 1 .. len - a, j > c, LastAbout(r, j, i)
        PROVE  r[j].m.v = v
    <3>1. a + j \in 1 .. len /\ a + j > a + c /\ r[j] = q[a + j]
      BY <1>3, <2>1
    <3>2. ASSUME NEW l \in 1 .. len, l > a + j
          PROVE  ~About(q[l].m, i)
      <4>1. l - a \in 1 .. len - a /\ l - a > j /\ a + (l - a) = l
        BY <3>2
      <4>2. r[l - a] = q[l]
        BY <1>3, <4>1
      <4>3. QED
        BY <1>3, <2>1, <4>1, <4>2 DEF LastAbout
    <3>3. LastAbout(q, a + j, i)
      BY <1>1, <2>1, <3>1, <3>2 DEF LastAbout
    <3>4. QED
      BY <1>1, <1>5, <3>1, <3>3 DEF Tells
  <2>2. ASSUME \A j \in 1 .. len - a : j > c => ~About(r[j].m, i)
        PROVE  k = v
    <3>1. ASSUME NEW j \in 1 .. len, j > a + c
          PROVE  ~About(q[j].m, i)
      <4>1. j - a \in 1 .. len - a /\ j - a > c /\ a + (j - a) = j
        BY <3>1
      <4>2. r[j - a] = q[j]
        BY <1>3, <4>1
      <4>3. QED
        BY <2>2, <4>1, <4>2
    <3>2. QED
      BY <1>1, <1>5, <3>1 DEF Tells
  <2>3. QED
    BY <1>3, <2>1, <2>2 DEF Tells
<1>6. b - a \in Nat
  BY <1>2
<1>7. QED
  BY <1>4, <1>5, <1>6 DEF r

(* A new message is unsent, and it is the last one about its topic.            *)
LEMMA AppendCut ==
  ASSUME NEW q \in Seq(Entry), NEW n \in Nets, NEW a \in Nat, NEW b \in Nat,
         Cut(q, n, a, b), NEW m \in Message
  PROVE  LET r == Append(q, [m |-> m, state |-> "unsent"])
         IN  /\ r \in Seq(Entry) /\ Len(r) = Len(q) + 1 /\ Cut(r, n, a, b)
             /\ \A c \in Nat, i \in Pool, k \in BOOLEAN, v \in BOOLEAN :
                  /\ Tells(q, c, i, k, v) /\ ~About(m, i) => Tells(r, c, i, k, v)
                  /\ About(m, i) /\ m.v = v /\ c <= Len(q) => Tells(r, c, i, k, v)
<1> DEFINE e == [m |-> m, state |-> "unsent"]
           r == Append(q, e)
<1>1. PICK in \in Nat, out \in Nat, len \in Nat :
        in = Len(n.in) /\ out = Len(n.out) /\ len = Len(q)
  BY Lengths
<1>2. b = a + in + out /\ b <= len
  BY <1>1 DEF Cut
<1>3. e \in Entry /\ e.m = m /\ e.state = "unsent"
  BY DEF Entry
<1> HIDE DEF e
<1>4. /\ r \in Seq(Entry) /\ Len(r) = len + 1
      /\ \A i \in 1 .. len : r[i] = q[i]
      /\ r[len + 1] = e
  BY <1>1, <1>3, AppendProperties
<1> HIDE DEF r
<1>5. Cut(r, n, a, b)
  <2>1. ASSUME NEW i \in 1 .. len + 1
        PROVE  r[i].state = IF i <= a THEN "done"
                            ELSE IF i <= b THEN "sent" ELSE "unsent"
    <3>1. CASE i = len + 1
      BY <1>2, <1>3, <1>4, <3>1
    <3>2. CASE i # len + 1
      <4>1. i \in 1 .. len
        BY <3>2
      <4>2. QED
        BY <1>1, <1>4, <4>1 DEF Cut
    <3>3. QED
      BY <3>1, <3>2
  <2>2. ASSUME NEW i \in 1 .. in
        PROVE  AnswersTo(n.in[i], r[a + i].m)
    <3>1. a + i \in 1 .. len
      BY <1>2
    <3>2. QED
      BY <1>1, <1>4, <3>1 DEF Cut
  <2>3. ASSUME NEW i \in 1 .. out
        PROVE  n.out[i] = r[a + in + i].m
    <3>1. a + in + i \in 1 .. len
      BY <1>2
    <3>2. QED
      BY <1>1, <1>4, <3>1 DEF Cut
  <2>4. b <= len + 1
    BY <1>2
  <2>5. QED
    BY <1>1, <1>2, <1>4, <2>1, <2>2, <2>3, <2>4 DEF Cut
<1>6. ASSUME NEW c \in Nat, NEW i \in Pool, NEW k \in BOOLEAN, NEW v \in BOOLEAN,
             Tells(q, c, i, k, v), ~About(m, i)
      PROVE  Tells(r, c, i, k, v)
  <2>1. ASSUME NEW j \in 1 .. len + 1, j > c, LastAbout(r, j, i)
        PROVE  r[j].m.v = v
    <3>1. j # len + 1
      BY <1>3, <1>4, <1>6, <2>1 DEF LastAbout
    <3>2. j \in 1 .. len /\ r[j] = q[j]
      BY <1>4, <3>1
    <3>3. ASSUME NEW l \in 1 .. len, l > j PROVE ~About(q[l].m, i)
      <4>1. l \in 1 .. len + 1 /\ r[l] = q[l]
        BY <1>4
      <4>2. QED
        BY <1>4, <2>1, <3>3, <4>1 DEF LastAbout
    <3>4. LastAbout(q, j, i)
      BY <1>1, <2>1, <3>2, <3>3 DEF LastAbout
    <3>5. QED
      BY <1>1, <1>6, <2>1, <3>2, <3>4 DEF Tells
  <2>2. ASSUME \A j \in 1 .. len + 1 : j > c => ~About(r[j].m, i)
        PROVE  k = v
    <3>1. ASSUME NEW j \in 1 .. len, j > c PROVE ~About(q[j].m, i)
      <4>1. j \in 1 .. len + 1 /\ r[j] = q[j]
        BY <1>4
      <4>2. QED
        BY <2>2, <3>1, <4>1
    <3>2. QED
      BY <1>1, <1>6, <3>1 DEF Tells
  <2>3. QED
    BY <1>4, <2>1, <2>2 DEF Tells
<1>7. ASSUME NEW c \in Nat, NEW i \in Pool, NEW k \in BOOLEAN, NEW v \in BOOLEAN,
             About(m, i), m.v = v, c <= Len(q)
      PROVE  Tells(r, c, i, k, v)
  <2>1. len + 1 \in 1 .. len + 1 /\ len + 1 > c
    BY <1>1, <1>7
  <2>2. ASSUME NEW j \in 1 .. len + 1, j > c, LastAbout(r, j, i)
        PROVE  r[j].m.v = v
    <3>1. ~(len + 1 > j)
      BY <1>3, <1>4, <1>7, <2>1, <2>2 DEF LastAbout
    <3>2. j = len + 1
      BY <3>1
    <3>3. QED
      BY <1>3, <1>4, <1>7, <3>2
  <2>3. ~(\A j \in 1 .. len + 1 : j > c => ~About(r[j].m, i))
    BY <1>3, <1>4, <1>7, <2>1
  <2>4. QED
    BY <1>4, <2>2, <2>3 DEF Tells
<1>8. QED
  BY <1>1, <1>4, <1>5, <1>6, <1>7 DEF r, e

(* MQTT_CLIENT_TRY_PACK, when there is room.                                   *)
LEMMA PackedIs ==
  ASSUME NEW q \in Seq(Entry), NEW m \in Message, Room(q), Len(q) <= QueueMax
  PROVE  Packed(q, m) \in Seq(Entry) /\ Len(Packed(q, m)) <= QueueMax
<1> DEFINE e == [m |-> m, state |-> "unsent"]
<1>1. e \in Entry
  BY DEF Entry
<1>2. PICK p \in Seq(Entry) : p = (IF Len(q) < QueueMax THEN q ELSE Cleaned(q))
  BY CleanedIs
<1>3. PICK len \in Nat : len = Len(p) /\ len < QueueMax
  <2>1. Len(p) \in Nat
    BY LenProperties
  <2>2. Len(p) < QueueMax
    BY <1>2 DEF Room
  <2>3. QED
    BY <2>1, <2>2
<1>4. Packed(q, m) = Append(p, e)
  BY <1>2 DEF Packed
<1>5. Append(p, e) \in Seq(Entry) /\ Len(Append(p, e)) = len + 1
  BY <1>1, <1>3, AppendProperties
<1>6. len + 1 <= QueueMax
  BY <1>3, Bounds
<1>7. QED
  BY <1>4, <1>5, <1>6

(* What is packed is the newest message about its topic.                       *)
LEMMA PackedCut ==
  ASSUME NEW q \in Seq(Entry), NEW n \in Nets, NEW a \in Nat, NEW b \in Nat,
         Cut(q, n, a, b), NEW m \in Message
  PROVE  \E d \in Nat, e \in Nat :
           /\ Cut(Packed(q, m), n, d, e)
           /\ \A i \in Pool, k \in BOOLEAN, v \in BOOLEAN :
                \/ Tells(q, a + Len(n.in), i, k, v) /\ ~About(m, i)
                \/ About(m, i) /\ m.v = v
                => Tells(Packed(q, m), d + Len(n.in), i, k, v)
<1>1. PICK in \in Nat, out \in Nat, len \in Nat :
        in = Len(n.in) /\ out = Len(n.out) /\ len = Len(q)
  BY Lengths
<1>2. a + in <= len /\ in <= len - a /\ len - a \in Nat
  <2>1. b = a + in + out /\ b <= len
    BY <1>1 DEF Cut
  <2>2. QED
    BY <2>1
<1>3. CASE Len(q) < QueueMax
  <2> DEFINE r == Append(q, [m |-> m, state |-> "unsent"])
  <2>1. Packed(q, m) = r
    BY <1>3 DEF Packed
  <2>2. /\ Cut(r, n, a, b)
        /\ \A c \in Nat, i \in Pool, k \in BOOLEAN, v \in BOOLEAN :
             /\ Tells(q, c, i, k, v) /\ ~About(m, i) => Tells(r, c, i, k, v)
             /\ About(m, i) /\ m.v = v /\ c <= Len(q) => Tells(r, c, i, k, v)
    BY AppendCut
  <2> HIDE DEF r
  <2>3. PICK c \in Nat : c = a + in
    OBVIOUS
  <2>4. ASSUME NEW i \in Pool, NEW k \in BOOLEAN, NEW v \in BOOLEAN,
               \/ Tells(q, c, i, k, v) /\ ~About(m, i)
               \/ About(m, i) /\ m.v = v
        PROVE  Tells(r, c, i, k, v)
    <3>1. CASE Tells(q, c, i, k, v) /\ ~About(m, i)
      BY <2>2, <3>1
    <3>2. CASE About(m, i) /\ m.v = v
      BY <1>1, <1>2, <2>2, <2>3, <3>2
    <3>3. QED
      BY <2>4, <3>1, <3>2
  <2>5. QED
    BY <1>1, <2>1, <2>2, <2>3, <2>4
<1>4. CASE ~(Len(q) < QueueMax)
  <2>1. PICK p \in Seq(Entry), e \in Nat : p = Cleaned(q) /\ e = b - a
    BY CleanedIs, CleanedCut
  <2>2. /\ Cut(p, n, 0, e)
        /\ \A c \in Nat, i \in Pool, k \in BOOLEAN, v \in BOOLEAN :
             Tells(q, a + c, i, k, v) => Tells(p, c, i, k, v)
    BY <2>1, CleanedCut
  <2>3. Len(p) = len - a
    BY <1>1, <2>1, CleanedFrom
  <2> DEFINE r == Append(p, [m |-> m, state |-> "unsent"])
  <2>4. Packed(q, m) = r
    BY <1>4, <2>1 DEF Packed
  <2>5. PICK z \in Nat : z = 0
    OBVIOUS
  <2>6. /\ Cut(r, n, z, e)
        /\ \A c \in Nat, i \in Pool, k \in BOOLEAN, v \in BOOLEAN :
             /\ Tells(p, c, i, k, v) /\ ~About(m, i) => Tells(r, c, i, k, v)
             /\ About(m, i) /\ m.v = v /\ c <= Len(p) => Tells(r, c, i, k, v)
    BY <2>2, <2>5, AppendCut
  <2> HIDE DEF r
  <2>7. ASSUME NEW i \in Pool, NEW k \in BOOLEAN, NEW v \in BOOLEAN,
               \/ Tells(q, a + in, i, k, v) /\ ~About(m, i)
               \/ About(m, i) /\ m.v = v
        PROVE  Tells(r, in, i, k, v)
    <3>1. CASE Tells(q, a + in, i, k, v) /\ ~About(m, i)
      BY <2>2, <2>6, <3>1
    <3>2. CASE About(m, i) /\ m.v = v
      BY <1>2, <2>3, <2>6, <3>2
    <3>3. QED
      BY <2>7, <3>1, <3>2
  <2>8. z + in = in
    BY <2>5
  <2>9. QED
    BY <1>1, <2>4, <2>6, <2>7, <2>8
<1>5. QED
  BY <1>3, <1>4

(* Only the messages matter, not which of them were sent.                      *)
SameAs(r, q) == Len(r) = Len(q) /\ \A i \in 1 .. Len(q) : r[i].m = q[i].m

LEMMA SameMessages ==
  ASSUME NEW q \in Seq(Entry), NEW r \in Seq(Entry), SameAs(r, q),
         NEW c \in Nat, NEW i \in Pool, NEW k \in BOOLEAN, NEW v \in BOOLEAN,
         Tells(q, c, i, k, v)
  PROVE  Tells(r, c, i, k, v)
<1>1. PICK len \in Nat : len = Len(q)
  BY LenProperties
<1>2. len = Len(r) /\ \A j \in 1 .. len : r[j].m = q[j].m
  BY <1>1 DEF SameAs
<1>3. \A j \in 1 .. len : LastAbout(r, j, i) => LastAbout(q, j, i)
  BY <1>1, <1>2 DEF LastAbout
<1>4. QED
  BY <1>1, <1>2, <1>3 DEF Tells

--------------------------------------------------------------------------------
(* The parts of the client after each of the steps of mqtt_sync.               *)

(* A change of the rest of the device or of the client does not matter, unless *)
(* it takes the client up.                                                     *)
LEMMA GoodBeside ==
  ASSUME NEW s, NEW t, NEW pool, NEW k, NEW v, Good(s, pool, k, v), t \in Parts,
         t.q = s.q, t.n = s.n, Up(t) => Up(s),
         s.n.tcp = "connecting" => t.c.error = s.c.error /\ t.d.status # "ready"
  PROVE  Good(t, pool, k, v)
<1>1. Fits(t) /\ Idle(t)
  BY DEF Good, Fits, Idle
<1>2. OnWay(t, pool, k, v)
  BY DEF Good, OnWay
<1>3. QED
  BY <1>1, <1>2 DEF Good

(* A bigger pool is no harm.                                                   *)
LEMMA GoodPool ==
  ASSUME NEW s, NEW pool, NEW more, NEW k, NEW v, Good(s, pool, k, v), pool \subseteq more
  PROVE  Good(s, more, k, v)
<1>1. OnWay(s, more, k, v)
  BY DEF Good, OnWay
<1>2. QED
  BY <1>1 DEF Good

(* Without an open connection nothing has to be shown about the queue.         *)
LEMMA GoodWithout ==
  ASSUME NEW s \in Parts, Len(s.q) <= QueueMax, s.n.tcp # "open",
         s.n.out = <<>>, s.n.in = <<>>,
         s.n.tcp = "connecting" => /\ s.c.error \in {"initial", "uncalled"}
                                   /\ s.q = <<>> /\ s.d.status # "ready",
         NEW pool, NEW k, NEW v
  PROVE  Good(s, pool, k, v)
<1>1. Len(s.n.out) <= InFlight
  BY Bounds
<1>2. QED
  BY <1>1 DEF Good, Fits, Idle, OnWay

(* A status has its type, and the time without a connection its bounds.        *)
LEMMA StatusType ==
  ASSUME NEW d \in Devs, NEW st \in {"connecting", "connected", "ready", "disconnected"}
  PROVE  WithStatus(d, st) \in Devs /\ WithStatus(d, st).status = st
<1>1. 0 \in Never .. Watchdog /\ Never \in Never .. Watchdog
  BY Bounds DEF Never
<1>2. QED
  BY <1>1 DEF WithStatus, Devs

(* A closed connection has nothing under way.                                  *)
LEMMA ClosedType ==
  ASSUME NEW n \in Nets
  PROVE  LET c == Closed(n)
         IN  c \in Nets /\ c.tcp = "none" /\ c.out = <<>> /\ c.in = <<>>
<1>1. PICK o \in Seq(Message), i \in Seq(Answers) : o = <<>> /\ i = <<>>
  BY EmptySeq
<1>2. Closed(n) = [n EXCEPT !.closing = @ \/ n.tcp = "open",
                            !.tcp = "none", !.session = FALSE, !.out = o, !.in = i]
  BY <1>1 DEF Closed
<1>3. PICK closing \in BOOLEAN : closing = (n.closing \/ n.tcp = "open")
  BY DEF Nets
<1>4. Closed(n) = [n EXCEPT !.closing = closing, !.tcp = "none", !.session = FALSE,
                            !.out = o, !.in = i]
  BY <1>2, <1>3
<1>5. QED
  BY <1>1, <1>4 DEF Nets

(* The reconnect callback either does nothing or starts anew.                  *)
LEMMA ReconnectedIs ==
  ASSUME NEW s \in Parts
  PROVE  LET t == Reconnected(s)
         IN  \/ t = s
             \/ /\ \A pool, k, v : Good(t, pool, k, v)
                /\ t.q = <<>> /\ ~Up(t)
<1> DEFINE t == Reconnected(s)
           st == IF s.n.wifi THEN "connecting" ELSE "disconnected"
           tcp == IF s.n.wifi THEN "connecting" ELSE "none"
           d == WithStatus(s.d, st)
           n == [Closed(s.n) EXCEPT !.tcp = tcp]
           c == [s.c EXCEPT !.error = "uncalled", !.wait = Retry]
<1>1. CASE s.c.error = "ok" \/ (s.c.error # "initial" /\ s.c.wait > 0)
  BY <1>1 DEF Reconnected
<1>2. CASE ~(s.c.error = "ok" \/ (s.c.error # "initial" /\ s.c.wait > 0))
  <2>1. t = [d |-> d, c |-> c, q |-> <<>>, n |-> n]
    BY <1>2 DEF Reconnected
  <2>2. s.d \in Devs /\ s.c \in Clients /\ s.n \in Nets
    BY DEF Parts
  <2>3. st \in {"connecting", "disconnected"} /\ tcp \in {"connecting", "none"}
    OBVIOUS
  <2> HIDE DEF st, tcp
  <2>4. d \in Devs /\ d.status # "ready"
    BY <2>2, <2>3, StatusType
  <2>5. n \in Nets /\ n.tcp = tcp /\ n.out = <<>> /\ n.in = <<>>
    BY <2>2, <2>3, ClosedType DEF Nets
  <2>6. c \in Clients /\ c.error = "uncalled"
    <3>1. Retry \in 0 .. Retry
      BY Bounds
    <3>2. QED
      BY <2>2, <3>1 DEF Clients
  <2> HIDE DEF d, n, c, t
  <2>7. <<>> \in Seq(Entry) /\ Len(<<>>) = 0 /\ 0 <= QueueMax
    BY EmptySeq, Bounds
  <2>8. t \in Parts /\ t.q = <<>> /\ t.d = d /\ t.n = n /\ t.c = c
    BY <2>1, <2>4, <2>5, <2>6, <2>7 DEF Parts
  <2>9. \A pool, k, v : Good(t, pool, k, v)
    BY <2>3, <2>4, <2>5, <2>6, <2>7, <2>8, GoodWithout
  <2>10. ~Up(t)
    BY <2>4, <2>8 DEF Up
  <2>11. QED
    BY <2>8, <2>9, <2>10 DEF t
<1>3. QED
  BY <1>1, <1>2

(* A message is packed, and the topics it is about may leave the pool.         *)
LEMMA PackedGood ==
  ASSUME NEW s, NEW pool, NEW rest, NEW k \in [Pool -> BOOLEAN],
         NEW v \in [Pool -> BOOLEAN], Good(s, pool, k, v),
         s.n.tcp # "connecting", NEW m \in Message, Room(s.q),
         \A i \in Pool \ rest : \/ i \notin pool /\ ~About(m, i)
                                \/ About(m, i) /\ m.v = v[i]
  PROVE  Good([s EXCEPT !.q = Packed(@, m)], rest, k, v)
<1> DEFINE t == [s EXCEPT !.q = Packed(@, m)]
<1>1. /\ s \in Parts /\ s.q \in Seq(Entry) /\ Len(s.q) <= QueueMax /\ s.n \in Nets
  BY DEF Good, Fits, Parts
<1>2. Packed(s.q, m) \in Seq(Entry) /\ Len(Packed(s.q, m)) <= QueueMax
  BY <1>1, PackedIs
<1>3. /\ t \in Parts /\ t.q = Packed(s.q, m) /\ t.n = s.n /\ t.d = s.d /\ t.c = s.c
  BY <1>1, <1>2 DEF Parts
<1> HIDE DEF t
<1>4. Fits(t) /\ Idle(t)
  BY <1>2, <1>3 DEF Good, Fits, Idle
<1>5. OnWay(t, rest, k, v)
  <2> SUFFICES ASSUME s.n.tcp = "open"
               PROVE  \E a \in Nat, b \in Nat :
                        /\ Cut(t.q, t.n, a, b)
                        /\ Up(t) => \A i \in Pool : \/ i \in rest
                              \/ Tells(t.q, a + Len(t.n.in), i, k[i], v[i])
    BY <1>3 DEF OnWay
  <2>1. PICK a \in Nat, b \in Nat :
          /\ Cut(s.q, s.n, a, b)
          /\ Up(s) => \A i \in Pool :
               i \in pool \/ Tells(s.q, a + Len(s.n.in), i, k[i], v[i])
    BY DEF Good, OnWay
  <2>2. PICK d \in Nat, e \in Nat :
          /\ Cut(t.q, s.n, d, e)
          /\ \A i \in Pool, kept1 \in BOOLEAN, val1 \in BOOLEAN :
               \/ Tells(s.q, a + Len(s.n.in), i, kept1, val1) /\ ~About(m, i)
               \/ About(m, i) /\ m.v = val1
               => Tells(t.q, d + Len(s.n.in), i, kept1, val1)
    <3>1. PICK q \in Seq(Entry), n \in Nets : q = s.q /\ n = s.n
      BY <1>1
    <3>2. Cut(q, n, a, b)
      BY <2>1, <3>1
    <3>3. \E d \in Nat, e \in Nat :
            /\ Cut(Packed(q, m), n, d, e)
            /\ \A i \in Pool, kept1 \in BOOLEAN, val1 \in BOOLEAN :
                 \/ Tells(q, a + Len(n.in), i, kept1, val1) /\ ~About(m, i)
                 \/ About(m, i) /\ m.v = val1
                 => Tells(Packed(q, m), d + Len(n.in), i, kept1, val1)
      BY <3>2, PackedCut, Zenon
    <3>4. t.q = Packed(q, m)
      BY <1>3, <3>1
    <3>5. QED
      BY <3>1, <3>3, <3>4
  <2>3. ASSUME Up(t), NEW i \in Pool \ rest
        PROVE  Tells(t.q, d + Len(s.n.in), i, k[i], v[i])
    <3>1. Up(s) /\ k[i] \in BOOLEAN /\ v[i] \in BOOLEAN
      BY <1>3, <2>3 DEF Up
    <3>2. CASE i \notin pool /\ ~About(m, i)
      BY <2>1, <2>2, <3>1, <3>2
    <3>3. CASE About(m, i) /\ m.v = v[i]
      BY <2>2, <3>1, <3>3
    <3>4. QED
      BY <3>2, <3>3
  <2>4. QED
    BY <1>3, <2>2, <2>3
<1>6. QED
  BY <1>4, <1>5 DEF Good, t

(* A plain message is about no topic.                                          *)
LEMMA PlainGood ==
  ASSUME NEW s, NEW pool, NEW k \in [Pool -> BOOLEAN], NEW v \in [Pool -> BOOLEAN],
         Good(s, pool, k, v), s.n.tcp # "connecting", Room(s.q),
         NEW kind \in {"connect", "subscribe", "ping"}
  PROVE  Good([s EXCEPT !.q = Packed(@, Plain(kind))], pool, k, v)
BY MessageKinds, PackedGood

(* The ping is packed, or the queue is full and the client has an error.       *)
LEMMA PingedGood ==
  ASSUME NEW s, NEW pool, NEW k \in [Pool -> BOOLEAN], NEW v \in [Pool -> BOOLEAN],
         Good(s, pool, k, v)
  PROVE  Good(Pinged(s), pool, k, v)
<1>1. s \in Parts /\ s.c \in Clients
  BY DEF Good, Fits, Parts
<1>2. CASE s.c.error # "ok" \/ s.c.quiet < KeepAlive
  BY <1>2 DEF Pinged
<1>3. CASE s.c.error = "ok" /\ ~(s.c.quiet < KeepAlive) /\ Room(s.q)
  <2>1. s.n.tcp # "connecting"
    BY <1>3 DEF Good, Idle
  <2>2. Pinged(s) = [s EXCEPT !.q = Packed(@, Plain("ping"))]
    BY <1>3 DEF Pinged
  <2>3. PICK kind \in {"connect", "subscribe", "ping"} : kind = "ping"
    OBVIOUS
  <2>4. Good([s EXCEPT !.q = Packed(@, Plain(kind))], pool, k, v)
    BY <1>3, <2>1, PlainGood
  <2>5. QED
    BY <2>2, <2>3, <2>4
<1>4. CASE s.c.error = "ok" /\ ~(s.c.quiet < KeepAlive) /\ ~Room(s.q)
  <2> DEFINE t == [s EXCEPT !.c.error = "full"]
  <2>1. Pinged(s) = t
    BY <1>4 DEF Pinged
  <2>2. /\ t \in Parts /\ t.q = s.q /\ t.n = s.n /\ t.d = s.d
        /\ t.c.error = "full"
    BY <1>1 DEF Parts, Clients
  <2>3. Up(t) => Up(s)
    BY <1>4, <2>2 DEF Up
  <2>4. s.n.tcp # "connecting"
    BY <1>4 DEF Good, Idle
  <2> HIDE DEF t
  <2>5. QED
    BY <2>1, <2>2, <2>3, <2>4, GoodBeside
<1>5. QED
  BY <1>2, <1>3, <1>4

(* The head of the queue is cleaned away.                                      *)
LEMMA CleanedGood ==
  ASSUME NEW s, NEW pool, NEW k \in [Pool -> BOOLEAN], NEW v \in [Pool -> BOOLEAN],
         Good(s, pool, k, v)
  PROVE  Good([s EXCEPT !.q = Cleaned(@)], pool, k, v)
<1> DEFINE t == [s EXCEPT !.q = Cleaned(@)]
<1>1. s \in Parts /\ s.q \in Seq(Entry) /\ Len(s.q) <= QueueMax /\ s.n \in Nets
  BY DEF Good, Fits, Parts
<1>2. Cleaned(s.q) \in Seq(Entry) /\ Len(Cleaned(s.q)) <= QueueMax
  <2>1. PICK l \in Nat, h \in Nat : l = Len(Cleaned(s.q)) /\ h = Len(s.q)
    BY <1>1, CleanedIs, LenProperties
  <2>2. l <= h /\ h <= QueueMax
    BY <1>1, <2>1, CleanedIs
  <2>3. QED
    BY <1>1, <2>1, <2>2, CleanedIs, Bounds
<1>3. t \in Parts /\ t.q = Cleaned(s.q) /\ t.n = s.n /\ t.d = s.d /\ t.c = s.c
  BY <1>1, <1>2 DEF Parts
<1> HIDE DEF t
<1>4. s.q = <<>> => t.q = <<>>
  BY <1>3 DEF Cleaned
<1>5. Fits(t) /\ Idle(t)
  BY <1>2, <1>3, <1>4 DEF Good, Fits, Idle
<1>6. OnWay(t, pool, k, v)
  <2> SUFFICES ASSUME s.n.tcp = "open"
               PROVE  \E a \in Nat, b \in Nat :
                        /\ Cut(t.q, t.n, a, b)
                        /\ Up(t) => \A i \in Pool : \/ i \in pool
                              \/ Tells(t.q, a + Len(t.n.in), i, k[i], v[i])
    BY <1>3 DEF OnWay
  <2>1. PICK a \in Nat, b \in Nat :
          /\ Cut(s.q, s.n, a, b)
          /\ Up(s) => \A i \in Pool :
               i \in pool \/ Tells(s.q, a + Len(s.n.in), i, k[i], v[i])
    BY DEF Good, OnWay
  <2>2. PICK z \in Nat, e \in Nat, in \in Nat : z = 0 /\ e = b - a /\ in = Len(s.n.in)
    BY <1>1, <2>1, CleanedCut, Lengths
  <2>3. /\ Cut(t.q, s.n, z, e)
        /\ \A c \in Nat, i \in Pool, kk \in BOOLEAN, vv \in BOOLEAN :
             Tells(s.q, a + c, i, kk, vv) => Tells(t.q, c, i, kk, vv)
    BY <1>1, <1>3, <2>1, <2>2, CleanedCut
  <2>4. z + in = in
    BY <2>2
  <2>5. ASSUME Up(t), NEW i \in Pool \ pool
        PROVE  Tells(t.q, z + in, i, k[i], v[i])
    <3>1. Up(s) /\ k[i] \in BOOLEAN /\ v[i] \in BOOLEAN
      BY <1>3, <2>5 DEF Up
    <3>2. QED
      BY <2>1, <2>2, <2>3, <2>4, <3>1
  <2>6. QED
    BY <1>3, <2>2, <2>3, <2>5
<1>7. QED
  BY <1>5, <1>6 DEF Good, t

(* A function on 1 .. n is a sequence.                                         *)
LEMMA SeqOf ==
  ASSUME NEW S, NEW n \in Nat, NEW f \in [1 .. n -> S]
  PROVE  f \in Seq(S) /\ Len(f) = n
OBVIOUS

(* What is unsent is what comes after the cut.                                 *)
LEMMA UnsentAfter ==
  ASSUME NEW q \in Seq(Entry), NEW n \in Nets, NEW a \in Nat, NEW b \in Nat,
         Cut(q, n, a, b), NEW len \in Nat, len = Len(q)
  PROVE  /\ Unsent(q) = b + 1 .. len /\ b <= len
         /\ Cardinality(Unsent(q)) = len - b
         /\ b < len => Min(Unsent(q)) = b + 1 /\ Unsent(q) # {}
         /\ b = len => Unsent(q) = {}
<1>1. PICK in \in Nat, out \in Nat : in = Len(n.in) /\ out = Len(n.out)
  BY Lengths
<1>2. b = a + in + out /\ b <= len
  BY <1>1 DEF Cut
<1>3. DOMAIN q = 1 .. len
  BY Lengths
<1>4. Unsent(q) = b + 1 .. len
  <2>1. ASSUME NEW i \in 1 .. len
        PROVE  (q[i].state = "unsent") <=> (i > b)
    <3>1. q[i].state = IF i <= a THEN "done" ELSE IF i <= b THEN "sent" ELSE "unsent"
      BY DEF Cut
    <3>2. QED
      BY <1>2, <3>1
  <2>2. QED
    BY <1>3, <2>1 DEF Unsent
<1>5. Cardinality(b + 1 .. len) = len - b
  <2>1. PICK x \in Int, y \in Int : x = b + 1 /\ y = len
    OBVIOUS
  <2>2. Cardinality(x .. y) = IF x > y THEN 0 ELSE y - x + 1
    BY FS_Interval, Zenon
  <2>3. QED
    BY <1>2, <2>1, <2>2
<1>6. Cardinality(Unsent(q)) = len - b
  BY <1>2, <1>4, <1>5
<1>7. ASSUME b < len PROVE Min(Unsent(q)) = b + 1 /\ Unsent(q) # {}
  <2> DEFINE u == Unsent(q)
  <2>1. b + 1 \in u /\ u \subseteq Int /\ \A x \in u : b + 1 <= x
    BY <1>4, <1>7
  <2> HIDE DEF u
  <2>2. Min(u) = b + 1
    BY <2>1, MinIs
  <2>3. QED
    BY <2>1, <2>2 DEF u
<1>8. b = len => Unsent(q) = {}
  BY <1>4
<1>9. QED
  BY <1>2, <1>4, <1>6, <1>7, <1>8

(* The first j of what is unsent goes out.                                     *)
Moved(q, b, j) == [i \in DOMAIN q |-> IF i \in {x \in Unsent(q) : x < b + 1 + j}
                                     THEN [q[i] EXCEPT !.state = "sent"] ELSE q[i]]
With(n, q, b, j) ==
  [n EXCEPT !.out = @ \o [i \in 1 .. j |-> q[b + 1 + i - 1].m]]

LEMMA MovedCut ==
  ASSUME NEW q \in Seq(Entry), NEW n \in Nets, NEW a \in Nat, NEW b \in Nat,
         Cut(q, n, a, b), NEW len \in Nat, len = Len(q), NEW j \in Nat, b + j <= len
  PROVE  /\ Moved(q, b, j) \in Seq(Entry) /\ Len(Moved(q, b, j)) = len
         /\ With(n, q, b, j) \in Nets /\ Len(With(n, q, b, j).out) = Len(n.out) + j
         /\ With(n, q, b, j).in = n.in /\ With(n, q, b, j).tcp = n.tcp
         /\ Cut(Moved(q, b, j), With(n, q, b, j), a, b + j)
         /\ \A i \in 1 .. len : Moved(q, b, j)[i].m = q[i].m
<1> DEFINE r == [i \in DOMAIN q |-> IF i \in {x \in Unsent(q) : x < b + 1 + j}
                                    THEN [q[i] EXCEPT !.state = "sent"] ELSE q[i]]
           p == [i \in 1 .. j |-> q[b + 1 + i - 1].m]
           o == n.out \o p
           w == [n EXCEPT !.out = o]
<1>1. PICK in \in Nat, out \in Nat : in = Len(n.in) /\ out = Len(n.out)
  BY Lengths
<1>2. b = a + in + out /\ b <= len
  BY <1>1 DEF Cut
<1>3. DOMAIN q = 1 .. len /\ \A i \in 1 .. len : q[i] \in Entry
  BY Lengths, ElementOfSeq
<1>4. ASSUME NEW i \in 1 .. len
      PROVE  i \in {x \in Unsent(q) : x < b + 1 + j} <=> b < i /\ i <= b + j
  BY UnsentAfter
<1>5. ASSUME NEW i \in 1 .. len
      PROVE  /\ r[i] \in Entry /\ r[i].m = q[i].m
             /\ r[i].state = IF b < i /\ i <= b + j THEN "sent" ELSE q[i].state
  <2>1. r[i] = IF b < i /\ i <= b + j THEN [q[i] EXCEPT !.state = "sent"] ELSE q[i]
    BY <1>3, <1>4
  <2>2. q[i] \in Entry
    BY <1>3
  <2>3. QED
    BY <2>1, <2>2 DEF Entry
<1>6. r \in Seq(Entry) /\ Len(r) = len
  <2>1. r \in [1 .. len -> Entry]
    BY <1>3, <1>5
  <2>2. QED
    BY <2>1, SeqOf
<1>7. ASSUME NEW i \in 1 .. j
      PROVE  b + i \in 1 .. len /\ p[i] = q[b + i].m /\ p[i] \in Message
  <2>1. b + i \in 1 .. len /\ b + 1 + i - 1 = b + i
    OBVIOUS
  <2>2. q[b + i] \in Entry
    BY <1>3, <2>1
  <2>3. QED
    BY <2>1, <2>2 DEF Entry
<1>8. p \in Seq(Message) /\ Len(p) = j
  <2>1. p \in [1 .. j -> Message]
    BY <1>7
  <2>2. QED
    BY <2>1, SeqOf
<1> HIDE DEF r, p
<1>9. n.out \in Seq(Message)
  BY DEF Nets
<1>10. /\ o \in Seq(Message) /\ Len(o) = out + j
       /\ \A i \in 1 .. out + j : o[i] = IF i <= out THEN n.out[i] ELSE p[i - out]
  BY <1>1, <1>8, <1>9, ConcatProperties
<1> HIDE DEF o
<1>11. w \in Nets /\ w.out = o /\ w.in = n.in /\ w.tcp = n.tcp
  BY <1>10 DEF Nets
<1> HIDE DEF w
<1>12. Cut(r, w, a, b + j)
  <2>1. ASSUME NEW i \in 1 .. len
        PROVE  r[i].state = IF i <= a THEN "done"
                            ELSE IF i <= b + j THEN "sent" ELSE "unsent"
    <3>1. q[i].state = IF i <= a THEN "done" ELSE IF i <= b THEN "sent" ELSE "unsent"
      BY DEF Cut
    <3>2. r[i].state = IF b < i /\ i <= b + j THEN "sent" ELSE q[i].state
      BY <1>5
    <3>3. a <= b
      BY <1>2
    <3>4. QED
      BY <3>1, <3>2, <3>3
  <2>2. ASSUME NEW i \in 1 .. in PROVE AnswersTo(w.in[i], r[a + i].m)
    <3>1. a + i \in 1 .. len
      BY <1>2
    <3>2. AnswersTo(n.in[i], q[a + i].m)
      BY <1>1 DEF Cut
    <3>3. QED
      BY <1>5, <1>11, <3>1, <3>2
  <2>3. ASSUME NEW i \in 1 .. out + j PROVE w.out[i] = r[a + in + i].m
    <3>1. a + in + i \in 1 .. len
      BY <1>2
    <3>2. o[i] = q[a + in + i].m
      <4>1. CASE i <= out
        <5>1. i \in 1 .. out
          BY <4>1
        <5>2. QED
          BY <1>1, <1>10, <4>1, <5>1 DEF Cut
      <4>2. CASE i > out
        <5>1. i - out \in 1 .. j /\ b + (i - out) = a + in + i
          BY <1>2, <4>2
        <5>2. p[i - out] = q[b + (i - out)].m
          BY <1>7, <5>1
        <5>3. o[i] = p[i - out]
          BY <1>10, <4>2
        <5>4. QED
          BY <5>1, <5>2, <5>3
      <4>3. QED
        BY <4>1, <4>2
    <3>3. QED
      BY <1>5, <1>11, <3>1, <3>2
  <2>4. b + j = a + in + (out + j)
    BY <1>2
  <2>5. QED
    BY <1>1, <1>6, <1>10, <1>11, <2>1, <2>2, <2>3, <2>4 DEF Cut
<1>13. \A i \in 1 .. len : r[i].m = q[i].m
  BY <1>5
<1>14. QED
  <2>1. Moved(q, b, j) = r
    BY DEF Moved, r
  <2>2. With(n, q, b, j) = w
    BY DEF With, w, o, p
  <2>3. QED
    BY <1>1, <1>6, <1>10, <1>11, <1>12, <1>13, <2>1, <2>2

(* Sending moves the cut and leaves the messages where they are.               *)
LEMMA SentGood ==
  ASSUME NEW s, NEW pool, NEW k \in [Pool -> BOOLEAN], NEW v \in [Pool -> BOOLEAN],
         Good(s, pool, k, v)
  PROVE  Good(Sent(s), pool, k, v)
<1> DEFINE u == Unsent(s.q)
<1>1. /\ s \in Parts /\ s.q \in Seq(Entry) /\ s.n \in Nets /\ s.c \in Clients
      /\ Len(s.q) <= QueueMax /\ Len(s.n.out) <= InFlight
  BY DEF Good, Fits, Parts
<1>2. CASE s.c.error \notin {"ok", "full"} \/ u = {}
  <2>1. Sent(s) = s
    BY <1>2 DEF Sent
  <2>2. QED
    BY <2>1
<1>3. CASE /\ ~(s.c.error \notin {"ok", "full"} \/ u = {})
           /\ s.d.status \notin {"connected", "ready"} \/ s.n.tcp # "open"
  <2> DEFINE t == [s EXCEPT !.c.error = "socket"]
  <2>1. Sent(s) = t
    BY <1>3 DEF Sent
  <2>2. t \in Parts /\ t.q = s.q /\ t.n = s.n /\ t.d = s.d /\ t.c.error = "socket"
    BY <1>1 DEF Parts, Clients
  <2>3. ~Up(t)
    BY <2>2 DEF Up
  <2>4. s.n.tcp # "connecting"
    BY <1>3 DEF Good, Idle
  <2> HIDE DEF t
  <2>5. QED
    BY <2>1, <2>2, <2>3, <2>4, GoodBeside
<1>4. CASE /\ s.c.error \in {"ok", "full"} /\ u # {}
           /\ s.d.status \in {"connected", "ready"} /\ s.n.tcp = "open"
  <2>1. PICK len \in Nat, out \in Nat : len = Len(s.q) /\ out = Len(s.n.out)
    BY <1>1, Lengths
  <2>2. PICK a \in Nat, b \in Nat :
          /\ Cut(s.q, s.n, a, b)
          /\ Up(s) => \A i \in Pool :
               i \in pool \/ Tells(s.q, a + Len(s.n.in), i, k[i], v[i])
    BY <1>4 DEF Good, OnWay
  <2>3. /\ b <= len /\ Cardinality(u) = len - b
        /\ b < len => Min(u) = b + 1
        /\ b = len => u = {}
    BY <1>1, <2>1, <2>2, UnsentAfter
  <2>4. b < len /\ Min(u) = b + 1
    BY <1>4, <2>3
  <2> DEFINE j == Min({Cardinality(u), InFlight - Len(s.n.out)})
  <2>5. j \in Nat /\ j <= len - b /\ out + j <= InFlight
    <3>1. PICK x \in Nat, y \in Nat : x = len - b /\ y = InFlight - out
      <4>1. len - b \in Nat
        BY <2>4
      <4>2. PICK f \in Nat : f = InFlight
        BY Bounds
      <4>3. out <= f
        BY <1>1, <2>1, <4>2
      <4>4. f - out \in Nat
        BY <4>3
      <4>5. QED
        BY <4>1, <4>2, <4>4
    <3>2. j = Min({x, y})
      BY <2>1, <2>3, <3>1
    <3>3. j = IF x <= y THEN x ELSE y
      BY <3>2, MinOfTwo
    <3>4. QED
      BY <3>1, <3>3, Bounds
  <2> HIDE DEF j
  <2>6. PICK h \in Nat : h = j /\ b + h <= len /\ out + h <= InFlight
    BY <2>4, <2>5
  <2>7. PICK q0 \in Seq(Entry), n0 \in Nets : q0 = s.q /\ n0 = s.n
    BY <1>1
  <2>8. PICK q \in Seq(Entry), n \in Nets, e \in Nat :
          q = Moved(q0, b, h) /\ n = With(n0, q0, b, h) /\ e = b + h
    <3>1. Cut(q0, n0, a, b) /\ len = Len(q0) /\ b + h <= len
      BY <2>1, <2>2, <2>6, <2>7
    <3>2. Moved(q0, b, h) \in Seq(Entry) /\ With(n0, q0, b, h) \in Nets
      BY <3>1, MovedCut
    <3>3. b + h \in Nat
      OBVIOUS
    <3>4. QED
      BY <3>2, <3>3
  <2>9. /\ Len(q) = len /\ Len(n.out) = Len(n0.out) + h /\ n.in = n0.in
        /\ n.tcp = n0.tcp /\ Cut(q, n, a, e)
        /\ \A i \in 1 .. len : q[i].m = q0[i].m
    <3>1. Cut(q0, n0, a, b) /\ len = Len(q0) /\ b + h <= len
      BY <2>1, <2>2, <2>6, <2>7
    <3>2. /\ Len(Moved(q0, b, h)) = len
          /\ Len(With(n0, q0, b, h).out) = Len(n0.out) + h
          /\ With(n0, q0, b, h).in = n0.in /\ With(n0, q0, b, h).tcp = n0.tcp
          /\ Cut(Moved(q0, b, h), With(n0, q0, b, h), a, b + h)
      BY <3>1, MovedCut
    <3>3. \A i \in 1 .. len : Moved(q0, b, h)[i].m = q0[i].m
      BY <3>1, MovedCut
    <3>4. QED
      BY <2>8, <3>2, <3>3
  <2> DEFINE quiet == IF h > 0 THEN 0 ELSE s.c.quiet
             hold == IF h < Cardinality(u) THEN StuckHold ELSE s.c.hold
             c == [s.c EXCEPT !.quiet = quiet, !.hold = hold]
             t == [d |-> s.d, c |-> c, q |-> q, n |-> n]
  <2>10. Sent(s) = t
    <3>1. s = [d |-> s.d, c |-> s.c, q |-> s.q, n |-> s.n]
      BY <1>1 DEF Parts
    <3>2. Sent(s) =
            [s EXCEPT
              !.q = [i \in DOMAIN @ |->
                      IF i \in {x \in Unsent(s.q) : x < b + 1 + h}
                      THEN [@[i] EXCEPT !.state = "sent"] ELSE @[i]],
              !.n.out = @ \o [i \in 1 .. h |-> s.q[b + 1 + i - 1].m],
              !.c.quiet = IF h > 0 THEN 0 ELSE @,
              !.c.hold = IF h < Cardinality(u) THEN StuckHold ELSE @]
      BY <1>4, <2>4, <2>6 DEF Sent, j
    <3>3. Sent(s) = [s EXCEPT !.q = Moved(s.q, b, h), !.n = With(s.n, s.q, b, h), !.c = c]
      BY <1>1, <3>1, <3>2 DEF Moved, With
    <3> HIDE DEF c
    <3>4. QED
      BY <2>7, <2>8, <3>1, <3>3
  <2>11. c \in Clients /\ c.error = s.c.error
    <3>1. quiet \in 0 .. KeepAlive /\ hold \in 0 .. Longest
      BY <1>1, Bounds DEF Clients
    <3> HIDE DEF quiet, hold
    <3>2. QED
      BY <1>1, <3>1 DEF Clients
  <2> HIDE DEF c
  <2>12. t \in Parts /\ t.d = s.d /\ t.c = c /\ t.q = q /\ t.n = n
    BY <1>1, <2>11 DEF Parts
  <2> HIDE DEF t
  <2>13. Fits(t) /\ Idle(t)
    BY <1>1, <1>4, <2>1, <2>6, <2>7, <2>9, <2>12 DEF Fits, Idle
  <2>14. PICK f \in Nat : f = a + Len(n0.in)
    BY Lengths
  <2>15. ASSUME Up(t), NEW i \in Pool \ pool
         PROVE  Tells(q, f, i, k[i], v[i])
    <3>1. Up(s) /\ k[i] \in BOOLEAN /\ v[i] \in BOOLEAN
      BY <1>4, <2>11, <2>12, <2>15 DEF Up
    <3>2. Tells(q0, f, i, k[i], v[i])
      BY <2>2, <2>7, <2>14, <2>15, <3>1
    <3>3. SameAs(q, q0)
      BY <2>1, <2>7, <2>9 DEF SameAs
    <3>4. QED
      BY <3>1, <3>2, <3>3, SameMessages
  <2>16. OnWay(t, pool, k, v)
    BY <2>9, <2>12, <2>14, <2>15 DEF OnWay
  <2>17. QED
    BY <2>10, <2>13, <2>16 DEF Good
<1>5. QED
  BY <1>2, <1>3, <1>4

(* The first of a sequence and the others.                                     *)
LEMMA FirstAndRest ==
  ASSUME NEW S, NEW s \in Seq(S), s # <<>>, NEW len \in Nat, len = Len(s)
  PROVE  /\ len > 0 /\ Head(s) = s[1] /\ Head(s) \in S
         /\ Tail(s) \in Seq(S) /\ Len(Tail(s)) = len - 1
         /\ \A i \in 1 .. len - 1 : Tail(s)[i] = s[i + 1]
<1>1. len > 0
  BY EmptySeq
<1>2. /\ Head(s) \in S /\ Tail(s) \in Seq(S) /\ Len(Tail(s)) = len - 1
      /\ \A i \in 1 .. len - 1 : Tail(s)[i] = s[i + 1]
  BY <1>1, HeadTailProperties
<1>3. Head(s) = s[1]
  OBVIOUS
<1>4. QED
  BY <1>1, <1>2, <1>3

(* An answer finishes the first message that is not done: those before it have *)
(* been answered, and the broker answers in the order in which it reads.       *)
Heard(n) == [n EXCEPT !.in = Tail(@)]

LEMMA FinishedCut ==
  ASSUME NEW q \in Seq(Entry), NEW n \in Nets, NEW a \in Nat, NEW b \in Nat,
         Cut(q, n, a, b), n.in # <<>>
  PROVE  \E h \in Answers :
           /\ h = Head(n.in) /\ q # <<>>
           /\ Finished(q, h) \in Seq(Entry) /\ SameAs(Finished(q, h), q)
           /\ Heard(n) \in Nets /\ Heard(n).out = n.out /\ Heard(n).tcp = n.tcp
           /\ Len(Heard(n).in) = Len(n.in) - 1
           /\ Cut(Finished(q, h), Heard(n), a + 1, b)
<1>1. PICK len \in Nat, out \in Nat : len = Len(q) /\ out = Len(n.out)
  BY Lengths
<1>2. PICK in \in Nat, h \in Answers, t \in Seq(Answers) :
        /\ in > 0 /\ in = Len(n.in) /\ h = n.in[1] /\ h = Head(n.in)
        /\ t = Tail(n.in) /\ Len(t) = in - 1
        /\ \A i \in 1 .. in - 1 : t[i] = n.in[i + 1]
  <2>1. PICK s \in Seq(Answers) : s = n.in /\ s # <<>>
    BY DEF Nets
  <2>2. PICK k \in Nat : k = Len(s)
    BY LenProperties
  <2>3. /\ k > 0 /\ Head(s) = s[1] /\ Head(s) \in Answers
        /\ Tail(s) \in Seq(Answers) /\ Len(Tail(s)) = k - 1
        /\ \A i \in 1 .. k - 1 : Tail(s)[i] = s[i + 1]
    BY <2>1, <2>2, FirstAndRest
  <2>4. QED
    BY <2>1, <2>2, <2>3
<1>3. b = a + in + out /\ b <= len /\ a + 1 \in 1 .. len /\ a + 1 <= b
  <2>1. b = a + in + out /\ b <= len
    BY <1>1, <1>2 DEF Cut
  <2>2. QED
    BY <1>2, <2>1
<1>4. PICK x \in 1 .. len : x = a + 1
  BY <1>3
<1>5. DOMAIN q = 1 .. len /\ \A i \in 1 .. len : q[i] \in Entry
  BY <1>1, Lengths, ElementOfSeq
<1>6. \A i \in 1 .. len : q[i].state = IF i <= a THEN "done"
                                       ELSE IF i <= b THEN "sent" ELSE "unsent"
  BY <1>1 DEF Cut
<1>7. AnswersTo(h, q[x].m)
  <2>1. 1 \in 1 .. in
    BY <1>2
  <2>2. QED
    BY <1>2, <1>4, <2>1 DEF Cut
<1> DEFINE mine == {i \in DOMAIN q : /\ q[i].state # "done"
                                     /\ \/ q[i].m = h
                                        \/ h.kind = "refused" /\ q[i].m.kind = "connect"}
<1>8. Min(mine) = x
  <2>1. x \in mine
    <3>1. q[x].state = "sent"
      BY <1>3, <1>4, <1>6
    <3>2. QED
      BY <1>5, <1>7, <3>1 DEF AnswersTo
  <2>2. \A i \in mine : x <= i
    <3>1. ASSUME NEW i \in mine PROVE x <= i
      <4>1. i \in 1 .. len /\ q[i].state # "done"
        BY <1>5
      <4>2. ~(i <= a)
        BY <1>6, <4>1
      <4>3. QED
        BY <1>4, <4>1, <4>2
    <3>2. QED
      BY <3>1
  <2>3. mine \subseteq Int
    BY <1>5
  <2> HIDE DEF mine
  <2>4. QED
    BY <2>1, <2>2, <2>3, MinIs
<1> DEFINE e == [q[x] EXCEPT !.state = "done"]
           r == [q EXCEPT ![x] = e]
<1>9. Finished(q, h) = r
  BY <1>8 DEF Finished
<1>10. e \in Entry /\ e.state = "done" /\ e.m = q[x].m
  <2>1. q[x] \in Entry
    BY <1>5
  <2>2. QED
    BY <2>1 DEF Entry
<1> HIDE DEF mine, e
<1>11. /\ r \in Seq(Entry) /\ Len(r) = len
       /\ \A i \in 1 .. len : r[i] = IF i = x THEN e ELSE q[i]
  BY <1>1, <1>10, ExceptSeq
<1> HIDE DEF r
<1>12. \A i \in 1 .. len : r[i].m = q[i].m
  BY <1>10, <1>11
<1>13. /\ Heard(n) \in Nets /\ Heard(n).out = n.out /\ Heard(n).tcp = n.tcp
       /\ Heard(n).in = t
  <2>1. Heard(n) = [n EXCEPT !.in = t]
    BY <1>2 DEF Heard
  <2>2. QED
    BY <2>1 DEF Nets
<1>14. Cut(r, Heard(n), a + 1, b)
  <2>1. ASSUME NEW i \in 1 .. len
        PROVE  r[i].state = IF i <= a + 1 THEN "done"
                            ELSE IF i <= b THEN "sent" ELSE "unsent"
    <3>1. CASE i = x
      BY <1>4, <1>10, <1>11, <3>1
    <3>2. CASE i # x
      <4>1. r[i].state = q[i].state
        BY <1>11, <3>2
      <4>2. (i <= a + 1) <=> (i <= a)
        BY <1>4, <3>2
      <4>3. QED
        BY <1>6, <4>1, <4>2
    <3>3. QED
      BY <3>1, <3>2
  <2>2. ASSUME NEW i \in 1 .. in - 1
        PROVE  AnswersTo(t[i], r[a + 1 + i].m)
    <3>1. i + 1 \in 1 .. in /\ a + (i + 1) = a + 1 + i /\ a + 1 + i \in 1 .. len
      BY <1>3
    <3>2. AnswersTo(n.in[i + 1], q[a + (i + 1)].m)
      BY <1>2, <3>1 DEF Cut
    <3>3. QED
      BY <1>2, <1>12, <3>1, <3>2
  <2>3. ASSUME NEW i \in 1 .. out
        PROVE  n.out[i] = r[a + 1 + (in - 1) + i].m
    <3>1. a + 1 + (in - 1) + i = a + in + i /\ a + in + i \in 1 .. len
      BY <1>3
    <3>2. n.out[i] = q[a + in + i].m
      BY <1>1, <1>2 DEF Cut
    <3>3. QED
      BY <1>12, <3>1, <3>2
  <2>4. b = a + 1 + (in - 1) + out
    BY <1>3
  <2>5. PICK g \in Nets, a1 \in Nat, in1 \in Nat :
          g = Heard(n) /\ a1 = a + 1 /\ in1 = in - 1
    <3>1. a + 1 \in Nat /\ in - 1 \in Nat
      BY <1>2
    <3>2. QED
      BY <1>13, <3>1
  <2>6. Len(g.in) = in1 /\ Len(g.out) = out /\ Len(r) = len
    BY <1>1, <1>2, <1>11, <1>13, <2>5
  <2>7. b = a1 + in1 + out /\ b <= len
    BY <1>3, <2>4, <2>5
  <2>8. Cut(r, g, a1, b)
    BY <1>13, <2>1, <2>2, <2>3, <2>5, <2>6, <2>7 DEF Cut
  <2>9. QED
    BY <2>5, <2>8
<1>15. q # <<>>
  BY <1>1, <1>3
<1>16. SameAs(r, q)
  BY <1>1, <1>11, <1>12 DEF SameAs
<1>17. QED
  BY <1>2, <1>9, <1>11, <1>13, <1>14, <1>15, <1>16

(* The message the answer belongs to is done, and the broker has read as much  *)
(* as before.                                                                  *)
LEMMA AnsweredGood ==
  ASSUME NEW s, NEW pool, NEW k \in [Pool -> BOOLEAN], NEW v \in [Pool -> BOOLEAN],
         Good(s, pool, k, v), s.n.in # <<>>
  PROVE  /\ [s EXCEPT !.n = Heard(@)] \in Parts
         /\ Good(Answered([s EXCEPT !.n = Heard(@)], Head(s.n.in)), pool, k, v)
<1>1. /\ s \in Parts /\ s.q \in Seq(Entry) /\ s.n \in Nets /\ s.c \in Clients
      /\ s.d \in Devs /\ Len(s.q) <= QueueMax /\ Len(s.n.out) <= InFlight
  BY DEF Good, Fits, Parts
<1>2. s.n.tcp = "open"
  BY DEF Good, Idle
<1>3. PICK q \in Seq(Entry), n \in Nets : q = s.q /\ n = s.n
  BY <1>1
<1>4. PICK a \in Nat, b \in Nat :
        /\ Cut(q, n, a, b)
        /\ Up(s) => \A i \in Pool :
             i \in pool \/ Tells(q, a + Len(n.in), i, k[i], v[i])
  BY <1>2, <1>3 DEF Good, OnWay
<1>5. PICK h \in Answers :
        /\ h = Head(n.in) /\ q # <<>>
        /\ Finished(q, h) \in Seq(Entry) /\ SameAs(Finished(q, h), q)
        /\ Heard(n) \in Nets /\ Heard(n).out = n.out /\ Heard(n).tcp = n.tcp
        /\ Len(Heard(n).in) = Len(n.in) - 1
        /\ Cut(Finished(q, h), Heard(n), a + 1, b)
  BY <1>3, <1>4, FinishedCut
<1>6. PICK r \in Seq(Entry), m \in Nets, a1 \in Nat :
        r = Finished(q, h) /\ m = Heard(n) /\ a1 = a + 1
  BY <1>5
<1> DEFINE w == [s EXCEPT !.n = Heard(@)]
           error == IF h.kind = "refused" THEN "refused" ELSE s.c.error
           c == [s.c EXCEPT !.error = error]
           t == Answered(w, h)
<1>7. w = [d |-> s.d, c |-> s.c, q |-> q, n |-> m] /\ w \in Parts
  BY <1>1, <1>3, <1>6 DEF Parts
<1>8. t = [d |-> s.d, c |-> c, q |-> r, n |-> m]
  BY <1>5, <1>6, <1>7 DEF Answered
<1>9. c \in Clients /\ c.error = error
  <2>1. error \in {"ok", "initial", "uncalled", "socket", "full", "refused"}
    BY <1>1 DEF Clients
  <2> HIDE DEF error
  <2>2. QED
    BY <1>1, <2>1 DEF Clients
<1> HIDE DEF c
<1>10. t \in Parts /\ t.d = s.d /\ t.c = c /\ t.q = r /\ t.n = m
  BY <1>1, <1>8, <1>9 DEF Parts
<1> HIDE DEF t
<1>11. Up(t) => Up(s)
  BY <1>2, <1>9, <1>10 DEF Up
<1>12. PICK f \in Nat : f = a + Len(n.in) /\ f = a1 + Len(m.in)
  <2>1. PICK in \in Nat, in1 \in Nat : in = Len(n.in) /\ in1 = Len(m.in) /\ in1 = in - 1
    BY <1>5, <1>6, Lengths
  <2>2. a1 = a + 1 /\ in1 = in - 1
    BY <1>6, <2>1
  <2>3. a + in = a1 + in1 /\ a + in \in Nat
    BY <2>2
  <2>4. QED
    BY <2>1, <2>3
<1>13. Fits(t) /\ Idle(t)
  <2>1. Len(r) = Len(q)
    BY <1>5, <1>6 DEF SameAs
  <2>2. QED
    BY <1>1, <1>2, <1>3, <1>5, <1>6, <1>10, <2>1 DEF Fits, Idle
<1>14. ASSUME Up(t), NEW i \in Pool \ pool
       PROVE  Tells(r, f, i, k[i], v[i])
  <2>1. k[i] \in BOOLEAN /\ v[i] \in BOOLEAN
    OBVIOUS
  <2>2. Tells(q, f, i, k[i], v[i])
    BY <1>4, <1>11, <1>12, <1>14
  <2>3. SameAs(r, q)
    BY <1>5, <1>6
  <2>4. QED
    BY <2>1, <2>2, <2>3, SameMessages
<1>15. Cut(r, m, a1, b)
  BY <1>5, <1>6
<1>16. OnWay(t, pool, k, v)
  BY <1>10, <1>12, <1>14, <1>15 DEF OnWay
<1>17. Good(t, pool, k, v)
  BY <1>13, <1>16 DEF Good
<1>18. QED
  BY <1>3, <1>5, <1>7, <1>17 DEF t

(* Here, with no more about the pool than it says.                             *)
LEMMA HereIs ==
  ASSUME TypeOK
  PROVE  /\ Here \in Parts /\ Here.d = dev /\ Here.c = client /\ Here.q = queue
         /\ Here.n = net /\ pub \in Pubs
         /\ kept \in [Pool -> BOOLEAN] /\ val \in [Pool -> BOOLEAN]
BY DEF TypeOK, Here, Parts, Devs, Clients, Entry, Nets, Answers, Pubs

(* The handler of what arrives.                                                *)
LEMMA ReceivesGood ==
  ASSUME IInv, Receives
  PROVE  Good(Here', pub.pool, kept, val)
<1>1. /\ Here \in Parts /\ Here.n = net /\ Here.q = queue /\ pub \in Pubs
      /\ kept \in [Pool -> BOOLEAN] /\ val \in [Pool -> BOOLEAN]
      /\ Good(Here, pub.pool, kept, val)
  BY HereIs DEF IInv
<1>2. net.in # <<>>
  BY DEF Receives
<1> DEFINE w == [Here EXCEPT !.n = Heard(@)]
           s == Reconnected(w)
           a == Head(net.in)
           r == Answered(s, a)
           t == IF r.c.error = "refused" THEN r ELSE Sent(r)
           p == Pinged(t)
<1>3. w = [Here EXCEPT !.n.in = Tail(@)]
  BY DEF Heard, Here
<1>4. dev' = p.d /\ client' = p.c /\ queue' = p.q /\ net' = p.n
  BY <1>3 DEF Receives
<1>5. w \in Parts /\ Good(Answered(w, a), pub.pool, kept, val)
  BY <1>1, <1>2, AnsweredGood
<1> HIDE DEF w
<1>6. Good(r, pub.pool, kept, val)
  <2>1. CASE s = w
    BY <1>5, <2>1
  <2>2. CASE s.q = <<>> /\ \A pool, k, v : Good(s, pool, k, v)
    <3>1. r = s
      BY <2>2 DEF Answered
    <3>2. QED
      BY <2>2, <3>1
  <2>3. QED
    BY <1>5, <2>1, <2>2, ReconnectedIs
<1> HIDE DEF r
<1>7. Good(t, pub.pool, kept, val)
  BY <1>1, <1>6, SentGood
<1> HIDE DEF t
<1>8. Good(p, pub.pool, kept, val)
  BY <1>1, <1>7, PingedGood
<1>9. p \in Parts
  BY <1>8 DEF Good, Fits
<1> HIDE DEF p
<1>10. Here' = p
  BY <1>4, <1>9 DEF Here, Parts
<1>11. QED
  BY <1>8, <1>10

--------------------------------------------------------------------------------
(* What supla_esp_mqtt_iterate adds when the device is ready.                  *)

(* A topic is subscribed to, or the error of a full queue is taken back.       *)
LEMMA SubscribedGood ==
  ASSUME NEW s, NEW p \in Pubs, NEW k \in [Pool -> BOOLEAN],
         NEW v \in [Pool -> BOOLEAN], Good(s, p.pool, k, v), s.d.status = "ready"
  PROVE  LET w == Subscribed(s, p)
         IN  w.p \in Pubs /\ Good(w.s, w.p.pool, k, v)
<1> DEFINE w == Subscribed(s, p)
<1>1. /\ s \in Parts /\ s.q \in Seq(Entry) /\ s.n \in Nets /\ s.c \in Clients
  BY DEF Good, Fits, Parts
<1>2. PICK subs \in Nat, sub \in Nat : subs = Subs /\ sub = p.sub /\ sub <= subs + 1
  BY Bounds DEF Pubs
<1>3. CASE p.sub > Subs
  <2>1. w = [s |-> s, p |-> [p EXCEPT !.sub = 0]]
    BY <1>3 DEF Subscribed
  <2>2. 0 \in 0 .. Subs + 1
    BY Bounds
  <2>3. w.s = s /\ w.p \in Pubs /\ w.p.pool = p.pool
    BY <2>1, <2>2 DEF Pubs
  <2>4. QED
    BY <2>3
<1>4. CASE ~(p.sub > Subs) /\ s.c.error = "ok" /\ Room(s.q)
  <2> DEFINE next == sub + 1
             t == [s EXCEPT !.q = Packed(@, Plain("subscribe"))]
  <2>1. w = [s |-> t, p |-> [p EXCEPT !.sub = next]]
    BY <1>2, <1>4 DEF Subscribed
  <2>2. next \in 0 .. Subs + 1
    BY <1>2, <1>4
  <2> HIDE DEF next, t
  <2>3. w.s = t /\ w.p \in Pubs /\ w.p.pool = p.pool
    BY <2>1, <2>2 DEF Pubs
  <2>4. PICK kind \in {"connect", "subscribe", "ping"} : kind = "subscribe"
    OBVIOUS
  <2>5. Good([s EXCEPT !.q = Packed(@, Plain(kind))], p.pool, k, v)
    <3>1. s.n.tcp # "connecting"
      BY <1>4 DEF Good, Idle
    <3>2. QED
      BY <1>4, <3>1, PlainGood
  <2>6. QED
    BY <2>3, <2>4, <2>5 DEF t
<1>5. CASE ~(p.sub > Subs) /\ ~(s.c.error = "ok" /\ Room(s.q))
  <2> DEFINE error == IF s.c.error = "full" THEN "ok" ELSE s.c.error
             c == [s.c EXCEPT !.error = error]
             t == [s EXCEPT !.c = c]
  <2>1. w = [s |-> t, p |-> p]
    BY <1>1, <1>5 DEF Subscribed, Parts, Clients
  <2>2. c \in Clients /\ c.error = error
    <3>1. error \in {"ok", "initial", "uncalled", "socket", "full", "refused"}
      BY <1>1 DEF Clients
    <3> HIDE DEF error
    <3>2. QED
      BY <1>1, <3>1 DEF Clients
  <2> HIDE DEF c
  <2>3. t \in Parts /\ t.q = s.q /\ t.n = s.n /\ t.d = s.d /\ t.c = c
    BY <1>1, <2>2 DEF Parts
  <2> HIDE DEF t
  <2>4. Up(t) => Up(s)
    BY <2>2, <2>3 DEF Up
  <2>5. s.n.tcp # "connecting"
    BY DEF Good, Idle
  <2>6. Good(t, p.pool, k, v)
    BY <2>3, <2>4, <2>5, GoodBeside
  <2>7. QED
    BY <2>1, <2>6
<1>6. QED
  BY <1>3, <1>4, <1>5

(* A topic leaves the pool only when its message is in the queue.              *)
LEMMA PublishGood ==
  ASSUME NEW s, NEW p \in Pubs, NEW i \in Pool, kept \in [Pool -> BOOLEAN],
         val \in [Pool -> BOOLEAN], Good(s, p.pool, kept, val), s.d.status = "ready"
  PROVE  LET w == Publish(s, p, i)
         IN  w.p \in Pubs /\ Good(w.s, w.p.pool, kept, val)
<1> DEFINE w == Publish(s, p, i)
<1>1. /\ s \in Parts /\ s.q \in Seq(Entry) /\ s.n \in Nets /\ s.c \in Clients
  BY DEF Good, Fits, Parts
<1>2. i \in 0 .. Topics
  BY Bounds DEF Pool
<1>3. s.n.tcp # "connecting"
  BY DEF Good, Idle
<1>4. CASE s.c.error = "ok" /\ Room(s.q)
  <2> DEFINE t == [s EXCEPT !.q = Packed(@, State(i))]
             rest == p.pool \ {i}
  <2>1. w = [s |-> t, p |-> [p EXCEPT !.next = i, !.pool = rest]]
    BY <1>4 DEF Publish
  <2>2. rest \in SUBSET Pool
    BY DEF Pubs
  <2> HIDE DEF t, rest
  <2>3. w.s = t /\ w.p \in Pubs /\ w.p.pool = rest
    <3>1. PICK r \in SUBSET Pool : r = rest
      BY <2>2
    <3>2. PICK o : o = [p EXCEPT !.next = i, !.pool = r]
      OBVIOUS
    <3>3. o \in Pubs /\ o.pool = r
      BY <1>2, <3>2 DEF Pubs
    <3>4. w = [s |-> t, p |-> o]
      BY <2>1, <3>1, <3>2, Zenon
    <3> HIDE DEF w
    <3>5. QED
      BY <3>1, <3>3, <3>4
  <2>4. PICK m \in Message : m = State(i)
    BY StateMessage
  <2>5. ASSUME NEW j \in Pool \ rest
        PROVE  \/ j \notin p.pool /\ ~About(m, j)
               \/ About(m, j) /\ m.v = val[j]
    <3>1. m.v = val[i] /\ (About(m, j) <=> j = i)
      BY <2>4, StateMessage
    <3>2. j \notin p.pool \/ j = i
      BY <2>5 DEF rest
    <3>3. QED
      BY <3>1, <3>2
  <2>6. Good([s EXCEPT !.q = Packed(@, m)], rest, kept, val)
    BY <1>3, <1>4, <2>5, PackedGood
  <2>7. QED
    BY <2>3, <2>4, <2>6 DEF t
<1>5. CASE ~(s.c.error = "ok" /\ Room(s.q))
  <2> DEFINE c == [s.c EXCEPT !.error = "ok", !.hold = FullHold]
             t == IF s.c.error \in {"ok", "full"} THEN [s EXCEPT !.c = c] ELSE s
  <2>1. w = [s |-> t, p |-> [p EXCEPT !.next = i]]
    BY <1>1, <1>5 DEF Publish, Parts, Clients
  <2>2. c \in Clients /\ c.error = "ok"
    BY <1>1, Bounds DEF Clients
  <2> HIDE DEF c
  <2>3. /\ t \in Parts /\ t.q = s.q /\ t.n = s.n /\ t.d = s.d
        /\ Up(t) => Up(s)
    BY <1>1, <2>2 DEF Parts, Up
  <2> HIDE DEF t
  <2>4. Good(t, p.pool, kept, val)
    BY <1>3, <2>3, GoodBeside
  <2>5. w.s = t /\ w.p \in Pubs /\ w.p.pool = p.pool
    BY <1>2, <2>1 DEF Pubs
  <2>6. QED
    BY <2>4, <2>5
<1>6. QED
  BY <1>4, <1>5

(* The next topic of the pool is looked for.                                   *)
LEMMA PublishedGood ==
  ASSUME NEW s, NEW p \in Pubs, kept \in [Pool -> BOOLEAN],
         val \in [Pool -> BOOLEAN], Good(s, p.pool, kept, val), s.d.status = "ready"
  PROVE  LET w == Published(s, p)
         IN  w.p \in Pubs /\ Good(w.s, w.p.pool, kept, val)
<1> DEFINE w == Published(s, p)
           over == p.next = Topics
           q == IF over THEN [p EXCEPT !.next = 0, !.overruns = Min({@ + 1, 2})] ELSE p
           wanted == {i \in p.pool : i > q.next}
<1>1. /\ s \in Parts /\ s.q \in Seq(Entry) /\ s.n \in Nets /\ s.c \in Clients
      /\ s.n.tcp # "connecting"
  BY DEF Good, Fits, Parts, Idle
<1>2. 0 \in 0 .. Topics /\ Topics \in 0 .. Topics
  BY Bounds
<1>3. q \in Pubs /\ q.pool = p.pool
  <2>1. CASE over
    <3>1. PICK o \in Nat : o = p.overruns /\ o <= 2
      BY DEF Pubs
    <3>2. PICK o1 \in 0 .. 2 : o1 = Min({p.overruns + 1, 2})
      <4>1. PICK x \in Nat : x = o + 1
        OBVIOUS
      <4>2. Min({x, 2}) = IF x <= 2 THEN x ELSE 2
        BY MinOfTwo
      <4>3. QED
        BY <3>1, <4>1, <4>2
    <3>3. q = [p EXCEPT !.next = 0, !.overruns = o1]
      BY <2>1, <3>2 DEF Pubs
    <3>4. QED
      BY <1>2, <3>3 DEF Pubs
  <2>2. CASE ~over
    BY <2>2
  <2>3. QED
    BY <2>1, <2>2
<1>4. CASE s.c.hold > 0
  BY <1>4 DEF Published
<1>5. CASE ~(s.c.hold > 0) /\ over /\ PoolDelay > 0 /\ q.overruns > 1
  <2> DEFINE c == [s.c EXCEPT !.hold = PoolDelay]
             t == [s EXCEPT !.c = c]
  <2>1. w = [s |-> t, p |-> q]
    BY <1>1, <1>5 DEF Published, Parts, Clients
  <2>2. c \in Clients /\ c.error = s.c.error
    BY <1>1, Bounds DEF Clients
  <2> HIDE DEF c
  <2>3. t \in Parts /\ t.q = s.q /\ t.n = s.n /\ t.d = s.d /\ t.c = c
    BY <1>1, <2>2 DEF Parts
  <2>4. Up(t) => Up(s)
    BY <2>2, <2>3 DEF Up
  <2> HIDE DEF t, q
  <2>5. Good(t, p.pool, kept, val)
    BY <1>1, <2>3, <2>4, GoodBeside
  <2>6. QED
    BY <1>3, <2>1, <2>5
<1>6. CASE /\ ~(s.c.hold > 0) /\ ~(over /\ PoolDelay > 0 /\ q.overruns > 1)
           /\ wanted = {}
  <2>1. w = [s |-> s, p |-> [q EXCEPT !.next = Topics]]
    BY <1>6 DEF Published
  <2> HIDE DEF q, wanted
  <2>2. w.s = s /\ w.p \in Pubs /\ w.p.pool = q.pool
    BY <1>2, <1>3, <2>1 DEF Pubs
  <2>3. QED
    BY <1>3, <2>2
<1>7. CASE /\ ~(s.c.hold > 0) /\ ~(over /\ PoolDelay > 0 /\ q.overruns > 1)
           /\ wanted # {}
  <2>1. w = Publish(s, q, Min(wanted))
    BY <1>7 DEF Published
  <2>2. wanted \subseteq Pool /\ wanted \subseteq Nat /\ wanted \subseteq Int
    BY DEF Pubs, Pool
  <2> HIDE DEF q, wanted
  <2>3. PICK i \in wanted : \A x \in wanted : i <= x
    BY <1>7, <2>2, LeastOf
  <2>4. Min(wanted) = i
    BY <2>2, <2>3, MinIs
  <2>5. i \in Pool
    BY <2>2
  <2>6. QED
    BY <1>3, <2>1, <2>4, <2>5, PublishGood
<1>8. QED
  BY <1>4, <1>5, <1>6, <1>7

(* The device publishes only when it is ready.                                 *)
LEMMA WorkedGood ==
  ASSUME TypeOK, NEW s, Good(s, pub.pool, kept, val)
  PROVE  LET w == Worked(s)
         IN  w.p \in Pubs /\ Good(w.s, w.p.pool, kept, val)
<1>1. pub \in Pubs /\ kept \in [Pool -> BOOLEAN] /\ val \in [Pool -> BOOLEAN]
  BY HereIs
<1>2. CASE s.d.status # "ready"
  BY <1>1, <1>2 DEF Worked
<1>3. CASE s.d.status = "ready" /\ pub.sub > 0
  BY <1>1, <1>3, SubscribedGood DEF Worked
<1>4. CASE s.d.status = "ready" /\ ~(pub.sub > 0)
  BY <1>1, <1>4, PublishedGood DEF Worked
<1>5. QED
  BY <1>2, <1>3, <1>4

(* The handler of the iterate timer, step by step.                             *)
LEMMA IterateGood ==
  ASSUME IInv, Iterate
  PROVE  pub' \in Pubs /\ Good(Here', pub'.pool, kept, val)
<1>1. /\ Here \in Parts /\ kept \in [Pool -> BOOLEAN] /\ val \in [Pool -> BOOLEAN]
      /\ Good(Here, pub.pool, kept, val)
  BY HereIs DEF IInv
<1> DEFINE r == Reconnected(Here)
           s == Sent(r)
           p == Pinged(s)
           c == [p EXCEPT !.q = Cleaned(@)]
           w == Worked(c)
<1>2. dev' = w.s.d /\ client' = w.s.c /\ queue' = w.s.q /\ net' = w.s.n /\ pub' = w.p
  BY DEF Iterate
<1>3. Good(r, pub.pool, kept, val)
  BY <1>1, ReconnectedIs
<1> HIDE DEF r
<1>4. Good(s, pub.pool, kept, val)
  BY <1>1, <1>3, SentGood
<1> HIDE DEF s
<1>5. Good(p, pub.pool, kept, val)
  BY <1>1, <1>4, PingedGood
<1> HIDE DEF p
<1>6. Good(c, pub.pool, kept, val)
  BY <1>1, <1>5, CleanedGood
<1> HIDE DEF c
<1>7. w.p \in Pubs /\ Good(w.s, w.p.pool, kept, val)
  BY <1>6, WorkedGood DEF IInv
<1>8. w.s \in Parts
  BY <1>7 DEF Good, Fits
<1> HIDE DEF w
<1>9. Here' = w.s
  BY <1>2, <1>8 DEF Here, Parts
<1>10. QED
  BY <1>2, <1>7, <1>9

--------------------------------------------------------------------------------
(* The steps that leave the queue and the connection alone, or start anew.     *)

(* TypeOK in its parts.                                                        *)
LEMMA TypeParts ==
  TypeOK <=> /\ dev \in Devs /\ client \in Clients /\ pub \in Pubs
             /\ queue \in Seq(Entry) /\ Len(queue) <= QueueMax
             /\ net \in Nets /\ Len(net.out) <= InFlight
             /\ val \in [Pool -> BOOLEAN] /\ kept \in [Pool -> BOOLEAN]
             /\ due \subseteq {"iterate", "watchdog"} /\ faults \in 0 .. Faults
BY DEF TypeOK, Devs, Clients, Pubs, Entry, Nets, Answers

LEMMA TypePartsNext ==
  TypeOK' <=> /\ dev' \in Devs /\ client' \in Clients /\ pub' \in Pubs
              /\ queue' \in Seq(Entry) /\ Len(queue') <= QueueMax
              /\ net' \in Nets /\ Len(net'.out) <= InFlight
              /\ val' \in [Pool -> BOOLEAN] /\ kept' \in [Pool -> BOOLEAN]
              /\ due' \subseteq {"iterate", "watchdog"} /\ faults' \in 0 .. Faults
BY DEF TypeOK, Devs, Clients, Pubs, Entry, Nets, Answers

(* What Good says of Here is all that TypeOK says of the four parts.           *)
LEMMA TypeFromGood ==
  ASSUME NEW pool, NEW k, NEW v, Good(Here', pool, k, v), pub' \in Pubs,
         val' \in [Pool -> BOOLEAN], kept' \in [Pool -> BOOLEAN],
         due' \subseteq {"iterate", "watchdog"}, faults' \in 0 .. Faults
  PROVE  TypeOK'
<1>1. /\ Here' \in Parts /\ Len((Here').q) <= QueueMax /\ Len((Here').n.out) <= InFlight
  BY DEF Good, Fits
<1>2. Here' = [d |-> dev', c |-> client', q |-> queue', n |-> net']
  BY DEF Here
<1>3. /\ dev' \in Devs /\ client' \in Clients /\ queue' \in Seq(Entry) /\ net' \in Nets
      /\ Len(queue') <= QueueMax /\ Len(net'.out) <= InFlight
  BY <1>1, <1>2 DEF Parts
<1>4. QED
  BY <1>3, TypePartsNext

(* After a restart the network is gone and the queue is empty.                 *)
LEMMA BootedGood ==
  ASSUME NEW down \in {Never, 0}, NEW pool, NEW k, NEW v
  PROVE  LET b == Booted(down)
             s == [d |-> b.dev, c |-> b.client, q |-> <<>>, n |-> b.net]
         IN  b.pub \in Pubs /\ Good(s, pool, k, v)
<1> DEFINE b == Booted(down)
           s == [d |-> b.dev, c |-> b.client, q |-> <<>>, n |-> b.net]
<1>1. Never \in Never .. Watchdog /\ 0 \in Never .. Watchdog
  BY Bounds DEF Never
<1>2. /\ 0 \in 0 .. Retry /\ 0 \in 0 .. Longest /\ 0 \in 0 .. KeepAlive
      /\ 0 \in 0 .. Topics /\ 0 \in 0 .. 2 /\ 0 \in 0 .. Subs + 1
      /\ 0 <= QueueMax /\ 0 <= InFlight
  BY Bounds
<1>3. /\ <<>> \in Seq(Entry) /\ <<>> \in Seq(Message) /\ <<>> \in Seq(Answers)
      /\ Len(<<>>) = 0
  BY EmptySeq
<1>4. b.dev \in Devs
  BY <1>1 DEF Booted, Devs
<1>5. b.client \in Clients
  BY <1>2 DEF Booted, Clients
<1>6. b.pub \in Pubs
  BY <1>2 DEF Booted, Pubs
<1>7. b.net \in Nets /\ b.net.tcp = "none" /\ b.net.out = <<>> /\ b.net.in = <<>>
  <2>1. PICK o \in Seq(Message), i \in Seq(Answers) : o = <<>> /\ i = <<>>
    BY <1>3
  <2>2. b.net = [wifi |-> FALSE, gethost |-> "none", tcp |-> "none",
                 closing |-> FALSE, session |-> FALSE, out |-> o, in |-> i]
    BY <2>1 DEF Booted
  <2>3. QED
    BY <2>1, <2>2 DEF Nets
<1> HIDE DEF b
<1>8. s \in Parts /\ s.q = <<>> /\ s.n = b.net
  BY <1>3, <1>4, <1>5, <1>7 DEF Parts
<1> HIDE DEF s
<1>9. Good(s, pool, k, v)
  BY <1>2, <1>3, <1>7, <1>8, GoodWithout
<1>10. QED
  BY <1>6, <1>9 DEF s, b

(* A restart leaves nothing to show.                                           *)
LEMMA RestartGood ==
  ASSUME IInv, Restart, UNCHANGED <<val, kept, faults>>
  PROVE  IInv'
<1>1. TypeOK
  BY DEF IInv
<1>2. PICK down \in {Never, 0} :
        LET b == Booted(down)
        IN  /\ dev' = b.dev /\ client' = b.client /\ pub' = b.pub /\ net' = b.net
            /\ queue' = <<>> /\ due' = {}
  BY DEF Restart
<1> DEFINE b == Booted(down)
           s == [d |-> b.dev, c |-> b.client, q |-> <<>>, n |-> b.net]
<1>3. dev' = b.dev /\ client' = b.client /\ pub' = b.pub /\ net' = b.net /\ queue' = <<>>
  BY <1>2
<1>4. \A pool, k, v : b.pub \in Pubs /\ Good(s, pool, k, v)
  BY BootedGood
<1>5. Here' = s
  BY <1>3 DEF Here
<1> HIDE DEF s, b
<1>6. pub' \in Pubs /\ Good(Here', pub'.pool, kept', val')
  BY <1>3, <1>4, <1>5
<1>7. TypeOK'
  BY <1>1, <1>2, <1>6, TypeParts, TypeFromGood
<1>8. QED
  BY <1>6, <1>7 DEF IInv

(* And so does the start.                                                       *)
LEMMA InitGood == Init => IInv
<1> SUFFICES ASSUME Init PROVE IInv
  OBVIOUS
<1>1. PICK down \in {Never, 0} :
        LET b == Booted(down)
        IN  /\ dev = b.dev /\ client = b.client /\ pub = b.pub /\ net = b.net
            /\ queue = <<>> /\ due = {} /\ faults = 0
            /\ val \in [Pool -> BOOLEAN] /\ kept \in [Pool -> BOOLEAN]
  BY DEF Init
<1> DEFINE b == Booted(down)
           s == [d |-> b.dev, c |-> b.client, q |-> <<>>, n |-> b.net]
<1>2. dev = b.dev /\ client = b.client /\ pub = b.pub /\ net = b.net /\ queue = <<>>
  BY <1>1
<1>3. \A pool, k, v : b.pub \in Pubs /\ Good(s, pool, k, v)
  BY BootedGood
<1>4. Here = s
  BY <1>2 DEF Here
<1> HIDE DEF s, b
<1>5. pub \in Pubs /\ Good(Here, pub.pool, kept, val)
  BY <1>2, <1>3, <1>4
<1>6. TypeOK
  <2>1. Here \in Parts /\ Len(Here.q) <= QueueMax /\ Len(Here.n.out) <= InFlight
    BY <1>5 DEF Good, Fits
  <2>2. /\ dev \in Devs /\ client \in Clients /\ queue \in Seq(Entry) /\ net \in Nets
        /\ Len(queue) <= QueueMax /\ Len(net.out) <= InFlight
    BY <2>1 DEF Here, Parts
  <2>3. faults \in 0 .. Faults
    BY <1>1, Bounds
  <2>4. QED
    BY <1>1, <1>5, <2>2, <2>3, TypeParts
<1>7. QED
  BY <1>5, <1>6 DEF IInv

(* Nor does a change of the network that leaves what is under way matter.      *)
LEMMA NetBeside ==
  ASSUME NEW s, NEW t, NEW pool, NEW k, NEW v, Good(s, pool, k, v), t \in Parts,
         t.q = s.q, t.n.in = s.n.in, t.n.out = s.n.out, t.n.tcp = s.n.tcp,
         Up(t) => Up(s),
         s.n.tcp = "connecting" => /\ t.c.error \in {"initial", "uncalled"}
                                   /\ t.d.status # "ready"
  PROVE  Good(t, pool, k, v)
<1>1. Fits(t) /\ Idle(t)
  BY DEF Good, Fits, Idle
<1>2. \A a, b : Cut(s.q, s.n, a, b) => Cut(t.q, t.n, a, b)
  BY DEF Cut
<1>3. OnWay(t, pool, k, v)
  BY <1>2 DEF Good, OnWay
<1>4. QED
  BY <1>1, <1>3 DEF Good

(* Faults are counted up to their bound.                                       *)
LEMMA FaultType ==
  ASSUME TypeOK, Fault
  PROVE  faults' \in 0 .. Faults
<1>1. PICK f \in Nat, g \in Nat : f = faults /\ g = Faults
  BY TypeParts, Bounds
<1>2. f < g /\ faults' = f + 1
  BY <1>1 DEF Fault
<1>3. QED
  BY <1>1, <1>2

(* The parts after a step, and what has to be shown about it.                  *)
LEMMA HereNext ==
  ASSUME dev' \in Devs, client' \in Clients, queue' \in Seq(Entry), net' \in Nets
  PROVE  /\ Here' \in Parts /\ (Here').d = dev' /\ (Here').c = client'
         /\ (Here').q = queue' /\ (Here').n = net'
BY DEF Here, Parts

(* The invariant after a step, from what it says of the parts.                 *)
LEMMA Stepped ==
  ASSUME IInv, Good(Here', pub'.pool, kept', val'), pub' \in Pubs,
         val' \in [Pool -> BOOLEAN], kept' \in [Pool -> BOOLEAN],
         due' \subseteq {"iterate", "watchdog"}, Fault \/ faults' = faults
  PROVE  IInv'
<1>1. TypeOK
  BY DEF IInv
<1>2. faults' \in 0 .. Faults
  BY <1>1, FaultType, TypeParts
<1>3. TypeOK'
  BY <1>2, TypeFromGood
<1>4. QED
  BY <1>3 DEF IInv

(* One lemma for each action follows.                                          *)
LEMMA WatchdogFiresGood == IInv /\ WatchdogFires => IInv'
<1> SUFFICES ASSUME IInv, WatchdogFires PROVE IInv'
  OBVIOUS
<1>1. CASE Restart
  BY <1>1, RestartGood DEF WatchdogFires
<1>2. CASE UNCHANGED <<dev, client, pub, queue, net>> /\ due' = due \ {"watchdog"}
  <2>1. Here' = Here
    BY <1>2 DEF Here
  <2>2. QED
    BY <1>2, <2>1, Stepped, TypeParts DEF IInv, WatchdogFires
<1>3. QED
  BY <1>1, <1>2 DEF WatchdogFires

LEMMA LeaveCfgModeGood == IInv /\ LeaveCfgMode => IInv'
BY RestartGood DEF LeaveCfgMode

LEMMA ValueChangesGood ==
  ASSUME IInv, NEW i \in Pool, ValueChanges(i)
  PROVE  IInv'
<1> DEFINE more == pub.pool \cup {i}
<1>1. /\ TypeOK /\ pub \in Pubs /\ val \in [Pool -> BOOLEAN] /\ kept \in [Pool -> BOOLEAN]
      /\ Good(Here, pub.pool, kept, val)
  BY TypeParts DEF IInv
<1>2. pub' = [pub EXCEPT !.pool = more] /\ val' = [val EXCEPT ![i] = ~@]
  BY DEF ValueChanges
<1>3. pub' \in Pubs /\ pub'.pool = more
  <2>1. more \in SUBSET Pool
    BY <1>1 DEF Pubs
  <2> HIDE DEF more
  <2>2. QED
    BY <1>1, <1>2, <2>1 DEF Pubs
<1>4. val' \in [Pool -> BOOLEAN] /\ \A j \in Pool \ {i} : val'[j] = val[j]
  BY <1>1, <1>2
<1>5. Here' = Here
  BY DEF Here, ValueChanges
<1>6. Good(Here, more, kept, val')
  <2>1. OnWay(Here, more, kept, val')
    BY <1>1, <1>4 DEF Good, OnWay
  <2>2. QED
    BY <1>1, <2>1 DEF Good
<1> HIDE DEF more
<1>7. QED
  BY <1>1, <1>3, <1>4, <1>5, <1>6, Stepped, TypeParts DEF ValueChanges

(* Without an open connection there is nothing to show about the queue.        *)
LEMMA LostGood ==
  ASSUME IInv, dev' \in Devs, net' \in Nets, net'.tcp = "none", net'.out = <<>>,
         net'.in = <<>>, UNCHANGED <<client, pub, queue, val, kept>>,
         due' \subseteq {"iterate", "watchdog"}, Fault \/ faults' = faults
  PROVE  IInv'
<1>1. /\ client \in Clients /\ queue \in Seq(Entry) /\ Len(queue) <= QueueMax
      /\ pub \in Pubs /\ val \in [Pool -> BOOLEAN] /\ kept \in [Pool -> BOOLEAN]
  BY TypeParts DEF IInv
<1>2. Here' \in Parts /\ (Here').q = queue /\ (Here').n = net'
  BY <1>1, HereNext
<1>3. Good(Here', pub'.pool, kept', val')
  BY <1>1, <1>2, GoodWithout
<1>4. QED
  BY <1>1, <1>3, Stepped

LEMMA EnterCfgModeGood == IInv /\ EnterCfgMode => IInv'
<1> SUFFICES ASSUME IInv, EnterCfgMode PROVE IInv'
  OBVIOUS
<1>1. dev \in Devs /\ net \in Nets /\ due \subseteq {"iterate", "watchdog"}
  BY TypeParts DEF IInv
<1>2. PICK d \in Devs : d = WithStatus(dev, "disconnected")
  BY <1>1, StatusType
<1>3. dev' = [d EXCEPT !.mode = "cfg", !.started = FALSE, !.iterate = FALSE]
  BY <1>2 DEF EnterCfgMode
<1>4. dev' \in Devs
  BY <1>3 DEF Devs
<1>5. net' \in Nets /\ net'.tcp = "none" /\ net'.out = <<>> /\ net'.in = <<>>
  BY <1>1, ClosedType DEF EnterCfgMode
<1>6. QED
  BY <1>1, <1>4, <1>5, LostGood DEF EnterCfgMode

LEMMA TcpFailsGood == IInv /\ TcpFails => IInv'
<1> SUFFICES ASSUME IInv, TcpFails PROVE IInv'
  OBVIOUS
<1>1. dev \in Devs /\ net \in Nets /\ due \subseteq {"iterate", "watchdog"}
  BY TypeParts DEF IInv
<1>2. net.out = <<>> /\ net.in = <<>>
  BY DEF IInv, Good, Idle, Here, TcpFails
<1>3. net' \in Nets /\ net'.tcp = "none" /\ net'.out = <<>> /\ net'.in = <<>>
  BY <1>1, <1>2 DEF TcpFails, Nets
<1>4. QED
  BY <1>1, <1>3, LostGood DEF TcpFails

LEMMA TcpBreaksGood == IInv /\ TcpBreaks => IInv'
<1> SUFFICES ASSUME IInv, TcpBreaks PROVE IInv'
  OBVIOUS
<1>1. dev \in Devs /\ net \in Nets /\ due \subseteq {"iterate", "watchdog"}
  BY TypeParts DEF IInv
<1>2. PICK c \in Nets : c = Closed(net) /\ c.tcp = "none" /\ c.out = <<>> /\ c.in = <<>>
  BY <1>1, ClosedType
<1>3. PICK closing \in BOOLEAN : net' = [c EXCEPT !.closing = closing]
  BY <1>1, <1>2 DEF TcpBreaks, Nets
<1>4. net' \in Nets /\ net'.tcp = "none" /\ net'.out = <<>> /\ net'.in = <<>>
  BY <1>2, <1>3 DEF Nets
<1>5. QED
  BY <1>1, <1>4, LostGood DEF TcpBreaks

LEMMA WifiDropsGood == IInv /\ WifiDrops => IInv'
<1> SUFFICES ASSUME IInv, WifiDrops PROVE IInv'
  OBVIOUS
<1>1. dev \in Devs /\ net \in Nets /\ due \subseteq {"iterate", "watchdog"}
  BY TypeParts DEF IInv
<1>2. PICK c \in Nets : c = Closed(net) /\ c.tcp = "none" /\ c.out = <<>> /\ c.in = <<>>
  BY <1>1, ClosedType
<1>3. net' = [c EXCEPT !.wifi = FALSE, !.closing = net.closing]
  BY <1>2 DEF WifiDrops
<1>4. net' \in Nets /\ net'.tcp = "none" /\ net'.out = <<>> /\ net'.in = <<>>
  BY <1>1, <1>2, <1>3 DEF Nets
<1>5. QED
  BY <1>1, <1>4, LostGood DEF WifiDrops

(* What is under way stays, and the client does not come up.                   *)
LEMMA KeptGood ==
  ASSUME IInv, dev' \in Devs, client' \in Clients, net' \in Nets,
         net'.tcp = net.tcp, net'.out = net.out, net'.in = net.in,
         \/ dev'.status = dev.status \/ dev'.status \notin {"ready"},
         \/ client'.error = client.error \/ client'.error = "initial",
         UNCHANGED <<pub, queue, val, kept>>,
         due' \subseteq {"iterate", "watchdog"}, Fault \/ faults' = faults
  PROVE  IInv'
<1>1. /\ dev \in Devs /\ client \in Clients /\ queue \in Seq(Entry) /\ net \in Nets
      /\ pub \in Pubs /\ val \in [Pool -> BOOLEAN] /\ kept \in [Pool -> BOOLEAN]
      /\ Good(Here, pub.pool, kept, val)
  BY TypeParts DEF IInv
<1>2. /\ Here.d = dev /\ Here.c = client /\ Here.q = queue /\ Here.n = net
  BY DEF Here
<1>3. /\ Here' \in Parts /\ (Here').d = dev' /\ (Here').c = client'
      /\ (Here').q = queue /\ (Here').n = net'
  BY <1>1, HereNext
<1>4. PICK t \in Parts : t = Here'
  BY <1>3
<1>5. PICK s : s = Here
  OBVIOUS
<1>6. Up(t) => Up(s)
  BY <1>2, <1>3, <1>4, <1>5 DEF Up
<1>7. s.n.tcp = "connecting" => /\ t.c.error \in {"initial", "uncalled"}
                                /\ t.d.status # "ready"
  BY <1>1, <1>2, <1>3, <1>4, <1>5 DEF Good, Idle
<1>8. Good(t, pub.pool, kept, val)
  BY <1>1, <1>2, <1>3, <1>4, <1>5, <1>6, <1>7, NetBeside
<1>9. QED
  BY <1>1, <1>4, <1>8, Stepped

LEMMA JoinsGood == IInv /\ Joins => IInv'
<1> SUFFICES ASSUME IInv, Joins PROVE IInv'
  OBVIOUS
<1>1. /\ dev \in Devs /\ client \in Clients /\ net \in Nets
      /\ due \subseteq {"iterate", "watchdog"}
  BY TypeParts DEF IInv
<1>2. dev' \in Devs /\ dev'.status = dev.status
  BY <1>1 DEF Joins, Devs
<1>3. PICK g \in {"none", "pending", "lost"} :
        net' = [net EXCEPT !.wifi = TRUE, !.gethost = g]
  BY <1>1 DEF Joins, Nets
<1>4. net' \in Nets /\ net'.tcp = net.tcp /\ net'.out = net.out /\ net'.in = net.in
  BY <1>1, <1>3 DEF Nets
<1>5. QED
  BY <1>1, <1>2, <1>4, KeptGood DEF Joins

LEMMA GethostGood ==
  IInv /\ (GethostAnswers \/ GethostFails \/ GethostSilent) => IInv'
<1> SUFFICES ASSUME IInv, GethostAnswers \/ GethostFails \/ GethostSilent
             PROVE  IInv'
  OBVIOUS
<1>1. /\ dev \in Devs /\ client \in Clients /\ net \in Nets
      /\ due \subseteq {"iterate", "watchdog"}
  BY TypeParts DEF IInv
<1>2. PICK g \in {"none", "lost"} : net' = [net EXCEPT !.gethost = g]
  BY DEF GethostAnswers, GethostFails, GethostSilent
<1>3. net' \in Nets /\ net'.tcp = net.tcp /\ net'.out = net.out /\ net'.in = net.in
  BY <1>1, <1>2 DEF Nets
<1>4. dev' \in Devs /\ dev'.status = dev.status
  BY <1>1 DEF GethostAnswers, GethostFails, GethostSilent, Devs
<1>5. /\ client' \in Clients
      /\ client'.error = client.error \/ client'.error = "initial"
  BY <1>1 DEF GethostAnswers, GethostFails, GethostSilent, Clients
<1>6. /\ UNCHANGED <<pub, queue, val, kept, due>>
      /\ Fault \/ faults' = faults
  BY DEF GethostAnswers, GethostFails, GethostSilent
<1>7. QED
  BY <1>1, <1>3, <1>4, <1>5, <1>6, KeptGood

LEMMA DisconnectCbGood == IInv /\ DisconnectCb => IInv'
<1> SUFFICES ASSUME IInv, DisconnectCb PROVE IInv'
  OBVIOUS
<1>1. /\ dev \in Devs /\ client \in Clients /\ net \in Nets
      /\ due \subseteq {"iterate", "watchdog"}
  BY TypeParts DEF IInv
<1>2. dev' \in Devs /\ dev'.status = "disconnected"
  BY <1>1, StatusType DEF DisconnectCb
<1>3. net' \in Nets /\ net'.tcp = net.tcp /\ net'.out = net.out /\ net'.in = net.in
  BY <1>1 DEF DisconnectCb, Nets
<1>4. QED
  BY <1>1, <1>2, <1>3, KeptGood DEF DisconnectCb

LEMMA TickGood == IInv /\ Tick => IInv'
<1> SUFFICES ASSUME IInv, Tick PROVE IInv'
  OBVIOUS
<1>1. dev \in Devs /\ client \in Clients /\ net \in Nets
  BY TypeParts DEF IInv
<1>2. \A n \in Nat : \A x \in 0 .. n : Down(x) \in 0 .. n
  BY DEF Down
<1>3. PICK wait \in 0 .. Retry, hold \in 0 .. Longest :
        wait = Down(client.wait) /\ hold = Down(client.hold)
  BY <1>1, <1>2, Bounds DEF Clients
<1>4. PICK quiet \in 0 .. KeepAlive : quiet = Min({client.quiet + 1, KeepAlive})
  <2>1. PICK x \in Nat, y \in Nat : x = client.quiet /\ y = KeepAlive
    BY <1>1, Bounds DEF Clients
  <2>2. PICK z \in Nat : z = x + 1
    OBVIOUS
  <2>3. Min({z, y}) = IF z <= y THEN z ELSE y
    BY <2>1, <2>2, MinOfTwo
  <2>4. QED
    BY <2>1, <2>2, <2>3
<1>5. client' = [client EXCEPT !.wait = wait, !.hold = hold, !.quiet = quiet]
  BY <1>3, <1>4 DEF Tick
<1>6. client' \in Clients /\ client'.error = client.error
  BY <1>1, <1>5 DEF Clients
<1>7. PICK down \in Never .. Watchdog :
        down = IF dev.down = Never THEN dev.down ELSE Min({dev.down + 1, Watchdog})
  <2>1. PICK x \in Int, y \in Nat : x = dev.down /\ y = Watchdog /\ x \in -1 .. y
    BY <1>1, Bounds DEF Devs, Never
  <2>2. PICK z \in Int : z = x + 1
    OBVIOUS
  <2>3. Min({z, y}) = IF z <= y THEN z ELSE y
    BY <2>1, <2>2, MinOfTwo
  <2>4. QED
    BY <2>1, <2>2, <2>3 DEF Never
<1>8. dev' = [dev EXCEPT !.down = down]
  BY <1>7 DEF Tick
<1>9. dev' \in Devs /\ dev'.status = dev.status
  BY <1>1, <1>8 DEF Devs
<1>10. /\ due' \subseteq {"iterate", "watchdog"}
       /\ Fault \/ faults' = faults
       /\ UNCHANGED <<pub, queue, net, val, kept>>
  BY DEF Tick
<1>11. QED
  BY <1>1, <1>6, <1>9, <1>10, KeptGood

(* A connection opens with an empty queue, and then either the client starts   *)
(* and asks for the publication of everything, or it has an error and is not up.*)
LEMMA OpenedGood ==
  ASSUME NEW s \in Parts, s.q = <<>>, s.n.out = <<>>, s.n.in = <<>>,
         s.n.tcp = "open", NEW pool, ~Up(s) \/ pool = Pool, NEW k, NEW v
  PROVE  Good(s, pool, k, v)
<1>1. Len(<<>>) = 0 /\ 0 <= QueueMax /\ 0 <= InFlight
  BY EmptySeq, Bounds
<1>2. Fits(s) /\ Idle(s)
  BY <1>1 DEF Fits, Idle
<1>3. PICK z \in Nat : z = 0
  OBVIOUS
<1>4. Cut(s.q, s.n, z, z)
  BY <1>1, <1>3 DEF Cut
<1>5. OnWay(s, pool, k, v)
  BY <1>3, <1>4 DEF OnWay
<1>6. QED
  BY <1>2, <1>5 DEF Good

LEMMA TcpOpensGood == IInv /\ TcpOpens => IInv'
<1> SUFFICES ASSUME IInv, TcpOpens PROVE IInv'
  OBVIOUS
<1>1. /\ TypeOK /\ dev \in Devs /\ client \in Clients /\ pub \in Pubs /\ net \in Nets
      /\ queue \in Seq(Entry) /\ due \subseteq {"iterate", "watchdog"}
      /\ val \in [Pool -> BOOLEAN] /\ kept \in [Pool -> BOOLEAN]
      /\ Here.d = dev /\ Here.c = client /\ Here.q = queue /\ Here.n = net
  BY TypeParts DEF IInv, Here
<1>2. queue = <<>> /\ net.out = <<>> /\ net.in = <<>>
  BY <1>1 DEF IInv, Good, Idle, TcpOpens
<1>3. /\ net' \in Nets /\ net'.tcp = "open" /\ net'.out = <<>> /\ net'.in = <<>>
  BY <1>1, <1>2 DEF TcpOpens, Nets
<1>4. /\ UNCHANGED <<val, kept, due>>
      /\ Fault \/ faults' = faults
  BY DEF TcpOpens
<1>5. CASE client.error \in {"ok", "uncalled"}
  <2>1. dev' \in Devs
    BY <1>1, <1>5, StatusType DEF TcpOpens
  <2>2. client' \in Clients
    <3>1. 0 \in 0 .. Longest
      BY Bounds
    <3>2. QED
      BY <1>1, <1>5, <3>1 DEF TcpOpens, Clients
  <2>3. pub' \in Pubs /\ pub'.pool = Pool
    <3>1. 1 \in 0 .. Subs + 1 /\ 0 \in 0 .. 2 /\ BoardMax \in 0 .. Topics
      BY Bounds
    <3>2. pub' = [pub EXCEPT !.sub = 1, !.overruns = 0, !.next = BoardMax, !.pool = Pool]
      BY <1>5 DEF TcpOpens, Wanted
    <3>3. QED
      BY <1>1, <3>1, <3>2 DEF Pubs
  <2>4. PICK s \in Parts : s = [d |-> dev', c |-> client', q |-> queue, n |-> net']
    BY <1>1, <1>3, <2>1, <2>2 DEF Parts
  <2>5. Good(s, pub'.pool, kept, val)
    BY <1>2, <1>3, <2>3, <2>4, OpenedGood
  <2>6. PICK kind \in {"connect", "subscribe", "ping"} : kind = "connect"
    OBVIOUS
  <2>7. Room(s.q)
    BY <1>2, <2>4, EmptySeq, Bounds DEF Room, Cleaned
  <2> DEFINE t == [s EXCEPT !.q = Packed(@, Plain(kind))]
  <2>8. Good(t, pub'.pool, kept, val)
    BY <1>1, <1>3, <2>4, <2>5, <2>7, PlainGood
  <2>9. queue' = Packed(queue, Plain(kind))
    BY <1>5, <2>6 DEF TcpOpens
  <2>10. Here' = t
    BY <2>4, <2>9 DEF Here
  <2> HIDE DEF t
  <2>11. QED
    BY <1>1, <1>4, <2>3, <2>8, <2>10, Stepped
<1>6. CASE client.error \notin {"ok", "uncalled"}
  <2>1. dev' \in Devs /\ dev'.status = "connected"
    BY <1>1, <1>6, StatusType DEF TcpOpens
  <2>2. pub' \in Pubs
    <3>1. 0 \in 0 .. Subs + 1
      BY Bounds
    <3>2. QED
      BY <1>1, <1>6, <3>1 DEF TcpOpens, Pubs
  <2>3. client' = client /\ queue' = queue
    BY <1>6 DEF TcpOpens
  <2>4. /\ Here' \in Parts /\ (Here').d = dev' /\ (Here').q = queue
        /\ (Here').n = net'
    BY <1>1, <1>3, <2>1, <2>3, HereNext
  <2>5. PICK s \in Parts : s = Here'
    BY <2>4
  <2>6. ~Up(s)
    BY <2>1, <2>4, <2>5 DEF Up
  <2>7. Good(s, pub'.pool, kept, val)
    BY <1>2, <1>3, <2>4, <2>5, <2>6, OpenedGood
  <2>8. QED
    BY <1>1, <1>4, <2>2, <2>5, <2>7, Stepped
<1>7. QED
  BY <1>5, <1>6

(* The broker reads the first message after the c it has read.                 *)
ReadBy(n, m, h, x) ==
  /\ Len(n.out) > 0 /\ h = n.out[1]
  /\ Len(m.out) = Len(n.out) - 1
  /\ \A i \in 1 .. Len(n.out) - 1 : m.out[i] = n.out[i + 1]
  /\ m.in = Append(n.in, x)

LEMMA ReadCut ==
  ASSUME NEW q \in Seq(Entry), NEW n \in Nets, NEW a \in Nat, NEW b \in Nat,
         Cut(q, n, a, b), NEW h \in Message, NEW x \in Answers, AnswersTo(x, h),
         NEW m \in Nets, ReadBy(n, m, h, x)
  PROVE  /\ Cut(q, m, a, b) /\ Len(m.in) = Len(n.in) + 1
         /\ a + Len(n.in) + 1 \in 1 .. Len(q)
         /\ q[a + Len(n.in) + 1].m = h
<1>1. PICK in \in Nat, len \in Nat, size \in Nat :
        in = Len(n.in) /\ len = Len(n.out) /\ size = Len(q)
  BY Lengths
<1>2. b = a + in + len /\ b <= size /\ len > 0
  BY <1>1 DEF Cut, ReadBy
<1>3. n.in \in Seq(Answers)
  BY DEF Nets
<1>4. /\ Len(m.in) = in + 1
      /\ \A i \in 1 .. in : m.in[i] = n.in[i]
      /\ m.in[in + 1] = x
  BY <1>1, <1>3, AppendProperties DEF ReadBy
<1>5. \A i \in 1 .. len : n.out[i] = q[a + in + i].m
  BY <1>1 DEF Cut
<1>6. /\ a + in + 1 \in 1 .. size /\ q[a + in + 1].m = h
  <2>1. 1 \in 1 .. len /\ a + in + 1 \in 1 .. size
    BY <1>2
  <2>2. h = n.out[1]
    BY DEF ReadBy
  <2>3. QED
    BY <1>5, <2>1, <2>2
<1>7. PICK in1 \in Nat, out1 \in Nat : in1 = in + 1 /\ out1 + 1 = len
  <2>1. in + 1 \in Nat /\ len - 1 \in Nat /\ (len - 1) + 1 = len
    BY <1>2
  <2>2. QED
    BY <2>1
<1>8. Cut(q, m, a, b)
  <2>1. Len(m.in) = in1 /\ Len(m.out) = out1
    <3>1. len - 1 = out1
      BY <1>7
    <3>2. QED
      BY <1>1, <1>4, <1>7, <3>1 DEF ReadBy
  <2>2. b = a + in1 + out1
    BY <1>2, <1>7
  <2>3. ASSUME NEW i \in 1 .. in1 PROVE AnswersTo(m.in[i], q[a + i].m)
    <3>1. CASE i = in + 1
      <4>1. m.in[i] = x /\ a + i = a + in + 1
        BY <1>4, <3>1
      <4>2. QED
        BY <1>6, <4>1
    <3>2. CASE i # in + 1
      <4>1. i \in 1 .. in
        BY <1>7, <3>2
      <4>2. QED
        BY <1>1, <1>4, <4>1 DEF Cut
    <3>3. QED
      BY <3>1, <3>2
  <2>4. ASSUME NEW i \in 1 .. out1 PROVE m.out[i] = q[a + in1 + i].m
    <3>1. i \in 1 .. len - 1 /\ i + 1 \in 1 .. len
      BY <1>7
    <3>2. a + in + (i + 1) = a + in1 + i
      BY <1>7
    <3>3. m.out[i] = n.out[i + 1] /\ n.out[i + 1] = q[a + in + (i + 1)].m
      BY <1>1, <1>5, <3>1 DEF ReadBy
    <3>4. QED
      BY <3>2, <3>3
  <2>5. \A i \in 1 .. Len(q) : q[i].state = IF i <= a THEN "done"
                                            ELSE IF i <= b THEN "sent" ELSE "unsent"
    BY DEF Cut
  <2>6. b <= Len(q)
    BY <1>1, <1>2
  <2>7. QED
    BY <2>1, <2>2, <2>3, <2>4, <2>5, <2>6 DEF Cut
<1>9. QED
  BY <1>1, <1>4, <1>6, <1>8

(* What it has read it holds, and the others tell the same.                    *)
LEMMA ReadTells ==
  ASSUME NEW q, NEW len \in Nat, len = Len(q), NEW c \in Nat, c + 1 \in 1 .. len,
         NEW h, h = q[c + 1].m, NEW i \in Pool, NEW k, NEW l, NEW v,
         Tells(q, c, i, k, v), l = IF About(h, i) THEN h.v ELSE k
  PROVE  Tells(q, c + 1, i, l, v)
<1>1. PICK d \in Nat : d = c + 1 /\ d \in 1 .. len
  OBVIOUS
<1>2. ASSUME NEW j \in 1 .. len, j > d, LastAbout(q, j, i)
      PROVE  q[j].m.v = v
  BY <1>1, <1>2 DEF Tells
<1>3. ASSUME \A j \in 1 .. len : j > d => ~About(q[j].m, i)
      PROVE  l = v
  <2>1. CASE About(h, i)
    <3>1. LastAbout(q, d, i)
      BY <1>1, <1>3, <2>1 DEF LastAbout
    <3>2. d > c
      BY <1>1
    <3>3. q[d].m.v = v
      BY <1>1, <3>1, <3>2 DEF Tells
    <3>4. QED
      BY <1>1, <2>1, <3>3
  <2>2. CASE ~About(h, i)
    <3>1. ASSUME NEW j \in 1 .. len, j > c PROVE ~About(q[j].m, i)
      <4>1. j = d \/ j > d
        BY <1>1, <3>1
      <4>2. QED
        BY <1>1, <1>3, <2>2, <4>1
    <3>2. QED
      BY <2>2, <3>1 DEF Tells
  <2>3. QED
    BY <2>1, <2>2
<1>4. Tells(q, d, i, l, v)
  BY <1>2, <1>3 DEF Tells
<1>5. QED
  BY <1>1, <1>4

(* The broker reads a message: from then on it holds what the message told.    *)
LEMMA BrokerReadsGood == IInv /\ BrokerReads => IInv'
<1> SUFFICES ASSUME IInv, BrokerReads PROVE IInv'
  OBVIOUS
<1>1. /\ dev \in Devs /\ client \in Clients /\ pub \in Pubs /\ net \in Nets
      /\ queue \in Seq(Entry) /\ Len(queue) <= QueueMax /\ Len(net.out) <= InFlight
      /\ val \in [Pool -> BOOLEAN] /\ kept \in [Pool -> BOOLEAN]
      /\ due \subseteq {"iterate", "watchdog"}
      /\ Here.d = dev /\ Here.c = client /\ Here.q = queue /\ Here.n = net
  BY TypeParts DEF IInv, Here
<1>2. net.out # <<>>
  BY DEF BrokerReads, BrokerWaits
<1>3. net.tcp = "open"
  BY <1>1, <1>2 DEF IInv, Good, Idle
<1>4. PICK n \in Nets, q \in Seq(Entry) : n = net /\ q = queue
  BY <1>1
<1>5. PICK a \in Nat, b \in Nat :
        /\ Cut(q, n, a, b)
        /\ Up(Here) => \A i \in Pool :
             i \in pub.pool \/ Tells(q, a + Len(n.in), i, kept[i], val[i])
  BY <1>1, <1>3, <1>4 DEF IInv, Good, OnWay
<1>6. PICK o \in Seq(Message) : o = n.out /\ o # <<>>
  BY <1>2, <1>4 DEF Nets
<1>7. PICK len \in Nat : len = Len(o)
  BY LenProperties
<1>8. PICK h \in Message, t \in Seq(Message) :
        /\ h = Head(o) /\ h = o[1] /\ t = Tail(o) /\ len > 0 /\ Len(t) = len - 1
        /\ \A i \in 1 .. len - 1 : t[i] = o[i + 1]
  <2>1. /\ len > 0 /\ Head(o) = o[1] /\ Head(o) \in Message
        /\ Tail(o) \in Seq(Message) /\ Len(Tail(o)) = len - 1
        /\ \A i \in 1 .. len - 1 : Tail(o)[i] = o[i + 1]
    BY <1>6, <1>7, FirstAndRest
  <2>2. QED
    BY <2>1
<1>9. PICK x \in Answers, session \in BOOLEAN :
        /\ AnswersTo(x, h)
        /\ net' = [n EXCEPT !.out = t, !.in = Append(n.in, x), !.session = session]
  <2>1. CASE Answer(TRUE, h)
    <3>1. h \in Answers /\ AnswersTo(h, h)
      BY DEF Answers, AnswersTo
    <3>2. net' = [n EXCEPT !.out = t, !.in = Append(n.in, h), !.session = TRUE]
      BY <1>4, <1>6, <1>8, <2>1 DEF Answer
    <3>3. QED
      BY <3>1, <3>2
  <2>2. CASE h.kind = "connect" /\ Answer(FALSE, Plain("refused"))
    <3>1. PICK x \in Answers : x = Plain("refused") /\ x.kind = "refused"
      <4>1. Plain("refused") \in Answers
        BY DEF Answers
      <4>2. Plain("refused").kind = "refused"
        BY DEF Plain
      <4>3. QED
        BY <4>1, <4>2
    <3>2. AnswersTo(x, h)
      BY <2>2, <3>1 DEF AnswersTo
    <3>3. net' = [n EXCEPT !.out = t, !.in = Append(n.in, x), !.session = FALSE]
      BY <1>4, <1>6, <1>8, <2>2, <3>1 DEF Answer
    <3>4. QED
      BY <3>2, <3>3
  <2>3. QED
    BY <1>4, <1>6, <1>8, <2>1, <2>2 DEF BrokerReads
<1>10. PICK in \in Seq(Answers) : in = Append(n.in, x)
  BY AppendProperties DEF Nets
<1>11. PICK m \in Nets :
         /\ m = net' /\ m.out = t /\ m.in = in /\ m.tcp = n.tcp
  <2>1. net' = [n EXCEPT !.out = t, !.in = in, !.session = session]
    BY <1>9, <1>10
  <2>2. net' \in Nets
    BY <2>1 DEF Nets
  <2>3. net'.out = t /\ net'.in = in /\ net'.tcp = n.tcp
    BY <2>1 DEF Nets
  <2>4. QED
    BY <2>2, <2>3
<1>12. PICK c \in Nat, d \in Nat : c = a + Len(n.in) /\ d = a + Len(m.in) /\ d = c + 1
  <2>1. PICK l \in Nat, k \in Nat : l = Len(n.in) /\ k = Len(m.in) /\ k = l + 1
    <3>1. n.in \in Seq(Answers)
      BY DEF Nets
    <3>2. Len(m.in) = Len(n.in) + 1
      BY <1>10, <1>11, <3>1, AppendProperties
    <3>3. QED
      BY <3>2, Lengths
  <2>2. k = l + 1
    BY <2>1
  <2>3. a + l \in Nat /\ a + k \in Nat /\ a + k = (a + l) + 1
    BY <2>2
  <2>4. QED
    BY <2>1, <2>3
<1>13. ReadBy(n, m, h, x)
  BY <1>6, <1>7, <1>8, <1>10, <1>11 DEF ReadBy
<1>14. Cut(q, m, a, b) /\ d \in 1 .. Len(q) /\ q[d].m = h
  <2>1. /\ Cut(q, m, a, b) /\ a + Len(n.in) + 1 \in 1 .. Len(q)
        /\ q[a + Len(n.in) + 1].m = h
    BY <1>5, <1>9, <1>13, ReadCut, SMTT(20)
  <2>2. QED
    BY <1>12, <2>1
<1>15. kept' = IF h.kind = "publish" THEN [kept EXCEPT ![h.topic] = h.v] ELSE kept
  BY <1>4, <1>6, <1>8 DEF BrokerReads
<1>16. /\ kept' \in [Pool -> BOOLEAN]
       /\ \A i \in Pool : kept'[i] = IF About(h, i) THEN h.v ELSE kept[i]
  <2>1. h.kind = "publish" => h.topic \in Pool /\ h.v \in BOOLEAN
    BY DEF Message
  <2>2. QED
    BY <1>1, <1>15, <2>1 DEF About
<1>17. /\ UNCHANGED <<dev, client, pub, queue, val, due>>
       /\ Fault \/ faults' = faults
  BY DEF BrokerReads
<1>18. PICK s \in Parts : s = Here' /\ s.d = dev /\ s.c = client /\ s.q = q /\ s.n = m
  BY <1>1, <1>4, <1>11, <1>17, HereNext
<1>19. ASSUME Up(s), NEW i \in Pool \ pub.pool
       PROVE  Tells(q, d, i, kept'[i], val[i])
  <2>1. Up(Here)
    BY <1>1, <1>3, <1>18, <1>19 DEF Up
  <2>2. Tells(q, c, i, kept[i], val[i])
    BY <1>5, <1>12, <1>19, <2>1
  <2>3. PICK size \in Nat : size = Len(q)
    BY LenProperties
  <2>4. c + 1 \in 1 .. size /\ h = q[c + 1].m
    BY <1>12, <1>14, <2>3
  <2>5. kept'[i] = IF About(h, i) THEN h.v ELSE kept[i]
    BY <1>16
  <2>6. Tells(q, c + 1, i, kept'[i], val[i])
    BY <2>2, <2>3, <2>4, <2>5, ReadTells
  <2>7. QED
    BY <1>12, <2>6
<1>20. Good(s, pub.pool, kept', val)
  <2>1. Len(t) <= InFlight
    <3>1. PICK f \in Nat : f = InFlight /\ len <= f
      BY <1>1, <1>4, <1>6, <1>7, Bounds
    <3>2. len - 1 <= f
      BY <3>1
    <3>3. QED
      BY <1>8, <3>1, <3>2
  <2>2. Fits(s) /\ Idle(s)
    BY <1>1, <1>3, <1>4, <1>11, <1>18, <2>1 DEF Fits, Idle
  <2>3. OnWay(s, pub.pool, kept', val)
    BY <1>12, <1>14, <1>18, <1>19 DEF OnWay
  <2>4. QED
    BY <2>2, <2>3 DEF Good
<1>21. QED
  BY <1>1, <1>16, <1>17, <1>18, <1>20, Stepped

LEMMA IterateKeeps == IInv /\ Iterate => IInv'
<1> SUFFICES ASSUME IInv, Iterate PROVE IInv'
  OBVIOUS
<1>1. pub' \in Pubs /\ Good(Here', pub'.pool, kept, val)
  BY IterateGood
<1>2. UNCHANGED <<val, kept, faults>> /\ due' = due \ {"iterate"}
  BY DEF Iterate
<1>3. /\ val \in [Pool -> BOOLEAN] /\ kept \in [Pool -> BOOLEAN]
      /\ due \subseteq {"iterate", "watchdog"}
  BY TypeParts DEF IInv
<1>4. QED
  BY <1>1, <1>2, <1>3, Stepped

LEMMA ReceivesKeeps == IInv /\ Receives => IInv'
<1> SUFFICES ASSUME IInv, Receives PROVE IInv'
  OBVIOUS
<1>1. Good(Here', pub.pool, kept, val)
  BY ReceivesGood
<1>2. UNCHANGED <<pub, val, kept, due, faults>>
  BY DEF Receives
<1>3. /\ val \in [Pool -> BOOLEAN] /\ kept \in [Pool -> BOOLEAN] /\ pub \in Pubs
      /\ due \subseteq {"iterate", "watchdog"}
  BY TypeParts DEF IInv
<1>4. QED
  BY <1>1, <1>2, <1>3, Stepped

(* All of them together.                                                       *)
LEMMA NextGood == IInv /\ [Next]_vars => IInv'
<1> SUFFICES ASSUME IInv, [Next]_vars PROVE IInv'
  OBVIOUS
<1>1. CASE Steps
  BY <1>1, IterateKeeps, WatchdogFiresGood, EnterCfgModeGood, LeaveCfgModeGood,
     JoinsGood, WifiDropsGood, GethostGood, TcpOpensGood, TcpFailsGood,
     TcpBreaksGood, DisconnectCbGood, BrokerReadsGood, ReceivesKeeps, TickGood
  DEF Steps
<1>2. ASSUME NEW i \in Pool, ValueChanges(i) PROVE IInv'
  BY <1>2, ValueChangesGood
<1>3. CASE UNCHANGED vars
  <2>1. Here' = Here
    BY <1>3 DEF vars, Here
  <2>2. QED
    BY <1>3, <2>1, Stepped, TypeParts DEF vars, IInv
<1>4. QED
  BY <1>1, <1>2, <1>3 DEF Next

--------------------------------------------------------------------------------
(* The invariant holds throughout: the queue stays cut into what is done, what *)
(* was sent and what is unsent, the answers and the send buffer match what was *)
(* sent, and a topic that left the pool is told by the rest of the queue       *)
(* (mqtt_mq_clean, __mqtt_send and __mqtt_recv on one queue).                  *)
THEOREM Invariance == Spec => []IInv
<1>1. Init => IInv
  BY InitGood
<1>2. IInv /\ [Next]_vars => IInv'
  BY NextGood
<1>3. QED
  BY <1>1, <1>2, PTL DEF Spec

(* The parts of the client stay in their ranges: the queue holds no more than  *)
(* its buffer, the SDK's send buffer no more than it takes.                    *)
THEOREM TypeCorrect == Spec => []TypeOK
<1>1. IInv => TypeOK
  BY DEF IInv
<1>2. QED
  BY <1>1, Invariance, PTL

(* Positions after the cut.                                                    *)
LEMMA AfterCut ==
  ASSUME NEW b \in Nat, NEW len \in Nat, NEW r \in Nat, r = len - b, NEW k \in 1 .. r
  PROVE  b < len /\ b + k \in 1 .. len /\ (b + 1) + k - 1 = b + k
OBVIOUS

(* What is on its way, taken from the queue.                                   *)
LEMMA OnItsWayIs ==
  ASSUME queue \in Seq(Entry), net \in Nets, NEW a \in Nat, NEW b \in Nat,
         Cut(queue, net, a, b), NEW c \in Nat, c = a + Len(net.in),
         NEW len \in Nat, len = Len(queue)
  PROVE  /\ c <= len /\ Len(OnItsWay) = len - c
         /\ \A j \in 1 .. len - c : OnItsWay[j] = queue[c + j].m
<1>1. PICK in \in Nat, out \in Nat : in = Len(net.in) /\ out = Len(net.out)
  BY Lengths
<1>2. b = c + out /\ c = a + in /\ b <= len
  <2>1. b = a + in + out /\ b <= len
    BY <1>1 DEF Cut
  <2>2. c = a + in
    BY <1>1
  <2>3. QED
    BY <2>1, <2>2
<1>3. /\ Cardinality(Unsent(queue)) = len - b
      /\ b < len => Min(Unsent(queue)) = b + 1
  BY UnsentAfter
<1>4. PICK r \in Nat : r = len - b
  <2>1. len - b \in Nat
    BY <1>2
  <2>2. QED
    BY <2>1
<1> DEFINE p == [k \in 1 .. r |-> queue[Min(Unsent(queue)) + k - 1].m]
<1>5. ASSUME NEW k \in 1 .. r
      PROVE  p[k] = queue[b + k].m /\ p[k] \in Message
  <2>1. b < len /\ b + k \in 1 .. len /\ (b + 1) + k - 1 = b + k
    BY <1>4, AfterCut
  <2>2. p[k] = queue[b + k].m
    BY <1>3, <2>1
  <2>3. queue[b + k] \in Entry
    BY <2>1, ElementOfSeq
  <2>4. QED
    BY <2>2, <2>3 DEF Entry
<1>6. p \in Seq(Message) /\ Len(p) = r
  <2>1. p \in [1 .. r -> Message]
    BY <1>5
  <2>2. QED
    BY <2>1, SeqOf
<1>7. OnItsWay = net.out \o p
  BY <1>3, <1>4 DEF OnItsWay
<1> HIDE DEF p
<1>8. net.out \in Seq(Message)
  BY DEF Nets
<1>9. /\ Len(net.out \o p) = out + r
      /\ \A i \in 1 .. out + r : (net.out \o p)[i] = IF i <= out THEN net.out[i]
                                                     ELSE p[i - out]
  BY <1>1, <1>6, <1>8, ConcatProperties
<1>10. c <= len /\ out + r = len - c
  BY <1>2, <1>4
<1>11. ASSUME NEW j \in 1 .. len - c
       PROVE  OnItsWay[j] = queue[c + j].m
  <2>1. j \in 1 .. out + r
    BY <1>10
  <2>2. CASE j <= out
    <3>1. j \in 1 .. out /\ a + in + j = c + j
      BY <1>2, <2>2
    <3>2. net.out[j] = queue[a + in + j].m
      BY <1>1, <3>1 DEF Cut
    <3>3. QED
      BY <1>7, <1>9, <2>1, <2>2, <3>1, <3>2
  <2>3. CASE ~(j <= out)
    <3>1. j - out \in 1 .. r /\ b + (j - out) = c + j
      BY <1>2, <2>1, <2>3
    <3>2. p[j - out] = queue[b + (j - out)].m
      BY <1>5, <3>1
    <3>3. QED
      BY <1>7, <1>9, <2>1, <2>3, <3>1, <3>2
  <2>4. QED
    BY <2>2, <2>3
<1>12. QED
  BY <1>7, <1>9, <1>10, <1>11

(* The invariant gives Fresh: what is on its way is the queue after the c      *)
(* messages that the broker has read.                                          *)
LEMMA IInvFresh == IInv => Fresh
<1> SUFFICES ASSUME IInv, dev.status = "ready", client.error \in {"ok", "full"},
                    net.tcp = "open", NEW i \in Pool, i \notin pub.pool
             PROVE  LET about == {k \in 1 .. Len(OnItsWay) :
                                    /\ OnItsWay[k].kind = "publish"
                                    /\ OnItsWay[k].topic = i}
                    IN  IF about = {} THEN kept[i] = val[i]
                        ELSE OnItsWay[Max(about)].v = val[i]
  BY DEF Fresh
<1> DEFINE about == {k \in 1 .. Len(OnItsWay) : /\ OnItsWay[k].kind = "publish"
                                                /\ OnItsWay[k].topic = i}
<1>1. /\ queue \in Seq(Entry) /\ net \in Nets
      /\ Here.d = dev /\ Here.c = client /\ Here.q = queue /\ Here.n = net
  BY TypeParts DEF IInv, Here
<1>2. PICK a \in Nat, b \in Nat :
        /\ Cut(queue, net, a, b)
        /\ Tells(queue, a + Len(net.in), i, kept[i], val[i])
  BY <1>1 DEF IInv, Good, OnWay, Up
<1>3. PICK c \in Nat, len \in Nat : c = a + Len(net.in) /\ len = Len(queue)
  <2>1. PICK in \in Nat : in = Len(net.in)
    BY <1>1, Lengths
  <2>2. a + in \in Nat
    OBVIOUS
  <2>3. QED
    BY <1>1, <2>1, <2>2, Lengths
<1>4. /\ c <= len /\ Len(OnItsWay) = len - c
      /\ \A j \in 1 .. len - c : OnItsWay[j] = queue[c + j].m
  <2>1. queue \in Seq(Entry) /\ net \in Nets
    BY <1>1
  <2>2. Cut(queue, net, a, b)
    BY <1>2
  <2>3. c = a + Len(net.in) /\ len = Len(queue)
    BY <1>3
  <2>4. QED
    BY <2>1, <2>2, <2>3, OnItsWayIs, ZenonT(40)
<1>5. \A j \in 1 .. len - c : j \in about <=> About(queue[c + j].m, i)
  BY <1>4 DEF About
<1>6. PICK size \in Nat : size = len - c /\ about \subseteq 1 .. size
  <2>1. len - c \in Nat
    BY <1>4
  <2>2. QED
    BY <1>4, <2>1
<1> HIDE DEF about
<1>7. ASSUME NEW j \in 1 .. len, j > c
      PROVE  j - c \in 1 .. size /\ c + (j - c) = j
  BY <1>6, <1>7
<1>8. CASE about = {}
  <2>1. ASSUME NEW j \in 1 .. len, j > c PROVE ~About(queue[j].m, i)
    <3>1. j - c \in 1 .. len - c /\ c + (j - c) = j
      BY <1>6, <1>7, <2>1
    <3>2. QED
      BY <1>5, <1>8, <3>1
  <2>2. kept[i] = val[i]
    BY <1>2, <1>3, <2>1 DEF Tells
  <2>3. QED
    BY <1>8, <2>2 DEF about
<1>9. CASE about # {}
  <2>1. PICK p \in about : \A x \in about : p >= x
    BY <1>6, <1>9, GreatestOf
  <2>2. Max(about) = p
    <3>1. about \subseteq Int
      BY <1>6
    <3>2. QED
      BY <2>1, <3>1, MaxIs
  <2>3. p \in 1 .. len - c /\ c + p \in 1 .. len /\ c + p > c
    BY <1>4, <1>6, <2>1
  <2>4. ASSUME NEW l \in 1 .. len, l > c + p PROVE ~About(queue[l].m, i)
    <3>1. l - c \in 1 .. len - c /\ c + (l - c) = l /\ ~(p >= l - c)
      BY <2>3, <2>4
    <3>2. l - c \notin about
      BY <2>1, <3>1
    <3>3. QED
      BY <1>5, <3>1, <3>2
  <2>5. About(queue[c + p].m, i)
    BY <1>5, <2>1, <2>3
  <2>6. LastAbout(queue, c + p, i)
    BY <1>3, <2>4, <2>5 DEF LastAbout
  <2>7. queue[c + p].m.v = val[i]
    BY <1>2, <1>3, <2>3, <2>6 DEF Tells
  <2>8. OnItsWay[p].v = val[i]
    BY <1>4, <2>3, <2>7
  <2>9. QED
    BY <1>9, <2>2, <2>8 DEF about
<1>10. QED
  BY <1>8, <1>9

(* While the client is connected no change of the device is forgotten: each    *)
(* topic is in the pool, or the newest message about it that the broker has    *)
(* not read tells its value, or the broker holds it already                    *)
(* (supla_esp_mqtt_publish clears the bit only when the message was accepted). *)
THEOREM NothingForgotten == Spec => []Fresh
<1>1. IInv => Fresh
  BY IInvFresh
<1>2. QED
  BY <1>1, Invariance, PTL
================================================================================
