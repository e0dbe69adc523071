----------------------------- MODULE DevConn_proofs -----------------------------
(***************************************************************************)
(* The connection to the server, for every value of the timeouts and every *)
(* number of faults: the device never waits for a resolver that has given  *)
(* up, the server hears from it in time, and an update that is complete    *)
(* becomes the firmware.                                                   *)
(***************************************************************************)
EXTENDS DevConn, TLAPS

(* The DNS client: a retry means another server, and whoever waits is not  *)
(* forgotten.                                                              *)
DnsGood(q) ==
  /\ q \in DnsState
  /\ q.retry => q.tries < DnsServers
  /\ q.cb => DnsBusy(q)

(* What the counters of an update say about the answer it has taken.  What *)
(* goes wrong with a header that comes in pieces is that got is then no    *)
(* longer what came after the header; what was written still is no more    *)
(* than that.                                                              *)
Untouched(u) ==
  u.sent = 0 /\ u.got = 0 /\ u.buff = 0 /\ u.written = 0 /\ u.whole
Counted(u) ==
  /\ u.step = "downloading" <=> u.sent >= Header /\ u.file \in 1 .. Space
  /\ u.sent <= Answer(u)
  /\ u.sent < Header => u.got = 0 /\ u.whole
  /\ u.step # "downloading" => u.written = 0 /\ u.buff = 0
  /\ u.step = "downloading" =>
       /\ u.written + u.buff <= u.sent - Header
       /\ u.whole => u.got = u.sent - Header /\ u.written + u.buff = u.got
UpdGood(u) ==
  /\ u \in UpdState
  /\ u.step = "check" => u.conn = "none"
  /\ u.conn \in {"none", "delay", "resolving", "connecting"} =>
       u.step # "downloading"
  /\ IF u.conn = "open" THEN Counted(u) ELSE Untouched(u)

(* The records of the connection.                                          *)
DevType ==
  [started : BOOLEAN, registered : {-1, 0, 1}, srpc : BOOLEAN,
   resolving : BOOLEAN, reconnect : 0 .. ReconnectDelay + 1,
   stop : BOOLEAN, timeout : Timeouts, leave : 0 .. ApTimeout + 1]
NetType ==
  [tcp : {"none", "connecting", "open", "dead"}, closing : BOOLEAN,
   asked : SUBSET Calls, known : BOOLEAN,
   gethost : {"none", "pending", "lost"}, wait : 0 .. Latency]
WifiType == [up : BOOLEAN, joining : 0 .. JoinTime, last : BOOLEAN]
AgeType ==
  [silence : 0 .. Watchdog + 1, quiet : 0 .. Longest + 1,
   challenge : 0 .. Soft + 1]
ConnType ==
  /\ mode \in {"run", "cfg", "ap"}
  /\ dev \in DevType /\ net \in NetType /\ wifi \in WifiType /\ age \in AgeType
  /\ due \subseteq {"watchdog", "timer1"} /\ faults \in 0 .. Faults

(* Whoever waits for a name is going to be told.                           *)
Awaited == dev.resolving => net.gethost # "none" \/ dns.cb

(* The server's side of a connection ends with it, and a connection with   *)
(* the network; a question is younger than the network is slow.            *)
Linked ==
  /\ net.known \/ net.asked # {} => net.tcp = "open"
  /\ net.tcp = "open" => wifi.up
  /\ net.asked # {} => age.quiet <= net.wait
  /\ "update" \in net.asked => upd.conn = "none"

(* The watchdog is disarmed in the configuration mode.  Whoever is         *)
(* registered has agreed on a timeout.                                     *)
Watched ==
  /\ "watchdog" \in due => mode = "run"
  /\ dev.registered = 1 => dev.timeout # 0

(* What makes ServerHears inductive: in the second in which the device     *)
(* would be late timer1 is still to run.                                   *)
SpeaksInTime ==
  Online /\ age.silence < dev.timeout + Grace =>
    /\ age.quiet <= dev.timeout
    /\ "timer1" \in due \/ age.quiet < dev.timeout

IInv ==
  /\ ConnType /\ DnsGood(dns) /\ UpdGood(upd)
  /\ Awaited /\ Linked /\ Watched /\ SpeaksInTime

--------------------------------------------------------------------------------
(* The DNS client.                                                         *)

(* Asking the next server leaves the client busy, if there is a next one.  *)
LEMMA DnsTryGood ==
  ASSUME NEW q \in DnsState, q.tries < DnsServers
  PROVE  DnsGood(DnsTry(q)) /\ DnsTry(q).cb = q.cb
<1>1. PICK d : d = DnsDisconnect(q) OBVIOUS
<1>2. d \in DnsState /\ d.tries = q.tries /\ d.cb = q.cb
  BY <1>1 DEF DnsState, DnsDisconnect
<1>3. d.tries + 1 \in 0 .. DnsServers /\ DnsTimeout + 1 \in 0 .. DnsTimeout + 1
  BY <1>2, DnsAssumption DEF DnsState
<1>4. DnsTry(q) \in DnsState BY <1>1, <1>2, <1>3 DEF DnsState, DnsTry
<1>5. /\ DnsTry(q).cb = q.cb /\ ~DnsTry(q).retry
      /\ DnsTry(q).timeout = DnsTimeout + 1
  BY <1>1, <1>2 DEF DnsState, DnsTry
<1> QED BY <1>4, <1>5, DnsAssumption DEF DnsGood, DnsBusy

(* supla_esp_dns_resolve starts with the first server, whatever went       *)
(* before.                                                                 *)
LEMMA DnsResolveGood ==
  ASSUME NEW q \in DnsState
  PROVE  DnsGood(DnsResolve(q)) /\ DnsResolve(q).cb
<1> DEFINE r == [q EXCEPT !.cb = TRUE, !.tries = 0, !.timeout = 0, !.retry = FALSE]
<1>1. 0 \in 0 .. DnsServers /\ 0 \in 0 .. DnsTimeout + 1 /\ 0 < DnsServers
  BY DnsAssumption
<1>2. r \in DnsState BY <1>1 DEF DnsState
<1>3. r.tries < DnsServers /\ r.cb BY <1>1 DEF DnsState
<1>4. DnsResolve(q) = DnsTry(r) BY DEF DnsResolve
<1> HIDE DEF r
<1> QED BY <1>2, <1>3, <1>4, DnsTryGood

(* supla_esp_dns_result forgets the one who waits only by answering, and a *)
(* client whose timer has run out either retries or answers.               *)
LEMMA DnsResultGood ==
  ASSUME NEW q \in DnsState, q.retry => q.tries < DnsServers
  PROVE  /\ DnsGood(DnsResult(q))
         /\ DnsResult(q).cb = (q.cb /\ ~Answers(q))
BY DnsAssumption
   DEF DnsGood, DnsState, DnsResult, TriesAgain, Answers, DnsBusy

--------------------------------------------------------------------------------
(* The firmware update.                                                    *)

(* The constants one by one, and the numbers of an update.                 *)
LEMMA Sizes ==
  /\ Sector \in Nat \ {0} /\ Header \in Nat \ {0} /\ Space \in Nat \ {0}
  /\ UpdateDelay \in Nat \ {0} /\ UpdateTimeout \in Nat \ {0}
  /\ \A n \in Segments : n \in Nat \ {0}
  /\ \A f \in Files \cup {0} : f \in 0 .. Space + 1
<1>1. {Sector, Header, Space, UpdateDelay, UpdateTimeout} \subseteq Nat \ {0}
  BY FirmwareAssumption
<1>2. Space \in Nat /\ Space > 0 BY <1>1
<1>3. 0 \in 0 .. Space + 1 BY <1>2
<1> QED BY <1>1, <1>3, FirmwareAssumption

LEMMA UpdNumbers ==
  ASSUME NEW u \in UpdState
  PROVE  /\ u.sent \in Nat /\ u.got \in Nat /\ u.buff \in Nat
         /\ u.written \in Nat /\ u.file \in 0 .. Space + 1
         /\ Answer(u) = Header + u.file
<1>1. u.file \in Files \cup {0} BY DEF UpdState
<1> QED BY <1>1, Sizes DEF UpdState, Answer

(* The records an update starts from and is left with.                     *)
LEMMA UpdInitGood ==
  \A image \in {"old", "new"}, wanted \in BOOLEAN :
    UpdGood(UpdInit(image, wanted)) /\ UpdInit(image, wanted).conn = "none"
<1> TAKE image \in {"old", "new"}, wanted \in BOOLEAN
<1>1. /\ 0 \in 0 .. UpdateTimeout /\ 0 \in 0 .. UpdateDelay + 1
      /\ 0 \in 0 .. Header + Space + 1 /\ 0 \in 0 .. Space + 1 /\ 0 \in 0 .. Space
      /\ 0 \in 0 .. Sector - 1 /\ 0 \in Files \cup {0}
  BY Sizes
<1>2. PICK step \in {"none", "check"} : step = IF wanted THEN "check" ELSE "none"
  OBVIOUS
<1>3. UpdInit(image, wanted) =
        [image |-> image, step |-> step, window |-> 0,
         conn |-> "none", delay |-> 0, file |-> 0, sent |-> 0,
         got |-> 0, buff |-> 0, written |-> 0, whole |-> TRUE]
  BY <1>2 DEF UpdInit
<1>4. UpdInit(image, wanted) \in UpdState BY <1>1, <1>3 DEF UpdState
<1> QED BY <1>3, <1>4 DEF UpdGood, Untouched

LEMMA GivenUpGood ==
  \A u : \A conn \in {"lost", "dead", "gone"} :
    UpdGood(u) /\ u.step # "check" =>
      UpdGood(GivenUp(u, conn)) /\ GivenUp(u, conn).conn = conn
<1> SUFFICES ASSUME NEW u, NEW conn \in {"lost", "dead", "gone"},
                    UpdGood(u), u.step # "check"
             PROVE  UpdGood(GivenUp(u, conn)) /\ GivenUp(u, conn).conn = conn
  OBVIOUS
<1>1. PICK i : i = UpdInit(u.image, FALSE) OBVIOUS
<1>2. u \in UpdState /\ u.image \in {"old", "new"} BY DEF UpdGood, UpdState
<1>3. i \in UpdState /\ Untouched(i)
  BY <1>1, <1>2, UpdInitGood DEF UpdGood
<1>4. PICK g : g = GivenUp(u, conn) OBVIOUS
<1>5. g = [i EXCEPT !.conn = conn, !.step = u.step, !.window = u.window]
  BY <1>1, <1>4 DEF GivenUp
<1>6. /\ g \in UpdState /\ g.conn = conn /\ g.step = u.step
      /\ g.sent = i.sent /\ g.got = i.got /\ g.buff = i.buff
      /\ g.written = i.written /\ g.whole = i.whole
  BY <1>2, <1>3, <1>5 DEF UpdState
<1> QED BY <1>3, <1>4, <1>6 DEF UpdGood, Untouched

LEMMA UpdLinkLostGood ==
  \A u : UpdGood(u) => /\ UpdGood(UpdLinkLost(u))
                       /\ u.conn = "none" => UpdLinkLost(u).conn = "none"
<1> SUFFICES ASSUME NEW u, UpdGood(u)
             PROVE  /\ UpdGood(UpdLinkLost(u))
                    /\ u.conn = "none" => UpdLinkLost(u).conn = "none"
  OBVIOUS
<1>1. u.step = "check" => u.conn = "none" BY DEF UpdGood
<1>2. CASE u.conn = "open"
  <2>1. u.step # "check" BY <1>1, <1>2
  <2>2. UpdLinkLost(u) = GivenUp(u, "dead") BY <1>2 DEF UpdLinkLost
  <2>3. UpdGood(GivenUp(u, "dead")) BY <2>1, GivenUpGood
  <2> QED BY <1>2, <2>2, <2>3
<1>3. CASE u.conn # "open" BY <1>3 DEF UpdLinkLost
<1> QED BY <1>2, <1>3

(* What is left of full sectors is less than a sector.                     *)
LEMMA RestOfSector ==
  ASSUME NEW a \in Nat
  PROVE  a % Sector \in 0 .. Sector - 1 /\ a % Sector <= a
BY Sizes, SMT

(* What is stored of a segment, field by field.                            *)
LEMMA DownloadedFields ==
  ASSUME NEW u \in UpdState, NEW n \in Nat,
         u.got + n <= Space, u.written + u.buff + n <= Space
  PROVE  LET a == Downloaded(u, n)
         IN  /\ a \in UpdState
             /\ a.conn = u.conn /\ a.step = u.step /\ a.file = u.file
             /\ a.sent = u.sent /\ a.whole = u.whole
             /\ a.got = u.got + n
             /\ a.written + a.buff = u.written + u.buff + n
             /\ u.buff + n = 0 => a.buff = 0
             /\ a.got = u.file => a.buff = 0
<1> DEFINE filled == u.buff + n
           rest   == IF u.got + n = u.file THEN 0 ELSE filled % Sector
           got    == u.got + n
           stored == u.written + filled - rest
<1>1. /\ u.got \in Nat /\ u.written \in Nat /\ u.buff \in Nat /\ Space \in Nat
      /\ Sector \in Nat \ {0} /\ filled \in Nat /\ u.file \in Int
  BY UpdNumbers, Sizes
<1>2. rest \in 0 .. Sector - 1 /\ rest <= filled BY <1>1, RestOfSector
<1> HIDE DEF filled
<1>3. got \in 0 .. Space + 1 /\ stored \in 0 .. Space
  BY <1>1, <1>2 DEF filled
<1>4. Downloaded(u, n) = [u EXCEPT !.got = got, !.buff = rest, !.written = stored]
  BY DEF Downloaded, filled
<1>5. filled = 0 => rest = 0 BY <1>2
<1> HIDE DEF got, rest, stored
<1>6. Downloaded(u, n) \in UpdState BY <1>2, <1>3, <1>4 DEF UpdState
<1>7. /\ Downloaded(u, n).got = got /\ Downloaded(u, n).buff = rest
      /\ Downloaded(u, n).written = stored
      /\ Downloaded(u, n).conn = u.conn /\ Downloaded(u, n).step = u.step
      /\ Downloaded(u, n).file = u.file /\ Downloaded(u, n).sent = u.sent
      /\ Downloaded(u, n).whole = u.whole
  BY <1>4 DEF UpdState
<1>8. stored + rest = u.written + u.buff + n /\ (got = u.file => rest = 0)
  BY <1>1, <1>2 DEF stored, rest, filled, got
<1>9. u.buff + n = 0 => rest = 0 BY <1>5 DEF filled
<1> QED BY <1>6, <1>7, <1>8, <1>9 DEF got

(* What supla_esp_update_recv_cb makes of a segment: the counters still    *)
(* say what they said, and a segment with which a file is complete whose   *)
(* header came in one piece completes the update.                          *)
LEMMA AfterGood ==
  ASSUME NEW u, UpdGood(u), u.conn = "open",
         NEW n \in Segments, u.sent + n <= Answer(u),
         NEW a \in After(u, n)
  PROVE  /\ UpdGood(a)
         /\ a.conn = "open"
         /\ /\ u.sent + n = Answer(u) /\ u.whole
            /\ Matches(u, n) => u.sent = 0
            /\ u.file \in 1 .. Space
            => Finished(a) /\ Verified(a, TRUE)
<1> DEFINE step  == StepAfter(u, n)
           sent  == u.sent + n
           taken == Taken(u, n)
           came  == [u EXCEPT !.sent = @ + n, !.step = StepAfter(u, n)]
           split == came.step = "downloading" /\ Matches(u, n) /\ u.sent > 0
           kept  == [came EXCEPT !.whole = @ /\ ~split]
<1>1. u \in UpdState /\ Counted(u) /\ u.step # "check" BY DEF UpdGood
<1>2. /\ u.sent \in Nat /\ u.got \in Nat /\ u.buff \in Nat /\ u.written \in Nat
      /\ u.file \in 0 .. Space + 1 /\ Answer(u) = Header + u.file
      /\ n \in Nat \ {0} /\ Header \in Nat \ {0} /\ Space \in Nat \ {0}
  BY <1>1, UpdNumbers, Sizes
<1>3. /\ step \in {"none", "checking", "downloading"}
      /\ step = "downloading" <=> sent >= Header /\ u.file \in 1 .. Space
  BY <1>1, <1>2 DEF StepAfter, Matches, Counted, UpdState
<1>4. sent \in 0 .. Header + Space + 1 BY <1>2
<1>5. taken = IF step # "downloading" THEN 0
              ELSE IF u.sent < Header THEN n - Header ELSE n
  BY <1>2, <1>3 DEF Taken, Matches
<1>6. PICK c : c = came OBVIOUS
<1>7. /\ c \in UpdState /\ c.step = step /\ c.sent = sent /\ c.whole = u.whole
      /\ c.conn = u.conn /\ c.file = u.file /\ c.got = u.got
      /\ c.written = u.written /\ c.buff = u.buff
  <2> HIDE DEF step, sent
  <2>1. c = [u EXCEPT !.sent = sent, !.step = step] BY <1>6 DEF sent, step
  <2> QED BY <2>1, <1>1, <1>3, <1>4 DEF UpdState
<1>8. PICK k : k = kept OBVIOUS
<1>9. /\ k \in UpdState /\ k.step = step /\ k.sent = sent
      /\ k.whole <=> u.whole /\ ~(step = "downloading" /\ u.sent \in 1 .. Header - 1)
      /\ k.conn = "open" /\ k.file = u.file /\ k.got = u.got
      /\ k.written = u.written /\ k.buff = u.buff
  <2>1. split <=> step = "downloading" /\ u.sent \in 1 .. Header - 1
    BY <1>2, <1>3, <1>6, <1>7 DEF Matches
  <2> HIDE DEF split, step, sent
  <2>2. k = [c EXCEPT !.whole = c.whole /\ ~split] BY <1>6, <1>8
  <2>3. k \in UpdState BY <1>7, <2>2 DEF UpdState
  <2>4. k.whole <=> c.whole /\ ~split BY <1>7, <2>2 DEF UpdState
  <2>5. /\ k.step = c.step /\ k.sent = c.sent /\ k.conn = c.conn /\ k.file = c.file
        /\ k.got = c.got /\ k.written = c.written /\ k.buff = c.buff
    BY <1>7, <2>2 DEF UpdState
  <2> QED BY <1>7, <2>1, <2>3, <2>4, <2>5
<1>10. Answer(k) = Answer(u) BY <1>2, <1>9, UpdNumbers
<1>11. /\ After(u, n) = CASE taken < 0 -> {[k EXCEPT !.got = g] : g \in 0 .. Space + 1}
                         [] taken >= 0 /\ u.got + taken > Space ->
                              {[k EXCEPT !.got = Space + 1]}
                         [] OTHER -> {Downloaded(k, taken)}
      /\ taken \in Int
  <2>1. k = kept /\ taken \in Int BY <1>2, <1>5, <1>8
  <2> QED BY <2>1 DEF After
<1> HIDE DEF taken, step, sent, came, split, kept
<1>12. ASSUME NEW g \in 0 .. Space + 1
       PROVE  LET b == [k EXCEPT !.got = g]
              IN  /\ b \in UpdState /\ b.step = step /\ b.sent = sent
                  /\ b.whole = k.whole /\ b.conn = "open" /\ b.file = u.file
                  /\ b.got = g /\ b.written = u.written /\ b.buff = u.buff
  BY <1>9 DEF UpdState
<1>13. CASE taken < 0
  <2>1. PICK g \in 0 .. Space + 1 : a = [k EXCEPT !.got = g] BY <1>11, <1>13
  <2>2. /\ step = "downloading" /\ u.sent \in 1 .. Header - 1 /\ sent >= Header
        /\ u.written = 0 /\ u.buff = 0 /\ sent <= Answer(u)
    BY <1>1, <1>2, <1>3, <1>5, <1>13 DEF sent, Counted
  <2>3. /\ a \in UpdState /\ a.step = step /\ a.sent = sent /\ ~a.whole
        /\ a.conn = "open" /\ a.file = u.file /\ a.written = 0 /\ a.buff = 0
    BY <1>9, <1>12, <2>1, <2>2
  <2>4. Counted(a) BY <1>2, <1>3, <2>2, <2>3, UpdNumbers DEF Counted
  <2>5. ~(Matches(u, n) => u.sent = 0) BY <1>2, <2>2 DEF Matches, sent
  <2> QED BY <2>2, <2>3, <2>4, <2>5 DEF UpdGood
<1>14. ASSUME taken >= 0
       PROVE  /\ sent < Header => u.got = 0 /\ u.whole /\ taken = 0
              /\ step # "downloading" => u.written = 0 /\ u.buff = 0 /\ taken = 0
              /\ step = "downloading" =>
                   /\ u.written + u.buff + taken <= sent - Header
                   /\ sent - Header <= u.file /\ u.file \in 1 .. Space
                   /\ k.whole => /\ u.got + taken = sent - Header
                                 /\ u.written + u.buff + taken = u.got + taken
  <2>1. CASE step # "downloading"
    BY <1>1, <1>2, <1>3, <1>5, <2>1 DEF sent, Counted
  <2>2. CASE step = "downloading" /\ u.sent < Header
    <3>1. taken = n - Header /\ u.got = 0 /\ u.written = 0 /\ u.buff = 0
      BY <1>1, <1>2, <1>5, <2>2 DEF Counted
    <3>2. k.whole => u.sent = 0 BY <1>2, <1>9, <2>2
    <3> QED BY <1>2, <1>3, <2>2, <3>1, <3>2 DEF sent
  <2>3. CASE step = "downloading" /\ u.sent >= Header
    <3>1. taken = n /\ u.step = "downloading" /\ u.written + u.buff <= u.sent - Header
      BY <1>1, <1>2, <1>3, <1>5, <2>3 DEF Counted
    <3>2. k.whole => u.got = u.sent - Header /\ u.written + u.buff = u.got
      BY <1>1, <1>9, <3>1 DEF Counted
    <3> QED BY <1>2, <1>3, <2>3, <3>1, <3>2 DEF sent
  <2> QED BY <1>2, <2>1, <2>2, <2>3
<1>15. CASE taken >= 0 /\ u.got + taken > Space
  <2>1. a = [k EXCEPT !.got = Space + 1] BY <1>11, <1>15
  <2>2. Space + 1 \in 0 .. Space + 1 BY <1>2
  <2>3. /\ a \in UpdState /\ a.step = step /\ a.sent = sent /\ a.whole = k.whole
        /\ a.conn = "open" /\ a.file = u.file /\ a.written = u.written
        /\ a.buff = u.buff
    BY <1>12, <2>1, <2>2
  <2>4. ~(step = "downloading" /\ k.whole) /\ ~(sent < Header)
    BY <1>2, <1>11, <1>14, <1>15 DEF sent
  <2>5. Counted(a)
    BY <1>2, <1>3, <1>11, <1>14, <1>15, <2>3, <2>4, UpdNumbers DEF sent, Counted
  <2>6. ~(/\ sent = Answer(u) /\ u.whole
          /\ Matches(u, n) => u.sent = 0
          /\ u.file \in 1 .. Space)
    BY <1>2, <1>3, <1>9, <2>4 DEF sent, Matches
  <2> QED BY <1>1, <1>3, <2>3, <2>5, <2>6 DEF UpdGood, sent
<1>16. CASE taken >= 0 /\ u.got + taken <= Space
  <2>1. a = Downloaded(k, taken) BY <1>2, <1>11, <1>16
  <2>2. taken \in Nat /\ k.got + taken <= Space /\ k.written + k.buff + taken <= Space
    <3>1. taken \in Nat /\ k.got + taken <= Space BY <1>9, <1>11, <1>16
    <3>2. CASE step # "downloading" BY <1>2, <1>9, <1>14, <1>16, <3>1, <3>2
    <3>3. CASE step = "downloading"
      <4>1. /\ u.written + u.buff + taken <= sent - Header
            /\ sent - Header <= u.file /\ u.file \in 1 .. Space /\ sent \in Nat
        BY <1>2, <1>4, <1>14, <1>16, <3>3
      <4> QED BY <1>2, <1>9, <3>1, <4>1
    <3> QED BY <3>1, <3>2, <3>3
  <2>3. /\ a \in UpdState /\ a.conn = "open" /\ a.step = step /\ a.file = u.file
        /\ a.sent = sent /\ a.whole = k.whole /\ a.got = u.got + taken
        /\ a.written + a.buff = u.written + u.buff + taken
        /\ u.buff + taken = 0 => a.buff = 0
        /\ a.got = u.file => a.buff = 0
    BY <1>9, <2>1, <2>2, DownloadedFields
  <2>4. a.written \in Nat /\ a.buff \in Nat /\ Answer(a) = Answer(u)
    BY <1>2, <2>3, UpdNumbers
  <2>5. Counted(a)
    BY <1>2, <1>3, <1>9, <1>11, <1>14, <1>16, <2>3, <2>4 DEF sent, Counted
  <2>6. ASSUME sent = Answer(u), u.whole, Matches(u, n) => u.sent = 0,
               u.file \in 1 .. Space
        PROVE  Finished(a) /\ Verified(a, TRUE)
    <3>1. step = "downloading" /\ k.whole
      BY <1>2, <1>3, <1>9, <2>6 DEF sent, Matches
    <3>2. a.got = u.file /\ a.written + a.buff = u.file /\ a.buff = 0
      BY <1>2, <1>11, <1>14, <1>16, <2>3, <2>6, <3>1
    <3> QED BY <2>3, <2>4, <3>1, <3>2 DEF Finished, Verified
  <2>7. UpdGood(a) BY <1>3, <2>3, <2>5 DEF UpdGood
  <2>8. sent = u.sent + n BY DEF sent
  <2> QED BY <2>3, <2>6, <2>7, <2>8
<1>17. taken \in Int BY <1>11
<1>18. \/ taken < 0
       \/ taken >= 0 /\ u.got + taken > Space
       \/ taken >= 0 /\ u.got + taken <= Space
  BY <1>2, <1>17
<1> QED BY <1>13, <1>15, <1>16, <1>18

--------------------------------------------------------------------------------
(* The connection.                                                         *)

(* The constants one by one.                                               *)
LEMMA Times ==
  /\ Watchdog \in Nat /\ Soft \in Nat /\ ActivityTimeout \in Nat
  /\ ServerTimeout \in Nat /\ PingMargin \in Nat /\ Grace \in Nat
  /\ ReconnectDelay \in Nat /\ ApTimeout \in Nat /\ JoinTime \in Nat
  /\ Latency \in Nat /\ Faults \in Nat
  /\ PingMargin < ActivityTimeout /\ PingMargin < ServerTimeout
<1>1. {Watchdog, Soft, ActivityTimeout, ServerTimeout, PingMargin, Grace,
      ReconnectDelay, ApTimeout, JoinTime, Latency, Faults} \subseteq Nat
  BY DevConnAssumption
<1> QED BY <1>1, DevConnAssumption

(* supla_espconn_disconnect ends what the server knows.                    *)
LEMMA DisconnectedNet ==
  \A n \in NetType :
    LET m == Disconnected(n)
    IN  /\ m \in NetType
        /\ m.asked = {} /\ ~m.known /\ m.tcp # "open"
        /\ m.gethost = n.gethost /\ m.wait = n.wait
BY ZenonT(40) DEF Disconnected, NetType

(* Losing the network does no more to a connection that is not open.       *)
LEMMA LinkLostNet ==
  \A n \in NetType :
    LET m == LinkLost(n)
    IN  /\ m \in NetType
        /\ m.tcp # "open" /\ m.gethost = n.gethost /\ m.wait = n.wait
        /\ IF n.tcp = "open" THEN m.asked = {} /\ ~m.known ELSE m = n
BY DEF LinkLost, NetType

(* A call leaves on an open connection only.                               *)
LEMMA AskedNet ==
  \A n \in NetType, calls \in SUBSET Calls :
    LET m == Asked(n, calls)
    IN  /\ m \in NetType
        /\ m.tcp = n.tcp /\ m.known = n.known
        /\ m.gethost = n.gethost /\ m.wait = n.wait
        /\ m.asked \subseteq n.asked \cup calls
        /\ n.tcp # "open" => m.asked = n.asked
BY DEF Asked, NetType

(* A device that stops is registered no more, and still waits for the name *)
(* it waited for.                                                          *)
LEMMA StoppedDev ==
  \A d \in DevType :
    /\ Stopped(d) \in DevType /\ Stopped(d).registered = 0
    /\ ~Stopped(d).started
    /\ Stopped(d).resolving = d.resolving /\ Stopped(d).timeout = d.timeout
BY DEF Stopped, DevType

LEMMA RestartedDev ==
  \A d \in DevType :
    LET r == Started(Stopped(d))
    IN  /\ r \in DevType /\ r.registered = 0
        /\ r.resolving = d.resolving /\ r.timeout = d.timeout
<1> TAKE d \in DevType
<1>1. 0 \in 0 .. ReconnectDelay + 1 BY Times
<1>2. PICK c : c = Stopped(d) OBVIOUS
<1>3. /\ c \in DevType /\ c.registered = 0 /\ c.resolving = d.resolving
      /\ c.timeout = d.timeout
  BY <1>2, StoppedDev
<1> QED BY <1>1, <1>2, <1>3 DEF Started, DevType

LEMMA RejoinedWifi ==
  \A w \in WifiType :
    Rejoined(w) \in WifiType /\ ~Rejoined(w).up
<1>1. 0 \in 0 .. JoinTime BY Times
<1> QED BY <1>1 DEF Rejoined, WifiType

LEMMA Timers0 ==
  /\ 0 \in 0 .. Watchdog + 1 /\ 0 \in 0 .. Longest + 1 /\ 0 \in 0 .. Soft + 1
  /\ Soft + 1 \in 0 .. Soft + 1 /\ 0 \in 0 .. Latency /\ 0 \in 0 .. JoinTime
  /\ 0 \in 0 .. ReconnectDelay + 1
  /\ ReconnectDelay + 1 \in 0 .. ReconnectDelay + 1
  /\ 0 \in 0 .. ApTimeout + 1 /\ ApTimeout + 1 \in 0 .. ApTimeout + 1
  /\ 0 \in Timeouts /\ ActivityTimeout \in Timeouts /\ ServerTimeout \in Timeouts
  /\ 0 \in 0 .. Faults
BY Times DEF Longest, Timeouts

(* supla_esp_devconn__reconnect: all of it or nothing.                     *)
LEMMA ReconnectResult ==
  ASSUME ConnType, NEW STATE d, d \in DevType, Reconnect(d, net)
  PROVE  /\ dev' \in DevType /\ net' \in NetType /\ wifi' \in WifiType
         /\ age' \in AgeType
         /\ age'.silence = age.silence /\ age'.quiet = age.quiet
         /\ dev'.resolving = d.resolving /\ dev'.timeout = d.timeout
         /\ net'.gethost = net.gethost
         /\ IF MayReconnect
            THEN /\ dev'.registered = 0
                 /\ net'.asked = {} /\ ~net'.known /\ net'.tcp # "open"
            ELSE dev' = d /\ net' = net /\ wifi' = wifi
<1>1. age' \in AgeType /\ age'.silence = age.silence /\ age'.quiet = age.quiet
  BY Timers0 DEF Reconnect, ConnType, AgeType
<1>2. CASE MayReconnect
  BY <1>1, <1>2, RestartedDev, DisconnectedNet, RejoinedWifi DEF Reconnect, ConnType
<1>3. CASE ~MayReconnect
  BY <1>1, <1>3 DEF Reconnect, ConnType
<1> QED BY <1>2, <1>3

(* The device starts again, whatever it was doing.                         *)
LEMMA RestartGood ==
  ASSUME IInv, NEW image \in {"old", "new"}, RestartWith(image),
         faults' \in 0 .. Faults
  PROVE  IInv'
<1>1. UpdGood(upd') /\ upd'.conn = "none" BY UpdInitGood DEF RestartWith
<1>2. DnsGood(dns')
  BY DnsAssumption DEF RestartWith, DnsInit, DnsGood, DnsState
<1>3. /\ mode' = "run" /\ due' = {}
      /\ dev' \in DevType /\ ~dev'.resolving /\ dev'.registered = 0
      /\ net' \in NetType /\ ~net'.known /\ net'.asked = {} /\ net'.tcp # "open"
      /\ wifi' \in WifiType /\ age' \in AgeType
  BY Timers0 DEF RestartWith, Boot, DevType, NetType, WifiType, AgeType
<1> QED BY <1>1, <1>2, <1>3
        DEF IInv, ConnType, Awaited, Linked, Watched, SpeaksInTime, Online

(* Only the number of faults grows.                                        *)
LEMMA FaultCounts ==
  ASSUME faults \in 0 .. Faults, Fault \/ UNCHANGED faults
  PROVE  faults' \in 0 .. Faults
BY Times DEF Fault


(* supla_esp_dns_result, with whatever the client has become before it is  *)
(* called: whoever waits for the name is told, or the client goes on.      *)
LEMMA DnsReportsGood ==
  ASSUME IInv, NEW q \in DnsState, q.retry => q.tries < DnsServers,
         q.cb = dns.cb, DnsReports(q)
  PROVE  IInv'
<1>1. DnsGood(dns') /\ dns'.cb = (q.cb /\ ~Answers(q))
  BY DnsResultGood DEF DnsReports
<1>2. CASE ~Answers(q)
  BY <1>1, <1>2
     DEF DnsReports, IInv, ConnType, Awaited, Linked, Watched, SpeaksInTime, Online
<1>3. CASE Answers(q)
  <2>1. Found(q.success, net) /\ net \in NetType /\ dev \in DevType
    BY <1>3 DEF DnsReports, IInv, ConnType
  <2>2. PICK m : m = Disconnected(net) OBVIOUS
  <2>3. /\ m \in NetType /\ m.asked = {} /\ ~m.known
        /\ m.gethost = net.gethost
    BY <2>1, <2>2, DisconnectedNet
  <2>4. net' = net \/ net' = [m EXCEPT !.tcp = "connecting"]
    BY <2>1, <2>2 DEF Found
  <2>5. \/ net' = net
        \/ net' \in NetType /\ ~net'.known /\ net'.asked = {} /\ net'.tcp # "open"
    BY <2>3, <2>4 DEF NetType
  <2>6. dev' \in DevType /\ dev' = [dev EXCEPT !.resolving = FALSE]
    BY <2>1 DEF Found, DevType
  <2>7. /\ ~dev'.resolving /\ dev'.registered = dev.registered
        /\ dev'.timeout = dev.timeout /\ dev'.srpc = dev.srpc
        /\ dev'.started = dev.started
    BY <2>1, <2>6 DEF DevType
  <2> QED BY <1>1, <1>3, <2>1, <2>5, <2>6, <2>7
          DEF DnsReports, IInv, ConnType, Awaited, Linked, Watched, SpeaksInTime,
              Online
<1> QED BY <1>2, <1>3

(* What the client has become when supla_esp_dns_result is called is a     *)
(* client still, with the same one waiting.                                *)
LEMMA DnsBefore ==
  \A q \in DnsState :
    \A r \in {q, DnsSendFailed([q EXCEPT !.conn = "asked"]), DnsTimedOut(q),
              DnsClosed(q)} :
      /\ r \in DnsState /\ r.retry = q.retry /\ r.tries = q.tries
      /\ r.cb = q.cb
<1> TAKE q \in DnsState
<1>1. PICK a : a = [q EXCEPT !.conn = "asked"] OBVIOUS
<1>2. a \in DnsState /\ a.retry = q.retry /\ a.tries = q.tries /\ a.cb = q.cb
  BY <1>1 DEF DnsState
<1>3. 0 \in 0 .. DnsTimeout + 1 BY DnsAssumption
<1>4. PICK t : t = [q EXCEPT !.timeout = 0] OBVIOUS
<1>5. t \in DnsState /\ t.retry = q.retry /\ t.tries = q.tries /\ t.cb = q.cb
  BY <1>3, <1>4 DEF DnsState
<1>6. \A d \in DnsState :
        /\ DnsDisconnect(d) \in DnsState /\ DnsDisconnect(d).retry = d.retry
        /\ DnsDisconnect(d).tries = d.tries /\ DnsDisconnect(d).cb = d.cb
  BY DEF DnsDisconnect, DnsState
<1>7. /\ DnsClosed(q) \in DnsState /\ DnsClosed(q).retry = q.retry
      /\ DnsClosed(q).tries = q.tries /\ DnsClosed(q).cb = q.cb
  BY DEF DnsClosed, DnsState
<1>8. DnsSendFailed([q EXCEPT !.conn = "asked"]) = DnsDisconnect(a)
  BY <1>1 DEF DnsSendFailed
<1>9. DnsTimedOut(q) = DnsDisconnect(t) BY <1>4 DEF DnsTimedOut
<1> QED BY <1>2, <1>5, <1>6, <1>7, <1>8, <1>9

(* Steps of the network preserve the invariant.                            *)
LEMMA NetworkGood ==
  ASSUME IInv, Network
  PROVE  IInv'
<1> USE DEF IInv, ConnType, Awaited, Linked, Watched, SpeaksInTime, Online
<1>1. ASSUME Joins PROVE IInv'
  <2>1. wifi' \in WifiType /\ wifi'.up BY <1>1, Timers0 DEF Joins, WifiType
  <2> QED BY <1>1, <2>1 DEF Joins
<1>2. ASSUME WifiDrops PROVE IInv'
  BY <1>2, FaultCounts, LinkLostNet, RejoinedWifi, UpdLinkLostGood DEF WifiDrops
<1>3. ASSUME GethostAnswers PROVE IInv'
  <2>1. PICK n : n = [net EXCEPT !.gethost = "none"] OBVIOUS
  <2>2. n \in NetType BY <2>1 DEF NetType
  <2>3. /\ net' \in NetType /\ ~net'.known /\ net'.asked = {} /\ net'.tcp # "open"
        /\ dev' \in DevType /\ ~dev'.resolving
        /\ dev'.registered = dev.registered /\ dev'.timeout = dev.timeout
    <3>1. PICK m : m = Disconnected(n) OBVIOUS
    <3>2. m \in NetType /\ m.asked = {} /\ ~m.known
      BY <2>2, <3>1, DisconnectedNet
    <3>3. net' = [m EXCEPT !.tcp = "connecting"]
      BY <1>3, <2>1, <3>1 DEF GethostAnswers, Found
    <3>4. /\ net' \in NetType /\ ~net'.known /\ net'.asked = {}
          /\ net'.tcp = "connecting"
      BY <3>2, <3>3 DEF NetType
    <3> QED BY <1>3, <3>4 DEF GethostAnswers, Found, DevType
  <2> QED BY <1>3, <2>3 DEF GethostAnswers
<1>4. ASSUME GethostFails PROVE IInv'
  BY <1>4, FaultCounts, DnsResolveGood DEF GethostFails, DnsGood, NetType
<1>5. ASSUME GethostSilent PROVE IInv'
  BY <1>5, FaultCounts DEF GethostSilent, NetType
<1>6. ASSUME TcpOpens PROVE IInv' BY <1>6 DEF TcpOpens, NetType, DevType
<1>7. ASSUME TcpFails PROVE IInv' BY <1>7, FaultCounts DEF TcpFails, NetType
<1>8. ASSUME TcpBreaks PROVE IInv'
  <2>1. /\ net' \in NetType /\ ~net'.known /\ net'.asked = {} /\ net'.tcp # "open"
        /\ net'.gethost = net.gethost
    BY <1>8 DEF TcpBreaks, NetType
  <2> QED BY <1>8, <2>1, FaultCounts DEF TcpBreaks
<1>9. ASSUME ServerCloses PROVE IInv'
  BY <1>9, FaultCounts, DisconnectedNet DEF ServerCloses
<1>10. ASSUME DisconnectCb PROVE IInv'
  BY <1>10, Timers0, ZenonT(40) DEF DisconnectCb, NetType, DevType
<1>11. ASSUME NEW q \in {dns, DnsSendFailed([dns EXCEPT !.conn = "asked"]),
                         DnsClosed(dns)},
              DnsReports(q)
       PROVE  IInv'
  <2>1. PICK r : r = q OBVIOUS
  <2>2. dns \in DnsState /\ (dns.retry => dns.tries < DnsServers) BY DEF DnsGood
  <2>3. r \in DnsState /\ (r.retry => r.tries < DnsServers) /\ r.cb = dns.cb
    BY <2>1, <2>2, DnsBefore
  <2> HIDE DEF IInv
  <2> QED BY <1>11, <2>1, <2>3, DnsReportsGood
<1>12. ASSUME dns' \in {[dns EXCEPT !.conn = "asked"], DnsAnswered(dns)},
              UNCHANGED <<mode, dev, net, wifi, upd, age, due, faults>>
       PROVE  IInv'
  <2>1. DnsGood(dns') /\ dns'.cb = dns.cb
    BY <1>12, ZenonT(40) DEF DnsGood, DnsBusy, DnsAnswered, DnsDisconnect, DnsState
  <2> QED BY <1>12, <2>1
<1>13. ASSUME DnsConnected \/ DnsReceives \/ DnsDisconnects PROVE IInv'
  <2> HIDE DEF IInv
  <2> QED BY <1>11, <1>12, <1>13 DEF DnsConnected, DnsReceives, DnsDisconnects
<1> QED BY <1>1, <1>2, <1>3, <1>4, <1>5, <1>6, <1>7, <1>8, <1>9, <1>10, <1>13
        DEF Network

(* Looking for an update, and finding one.                                 *)
LEMMA UpdCheckGood ==
  \A u : UpdGood(u) /\ u.step = "check" =>
    UpdGood(UpdCheck(u)) /\ UpdCheck(u).conn = u.conn
<1> SUFFICES ASSUME NEW u, UpdGood(u), u.step = "check"
             PROVE  UpdGood(UpdCheck(u)) /\ UpdCheck(u).conn = u.conn
  OBVIOUS
<1>1. UpdateTimeout \in 0 .. UpdateTimeout BY Sizes
<1>2. u \in UpdState /\ u.conn = "none" /\ Untouched(u) BY DEF UpdGood
<1>3. PICK c : c = UpdCheck(u) OBVIOUS
<1>4. /\ c \in UpdState /\ c.conn = "none" /\ c.step = "checking"
      /\ c.sent = u.sent /\ c.got = u.got /\ c.buff = u.buff
      /\ c.written = u.written /\ c.whole = u.whole
  BY <1>1, <1>2, <1>3 DEF UpdCheck, UpdState
<1> QED BY <1>2, <1>3, <1>4 DEF UpdGood, Untouched

LEMMA UpdStartGood ==
  \A u : UpdGood(u) /\ u.step = "checking" /\ u.conn = "none" =>
    UpdGood(UpdStart(u))
<1> SUFFICES ASSUME NEW u, UpdGood(u), u.step = "checking", u.conn = "none"
             PROVE  UpdGood(UpdStart(u))
  OBVIOUS
<1>1. UpdateDelay + 1 \in 0 .. UpdateDelay + 1 BY Sizes
<1>2. u \in UpdState /\ Untouched(u) BY DEF UpdGood
<1>3. PICK c : c = UpdStart(u) OBVIOUS
<1>4. /\ c \in UpdState /\ c.conn = "delay" /\ c.step = "checking"
      /\ c.sent = u.sent /\ c.got = u.got /\ c.buff = u.buff
      /\ c.written = u.written /\ c.whole = u.whole
  BY <1>1, <1>2, <1>3 DEF UpdStart, UpdState
<1> QED BY <1>2, <1>3, <1>4 DEF UpdGood, Untouched

(* What a second does to the client and to the update.                     *)
LEMMA LessBounds ==
  \A m \in Nat : \A n \in 0 .. m :
    Less(n) \in 0 .. m /\ (n > 0 /\ n # 1 => Less(n) > 0)
BY DEF Less

LEMMA DnsTickGood ==
  \A q : DnsGood(q) /\ q.timeout # 1 =>
    /\ DnsGood([q EXCEPT !.timeout = Less(@)])
    /\ [q EXCEPT !.timeout = Less(@)].cb = q.cb
<1> SUFFICES ASSUME NEW q, DnsGood(q), q.timeout # 1
             PROVE  /\ DnsGood([q EXCEPT !.timeout = Less(@)])
                    /\ [q EXCEPT !.timeout = Less(@)].cb = q.cb
  OBVIOUS
<1>1. PICK less : less = Less(q.timeout) OBVIOUS
<1>2. q \in DnsState /\ q.timeout \in 0 .. DnsTimeout + 1 /\ DnsTimeout + 1 \in Nat
  BY DnsAssumption DEF DnsGood, DnsState
<1>3. less \in 0 .. DnsTimeout + 1 /\ (q.timeout > 0 => less > 0)
  BY <1>1, <1>2, LessBounds
<1>4. PICK r : r = [q EXCEPT !.timeout = less] OBVIOUS
<1>5. /\ r \in DnsState /\ r.timeout = less /\ r.cb = q.cb /\ r.retry = q.retry
      /\ r.tries = q.tries
  BY <1>2, <1>3, <1>4 DEF DnsState
<1>6. DnsGood(r) BY <1>3, <1>5 DEF DnsGood, DnsBusy
<1> QED BY <1>1, <1>4, <1>5, <1>6

LEMMA UpdTickGood ==
  \A u : UpdGood(u) =>
    /\ UpdGood([u EXCEPT !.window = Less(@), !.delay = Less(@)])
    /\ [u EXCEPT !.window = Less(@), !.delay = Less(@)].conn = u.conn
<1> SUFFICES ASSUME NEW u, UpdGood(u)
             PROVE  /\ UpdGood([u EXCEPT !.window = Less(@), !.delay = Less(@)])
                    /\ [u EXCEPT !.window = Less(@), !.delay = Less(@)].conn = u.conn
  OBVIOUS
<1>1. PICK window, delay : window = Less(u.window) /\ delay = Less(u.delay) OBVIOUS
<1>2. /\ u \in UpdState /\ u.window \in 0 .. UpdateTimeout
      /\ u.delay \in 0 .. UpdateDelay + 1
      /\ UpdateTimeout \in Nat /\ UpdateDelay + 1 \in Nat
  BY Sizes DEF UpdGood, UpdState
<1>3. window \in 0 .. UpdateTimeout /\ delay \in 0 .. UpdateDelay + 1
  BY <1>1, <1>2, LessBounds
<1>4. PICK r : r = [u EXCEPT !.window = window, !.delay = delay] OBVIOUS
<1>5. /\ r \in UpdState /\ r.conn = u.conn /\ r.step = u.step /\ r.file = u.file
      /\ r.sent = u.sent /\ r.got = u.got /\ r.buff = u.buff
      /\ r.written = u.written /\ r.whole = u.whole
  BY <1>2, <1>3, <1>4 DEF UpdState
<1>6. UpdGood(r) BY <1>5 DEF UpdGood, Untouched, Counted, Answer
<1> QED BY <1>1, <1>4, <1>5, <1>6

(* What the server says preserves the invariant.  An answer resets the     *)
(* silence: it is to a question, and what was asked was said not long ago. *)
LEMMA ServerGood ==
  ASSUME IInv, Server
  PROVE  IInv'
<1> USE DEF IInv, ConnType, Awaited, Linked, Watched, SpeaksInTime, Online
<1>1. ASSUME RegisteredOk PROVE IInv'
  <2> DEFINE wanted == upd.step = "check"
             calls  == (IF ServerTimeout # ActivityTimeout THEN {"timeout"} ELSE {})
                         \cup (IF wanted THEN {"update"} ELSE {})
  <2>1. /\ "register" \in net.asked /\ net.tcp = "open" /\ dev.srpc /\ wifi.up
        /\ UNCHANGED <<wifi, dns, mode, due, faults>>
        /\ upd' = IF wanted THEN UpdCheck(upd) ELSE upd
    BY <1>1 DEF RegisteredOk, Heard
  <2>2. /\ dev' \in DevType /\ dev'.registered = 1 /\ dev'.timeout = ServerTimeout
        /\ dev'.resolving = dev.resolving
    BY <1>1, Timers0 DEF RegisteredOk, DevType
  <2>3. UpdGood(upd') /\ (upd.conn = "none" => upd'.conn = "none")
    BY <2>1, UpdCheckGood
  <2>4. wanted => upd.conn = "none" BY DEF UpdGood
  <2>5. PICK n : n = [Received("register") EXCEPT !.known = TRUE] OBVIOUS
  <2>6. /\ n \in NetType /\ n.asked \subseteq net.asked /\ n.tcp = "open" /\ n.known
        /\ n.gethost = net.gethost /\ n.wait = net.wait
    BY <2>1, <2>5 DEF Received, NetType
  <2>7. calls \in SUBSET Calls /\ net' = Asked(n, calls)
    BY <1>1, <2>5 DEF RegisteredOk, Calls
  <2>8. /\ age' \in AgeType
        /\ age'.quiet = IF calls = {} THEN age.quiet ELSE 0
    BY <1>1, Timers0 DEF RegisteredOk, AgeType
  <2>9. "update" \in calls => wanted OBVIOUS
  <2> HIDE DEF calls, wanted
  <2>10. /\ net' \in NetType /\ net'.tcp = "open" /\ net'.gethost = net.gethost
         /\ net'.wait = net.wait /\ net'.asked \subseteq net.asked \cup calls
    BY <2>6, <2>7, AskedNet
  <2>11. age.quiet <= net.wait BY <2>1
  <2>12. age'.quiet < ServerTimeout /\ age'.quiet <= net'.wait
    BY <2>8, <2>10, <2>11, Times, LatencyAssumption DEF NetType, AgeType
  <2>13. ConnType' BY <2>1, <2>2, <2>8, <2>10
  <2>14. Awaited' BY <2>1, <2>2, <2>10
  <2>15. Linked' BY <2>1, <2>3, <2>4, <2>9, <2>10, <2>12
  <2>16. Watched' BY <2>1, <2>2, Times
  <2>17. age'.quiet <= ServerTimeout BY <2>8, <2>12, Times DEF AgeType
  <2>18. SpeaksInTime' BY <2>2, <2>12, <2>17
  <2> QED BY <2>1, <2>3, <2>13, <2>14, <2>15, <2>16, <2>18
<1>2. ASSUME RegisterRefused PROVE IInv'
  <2>1. /\ net' \in NetType /\ net'.asked \subseteq net.asked /\ net'.tcp = net.tcp
        /\ net'.known = net.known /\ net'.gethost = net.gethost
        /\ net'.wait = net.wait
    BY <1>2 DEF RegisterRefused, Received, NetType
  <2>2. /\ dev' \in DevType /\ dev'.started = dev.started /\ dev'.srpc = dev.srpc
        /\ dev'.registered = dev.registered /\ dev'.timeout = dev.timeout
        /\ dev'.resolving = dev.resolving
    BY <1>2 DEF RegisterRefused, DevType
  <2>3. age' \in AgeType /\ age'.quiet = age.quiet
    BY <1>2, Timers0 DEF RegisterRefused, AgeType
  <2>4. net.asked # {} BY <1>2 DEF RegisterRefused, Heard
  <2>5. dev.registered = 1 => age.quiet < dev.timeout
    BY <2>4, Times, LatencyAssumption DEF NetType, DevType, AgeType, Timeouts
  <2>6. ConnType' BY <1>2, <2>1, <2>2, <2>3, FaultCounts DEF RegisterRefused, Heard
  <2>7. Linked' BY <1>2, <2>1, <2>3 DEF RegisterRefused, Heard
  <2>8. SpeaksInTime' /\ Watched'
    BY <1>2, <2>2, <2>3, <2>5, Times DEF RegisterRefused, DevType, AgeType, Timeouts
  <2>9. Awaited' BY <1>2, <2>1, <2>2 DEF RegisterRefused, Heard
  <2> QED BY <1>2, <2>6, <2>7, <2>8, <2>9 DEF RegisterRefused, Heard
<1>3. ASSUME PingAnswered PROVE IInv'
  BY <1>3, Timers0, Times, LatencyAssumption
     DEF PingAnswered, Heard, Received, Timeouts, NetType, DevType, AgeType
<1>4. ASSUME TimeoutAgreed PROVE IInv'
  BY <1>4, Timers0, Times, LatencyAssumption
     DEF TimeoutAgreed, Heard, Received, NetType, DevType, AgeType
<1>5. ASSUME NoUpdate PROVE IInv'
  BY <1>5, Timers0, Times, LatencyAssumption
     DEF NoUpdate, Heard, Received, Timeouts, NetType, DevType, AgeType
<1>6. ASSUME UpdateStarts PROVE IInv'
  <2>1. upd.conn = "none" BY <1>6 DEF UpdateStarts, Heard
  <2>2. UpdGood(upd') BY <1>6, <2>1, UpdStartGood DEF UpdateStarts
  <2>3. age' \in AgeType BY <1>6, Timers0 DEF UpdateStarts, AgeType
  <2> QED BY <1>6, <2>2, <2>3, DisconnectedNet, StoppedDev
          DEF UpdateStarts, Heard
<1>7. ASSUME AnswerLost PROVE IInv'
  BY <1>7, FaultCounts DEF AnswerLost, Received, NetType
<1> QED BY <1>1, <1>2, <1>3, <1>4, <1>5, <1>6, <1>7 DEF Server

(* The timers and the main loop preserve the invariant.                    *)
LEMMA TimersGood ==
  ASSUME IInv, Timers
  PROVE  IInv'
<1> USE DEF IInv, ConnType, Awaited, Linked, Watched, SpeaksInTime, Online
<1>1. ASSUME CheckStatus PROVE IInv'
  <2>1. wifi' \in WifiType /\ wifi'.up = wifi.up BY <1>1 DEF CheckStatus, WifiType
  <2>2. CASE UNCHANGED <<dev, net>> BY <1>1, <2>1, <2>2 DEF CheckStatus
  <2>3. CASE /\ dev' = [dev EXCEPT !.resolving = TRUE]
             /\ net' = [Disconnected(net) EXCEPT !.gethost = "pending"]
    <3>1. PICK m : m = Disconnected(net) OBVIOUS
    <3>2. m \in NetType /\ m.asked = {} /\ ~m.known /\ m.tcp # "open"
      BY <3>1, DisconnectedNet
    <3>3. /\ net' \in NetType /\ net'.asked = {} /\ ~net'.known
          /\ net'.tcp # "open" /\ net'.gethost = "pending"
      BY <2>3, <3>1, <3>2 DEF NetType
    <3>4. /\ dev' \in DevType /\ dev'.registered = dev.registered
          /\ dev'.timeout = dev.timeout
      BY <2>3 DEF DevType
    <3> QED BY <1>1, <2>1, <3>3, <3>4 DEF CheckStatus
  <2> QED BY <1>1, <2>2, <2>3 DEF CheckStatus
<1>2. ASSUME Iterate PROVE IInv'
  BY <1>2, AskedNet, Timers0
     DEF Iterate, SentOn, Asked, Calls, NetType, DevType, AgeType
<1>3. ASSUME ReconnectFires PROVE IInv'
  <2>1. PICK d : d = [dev EXCEPT !.reconnect = 0] OBVIOUS
  <2>2. /\ d \in DevType /\ d.started = dev.started /\ d.srpc = dev.srpc
        /\ d.registered = dev.registered /\ d.timeout = dev.timeout
        /\ d.resolving = dev.resolving
    BY <2>1, Timers0 DEF DevType
  <2>3. Reconnect(d, net) BY <1>3, <2>1 DEF ReconnectFires
  <2> QED BY <1>3, <2>2, <2>3, ReconnectResult DEF ReconnectFires
<1>4. ASSUME StopFires PROVE IInv'
  <2>1. PICK d : d = [dev EXCEPT !.stop = FALSE] OBVIOUS
  <2>2. d \in DevType /\ d.resolving = dev.resolving BY <2>1 DEF DevType
  <2>3. dev' \in DevType /\ dev'.registered = 0 /\ dev'.resolving = dev.resolving
    BY <1>4, <2>1, <2>2, StoppedDev DEF StopFires
  <2> QED BY <1>4, <2>3, DisconnectedNet DEF StopFires
<1>5. ASSUME DnsTimeoutFires PROVE IInv'
  <2>1. PICK r : r = DnsTimedOut(dns) OBVIOUS
  <2>2. dns \in DnsState /\ (dns.retry => dns.tries < DnsServers) BY DEF DnsGood
  <2>3. r \in DnsState /\ (r.retry => r.tries < DnsServers) /\ r.cb = dns.cb
    BY <2>1, <2>2, DnsBefore
  <2> HIDE DEF IInv
  <2> QED BY <1>5, <2>1, <2>3, DnsReportsGood DEF DnsTimeoutFires
<1>6. ASSUME DnsRetries PROVE IInv'
  <2>1. PICK q : q = dns OBVIOUS
  <2>2. q \in DnsState /\ q.tries < DnsServers BY <1>6, <2>1 DEF DnsRetries, DnsGood
  <2>3. DnsGood(dns') /\ dns'.cb = dns.cb
    BY <1>6, <2>1, <2>2, DnsTryGood DEF DnsRetries
  <2> QED BY <1>6, <2>3 DEF DnsRetries
<1>7. ASSUME WatchdogFires PROVE IInv'
  <2>1. CASE Overdue
    <3>1. Restart /\ faults' \in 0 .. Faults /\ upd.image \in {"old", "new"}
      BY <1>7, <2>1 DEF WatchdogFires, Challenged, UpdGood, UpdState
    <3> HIDE DEF IInv
    <3> QED BY <3>1, RestartGood DEF Restart
  <2>2. CASE Challenged
    <3>1. MayReconnect /\ Reconnect(dev, net) /\ due' = {}
          /\ UNCHANGED <<mode, dns, upd, faults>>
      BY <1>7, <2>2 DEF WatchdogFires, Challenged, MayReconnect
    <3> QED BY <3>1, ReconnectResult
  <2>3. CASE ~Overdue /\ ~Challenged
    BY <1>7, <2>3 DEF WatchdogFires
  <2> QED BY <2>1, <2>2, <2>3
<1>8. ASSUME Timer1Fires PROVE IInv'
  <2>1. due' = due \ {"timer1"} /\ UNCHANGED <<mode, dns, upd, faults>>
    BY <1>8 DEF Timer1Fires
  <2>2. Online => Supervised
    BY Times DEF Supervised, DevType, Timeouts
  <2>3. CASE Supervised /\ age.silence >= dev.timeout + Grace
    <3>1. ~(age.silence < dev.timeout + Grace)
      BY <2>3, Times DEF DevType, AgeType, Timeouts
    <3>2. Reconnect(dev, net) BY <1>8, <2>3, <3>1 DEF Timer1Fires
    <3> QED BY <2>1, <2>3, <3>1, <3>2, ReconnectResult
  <2>4. CASE Supervised /\ age.silence < dev.timeout + Grace
               /\ (InPingWindow(age.quiet) \/ InPingWindow(age.silence))
    <3>1. ~(age.silence >= dev.timeout + Grace)
      BY <2>4, Times DEF DevType, AgeType, Timeouts
    <3>2. net' = Asked(net, {"ping"}) /\ age' = SentOn(net, age)
          /\ UNCHANGED <<dev, wifi>>
      BY <1>8, <2>4, <3>1 DEF Timer1Fires
    <3>3. {"ping"} \in SUBSET Calls BY DEF Calls
    <3>4. /\ net' \in NetType /\ net'.tcp = net.tcp /\ net'.known = net.known
          /\ net'.gethost = net.gethost /\ net'.wait = net.wait
          /\ net'.asked \subseteq net.asked \cup {"ping"}
          /\ net.tcp # "open" => net'.asked = net.asked
      BY <3>2, <3>3, AskedNet
    <3>5. age' \in AgeType /\ (net.tcp = "open" => age'.quiet = 0)
      BY <3>2, Timers0 DEF SentOn, AgeType
    <3>6. dev.registered = 1 => dev.timeout > 0 BY <2>4 DEF Supervised
    <3>7. 0 <= net.wait BY DEF NetType
    <3>8. ConnType' BY <2>1, <3>2, <3>4, <3>5
    <3>9. Linked' BY <2>1, <3>2, <3>4, <3>5, <3>7
    <3>10. SpeaksInTime' BY <2>1, <3>2, <3>4, <3>5, <3>6, Times DEF DevType, Timeouts
    <3> QED BY <2>1, <3>2, <3>4, <3>8, <3>9, <3>10
  <2>5. CASE ~Supervised \/ age.silence >= dev.timeout + Grace
               \/ ~(InPingWindow(age.quiet) \/ InPingWindow(age.silence))
    <3>1. CASE Supervised /\ age.silence >= dev.timeout + Grace BY <2>3, <3>1
    <3>2. CASE ~(Supervised /\ age.silence >= dev.timeout + Grace)
      <4>1. UNCHANGED <<dev, net, wifi, age>>
        BY <1>8, <2>5, <3>2 DEF Timer1Fires
      <4>2. Online /\ age.silence < dev.timeout + Grace => age.quiet < dev.timeout
        BY <2>2, <2>5, Times DEF InPingWindow, DevType, AgeType, Timeouts
      <4> QED BY <2>1, <4>1, <4>2
    <3> QED BY <3>1, <3>2
  <2> QED BY <2>3, <2>4, <2>5, Times DEF DevType, AgeType, Timeouts
<1>9. ASSUME Tick PROVE IInv'
  <2>1. DnsGood(dns') /\ dns'.cb = dns.cb BY <1>9, DnsTickGood DEF Tick
  <2>2. UpdGood(upd') /\ upd'.conn = upd.conn BY <1>9, UpdTickGood DEF Tick
  <2>3. /\ due' \subseteq {"watchdog", "timer1"}
        /\ "watchdog" \in due' => mode = "run"
        /\ dev.started => "timer1" \in due'
        /\ due = {} /\ UNCHANGED <<mode, faults>>
    BY <1>9 DEF Tick
  <2>4. /\ age' \in AgeType
        /\ age'.quiet <= age.quiet + 1
        /\ \A t \in Nat : age'.silence < t => age.silence < t
    BY <1>9, Times DEF Tick, AgeType, Least, Less, Longest
  <2>5. /\ dev' \in DevType /\ dev'.started = dev.started /\ dev'.srpc = dev.srpc
        /\ dev'.registered = dev.registered /\ dev'.timeout = dev.timeout
        /\ dev'.resolving = dev.resolving
    <3>1. /\ Less(dev.reconnect) \in 0 .. ReconnectDelay + 1
          /\ Less(dev.leave) \in 0 .. ApTimeout + 1
      BY LessBounds, Times DEF DevType
    <3> QED BY <1>9, <3>1 DEF Tick, DevType
  <2>6. /\ net' \in NetType /\ net'.tcp = net.tcp /\ net'.known = net.known
        /\ net'.asked = net.asked /\ net'.gethost = net.gethost
        /\ net.asked # {} => net'.wait = net.wait + 1
    <3>1. PICK wait : wait = IF Owes /\ wifi.up THEN net.wait + 1 ELSE 0 OBVIOUS
    <3>2. wait \in 0 .. Latency BY <1>9, <3>1, Times DEF Tick, NetType
    <3>3. net.asked # {} => wait = net.wait + 1 BY <3>1 DEF Owes
    <3>4. net' = [net EXCEPT !.wait = wait] BY <1>9, <3>1 DEF Tick
    <3> QED BY <3>2, <3>3, <3>4 DEF NetType
  <2>7. wifi' \in WifiType /\ wifi'.up = wifi.up
    <3>1. PICK joining : joining = IF wifi.up THEN 0 ELSE Least(wifi.joining + 1, JoinTime)
      OBVIOUS
    <3>2. joining \in 0 .. JoinTime BY <3>1, Times DEF Least, WifiType
    <3>3. wifi' = [wifi EXCEPT !.joining = joining] BY <1>9, <3>1 DEF Tick
    <3> QED BY <3>2, <3>3 DEF WifiType
  <2>8. Linked'
    BY <2>2, <2>4, <2>6, <2>7 DEF NetType, AgeType
  <2>9. SpeaksInTime'
    BY <2>3, <2>4, <2>5, <2>6, Times DEF DevType, AgeType, Timeouts
  <2> QED BY <2>1, <2>2, <2>3, <2>4, <2>5, <2>6, <2>7, <2>8, <2>9
<1> QED BY <1>1, <1>2, <1>3, <1>4, <1>5, <1>6, <1>7, <1>8, <1>9 DEF Timers

(* The update moves on its own: nothing but its record changes.            *)
LEMMA OnlyUpdateGood ==
  ASSUME IInv, UpdGood(upd'), upd.conn # "none", faults' \in 0 .. Faults, OnlyUpdate
  PROVE  IInv'
BY DEF OnlyUpdate, IInv, ConnType, Awaited, Linked, Watched, SpeaksInTime, Online

(* Steps of an update that has a connection, or is about to have one.      *)
LEMMA UpdConnGood ==
  \A u : UpdGood(u) =>
    /\ u.conn = "delay" => UpdGood([u EXCEPT !.conn = "resolving", !.delay = 0])
    /\ u.conn = "resolving" => UpdGood([u EXCEPT !.conn = "connecting"])
    /\ u.conn = "connecting" =>
         \A file \in Files : UpdGood([u EXCEPT !.conn = "open", !.file = file])
<1> SUFFICES ASSUME NEW u, UpdGood(u), u.conn \in {"delay", "resolving", "connecting"}
             PROVE  /\ u.conn = "delay" =>
                          UpdGood([u EXCEPT !.conn = "resolving", !.delay = 0])
                    /\ u.conn = "resolving" =>
                          UpdGood([u EXCEPT !.conn = "connecting"])
                    /\ u.conn = "connecting" => \A file \in Files :
                          UpdGood([u EXCEPT !.conn = "open", !.file = file])
  OBVIOUS
<1>1. /\ u \in UpdState /\ Untouched(u) /\ u.step # "downloading" /\ u.step # "check"
      /\ 0 \in 0 .. UpdateDelay + 1
  BY Sizes DEF UpdGood
<1>2. UpdGood([u EXCEPT !.conn = "resolving", !.delay = 0])
  <2>1. PICK r : r = [u EXCEPT !.conn = "resolving", !.delay = 0] OBVIOUS
  <2>2. /\ r \in UpdState /\ r.conn = "resolving" /\ r.step = u.step
        /\ r.sent = u.sent /\ r.got = u.got /\ r.buff = u.buff
        /\ r.written = u.written /\ r.whole = u.whole
    BY <1>1, <2>1 DEF UpdState
  <2>3. UpdGood(r) BY <1>1, <2>2 DEF UpdGood, Untouched
  <2> QED BY <2>1, <2>3
<1>3. UpdGood([u EXCEPT !.conn = "connecting"])
  <2>1. PICK r : r = [u EXCEPT !.conn = "connecting"] OBVIOUS
  <2>2. /\ r \in UpdState /\ r.conn = "connecting" /\ r.step = u.step
        /\ r.sent = u.sent /\ r.got = u.got /\ r.buff = u.buff
        /\ r.written = u.written /\ r.whole = u.whole
    BY <1>1, <2>1 DEF UpdState
  <2>3. UpdGood(r) BY <1>1, <2>2 DEF UpdGood, Untouched
  <2> QED BY <2>1, <2>3
<1>4. ASSUME NEW file \in Files
      PROVE  UpdGood([u EXCEPT !.conn = "open", !.file = file])
  <2>1. PICK r : r = [u EXCEPT !.conn = "open", !.file = file] OBVIOUS
  <2>2. /\ r \in UpdState /\ r.conn = "open" /\ r.step = u.step
        /\ r.sent = u.sent /\ r.got = u.got /\ r.buff = u.buff
        /\ r.written = u.written /\ r.whole = u.whole
    BY <1>1, <2>1 DEF UpdState
  <2>3. Counted(r) BY <1>1, <2>2, UpdNumbers, Sizes DEF Counted, Untouched
  <2>4. UpdGood(r) BY <1>1, <2>2, <2>3 DEF UpdGood
  <2> QED BY <2>1, <2>4
<1> QED BY <1>2, <1>3, <1>4

(* A restart in the course of an update                                    *)
LEMMA RestartsGood ==
  ASSUME IInv, Restart, faults' \in 0 .. Faults
  PROVE  IInv'
<1>1. upd.image \in {"old", "new"} BY DEF IInv, UpdGood, UpdState
<1> QED BY <1>1, RestartGood DEF Restart

LEMMA UpdateClosedGood ==
  ASSUME IInv, UpdateClosed, upd.conn # "none", faults' \in 0 .. Faults
  PROVE  IInv'
<1>1. CASE upd.step # "downloading"
  BY <1>1, RestartsGood DEF UpdateClosed
<1>2. CASE upd.step = "downloading"
  <2>1. UpdGood(upd') /\ OnlyUpdate
    BY <1>2, GivenUpGood DEF UpdateClosed, IInv
  <2> QED BY <2>1, OnlyUpdateGood
<1> QED BY <1>1, <1>2

(* Steps of the update preserve the invariant.                             *)
LEMMA UpdateGood ==
  ASSUME IInv, Update
  PROVE  IInv'
<1>1. UpdGood(upd) /\ faults \in 0 .. Faults BY DEF IInv, ConnType
<1>2. upd.conn # "none" => upd.step # "check" BY <1>1 DEF UpdGood
<1>3. ASSUME UpdateDelayFires PROVE IInv'
  BY <1>1, <1>3, UpdConnGood, OnlyUpdateGood DEF UpdateDelayFires
<1>4. ASSUME UpdateFound PROVE IInv'
  BY <1>1, <1>4, UpdConnGood, OnlyUpdateGood DEF UpdateFound
<1>5. ASSUME UpdateNotFound PROVE IInv'
  BY <1>1, <1>2, <1>5, GivenUpGood, FaultCounts, OnlyUpdateGood DEF UpdateNotFound
<1>6. ASSUME UpdateConnects PROVE IInv'
  <2>1. PICK file \in Files : upd' = [upd EXCEPT !.conn = "open", !.file = file]
    BY <1>6 DEF UpdateConnects
  <2>2. upd.conn = "connecting" /\ OnlyUpdate /\ UNCHANGED faults
    BY <1>6 DEF UpdateConnects
  <2>3. UpdGood(upd') BY <1>1, <2>1, <2>2, UpdConnGood
  <2> QED BY <1>1, <2>2, <2>3, OnlyUpdateGood
<1>7. ASSUME UpdateUnreachable PROVE IInv'
  BY <1>1, <1>7, FaultCounts, UpdateClosedGood DEF UpdateUnreachable
<1>8. ASSUME UpdateCloses PROVE IInv'
  BY <1>1, <1>8, FaultCounts, UpdateClosedGood DEF UpdateCloses
<1>9. ASSUME UpdateBreaks PROVE IInv'
  BY <1>1, <1>9, FaultCounts, UpdLinkLostGood, OnlyUpdateGood DEF UpdateBreaks
<1>10. ASSUME FlashFails PROVE IInv'
  BY <1>1, <1>10, FaultCounts, RestartsGood DEF FlashFails
<1>11. ASSUME NEW n \in Segments, NEW signed \in BOOLEAN, FirmwareArrives(n, signed)
       PROVE  IInv'
  <2>1. PICK a \in After(upd, n) :
          IF Finished(a)
          THEN RestartWith(IF Verified(a, signed) THEN "new" ELSE upd.image)
          ELSE upd' = a /\ OnlyUpdate
    BY <1>11 DEF FirmwareArrives
  <2>2. /\ upd.conn = "open" /\ upd.sent + n <= Answer(upd)
        /\ faults' \in 0 .. Faults
    BY <1>1, <1>11 DEF FirmwareArrives
  <2>3. PICK image : image = IF Verified(a, signed) THEN "new" ELSE upd.image
    OBVIOUS
  <2>4. image \in {"old", "new"} BY <1>1, <2>3 DEF UpdGood, UpdState
  <2>5. CASE Finished(a)
    BY <2>1, <2>2, <2>3, <2>4, <2>5, RestartGood
  <2>6. CASE ~Finished(a)
    <3>1. PICK u : u = upd OBVIOUS
    <3>2. UpdGood(u) /\ u.conn = "open" /\ u.sent + n <= Answer(u) /\ a \in After(u, n)
      BY <1>1, <2>2, <3>1
    <3>3. UpdGood(a) BY <3>2, AfterGood
    <3> QED BY <2>1, <2>2, <2>6, <3>3, OnlyUpdateGood
  <2> QED BY <2>5, <2>6
<1> QED BY <1>3, <1>4, <1>5, <1>6, <1>7, <1>8, <1>9, <1>10, <1>11 DEF Update

(* The user, the power and the clock preserve the invariant.               *)
LEMMA WorldGood ==
  ASSUME IInv, World
  PROVE  IInv'
<1> USE DEF IInv, ConnType, Awaited, Linked, Watched, SpeaksInTime, Online
<1>1. ASSUME EnterCfgMode PROVE IInv'
  <2>1. PICK d : d = Stopped(dev) OBVIOUS
  <2>2. d \in DevType /\ d.registered = 0 /\ d.resolving = dev.resolving
    BY <2>1, StoppedDev
  <2>3. dev' = d \/ dev' = [d EXCEPT !.leave = ApTimeout + 1]
    BY <1>1, <2>1 DEF EnterCfgMode
  <2>4. /\ dev' \in DevType /\ dev'.registered = 0
        /\ dev'.resolving = dev.resolving
    BY <2>2, <2>3, Timers0 DEF DevType
  <2> QED BY <1>1, <2>4, FaultCounts, DisconnectedNet DEF EnterCfgMode
<1>2. ASSUME EnterApMode PROVE IInv'
  BY <1>2, LinkLostNet, RejoinedWifi, UpdLinkLostGood DEF EnterApMode
<1>3. ASSUME ApVisited PROVE IInv'
  BY <1>3, Timers0 DEF ApVisited, DevType
<1>4. ASSUME LeaveCfgMode \/ PowerCut PROVE IInv'
  <2>1. Restart /\ faults' \in 0 .. Faults
    BY <1>4, FaultCounts DEF LeaveCfgMode, PowerCut
  <2> HIDE DEF IInv
  <2> QED BY <2>1, RestartsGood
<1>5. ASSUME ClockWraps PROVE IInv'
  <2>1. PICK u : u = upd OBVIOUS
  <2>2. PICK r : r = [u EXCEPT !.window = UpdateTimeout] OBVIOUS
  <2>3. UpdateTimeout \in 0 .. UpdateTimeout /\ u \in UpdState
    BY <2>1, Sizes DEF UpdGood
  <2>4. /\ r \in UpdState /\ r.conn = u.conn /\ r.step = u.step /\ r.file = u.file
        /\ r.sent = u.sent /\ r.got = u.got /\ r.buff = u.buff
        /\ r.written = u.written /\ r.whole = u.whole
    BY <2>2, <2>3 DEF UpdState
  <2>5. UpdGood(r) /\ r.conn = u.conn
    BY <2>1, <2>4 DEF UpdGood, Untouched, Counted, Answer
  <2> QED BY <1>5, <2>1, <2>2, <2>5, FaultCounts DEF ClockWraps
<1> QED BY <1>1, <1>2, <1>3, <1>4, <1>5 DEF World

--------------------------------------------------------------------------------
(* The device starts in the invariant.                                     *)
LEMMA InitGood == Init => IInv
<1> SUFFICES ASSUME Init PROVE IInv
  OBVIOUS
<1>1. UpdGood(upd) /\ upd.conn = "none" BY UpdInitGood DEF Init
<1>2. DnsGood(dns) BY DnsAssumption DEF Init, DnsInit, DnsGood, DnsState
<1>3. /\ mode = "run" /\ due = {} /\ faults \in 0 .. Faults
      /\ dev \in DevType /\ ~dev.resolving /\ dev.registered = 0
      /\ net \in NetType /\ ~net.known /\ net.asked = {} /\ net.tcp # "open"
      /\ wifi \in WifiType /\ age \in AgeType
  BY Timers0 DEF Init, Boot, DevType, NetType, WifiType, AgeType
<1> QED BY <1>1, <1>2, <1>3
        DEF IInv, ConnType, Awaited, Linked, Watched, SpeaksInTime, Online

(* Every step preserves the invariant.                                     *)
LEMMA NextGood == IInv /\ [Next]_vars => IInv'
<1> SUFFICES ASSUME IInv, [Next]_vars PROVE IInv'
  OBVIOUS
<1>1. CASE UNCHANGED vars
  BY <1>1 DEF vars, IInv, ConnType, Awaited, Linked, Watched, SpeaksInTime, Online
<1>2. CASE Next
  BY <1>2, NetworkGood, ServerGood, TimersGood, UpdateGood, WorldGood DEF Next
<1> QED BY <1>1, <1>2

(* The invariant holds in every state the device can be in, whatever the   *)
(* network, the server and the user do.                                    *)
THEOREM Invariance == Spec => []IInv
BY InitGood, NextGood, PTL DEF Spec

(* Every record keeps its fields in their ranges: the timers, the number   *)
(* of servers asked, the counters of the download.                         *)
THEOREM TypeCorrect == Spec => []TypeOK
<1>1. IInv => TypeOK
  BY DEF IInv, ConnType, DnsGood, UpdGood, TypeOK, DevType, NetType, WifiType, AgeType
<1> QED BY <1>1, Invariance, PTL

(* As long as resolving_started stands somebody is going to clear it, and  *)
(* the DNS client, once asked, never falls silent.                         *)
THEOREM AlwaysAnswers == Spec => []ResolverAlive
<1>1. IInv => ResolverAlive BY DEF IInv, Awaited, DnsGood, ResolverAlive
<1> QED BY <1>1, Invariance, PTL

(* The server hears from a device that is online within the activity       *)
(* timeout, for every timeout, margin and order of callbacks.              *)
THEOREM HeardInTime == Spec => []ServerHears
<1>1. IInv => ServerHears BY DEF IInv, SpeaksInTime, ServerHears
<1> QED BY <1>1, Invariance, PTL

(* A signed file there is room for becomes the firmware with its last      *)
(* segment, for every size of sectors and every way it was cut.            *)
THEOREM CompleteFileLands == Spec => UpdateLands
<1>1. ASSUME IInv, NEW n \in Segments, FirmwareArrives(n, TRUE),
             upd.sent + n = Answer(upd), upd.whole,
             Matches(upd, n) => upd.sent = 0, upd.file \in 1 .. Space
      PROVE  upd'.image = "new"
  <2>1. PICK a \in After(upd, n) :
          IF Finished(a)
          THEN RestartWith(IF Verified(a, TRUE) THEN "new" ELSE upd.image)
          ELSE upd' = a /\ OnlyUpdate
    BY <1>1 DEF FirmwareArrives
  <2>2. PICK u : u = upd OBVIOUS
  <2>3. /\ UpdGood(u) /\ u.conn = "open" /\ u.sent + n <= Answer(u)
        /\ a \in After(u, n) /\ u.sent + n = Answer(u) /\ u.whole
        /\ Matches(u, n) => u.sent = 0
        /\ u.file \in 1 .. Space
    BY <1>1, <2>2 DEF FirmwareArrives, IInv
  <2>4. Finished(a) /\ Verified(a, TRUE) BY <2>3, AfterGood
  <2>5. RestartWith("new") BY <2>1, <2>4
  <2> QED BY <2>5 DEF RestartWith, UpdInit
<1>2. IInv => (\A n \in Segments :
                 FirmwareArrives(n, TRUE) /\ upd.sent + n = Answer(upd)
                   /\ upd.whole /\ (Matches(upd, n) => upd.sent = 0)
                   /\ upd.file \in 1 .. Space
                   => upd'.image = "new")
  BY <1>1
<1> QED BY <1>2, Invariance, PTL DEF UpdateLands
================================================================================
