---------------------------------- MODULE Mqtt ----------------------------------
(* The MQTT client of the device, supla_esp_mqtt.c, over the vendored MQTT-C   *)
(* (mqtt.c, as far as its error state and its message queue go): finding the   *)
(* broker, connecting and connecting again, the pool of topics to publish, and *)
(* the watchdog.  The device has one thread; every callback is an action.      *)
(*                                                                             *)
(* In one tick the iterate timer and the watchdog's run once.  Messages go out *)
(* with QoS 1.  An index without a topic is skipped by the publication pool    *)
(* and left out.  Messages have no length: the queue and the SDK's send buffer *)
(* take a number of them.                                                      *)
EXTENDS Integers, Sequences, FiniteSetsExt

CONSTANTS
  Topics,     \* the publication pool is 1 .. Topics; 255 in the code
  BoardMax,   \* BOARD_MAX_IDX, the last topic of the board
  Subs,       \* the number of topics subscribed to
  QueueMax,   \* messages MQTT_SENDBUF_SIZE holds
  InFlight,   \* packets espconn_sent takes before it says ESPCONN_INPROGRESS
  PoolDelay,  \* MqttPoolPublicationDelay, in ticks; 0 is none
  FullHold,   \* MQTT_SEND_BUFFER_FULL_HOLD_TIME_MS
  StuckHold,  \* MQTT_SENDING_STUCK_TIME_MS
  Retry,      \* RECONNECT_RETRY_TIME_MS
  KeepAlive,  \* three quarters of MQTT_KEEP_ALIVE_SEC
  Watchdog,   \* WATCHDOG_TIMEOUT_SEC
  Faults      \* how often the world may misbehave; bounds the model

ASSUME MqttAssumption ==
  /\ {Topics, BoardMax, Subs, QueueMax, InFlight, PoolDelay, FullHold, StuckHold, Retry,
      KeepAlive, Watchdog, Faults} \subseteq Nat
  /\ BoardMax <= Topics
  /\ QueueMax > 0 /\ InFlight > 0 /\ Retry < Watchdog

VARIABLES
  dev,     \* mode and connection status of the device
  client,  \* the error of the MQTT client, its times
  pub,     \* the publication pool and the subscription index
  queue,   \* the client's messages, sent and unsent
  net,     \* Wi-Fi, resolver and TCP
  val,     \* the state of the device, one value for each topic
  kept,    \* what the broker holds
  due, faults

vars == <<dev, client, pub, queue, net, val, kept, due, faults>>

Pool == 1 .. Topics
Never == -1    \* disconnected_at_sec = 0

Message == [kind : {"connect", "subscribe", "ping"}, topic : {0}, v : {FALSE}]
             \cup [kind : {"publish"}, topic : Pool, v : BOOLEAN]
Plain(kind) == [kind |-> kind, topic |-> 0, v |-> FALSE]
Longest == Max({PoolDelay, FullHold, StuckHold})

TypeOK ==
  /\ dev \in [mode : {"run", "cfg"}, started : BOOLEAN, iterate : BOOLEAN,
              resolving : BOOLEAN, down : Never .. Watchdog,
              status : {"connecting", "connected", "ready", "disconnected"}]
  /\ client \in [error : {"ok", "initial", "uncalled", "socket", "full", "refused"},
                 wait : 0 .. Retry, hold : 0 .. Longest, quiet : 0 .. KeepAlive]
  /\ pub \in [pool : SUBSET Pool, next : 0 .. Topics, overruns : 0 .. 2,
              sub : 0 .. Subs + 1]
  /\ queue \in Seq([m : Message, state : {"unsent", "sent", "done"}])
  /\ Len(queue) <= QueueMax
  /\ net \in [wifi : BOOLEAN, closing : BOOLEAN, session : BOOLEAN,
              gethost : {"none", "pending", "lost"},
              tcp : {"none", "connecting", "open"},
              out : Seq(Message), in : Seq(Message \cup {Plain("refused")})]
  /\ Len(net.out) <= InFlight
  /\ val \in [Pool -> BOOLEAN] /\ kept \in [Pool -> BOOLEAN]
  /\ due \subseteq {"iterate", "watchdog"} /\ faults \in 0 .. Faults

--------------------------------------------------------------------------------
(* supla_esp_mqtt_set_status: the watchdog counts from the first moment        *)
(* without a connection.                                                       *)
WithStatus(d, s) ==
  [d EXCEPT !.status = s,
            !.down = IF s = "ready" THEN Never ELSE IF @ = Never THEN 0 ELSE @]

(* supla_esp_mqtt_espconn_diconnect: the callback of an open connection follows*)
Closed(n) ==
  [n EXCEPT !.closing = @ \/ n.tcp = "open",
            !.tcp = "none", !.session = FALSE, !.out = <<>>, !.in = <<>>]

(* mqtt_mq_clean: finished messages leave from the head of the queue.          *)
Cleaned(q) ==
  IF \A i \in DOMAIN q : q[i].state = "done" THEN <<>>
  ELSE SubSeq(q, Min({i \in DOMAIN q : q[i].state # "done"}), Len(q))

(* MQTT_CLIENT_TRY_PACK                                                        *)
NoRoomKept(q) == Len(Cleaned(q)) <= QueueMax          \* mutant of Room
Room(q) == Len(Cleaned(q)) < QueueMax
Packed(q, m) == Append(IF Len(q) < QueueMax THEN q ELSE Cleaned(q),
                       [m |-> m, state |-> "unsent"])
Unsent(q) == {i \in DOMAIN q : q[i].state = "unsent"}

--------------------------------------------------------------------------------
(* mqtt_sync works on a record of the client's parts.  First the reconnect     *)
(* callback, supla_esp_mqtt_reconnect with mqtt_reinit, as long as there is an *)
(* error; but not sooner than Retry after the last time.                       *)
Here == [d |-> dev, c |-> client, q |-> queue, n |-> net]

Reconnected(s) ==
  IF s.c.error = "ok" \/ (s.c.error # "initial" /\ s.c.wait > 0) THEN s
  ELSE [d |-> WithStatus(s.d, IF s.n.wifi THEN "connecting" ELSE "disconnected"),
        c |-> [s.c EXCEPT !.error = "uncalled", !.wait = Retry],
        q |-> <<>>,
        n |-> [Closed(s.n) EXCEPT !.tcp = IF s.n.wifi THEN "connecting" ELSE "none"]]

(* __mqtt_send with mqtt_pal_sendall: what is unsent goes out in order, as far *)
(* as the SDK takes it.                                                        *)
Sent(s) ==
  LET u == Unsent(s.q)
      k == Min({Cardinality(u), InFlight - Len(s.n.out)})
      go == {i \in u : i < Min(u) + k}
  IN  IF s.c.error \notin {"ok", "full"} \/ u = {} THEN s
      ELSE IF s.d.status \notin {"connected", "ready"} \/ s.n.tcp # "open"
      THEN [s EXCEPT !.c.error = "socket"]
      ELSE [s EXCEPT
            !.q = [i \in DOMAIN @ |-> IF i \in go THEN [@[i] EXCEPT !.state = "sent"]
                                                 ELSE @[i]],
            !.n.out = @ \o [i \in 1 .. k |-> s.q[Min(u) + i - 1].m],
            !.c.quiet = IF k > 0 THEN 0 ELSE @,
            !.c.hold = IF k < Cardinality(u) THEN StuckHold ELSE @]

(* The end of __mqtt_send: a ping, after a while without a message.            *)
Pinged(s) ==
  IF s.c.error # "ok" \/ s.c.quiet < KeepAlive THEN s
  ELSE IF Room(s.q) THEN [s EXCEPT !.q = Packed(@, Plain("ping"))]
  ELSE [s EXCEPT !.c.error = "full"]

--------------------------------------------------------------------------------
(* supla_esp_mqtt_subscribe                                                    *)
Subscribed(s, p) ==
  IF p.sub > Subs THEN [s |-> s, p |-> [p EXCEPT !.sub = 0]]
  ELSE IF s.c.error = "ok" /\ Room(s.q)
  THEN [s |-> [s EXCEPT !.q = Packed(@, Plain("subscribe"))],
        p |-> [p EXCEPT !.sub = @ + 1]]
  ELSE [s |-> [s EXCEPT !.c.error = IF @ = "full" THEN "ok" ELSE @], p |-> p]

State(i) == [kind |-> "publish", topic |-> i, v |-> val[i]]

(* supla_esp_mqtt_publish, with the topic found at index i: a topic leaves the *)
(* pool when its message is in the queue.                                      *)
ForgetsWhenFull(s, p, i) ==                           \* mutant of Publish
  IF s.c.error = "ok"
  THEN [s |-> IF Room(s.q)
              THEN [s EXCEPT !.q = Packed(@, State(i))]
              ELSE [s EXCEPT !.c.hold = FullHold],
        p |-> [p EXCEPT !.next = i, !.pool = @ \ {i}]]
  ELSE [s |-> s, p |-> [p EXCEPT !.next = i]]

Publish(s, p, i) ==
  IF s.c.error = "ok" /\ Room(s.q)
  THEN [s |-> [s EXCEPT !.q = Packed(@, State(i))],
        p |-> [p EXCEPT !.next = i, !.pool = @ \ {i}]]
  ELSE [s |-> IF s.c.error \in {"ok", "full"}
              THEN [s EXCEPT !.c.error = "ok", !.c.hold = FullHold] ELSE s,
        p |-> [p EXCEPT !.next = i]]

Published(s, p) ==
  LET over == p.next = Topics
      q == IF over THEN [p EXCEPT !.next = 0, !.overruns = Min({@ + 1, 2})] ELSE p
      wanted == {i \in p.pool : i > q.next}
  IN  IF s.c.hold > 0 THEN [s |-> s, p |-> p]
      ELSE IF over /\ PoolDelay > 0 /\ q.overruns > 1
      THEN [s |-> [s EXCEPT !.c.hold = PoolDelay], p |-> q]
      ELSE IF wanted = {} THEN [s |-> s, p |-> [q EXCEPT !.next = Topics]]
      ELSE Publish(s, q, Min(wanted))

(* supla_esp_mqtt_iterate.  \E over one value is a LET that TLC computes once. *)
Worked(s) == IF s.d.status # "ready" THEN [s |-> s, p |-> pub]
             ELSE IF pub.sub > 0 THEN Subscribed(s, pub) ELSE Published(s, pub)

Iterate ==
  /\ "iterate" \in due /\ due' = due \ {"iterate"}
  /\ \E r \in {Reconnected(Here)} : \E s \in {Sent(r)} : \E p \in {Pinged(s)} :
     \E w \in {Worked([p EXCEPT !.q = Cleaned(@)])} :
        /\ dev' = w.s.d /\ client' = w.s.c /\ queue' = w.s.q /\ net' = w.s.n
        /\ pub' = w.p
  /\ UNCHANGED <<val, kept, faults>>

--------------------------------------------------------------------------------
Booted(down) ==
  [dev |-> [mode |-> "run", started |-> TRUE, iterate |-> FALSE,
            resolving |-> FALSE, down |-> down, status |-> "disconnected"],
   client |-> [error |-> "uncalled", wait |-> 0, hold |-> 0, quiet |-> 0],
   pub |-> [pool |-> {}, next |-> 0, overruns |-> 0, sub |-> 0],
   net |-> [wifi |-> FALSE, gethost |-> "none", tcp |-> "none",
            closing |-> FALSE, session |-> FALSE, out |-> <<>>, in |-> <<>>]]

(* supla_esp_mqtt_init and supla_esp_mqtt_client_start.  In the first second   *)
(* of the device uptime_sec() is 0, and the moment it takes for the beginning  *)
(* of the time without a connection means that there is none.                  *)
Init ==
  \E down \in {Never, 0} :
    LET b == Booted(down)
    IN  /\ dev = b.dev /\ client = b.client /\ pub = b.pub /\ net = b.net
        /\ queue = <<>> /\ due = {} /\ faults = 0
        /\ val \in [Pool -> BOOLEAN] /\ kept \in [Pool -> BOOLEAN]

Restart ==
  \E down \in {Never, 0} :
    LET b == Booted(down)
    IN  /\ dev' = b.dev /\ client' = b.client /\ pub' = b.pub /\ net' = b.net
        /\ queue' = <<>> /\ due' = {}

Fault == faults < Faults /\ faults' = faults + 1

(* supla_esp_mqtt_watchdog                                                     *)
OverdueIfConnecting == dev.down >= Watchdog /\ dev.iterate    \* mutant of Overdue
Overdue == dev.down >= Watchdog

WatchdogFires ==
  /\ "watchdog" \in due
  /\ IF dev.mode = "run" /\ Overdue THEN Restart
     ELSE due' = due \ {"watchdog"} /\ UNCHANGED <<dev, client, pub, queue, net>>
  /\ UNCHANGED <<val, kept, faults>>

(* The state of the device changes, and supla_esp_mqtt_wants_publish asks for  *)
(* its publication.                                                            *)
ValueChanges(i) ==
  /\ val' = [val EXCEPT ![i] = ~@]
  /\ pub' = [pub EXCEPT !.pool = @ \cup {i}]
  /\ UNCHANGED <<dev, client, queue, net, kept, due, faults>>

(* supla_esp_mqtt_client_stop, when the configuration mode starts.  Its        *)
(* DISCONNECT is packed and never sent.                                        *)
EnterCfgMode ==
  /\ Fault /\ dev.mode = "run"
  /\ dev' = [WithStatus(dev, "disconnected") EXCEPT
             !.mode = "cfg", !.started = FALSE, !.iterate = FALSE]
  /\ net' = Closed(net)
  /\ due' = due \ {"iterate"}
  /\ UNCHANGED <<client, pub, queue, val, kept>>

LeaveCfgMode == dev.mode = "cfg" /\ Restart /\ UNCHANGED <<val, kept, faults>>

--------------------------------------------------------------------------------
(* supla_esp_mqtt_on_wifi_status_changed: the station has its address.         *)
Joins ==
  /\ dev.started /\ ~net.wifi
  /\ dev' = [dev EXCEPT !.resolving = TRUE]
  /\ net' = [net EXCEPT !.wifi = TRUE,
                        !.gethost = IF dev.resolving THEN @ ELSE "pending"]
  /\ UNCHANGED <<client, pub, queue, val, kept, due, faults>>

(* supla_esp_mqtt_dns__found, the answer of the first or of the second         *)
(* resolver: it does not ask whether the client still runs.                    *)
GethostAnswers ==
  /\ net.gethost = "pending"
  /\ net' = [net EXCEPT !.gethost = "none"]
  /\ dev' = [dev EXCEPT !.resolving = FALSE, !.iterate = TRUE]
  /\ client' = [client EXCEPT !.error = "initial"]
  /\ UNCHANGED <<pub, queue, val, kept, due, faults>>

GethostFails ==
  /\ Fault /\ net.gethost = "pending"
  /\ net' = [net EXCEPT !.gethost = "none"]
  /\ dev' = [dev EXCEPT !.resolving = FALSE]
  /\ UNCHANGED <<client, pub, queue, val, kept, due>>

(* The callback of espconn_gethostbyname never comes.                          *)
GethostSilent ==
  /\ Fault /\ net.gethost = "pending"
  /\ net' = [net EXCEPT !.gethost = "lost"]
  /\ UNCHANGED <<dev, client, pub, queue, val, kept, due>>

(* supla_esp_mqtt_conn_on_connect; mqtt_connect fails only when the client has *)
(* an error already.                                                           *)
Wanted(p) ==
  [p EXCEPT !.sub = 1, !.overruns = 0, !.next = BoardMax, !.pool = Pool]

TcpOpens ==
  /\ net.tcp = "connecting" /\ IF net.closing THEN Fault ELSE UNCHANGED faults
  /\ net' = [net EXCEPT !.tcp = "open"]
  /\ IF client.error \in {"ok", "uncalled"}
     THEN /\ dev' = WithStatus(dev, "ready")
          /\ client' = [client EXCEPT !.error = "ok", !.hold = 0]
          /\ queue' = Packed(queue, Plain("connect"))
          /\ pub' = Wanted(pub)
     ELSE /\ dev' = WithStatus(dev, "connected")
          /\ pub' = [pub EXCEPT !.sub = 0, !.pool = {}]
          /\ UNCHANGED <<client, queue>>
  /\ UNCHANGED <<val, kept, due>>

(* No callback is registered for a failed or reset connection: the device is   *)
(* told only when the peer closes in the regular way.                          *)
TcpFails ==
  /\ Fault /\ net.tcp = "connecting"
  /\ net' = [net EXCEPT !.tcp = "none"]
  /\ UNCHANGED <<dev, client, pub, queue, val, kept, due>>

TcpBreaks ==
  /\ Fault /\ net.tcp = "open"
  /\ \E told \in BOOLEAN : net' = [Closed(net) EXCEPT !.closing = net.closing \/ told]
  /\ UNCHANGED <<dev, client, pub, queue, val, kept, due>>

WifiDrops ==
  /\ Fault /\ net.wifi
  /\ net' = [Closed(net) EXCEPT !.wifi = FALSE, !.closing = net.closing]
  /\ UNCHANGED <<dev, client, pub, queue, val, kept, due>>

(* supla_esp_mqtt_conn_on_disconnect                                           *)
DisconnectCb ==
  /\ net.closing
  /\ net' = [net EXCEPT !.closing = FALSE]
  /\ dev' = WithStatus(dev, "disconnected")
  /\ UNCHANGED <<client, pub, queue, val, kept, due, faults>>

(* The broker reads a message and answers it.  It may refuse a CONNECT, and    *)
(* reads nothing more then.                                                    *)
BrokerWaits == /\ net.out # <<>>
               /\ net.session \/ Head(net.out).kind = "connect"

Answer(session, a) ==
  net' = [net EXCEPT !.out = Tail(@), !.in = Append(@, a), !.session = session]

BrokerReads ==
  /\ BrokerWaits
  /\ LET m == Head(net.out)
     IN  /\ \/ Answer(TRUE, m) /\ UNCHANGED faults
            \/ m.kind = "connect" /\ Answer(FALSE, Plain("refused")) /\ Fault
         /\ kept' = IF m.kind = "publish" THEN [kept EXCEPT ![m.topic] = m.v] ELSE kept
  /\ UNCHANGED <<dev, client, pub, queue, val, due>>

(* supla_esp_mqtt_conn_recv_cb with __mqtt_recv: an answer finishes the message*)
(* it belongs to, and a CONNACK that refuses is an error of the client.        *)
Finished(q, a) ==
  LET mine == {i \in DOMAIN q : /\ q[i].state # "done"
                                /\ \/ q[i].m = a
                                   \/ a.kind = "refused" /\ q[i].m.kind = "connect"}
  IN  [q EXCEPT ![Min(mine)].state = "done"]

Answered(s, a) ==
  IF s.q = <<>> THEN s
  ELSE [s EXCEPT !.q = Finished(@, a),
                 !.c.error = IF a.kind = "refused" THEN "refused" ELSE @]

Receives ==
  /\ net.in # <<>>
  /\ \E s \in {Reconnected([Here EXCEPT !.n.in = Tail(@)])} :
     \E r \in {Answered(s, Head(net.in))} :
     \E t \in {IF r.c.error = "refused" THEN r ELSE Sent(r)} :
     \E p \in {Pinged(t)} :
        dev' = p.d /\ client' = p.c /\ queue' = p.q /\ net' = p.n
  /\ UNCHANGED <<pub, val, kept, due, faults>>

(* A tick of the clock, once the timers of the last one have fired and the     *)
(* network has answered, unless it is slow.                                    *)
Owes ==
  \/ net.gethost = "pending" \/ net.tcp = "connecting" \/ net.in # <<>>
  \/ BrokerWaits

Down(n) == IF n > 0 THEN n - 1 ELSE 0

Tick ==
  /\ due = {} /\ ~net.closing /\ (net.wifi \/ ~dev.started)
  /\ IF Owes THEN Fault ELSE UNCHANGED faults
  /\ client' = [client EXCEPT !.wait = Down(@), !.hold = Down(@),
                              !.quiet = Min({@ + 1, KeepAlive})]
  /\ dev' = [dev EXCEPT !.down = IF @ = Never THEN @ ELSE Min({@ + 1, Watchdog})]
  /\ due' = {"watchdog"} \cup IF dev.iterate THEN {"iterate"} ELSE {}
  /\ UNCHANGED <<pub, queue, net, val, kept>>

Steps ==
  \/ Iterate \/ WatchdogFires \/ EnterCfgMode \/ LeaveCfgMode
  \/ Joins \/ WifiDrops \/ GethostAnswers \/ GethostFails \/ GethostSilent
  \/ TcpOpens \/ TcpFails \/ TcpBreaks \/ DisconnectCb \/ BrokerReads \/ Receives
  \/ Tick

Next == Steps \/ \E i \in Pool : ValueChanges(i)

Spec == Init /\ [][Next]_vars

(* Timers fire, and the network answers when it is not at fault.               *)
FairSpec == Spec /\ WF_vars(Steps)

--------------------------------------------------------------------------------
(* Once connected, no change is forgotten: a topic is in the pool, or its value*)
(* is on its way as the last message about it, or it is what the broker holds: *)
(* the bit of the pool is cleared only when the message was accepted           *)
(* (supla_esp_mqtt.c:316-332), and a new connection asks for all of them.      *)
OnItsWay == net.out \o [k \in 1 .. Cardinality(Unsent(queue)) |->
                          queue[Min(Unsent(queue)) + k - 1].m]

Fresh ==
  dev.status = "ready" /\ client.error \in {"ok", "full"} /\ net.tcp = "open" =>
    \A i \in Pool :
      LET about == {k \in 1 .. Len(OnItsWay) : /\ OnItsWay[k].kind = "publish"
                                              /\ OnItsWay[k].topic = i}
      IN  \/ i \in pub.pool
          \/ IF about = {} THEN kept[i] = val[i]
             ELSE OnItsWay[Max(about)].v = val[i]

(* Started in the first second of the device, it is not watched until it has   *)
(* had a status: without an answer of the resolver nothing ever happens.       *)
Unwatched == dev.down = Never /\ ~dev.iterate

(* Whatever happened to the connection, the broker comes to hold the state the *)
(* device settles in (the retries of supla_esp_mqtt_reconnect, the publication *)
(* of everything after a connect, and the watchdog).                           *)
Settled == <>[][FALSE]_val

Recovers ==
  Settled /\ <>[](dev.mode = "run" /\ ~Unwatched) => <>[](kept = val)
================================================================================
