-------------------------------- MODULE DevConn --------------------------------
(* The device's connection to the server, supla_esp_devconn.c, with what it    *)
(* runs on: the Wi-Fi station (supla_esp_wifi.c), the resolver of the SDK and  *)
(* the DNS client of the device, TCP, the configuration mode as far as it      *)
(* stops the connection, the firmware update, and the restart of the device.   *)
(* Every callback of a timer or of the network is an action: the device has    *)
(* one thread and runs them one at a time, in any order.  A call sent over     *)
(* srpc leaves the device in the action that makes it; the queues, buffers and *)
(* framing in between are the subject of Link.                                 *)
(*                                                                             *)
(* One tick of the clock is the second of the two 1000 ms timers.              *)
EXTENDS DnsClient, FirmwareUpdate

CONSTANTS
  Watchdog,         \* WATCHDOG_TIMEOUT_SEC
  Soft,             \* WATCHDOG_SOFT_TIMEOUT_SEC
  ActivityTimeout,  \* ACTIVITY_TIMEOUT, what the device asks for
  ServerTimeout,    \* what the server proposes when it registers the device
  PingMargin,       \* the 5 s before the timeout in which a ping is sent
  Grace,            \* the 10 s after the timeout in which an answer is awaited
  ReconnectDelay,   \* RECONNECT_DELAY_MSEC, in ticks
  ApTimeout,        \* the 5 min after which an unused access point is left
  JoinTime,         \* the station joins its network in this many ticks
  Latency,          \* a network that answers does so within this many ticks
  Faults            \* how often the world may misbehave; bounds the model

ASSUME DevConnAssumption ==
  /\ {Watchdog, Soft, ActivityTimeout, ServerTimeout, PingMargin, Grace,
      ReconnectDelay, ApTimeout, JoinTime, Latency, Faults} \subseteq Nat
  /\ ReconnectDelay < JoinTime
  /\ PingMargin < ActivityTimeout /\ PingMargin < ServerTimeout

(* A network that answers does so before the device should have spoken again.  *)
ASSUME LatencyAssumption == Latency < ActivityTimeout /\ Latency < ServerTimeout

VARIABLES
  mode,    \* "run", "cfg": configuration mode, "ap": its access point is open
  dev,     \* devconn_params
  net,     \* the network's side of the connection
  wifi,    \* the station and supla_esp_wifi_vars
  dns,     \* dns_client_vars
  upd,     \* update_params, update_step and the firmware in the flash
  age,     \* how long ago things happened
  due,     \* the periodic timers still to run in this tick
  faults   \* how often the world has misbehaved

vars == <<mode, dev, net, wifi, dns, upd, age, due, faults>>

Calls == {"register", "ping", "timeout", "update"}
Timeouts == {0, ActivityTimeout, ServerTimeout}
Longest == IF ActivityTimeout < ServerTimeout THEN ServerTimeout ELSE ActivityTimeout

TypeOK ==
  /\ mode \in {"run", "cfg", "ap"}
  /\ dev \in [started : BOOLEAN, registered : {-1, 0, 1}, srpc : BOOLEAN,
              resolving : BOOLEAN, reconnect : 0 .. ReconnectDelay + 1,
              stop : BOOLEAN, timeout : Timeouts, leave : 0 .. ApTimeout + 1]
  /\ net \in [tcp : {"none", "connecting", "open", "dead"}, closing : BOOLEAN,
              asked : SUBSET Calls, known : BOOLEAN,
              gethost : {"none", "pending", "lost"}, wait : 0 .. Latency]
  /\ wifi \in [up : BOOLEAN, joining : 0 .. JoinTime, last : BOOLEAN]
  /\ dns \in DnsState /\ upd \in UpdState
  /\ age \in [silence : 0 .. Watchdog + 1, quiet : 0 .. Longest + 1,
              challenge : 0 .. Soft + 1]
  /\ due \subseteq {"watchdog", "timer1"}
  /\ faults \in 0 .. Faults

--------------------------------------------------------------------------------
(* The records.  A running timer counts down: 1 is due, 0 is disarmed.  The    *)
(* iterate timer runs while srpc exists, timer1 while devconn is started, the  *)
(* watchdog until the configuration mode or an update disarms it.              *)

(* supla_espconn_disconnect: an open connection closes and its callback will   *)
(* follow.  One that is still being set up is not the SDK's to close: the      *)
(* attempt goes on, succeeds or fails.                                         *)
Disconnected(n) ==
  [n EXCEPT !.tcp = IF @ = "connecting" THEN @ ELSE "none",
            !.closing = @ \/ n.tcp \in {"open", "dead"},
            !.asked = {}, !.known = FALSE]

(* supla_esp_devconn__stop                                                     *)
Stopped(d) == [d EXCEPT !.registered = 0, !.started = FALSE, !.srpc = FALSE]

(* supla_esp_devconn_start                                                     *)
Started(d) == [d EXCEPT !.started = TRUE, !.reconnect = 0]

(* supla_esp_wifi_station_connect leaves the network and joins again.  What    *)
(* was last reported stays, unless nothing has been reported yet.              *)
Rejoined(w) == [w EXCEPT !.up = FALSE, !.joining = 0]

MayReconnect == mode = "run" /\ ~UpdateStarted(upd)

(* A call over srpc leaves when the connection takes it; a dead connection     *)
(* takes it too.  A server that does not know the device yet answers its       *)
(* registration and nothing else.                                              *)
Asked(n, calls) ==
  IF n.tcp = "open" /\ (n.known \/ calls = {"register"})
  THEN [n EXCEPT !.asked = @ \cup calls] ELSE n
SentOn(n, a) == IF n.tcp \in {"open", "dead"} THEN [a EXCEPT !.quiet = 0] ELSE a

(* supla_esp_devconn_dns__found: with an address, connect; without, nothing    *)
(* happens until the watchdog.                                                 *)
FoundKeepsFlag(found, n) ==                            \* mutant of Found
  /\ dev' = IF found THEN [dev EXCEPT !.resolving = FALSE] ELSE dev
  /\ net' = IF found THEN [Disconnected(n) EXCEPT !.tcp = "connecting"] ELSE n

Found(found, n) ==
  /\ dev' = [dev EXCEPT !.resolving = FALSE]
  /\ net' = IF found THEN [Disconnected(n) EXCEPT !.tcp = "connecting"] ELSE n

(* supla_esp_devconn__reconnect: nothing but the next challenge moves in the   *)
(* configuration mode and while an update is looked for.                       *)
Reconnect(d, n) ==
  /\ age' = [age EXCEPT !.challenge = Soft + 1]
  /\ IF MayReconnect
     THEN /\ dev' = Started(Stopped(d))
          /\ net' = Disconnected(n)
          /\ wifi' = Rejoined(wifi)
     ELSE dev' = d /\ net' = n /\ UNCHANGED wifi

--------------------------------------------------------------------------------
(* user_init, with a complete configuration: supla_esp_devconn_init and        *)
(* supla_esp_devconn_start.                                                    *)
Boot ==
  [mode |-> "run",
   dev |-> [started |-> TRUE, registered |-> 0, srpc |-> FALSE,
            resolving |-> FALSE, reconnect |-> 0, stop |-> FALSE, timeout |-> 0,
            leave |-> 0],
   net |-> [tcp |-> "none", closing |-> FALSE, asked |-> {}, known |-> FALSE,
            gethost |-> "none", wait |-> 0],
   wifi |-> [up |-> FALSE, joining |-> 0, last |-> FALSE],
   age |-> [silence |-> 0, quiet |-> 0, challenge |-> 0]]

Init ==
  /\ mode = Boot.mode /\ dev = Boot.dev /\ net = Boot.net /\ wifi = Boot.wifi
  /\ age = Boot.age /\ dns = DnsInit /\ due = {} /\ faults = 0
  /\ upd \in {UpdInit("old", wanted) : wanted \in BOOLEAN}

(* supla_system_restart, or a power cut.  The wish for an update is in flash   *)
(* and is cleared when the update is looked for.                               *)
RestartWith(image) ==
  /\ mode' = Boot.mode /\ dev' = Boot.dev /\ net' = Boot.net
  /\ wifi' = Boot.wifi /\ age' = Boot.age /\ dns' = DnsInit /\ due' = {}
  /\ upd' = UpdInit(image, upd.step = "check")
Restart == RestartWith(upd.image)

Fault == faults < Faults /\ faults' = faults + 1

--------------------------------------------------------------------------------
(* Wi-Fi and finding the server.                                               *)

(* supla_esp_wifi_check_status, every 200 ms, and                              *)
(* supla_esp_devconn_on_wifi_status_changed with                               *)
(* supla_esp_devconn_resolvandconnect.  A question to the resolver that is     *)
(* still open is not asked again.                                              *)
StatusWork == wifi.last # wifi.up /\ mode = "run"

CheckStatus ==
  /\ StatusWork
  /\ wifi' = [wifi EXCEPT !.last = wifi.up]
  /\ IF wifi.up /\ dev.started /\ ~dev.srpc /\ ~dev.resolving
     THEN /\ dev' = [dev EXCEPT !.resolving = TRUE]
          /\ net' = [Disconnected(net) EXCEPT !.gethost = "pending"]
     ELSE UNCHANGED <<dev, net>>
  /\ UNCHANGED <<mode, dns, upd, age, due, faults>>

Joins ==
  /\ ~wifi.up /\ wifi.joining = JoinTime /\ mode # "ap"
  /\ wifi' = [wifi EXCEPT !.up = TRUE, !.joining = 0]
  /\ UNCHANGED <<mode, dev, net, dns, upd, age, due, faults>>

LinkLost(n) ==
  IF n.tcp = "open" THEN [n EXCEPT !.tcp = "dead", !.asked = {}, !.known = FALSE]
  ELSE n

(* The network is lost and joined again; a fast join is over before the next   *)
(* look at the status and is never reported.                                   *)
WifiDrops ==
  /\ Fault /\ wifi.up
  /\ \E fast \in BOOLEAN : wifi' = IF fast THEN wifi ELSE Rejoined(wifi)
  /\ net' = LinkLost(net) /\ upd' = UpdLinkLost(upd)
  /\ UNCHANGED <<mode, dev, dns, age, due>>

(* supla_esp_devconn_dns_found_cb.  The SDK may also never call it: not every  *)
(* result of espconn_gethostbyname, which is ignored, is followed by a call.   *)
GethostAnswers ==
  /\ net.gethost = "pending" /\ wifi.up
  /\ Found(TRUE, [net EXCEPT !.gethost = "none"])
  /\ UNCHANGED <<mode, wifi, dns, upd, age, due, faults>>

GethostFails ==
  /\ net.gethost = "pending"
  /\ IF wifi.up THEN Fault ELSE UNCHANGED faults
  /\ dns' = DnsResolve(dns)
  /\ net' = [net EXCEPT !.gethost = "none"]
  /\ UNCHANGED <<mode, dev, wifi, upd, age, due>>

GethostSilent ==
  /\ Fault /\ net.gethost = "pending"
  /\ net' = [net EXCEPT !.gethost = "lost"]
  /\ UNCHANGED <<mode, dev, wifi, dns, upd, age, due>>

(* supla_esp_dns_result: ask again, or tell supla_esp_devconn_dns__found.      *)
DnsReports(q) ==
  /\ dns' = DnsResult(q)
  /\ IF Answers(q) THEN Found(q.success, net) ELSE UNCHANGED <<dev, net>>
  /\ UNCHANGED <<mode, wifi, upd, age, due, faults>>

DnsConnected ==
  /\ dns.conn = "connecting" /\ wifi.up
  /\ \/ /\ dns' = [dns EXCEPT !.conn = "asked"]
        /\ UNCHANGED <<mode, dev, net, wifi, upd, age, due, faults>>
     \/ DnsReports(DnsSendFailed([dns EXCEPT !.conn = "asked"]))

(* An answer that says nothing useful, and one that does.                      *)
DnsReceives ==
  /\ dns.conn = "asked" /\ wifi.up
  /\ \/ DnsReports(dns)
     \/ /\ dns' = DnsAnswered(dns)
        /\ UNCHANGED <<mode, dev, net, wifi, upd, age, due, faults>>

DnsTimeoutFires == dns.timeout = 1 /\ DnsReports(DnsTimedOut(dns))
DnsDisconnects  == dns.closing /\ DnsReports(DnsClosed(dns))

DnsRetries ==
  /\ dns.retry
  /\ dns' = DnsTry(dns)
  /\ UNCHANGED <<mode, dev, net, wifi, upd, age, due, faults>>

--------------------------------------------------------------------------------
(* The connection.                                                             *)

(* supla_esp_devconn_connect_cb, supla_esp_srpc_init                           *)
TcpOpens ==
  /\ net.tcp = "connecting" /\ wifi.up
  /\ net' = [net EXCEPT !.tcp = "open"]
  /\ dev' = [dev EXCEPT !.srpc = TRUE]
  /\ UNCHANGED <<mode, wifi, dns, upd, age, due, faults>>

(* The attempt to connect fails; nobody is told: no reconnect callback is      *)
(* registered.  An attempt nobody waits for any more may end like this without *)
(* anything going wrong.                                                       *)
TcpFails ==
  /\ net.tcp = "connecting"
  /\ IF wifi.up /\ dev.started /\ ~dev.resolving THEN Fault ELSE UNCHANGED faults
  /\ net' = [net EXCEPT !.tcp = "none"]
  /\ UNCHANGED <<mode, dev, wifi, dns, upd, age, due>>

(* The connection breaks: half open, or reset, which again nobody is told.     *)
TcpBreaks ==
  /\ Fault /\ net.tcp = "open"
  /\ \E t \in {"dead", "none"} :
       net' = [net EXCEPT !.tcp = t, !.asked = {}, !.known = FALSE]
  /\ UNCHANGED <<mode, dev, wifi, dns, upd, age, due>>

ServerCloses ==
  /\ Fault /\ net.tcp = "open"
  /\ net' = Disconnected(net)
  /\ UNCHANGED <<mode, dev, wifi, dns, upd, age, due>>

(* supla_esp_devconn_disconnect_cb                                             *)
DisconnectCb ==
  /\ net.closing
  /\ net' = [net EXCEPT !.closing = FALSE]
  /\ dev' = IF dev.started THEN [dev EXCEPT !.reconnect = ReconnectDelay + 1] ELSE dev
  /\ UNCHANGED <<mode, wifi, dns, upd, age, due, faults>>

(* The reconnect and the stop timer.  A timer armed before may fire after the  *)
(* state it was armed for is gone.                                             *)
ReconnectFires ==
  /\ dev.reconnect = 1
  /\ Reconnect([dev EXCEPT !.reconnect = 0], net)
  /\ due' = IF MayReconnect THEN due \ {"timer1"} ELSE due
  /\ UNCHANGED <<mode, dns, upd, faults>>

StopFires ==
  /\ dev.stop
  /\ dev' = Stopped([dev EXCEPT !.stop = FALSE])
  /\ net' = Disconnected(net)
  /\ due' = due \ {"timer1"}
  /\ UNCHANGED <<mode, wifi, dns, upd, age, faults>>

(* supla_esp_devconn_iterate for a session that is not registered yet          *)
IterateWork == dev.srpc /\ dev.registered = 0

Iterate ==
  /\ IterateWork
  /\ dev' = [dev EXCEPT !.registered = -1]
  /\ net' = Asked(net, {"register"})
  /\ age' = SentOn(net, age)
  /\ UNCHANGED <<mode, wifi, dns, upd, due, faults>>

--------------------------------------------------------------------------------
(* What the server says: supla_esp_on_remote_call_received.  Every call counts *)
(* as a sign of life.                                                          *)
Heard(call) ==
  /\ call \in net.asked /\ net.tcp = "open" /\ dev.srpc /\ wifi.up
  /\ UNCHANGED <<wifi, dns>>

Received(call) == [net EXCEPT !.asked = @ \ {call}]

(* supla_esp_on_register_result with SUPLA_RESULTCODE_TRUE and                 *)
(* supla_esp_check_updates                                                     *)
RegisteredOk ==
  LET wanted == upd.step = "check"
      calls  == (IF ServerTimeout # ActivityTimeout THEN {"timeout"} ELSE {})
                  \cup (IF wanted THEN {"update"} ELSE {})
  IN  /\ Heard("register")
      /\ dev' = [dev EXCEPT !.registered = 1, !.timeout = ServerTimeout]
      /\ upd' = IF wanted THEN UpdCheck(upd) ELSE upd
      /\ net' = Asked([Received("register") EXCEPT !.known = TRUE], calls)
      /\ age' = [age EXCEPT !.silence = 0, !.quiet = IF calls = {} THEN @ ELSE 0]
      /\ UNCHANGED <<mode, due, faults>>

(* supla_esp_on_register_result with any other code, and                       *)
(* supla_esp_on_version_error: stop in 5 ms.                                   *)
RegisterRefused ==
  /\ Fault /\ Heard("register")
  /\ dev' = [dev EXCEPT !.stop = TRUE]
  /\ net' = Received("register")
  /\ age' = [age EXCEPT !.silence = 0]
  /\ UNCHANGED <<mode, upd, due>>

PingAnswered ==
  /\ Heard("ping")
  /\ net' = Received("ping")
  /\ age' = [age EXCEPT !.silence = 0]
  /\ UNCHANGED <<mode, dev, upd, due, faults>>

(* supla_esp_channel_set_activity_timeout_result                               *)
TimeoutAgreed ==
  /\ Heard("timeout")
  /\ dev' = [dev EXCEPT !.timeout = ActivityTimeout]
  /\ net' = Received("timeout")
  /\ age' = [age EXCEPT !.silence = 0]
  /\ UNCHANGED <<mode, upd, due, faults>>

(* supla_esp_update_url_result: no new firmware, and nothing changes; or there *)
(* is one, and the connection and the watchdog are given up for it.            *)
NoUpdate ==
  /\ Heard("update")
  /\ net' = Received("update")
  /\ age' = [age EXCEPT !.silence = 0]
  /\ UNCHANGED <<mode, dev, upd, due, faults>>

UpdateStarts ==
  /\ Heard("update")
  /\ upd.step = "checking"
  /\ upd' = UpdStart(upd)
  /\ dev' = Stopped(dev)
  /\ net' = Disconnected(net)
  /\ age' = [age EXCEPT !.silence = 0]
  /\ due' = {}
  /\ UNCHANGED <<mode, faults>>

AnswerLost ==
  /\ Fault
  /\ \E call \in net.asked : net' = Received(call)
  /\ UNCHANGED <<mode, dev, wifi, dns, upd, age, due>>

--------------------------------------------------------------------------------
(* The firmware update, on a connection of its own.                            *)
OnlyUpdate == UNCHANGED <<mode, dev, net, wifi, dns, age, due>>

(* supla_esp_update_delay_timer_func                                           *)
UpdateDelayFires ==
  /\ upd.conn = "delay" /\ upd.delay = 1
  /\ upd' = [upd EXCEPT !.conn = "resolving", !.delay = 0]
  /\ OnlyUpdate /\ UNCHANGED faults

(* supla_esp_update_dns_found_cb: an unknown name is the end of it, and so is  *)
(* a resolver that never answers.                                              *)
UpdateFound ==
  /\ upd.conn = "resolving" /\ wifi.up
  /\ upd' = [upd EXCEPT !.conn = "connecting"]
  /\ OnlyUpdate /\ UNCHANGED faults

UpdateNotFound ==
  /\ upd.conn = "resolving"
  /\ IF wifi.up THEN Fault ELSE UNCHANGED faults
  /\ upd' = GivenUp(upd, "lost")
  /\ OnlyUpdate

(* supla_esp_update_connect_cb                                                 *)
UpdateConnects ==
  /\ upd.conn = "connecting" /\ wifi.up
  /\ \E file \in Files : upd' = [upd EXCEPT !.conn = "open", !.file = file]
  /\ OnlyUpdate /\ UNCHANGED faults

(* supla_esp_update_disconnect_cb and supla_esp_update_reconnect_cb            *)
UpdateClosed ==
  IF upd.step # "downloading" THEN Restart
  ELSE upd' = GivenUp(upd, "gone") /\ OnlyUpdate

UpdateUnreachable ==
  /\ upd.conn = "connecting"
  /\ IF wifi.up THEN Fault ELSE UNCHANGED faults
  /\ UpdateClosed

(* The other side closes when it has sent everything, or breaks off.           *)
UpdateCloses ==
  /\ upd.conn = "open" /\ wifi.up
  /\ IF upd.sent = Answer(upd) THEN UNCHANGED faults ELSE Fault
  /\ UpdateClosed

UpdateBreaks ==
  /\ Fault /\ upd.conn = "open"
  /\ upd' = UpdLinkLost(upd)
  /\ OnlyUpdate

(* supla_esp_update_recv_cb                                                    *)
FirmwareArrives(n, signed) ==
  /\ upd.conn = "open" /\ wifi.up /\ upd.sent + n <= Answer(upd)
  /\ \E u \in After(upd, n) :
       IF Finished(u)
       THEN RestartWith(IF Verified(u, signed) THEN "new" ELSE upd.image)
       ELSE upd' = u /\ OnlyUpdate
  /\ UNCHANGED faults

FlashFails ==
  /\ Fault /\ upd.conn = "open" /\ wifi.up
  /\ \E n \in Segments : upd.sent + n <= Answer(upd) /\ Writes(upd, n)
  /\ Restart

--------------------------------------------------------------------------------
(* Time and the user.                                                          *)

(* supla_esp_devconn_watchdog_cb                                               *)
OverdueIfConnected ==                                  \* mutant of Overdue
  ~UpdateStarted(upd) /\ dev.srpc /\ age.silence > Watchdog

Overdue == ~UpdateStarted(upd) /\ age.silence > Watchdog
Challenged ==
  /\ ~UpdateStarted(upd) /\ ~Overdue
  /\ age.silence > 0 /\ age.silence >= Soft /\ age.silence > dev.timeout
  /\ age.challenge = 0

WatchdogFires ==
  /\ "watchdog" \in due
  /\ CASE Overdue    -> Restart
       [] Challenged -> /\ Reconnect(dev, net)
                        /\ due' = {}
                        /\ UNCHANGED <<mode, dns, upd>>
       [] OTHER      -> /\ due' = due \ {"watchdog"}
                        /\ UNCHANGED <<mode, dev, net, wifi, dns, upd, age>>
  /\ UNCHANGED faults

(* supla_esp_devconn_timer1_cb                                                 *)
PingsTooLate(t) ==                                     \* mutant of InPingWindow
  t \in dev.timeout + 1 .. dev.timeout + Grace

InPingWindow(t) == t \in dev.timeout - PingMargin .. dev.timeout
Supervised == dev.registered = 1 /\ dev.timeout > 0 /\ dev.srpc

Timer1Fires ==
  /\ "timer1" \in due
  /\ CASE Supervised /\ age.silence >= dev.timeout + Grace ->
            /\ Reconnect(dev, net)
            /\ due' = due \ {"timer1"}
            /\ UNCHANGED <<mode, dns, upd>>
       [] Supervised /\ age.silence < dev.timeout + Grace
            /\ (InPingWindow(age.quiet) \/ InPingWindow(age.silence)) ->
            /\ net' = Asked(net, {"ping"})
            /\ age' = SentOn(net, age)
            /\ due' = due \ {"timer1"}
            /\ UNCHANGED <<mode, dev, wifi, dns, upd>>
       [] OTHER ->
            /\ due' = due \ {"timer1"}
            /\ UNCHANGED <<mode, dev, net, wifi, dns, upd, age>>
  /\ UNCHANGED faults

(* supla_esp_cfgmode_start, from the button, and the same asked for by the     *)
(* server, which leaves by itself.                                             *)
EnterCfgMode ==
  /\ Fault /\ mode = "run"
  /\ mode' = "cfg"
  /\ \/ dev' = Stopped(dev)
     \/ /\ dev.srpc /\ net.known /\ wifi.up
        /\ dev' = [Stopped(dev) EXCEPT !.leave = ApTimeout + 1]
  /\ net' = Disconnected(net)
  /\ due' = {}
  /\ UNCHANGED <<wifi, dns, upd, age>>

(* supla_esp_cfgmode_enter_ap_mode, a second later: the station is switched    *)
(* off.                                                                        *)
EnterApMode ==
  /\ mode = "cfg" /\ mode' = "ap"
  /\ wifi' = Rejoined(wifi)
  /\ net' = LinkLost(net) /\ upd' = UpdLinkLost(upd)
  /\ UNCHANGED <<dev, dns, age, due, faults>>

(* supla_esp_connectcb: a browser connects, and the device stays.              *)
ApVisited ==
  /\ mode = "ap" /\ dev.leave > 0
  /\ dev' = [dev EXCEPT !.leave = 0]
  /\ UNCHANGED <<mode, net, wifi, dns, upd, age, due, faults>>

(* The user saves the configuration or presses the button again; or            *)
(* supla_esp_cfgmode_timeout_exit.                                             *)
LeaveCfgMode == mode = "ap" /\ Restart /\ UNCHANGED faults

PowerCut == Fault /\ Restart

(* system_get_time passes the moment the update was looked for once more, and  *)
(* supla_esp_update_started is true for another UPDATE_TIMEOUT.                *)
ClockWraps ==
  /\ Fault /\ upd.step \in {"checking", "downloading"} /\ upd.window = 0
  /\ upd' = [upd EXCEPT !.window = UpdateTimeout]
  /\ UNCHANGED <<mode, dev, net, wifi, dns, age, due>>

Least(m, n) == IF m < n THEN m ELSE n
Less(n) == IF n > 0 THEN n - 1 ELSE 0

Owes == net.gethost = "pending" \/ net.tcp = "connecting"
          \/ (net.tcp = "open" /\ net.asked # {})
          \/ upd.conn \in {"resolving", "connecting", "open"}

(* A second passes once everything that is due has run.                        *)
Tick ==
  /\ due = {} /\ ~net.closing /\ ~dev.stop /\ dev.reconnect # 1
  /\ ~dns.retry /\ dns.timeout # 1 /\ ~dns.closing
  /\ ~IterateWork /\ ~StatusWork
  /\ mode # "cfg" /\ dev.leave # 1 /\ upd.delay # 1
  /\ mode = "run" => wifi.up \/ wifi.joining < JoinTime
  /\ Owes /\ wifi.up => net.wait < Latency
  /\ due' = (IF mode = "run" /\ upd.conn = "none" THEN {"watchdog"} ELSE {})
              \cup (IF dev.started THEN {"timer1"} ELSE {})
  /\ age' = [silence   |-> Least(age.silence + 1, Watchdog + 1),
             quiet     |-> Least(age.quiet + 1, Longest + 1),
             challenge |-> Less(age.challenge)]
  /\ dev' = [dev EXCEPT !.reconnect = Less(@), !.leave = Less(@)]
  /\ net' = [net EXCEPT !.wait = IF Owes /\ wifi.up THEN @ + 1 ELSE 0]
  /\ wifi' = [wifi EXCEPT !.joining = IF wifi.up THEN 0
                                           ELSE Least(@ + 1, JoinTime)]
  /\ dns' = [dns EXCEPT !.timeout = Less(@)]
  /\ upd' = [upd EXCEPT !.window = Less(@), !.delay = Less(@)]
  /\ UNCHANGED <<mode, faults>>

Network ==
  \/ Joins \/ WifiDrops
  \/ GethostAnswers \/ GethostFails \/ GethostSilent
  \/ DnsConnected \/ DnsReceives \/ DnsDisconnects
  \/ TcpOpens \/ TcpFails \/ TcpBreaks \/ ServerCloses \/ DisconnectCb
Server ==
  \/ RegisteredOk \/ RegisterRefused \/ PingAnswered \/ TimeoutAgreed
  \/ NoUpdate \/ UpdateStarts \/ AnswerLost
Timers ==
  \/ CheckStatus \/ Iterate \/ ReconnectFires \/ StopFires
  \/ DnsTimeoutFires \/ DnsRetries \/ WatchdogFires \/ Timer1Fires \/ Tick

Update ==
  \/ UpdateDelayFires \/ UpdateFound \/ UpdateNotFound \/ UpdateConnects
  \/ UpdateUnreachable \/ UpdateCloses \/ UpdateBreaks \/ FlashFails
  \/ \E n \in Segments, signed \in BOOLEAN : FirmwareArrives(n, signed)
World ==
  \/ EnterCfgMode \/ EnterApMode \/ ApVisited \/ LeaveCfgMode \/ PowerCut
  \/ ClockWraps

Next == Network \/ Server \/ Timers \/ Update \/ World

Spec == Init /\ [][Next]_vars

(* The device's loop runs and the clock ticks.  No single event is promised:   *)
(* Tick waits for what is due, and Latency and JoinTime bound what the network *)
(* may take.                                                                   *)
FairSpec == Spec /\ WF_vars(Next)

--------------------------------------------------------------------------------
(* resolving_started is cleared by a callback only.  As long as it stands,     *)
(* somebody is going to make that call, unless the SDK never answers; and the  *)
(* DNS client, once asked, never falls silent.                                 *)
ResolverAlive ==
  /\ dev.resolving => net.gethost # "none" \/ dns.cb
  /\ dns.cb => DnsBusy(dns)

Online ==
  dev.started /\ dev.srpc /\ dev.registered = 1 /\ net.tcp = "open" /\ net.known

(* The server, which closes a connection on which it hears nothing for the     *)
(* activity timeout, hears from a device that is online in time, as long as    *)
(* the device still hears the server: after that it means to reconnect.        *)
ServerHears ==
  Online /\ age.silence < dev.timeout + Grace => age.quiet <= dev.timeout

(* The device waits for the user, or an update has got stuck: nobody watches   *)
(* over a name that is not known, a connection that is half open, or one that  *)
(* closes in the middle of the file.                                           *)
AwaitsUser == mode = "ap" /\ dev.leave = 0
Stranded == upd.conn \in {"lost", "dead", "gone"}

(* Whatever fails, and in whatever order, once failures stop the device is     *)
(* online again and stays so - after an update that fails, and after a         *)
(* configuration mode nobody uses that the server opened, too - unless it      *)
(* awaits the user or is stranded.                                             *)
Recovers == <>[](Online \/ AwaitsUser \/ Stranded)

(* A signed file there is room for becomes the firmware with its last segment, *)
(* however it was cut, if its header came in one piece.                        *)
UpdateLands ==
  [][\A n \in Segments :
       FirmwareArrives(n, TRUE) /\ upd.sent + n = Answer(upd)
         /\ upd.whole /\ (Matches(upd, n) => upd.sent = 0)
         /\ upd.file \in 1 .. Space
         => upd'.image = "new"]_vars
================================================================================
