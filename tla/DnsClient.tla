------------------------------- MODULE DnsClient -------------------------------
(* The device's own DNS client, supla_esp_dns_client.c, used when the resolver *)
(* of the SDK does not know the server: TCP queries to DNS_SERVER_COUNT public *)
(* servers in turn.  Everything the client keeps is one record; the operators  *)
(* give its next value.  A timer holds 0 when it is disarmed, 1 when it is     *)
(* due and n + 1 when it is due in n ticks of the clock.                       *)
EXTENDS Integers

CONSTANTS
  DnsServers,   \* DNS_SERVER_COUNT: how many servers are tried
  DnsTimeout    \* DNS_TIMEOUT_PER_REQUEST_MS, in ticks

ASSUME DnsAssumption ==
  DnsServers \in Nat \ {0} /\ DnsTimeout \in Nat \ {0}

(* conn: the socket, "asked" once the query is sent; closing: the SDK owes a   *)
(* disconnect callback; cb: somebody waits for the result.                     *)
DnsState ==
  [cb : BOOLEAN, success : BOOLEAN, tries : 0 .. DnsServers,
   timeout : 0 .. DnsTimeout + 1, retry : BOOLEAN,
   conn : {"none", "connecting", "asked"}, closing : BOOLEAN]

(* supla_esp_dns_client_init                                                   *)
DnsInit ==
  [cb |-> FALSE, success |-> FALSE, tries |-> 0, timeout |-> 0, retry |-> FALSE,
   conn |-> "none", closing |-> FALSE]

(* espconn_disconnect: the callback follows later, for an open connection.     *)
DnsDisconnect(q) ==
  [q EXCEPT !.conn = "none", !.closing = @ \/ q.conn = "asked"]

TriesOnceMore(q) == ~q.success /\ q.tries <= DnsServers  \* mutant of TriesAgain

TriesAgain(q) == ~q.success /\ q.tries < DnsServers

(* Does supla_esp_dns_result call the one who waits?                           *)
Answers(q) == q.cb /\ ~TriesAgain(q)

(* supla_esp_dns_result: another server after RETRY_DELAY_MS, or the result.   *)
DnsResult(q) ==
  IF TriesAgain(q) THEN [q EXCEPT !.retry = TRUE] ELSE [q EXCEPT !.cb = FALSE]

(* supla_esp_dns__resolve: the next server.                                    *)
DnsTry(q) ==
  LET d == DnsDisconnect(q)
  IN  [d EXCEPT !.success = FALSE, !.timeout = DnsTimeout + 1, !.retry = FALSE,
                !.tries = @ + 1, !.conn = "connecting"]

(* supla_esp_dns_resolve for a valid name                                      *)
DnsResolve(q) ==
  DnsTry([q EXCEPT !.cb = TRUE, !.tries = 0, !.timeout = 0, !.retry = FALSE])

(* The client asks, or will ask, or has given up asking and will say so.       *)
DnsBusy(q) == q.cb /\ (q.timeout > 0 \/ q.retry)

--------------------------------------------------------------------------------
(* What may happen to a client that stands at q: the record that              *)
(* supla_esp_dns_result is then called with.                                   *)

(* supla_esp_dns_connect_cb: the query could not be sent.                      *)
DnsSendFailed(q) == DnsDisconnect(q)

(* supla_esp_dns_timeout_cb; the timer fires once.                             *)
DnsTimedOut(q) == DnsDisconnect([q EXCEPT !.timeout = 0])

(* supla_esp_dns_disconnect_cb                                                 *)
DnsClosed(q) == [q EXCEPT !.closing = FALSE]

(* supla_esp_dns_recv_cb for a good answer; the result is reported by the      *)
(* disconnect callback or, failing that, by the timeout.                       *)
DnsAnswered(q) == DnsDisconnect([q EXCEPT !.success = TRUE])
================================================================================
