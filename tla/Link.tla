--------------------------------- MODULE Link ----------------------------------
(* How calls cross the connection to the server: the framing of proto.c, the   *)
(* queues of srpc.c and the buffers of supla_esp_devconn.c, in the default     *)
(* build with both queues and both sproto buffers.                             *)
(*                                                                             *)
(* A packet is a run of cells <<id, 1>> ... <<id, size>>: a cell is a stretch  *)
(* of bytes, the first holds the tag and the header with the size, the last    *)
(* ends with the closing tag.  TCP cuts the stream anywhere between cells.     *)
(* One connection follows another; srpc_iterate is split at the call of the    *)
(* handler, since the handler may free what srpc_iterate goes on to use.       *)
EXTENDS Integers, Sequences

CONSTANTS
  Inbound,    \* the sizes in cells of the packets the server may send
  Outbound,   \* the sizes of the packets the device may send
  Chunk,      \* SRPC_BUFFER_SIZE, in cells
  RecvMax,    \* RECVBUFF_MAXSIZE
  SendMax,    \* SEND_BUFFER_SIZE
  BufferMax,  \* BUFFER_MAX_SIZE: a buffer of sproto stays below it
  QueueSize,  \* SRPC_QUEUE_SIZE
  Replies     \* how many calls a handler may make

ASSUME LinkAssumption ==
  /\ {Chunk, RecvMax, SendMax, BufferMax, QueueSize} \subseteq Nat \ {0}
  /\ Replies \in Nat
  /\ Inbound \in Seq(Nat \ {0}) /\ Outbound \in Seq(Nat \ {0})

VARIABLES
  conn,     \* the TCP connection: "open", "closing": the callback is owed,
            \* "lost": it is gone and nobody was told, "down"
  srpc,     \* the session is allocated
  phase,    \* where srpc_iterate stands: "idle", "handle", "out"
  stream,   \* cells of the server on their way
  recv,     \* devconn->recvbuff
  inb,      \* the in buffer of sproto
  inq,      \* srpc->in_queue
  outq,     \* srpc->out_queue
  outb,     \* the out buffer of sproto
  sendb,    \* devconn->esp_send_buffer
  wire,     \* the cells that have left for the server on this connection
  handled,  \* the packets given to the handlers on this connection
  sent,     \* how many packets the server has sent on it
  called,   \* how many calls the device has made on it
  gap,      \* cells were lost on the way in, or are left of another connection
  spilled   \* the same on the way out

input  == <<stream, recv, inb, inq, handled, sent, gap>>
output == <<outq, outb, sendb, wire, called, spilled>>
vars   == <<conn, srpc, phase, input, output>>

Cells(sizes) == UNION {{id} \X (1 .. sizes[id]) : id \in DOMAIN sizes}
Packet(sizes, id) == [i \in 1 .. sizes[id] |-> <<id, i>>]
Garbled == 0    \* a packet put together from the pieces of two

TypeOK ==
  /\ conn \in {"open", "closing", "lost", "down"} /\ srpc \in BOOLEAN
  /\ phase \in {"idle", "handle", "out"}
  /\ stream \in Seq(Cells(Inbound))
  /\ recv \in Seq(Cells(Inbound)) /\ Len(recv) <= RecvMax
  /\ inb \in Seq(Cells(Inbound)) /\ Len(inb) < BufferMax
  /\ inq \in Seq({Garbled} \cup DOMAIN Inbound) /\ Len(inq) <= QueueSize
  /\ handled \in Seq({Garbled} \cup DOMAIN Inbound)
  /\ outq \in Seq(DOMAIN Outbound) /\ Len(outq) <= QueueSize
  /\ outb \in Seq(Cells(Outbound)) /\ Len(outb) < BufferMax
  /\ sendb \in Seq(Cells(Outbound)) /\ Len(sendb) <= SendMax
  /\ wire \in Seq(Cells(Outbound))
  /\ sent \in 0 .. Len(Inbound) /\ called \in 0 .. Len(Outbound)
  /\ gap \in BOOLEAN /\ spilled \in BOOLEAN

--------------------------------------------------------------------------------
(* Sequences cut in two, and the queues.                                       *)
Least(m, n) == IF m < n THEN m ELSE n
Front(s, n) == SubSeq(s, 1, Least(n, Len(s)))
Rest(s, n)  == SubSeq(s, n + 1, Len(s))

(* srpc_queue_push, for each of the packets: one that finds the queue full is  *)
(* lost.                                                                       *)
PushedOneTooMany(q, ids) == Front(q \o ids, QueueSize + 1)  \* mutant of Pushed
Pushed(q, ids) == Front(q \o ids, QueueSize)

(* srpc_async__call, k times                                                   *)
Calls(k) ==
  /\ called + k <= Len(Outbound)
  /\ called' = called + k
  /\ outq' = Pushed(outq, [i \in 1 .. k |-> called + i])

--------------------------------------------------------------------------------
(* Out.                                                                        *)

(* The results of espconn_sent: accepted, ESPCONN_INPROGRESS or                *)
(* ESPCONN_MAXNUM, any other error.                                            *)
Results == IF conn = "open" THEN {"ok", "busy"} ELSE {"error"}

WroteDirectly(cells, first, result) ==                 \* mutant of Wrote
  /\ wire' = IF result = "ok" THEN wire \o cells ELSE wire
  /\ sendb' = IF result = "busy" THEN Front(sendb \o cells, SendMax) ELSE sendb
  /\ spilled' = (spilled \/ result = "error")

(* supla_esp_data_write and supla_esp_data_write_append_buffer: what waits in  *)
(* the buffer goes first; what finds the buffer full is lost, and its caller   *)
(* does not look at the result.                                                *)
Wrote(cells, first, result) ==
  LET flushed == sendb # <<>> /\ first = "ok"
      waiting == IF flushed THEN <<>> ELSE sendb
      gone    == IF flushed THEN wire \o sendb ELSE wire
      append  == waiting # <<>> \/ result = "busy"
      fits    == Len(waiting) + Len(cells) <= SendMax
  IN  /\ sendb' = IF append /\ fits THEN waiting \o cells ELSE waiting
      /\ wire'  = IF ~append /\ result = "ok" THEN gone \o cells ELSE gone
      /\ spilled' = \/ spilled
                    \/ /\ cells # <<>>
                       /\ IF append THEN ~fits ELSE result = "error"

(* srpc_iterate from the comment OUT on, with sproto_out_buffer_append and     *)
(* sproto_pop_out_data.  A packet that does not fit the out buffer is lost; if *)
(* only its closing tag does not fit, srpc_iterate fails.                      *)
Out ==
  LET packet == IF outq = <<>> THEN <<>> ELSE Packet(Outbound, Head(outq))
      fits   == Len(outb) + Len(packet) < BufferMax
      all    == IF fits THEN outb \o packet ELSE outb
  IN  /\ outq' = IF outq = <<>> THEN <<>> ELSE Tail(outq)
      /\ outb' = Rest(all, Chunk)
      /\ called' = called
      /\ IF all = <<>> THEN UNCHANGED <<sendb, wire, spilled>>
         ELSE \E first, result \in Results : Wrote(Front(all, Chunk), first, result)

--------------------------------------------------------------------------------
(* In.                                                                         *)

Whole(cells, size) == cells[size][2] = Inbound[cells[size][1]]
Same(cells, size)  == \A i \in 1 .. size : cells[i][1] = cells[1][1]

(* sproto_pop_in_sdp on a buffer: more has to come; the opening or the closing *)
(* tag is not where it has to be; or a packet.                                 *)
Incomplete(b) ==
  b = <<>> \/ (b[1][2] = 1 /\ Len(b) < Inbound[b[1][1]])
Broken(b) ==
  /\ b # <<>> /\ ~Incomplete(b)
  /\ b[1][2] # 1 \/ ~Whole(b, Inbound[b[1][1]])
Popped(b) == IF Same(b, Inbound[b[1][1]]) THEN b[1][1] ELSE Garbled

Reset ==
  /\ conn' = "down" /\ srpc' = FALSE /\ phase' = "idle"
  /\ stream' = <<>> /\ recv' = <<>> /\ inb' = <<>> /\ inq' = <<>>
  /\ outq' = <<>> /\ outb' = <<>> /\ sendb' = <<>> /\ wire' = <<>>
  /\ handled' = <<>> /\ sent' = 0 /\ called' = 0
  /\ gap' = FALSE /\ spilled' = FALSE

ShrunkShort(b) == Rest(b, Inbound[b[1][1]] - 1)        \* mutant of Shrunk
Shrunk(b) == Rest(b, Inbound[b[1][1]])

(* supla_esp_devconn_iterate and srpc_iterate up to the call of the handler:   *)
(* what waits to be sent is tried once more, a chunk is read and appended, one *)
(* packet is taken.  A failure restarts the device.                            *)
In(received, coming) ==
  LET b == inb \o Front(received, Chunk)
  IN  IF Len(b) >= BufferMax \/ Broken(b) THEN Reset
      ELSE /\ recv' = Rest(received, Chunk)
           /\ IF Incomplete(b)
              THEN inb' = b /\ phase' = "out" /\ UNCHANGED inq
              ELSE /\ inb' = Shrunk(b)
                   /\ phase' = "handle"
                   /\ inq' = Pushed(inq, <<Popped(b)>>)
           /\ \E first \in Results : Wrote(<<>>, first, "ok")
           /\ stream' = coming
           /\ UNCHANGED <<conn, srpc, outq, outb, called, handled, sent, gap>>

--------------------------------------------------------------------------------
Init ==
  /\ conn = "down" /\ srpc = FALSE /\ phase = "idle"
  /\ stream = <<>> /\ recv = <<>> /\ inb = <<>> /\ inq = <<>>
  /\ outq = <<>> /\ outb = <<>> /\ sendb = <<>> /\ wire = <<>>
  /\ handled = <<>> /\ sent = 0 /\ called = 0
  /\ gap = FALSE /\ spilled = FALSE

ServerSends ==
  /\ conn = "open" /\ sent < Len(Inbound)
  /\ sent' = sent + 1
  /\ stream' = stream \o Packet(Inbound, sent + 1)
  /\ UNCHANGED <<conn, srpc, phase, recv, inb, inq, handled, gap, output>>

(* supla_esp_devconn_recv_cb: a segment that does not fit is dropped as a      *)
(* whole.                                                                      *)
Receives ==
  /\ conn = "open" /\ srpc /\ phase = "idle"
  /\ \E n \in 1 .. Len(stream) :
       IF Len(recv) + n <= RecvMax
       THEN In(recv \o Front(stream, n), Rest(stream, n))
       ELSE /\ stream' = Rest(stream, n)
            /\ gap' = TRUE
            /\ UNCHANGED <<conn, srpc, phase, recv, inb, inq, handled, sent, output>>

(* The iterate timer, every 100 ms                                             *)
IterateOnNews ==                                       \* mutant of IterateFires
  srpc /\ phase = "idle" /\ recv # <<>> /\ In(recv, stream)

IterateFires == srpc /\ phase = "idle" /\ In(recv, stream)

(* supla_esp_on_remote_call_received: srpc_getdata takes the packet from the   *)
(* queue and the handler makes its calls.                                      *)
Handles ==
  /\ phase = "handle" /\ phase' = "out"
  /\ handled' = Append(handled, Head(inq))
  /\ inq' = Tail(inq)
  /\ \E k \in 0 .. Replies : Calls(k)
  /\ UNCHANGED <<conn, srpc, stream, recv, inb, sent, gap, outb, sendb, wire, spilled>>

(* supla_esp_calcfg_request for the configuration mode, and                    *)
(* supla_esp_update_url_result: supla_esp_devconn_stop frees the session in    *)
(* the middle of srpc_iterate.                                                 *)
HandlerStops ==
  /\ phase = "handle" /\ phase' = "out"
  /\ conn' = IF conn = "open" THEN "closing" ELSE conn
  /\ srpc' = FALSE
  /\ stream' = <<>> /\ inb' = <<>> /\ inq' = <<>> /\ outq' = <<>> /\ outb' = <<>>
  /\ UNCHANGED <<recv, handled, sent, gap, sendb, wire, called, spilled>>

(* The rest of srpc_iterate.  On freed memory anything may follow; here the    *)
(* session is seen empty, or the device crashes and restarts.                  *)
IterateEnds ==
  /\ phase = "out" /\ srpc /\ phase' = "idle"
  /\ Out
  /\ UNCHANGED <<conn, srpc, input>>

TagDoesNotFit ==
  /\ phase = "out" /\ srpc
  /\ outq # <<>> /\ Len(outb) + Outbound[Head(outq)] = BufferMax
  /\ Reset

IterateOnFreed ==
  /\ phase = "out" /\ ~srpc
  /\ \/ phase' = "idle" /\ UNCHANGED <<conn, srpc, input, output>>
     \/ Reset

(* A call from a timer or an input, outside srpc_iterate                       *)
DeviceCalls ==
  /\ srpc /\ phase = "idle"
  /\ Calls(1)
  /\ UNCHANGED <<conn, srpc, phase, input, outb, sendb, wire, spilled>>

(* The server closes the connection or the device has closed it:               *)
(* supla_esp_devconn_disconnect_cb.                                            *)
Closes ==
  /\ conn \in {"open", "closing"} /\ phase = "idle"
  /\ conn' = "down"
  /\ recv' = <<>> /\ sendb' = <<>> /\ stream' = <<>>
  /\ UNCHANGED <<srpc, phase, inb, inq, handled, sent, gap>>
  /\ UNCHANGED <<outq, outb, wire, called, spilled>>

(* The connection breaks and no callback tells.                                *)
Breaks ==
  /\ conn = "open" /\ phase = "idle"
  /\ conn' = "lost"
  /\ stream' = <<>>
  /\ UNCHANGED <<srpc, phase, recv, inb, inq, handled, sent, gap, output>>

(* supla_esp_devconn__reconnect and, later, supla_esp_devconn_connect_cb: a    *)
(* new session on a new connection; the buffers of devconn stay.               *)
Reconnects ==
  /\ conn \in {"down", "lost"} /\ phase = "idle"
  /\ conn' = "open" /\ srpc' = TRUE
  /\ stream' = <<>> /\ inb' = <<>> /\ inq' = <<>> /\ outq' = <<>> /\ outb' = <<>>
  /\ wire' = <<>> /\ handled' = <<>> /\ sent' = 0 /\ called' = 0
  /\ gap' = (recv # <<>>) /\ spilled' = (sendb # <<>>)
  /\ UNCHANGED <<phase, recv, sendb>>

Next ==
  \/ ServerSends \/ Receives \/ IterateFires
  \/ Handles \/ HandlerStops \/ IterateEnds \/ TagDoesNotFit \/ IterateOnFreed
  \/ DeviceCalls \/ Closes \/ Breaks \/ Reconnects

Spec == Init /\ [][Next]_vars

(* TCP delivers what it has whenever srpc_iterate is done often enough, the    *)
(* timer runs while the session exists, and what srpc_iterate begins it ends.  *)
FairSpec ==
  /\ Spec
  /\ SF_vars(Receives) /\ WF_vars(IterateFires)
  /\ WF_vars(Handles \/ HandlerStops)
  /\ WF_vars(IterateEnds \/ TagDoesNotFit \/ IterateOnFreed)

--------------------------------------------------------------------------------
(* As long as no segment is dropped and nothing is left over, the handlers get *)
(* the server's packets whole, each once and in order, however TCP cuts them.  *)
InOrder == ~gap => \A i \in DOMAIN handled : handled[i] = i

(* As long as the buffers hold, what leaves for the server is a sequence of    *)
(* whole packets in the order of the calls, the last one perhaps unfinished.   *)
WholePackets ==
  ~spilled => \A j \in DOMAIN wire :
    IF wire[j][2] > 1
    THEN j > 1 /\ wire[j - 1] = <<wire[j][1], wire[j][2] - 1>>
    ELSE j > 1 => /\ wire[j - 1][1] < wire[j][1]
                  /\ wire[j - 1][2] = Outbound[wire[j - 1][1]]

(* A packet that has been sent is handled, even if nothing follows it, unless  *)
(* the connection ends.                                                        *)
Delivers ==
  \A id \in DOMAIN Inbound :
    conn = "open" /\ ~gap /\ sent >= id
      ~> Len(handled) >= id \/ conn # "open" \/ gap

(* devconn.c: "Do not call this function in any espconn callback": the session *)
(* exists as long as srpc_iterate uses it.                                     *)
InUse == phase # "idle" => srpc
================================================================================
