------------------------------ MODULE Link_proofs ------------------------------
(***************************************************************************)
(* The connection to the server, for packets of every size, every size of  *)
(* the buffers and every cut of the stream: what the handlers get are the  *)
(* server's packets in order, and what leaves are whole packets in the     *)
(* order of the calls.                                                     *)
(***************************************************************************)
EXTENDS Link, SequenceTheorems, TLAPS

(* What is on its way in and out, from end to end.                         *)
Incoming == inb \o (recv \o stream)
Outgoing == wire \o (sendb \o outb)
Taken == Len(handled) + Len(inq)

(* A handler runs on one packet and within a session, and an open          *)
(* connection has one.                                                     *)
Session ==
  /\ phase = "handle" => srpc /\ Len(inq) = 1
  /\ phase # "handle" => inq = <<>>
  /\ conn = "open" => srpc

(* A run of the server's packets from the beginning of one of them: a cell *)
(* is followed by the others of its packet, the last one by the first of   *)
(* the next packet.                                                        *)
Run(cells, id) ==
  /\ cells # <<>> => cells[1] = <<id, 1>>
  /\ \A i \in 1 .. Len(cells) : \A m \in 0 .. Len(cells) :
       i + m <= Len(cells) /\ cells[i][2] + m <= Inbound[cells[i][1]] =>
         cells[i + m] = <<cells[i][1], cells[i][2] + m>>
  /\ \A i \in 1 .. Len(cells) :
       i < Len(cells) /\ cells[i][2] = Inbound[cells[i][1]] =>
         cells[i + 1] = <<cells[i][1] + 1, 1>>

(* It ends with the last cell of packet number id, or is empty after it.   *)
EndsWith(cells, taken, id) ==
  IF cells = <<>> THEN taken = id ELSE cells[Len(cells)] = <<id, Inbound[id]>>

InwardInv ==
  ~gap =>
    /\ \A i \in 1 .. Len(handled) : handled[i] = i
    /\ phase = "handle" => inq[1] = Taken
    /\ srpc => Run(Incoming, Taken + 1)
    /\ conn = "open" => EndsWith(Incoming, Taken, sent)

(* Whole packets in ascending order, perhaps not all of the last one.      *)
Ascends(cells) ==
  \A i \in 1 .. Len(cells) :
    IF cells[i][2] > 1
    THEN i > 1 /\ cells[i - 1] = <<cells[i][1], cells[i][2] - 1>>
    ELSE i > 1 => /\ cells[i - 1][1] < cells[i][1]
                  /\ cells[i - 1][2] = Outbound[cells[i - 1][1]]

(* All of the last one, which comes before what waits in the queue.        *)
Closed(cells, queue, last) ==
  /\ \A i \in 1 .. Len(queue) : queue[i] <= last
  /\ \A i, k \in 1 .. Len(queue) : i < k => queue[i] < queue[k]
  /\ cells # <<>> =>
       /\ cells[Len(cells)][2] = Outbound[cells[Len(cells)][1]]
       /\ cells[Len(cells)][1] <= last
       /\ \A i \in 1 .. Len(queue) : cells[Len(cells)][1] < queue[i]

OutwardInv ==
  ~spilled =>
    /\ Ascends(wire)
    /\ conn = "open" => Ascends(Outgoing) /\ Closed(Outgoing, outq, called)

IInv == TypeOK /\ Session /\ InwardInv /\ OutwardInv

--------------------------------------------------------------------------------
(* The constants, and sequences cut in two.                                *)
LEMMA Sizes ==
  /\ Chunk \in Nat /\ RecvMax \in Nat /\ SendMax \in Nat /\ BufferMax \in Nat
  /\ QueueSize \in Nat /\ Chunk > 0 /\ BufferMax > 0 /\ QueueSize > 0
  /\ Replies \in Nat
  /\ Inbound \in Seq(Nat \ {0}) /\ Outbound \in Seq(Nat \ {0})
<1>1. {Chunk, RecvMax, SendMax, BufferMax, QueueSize} \subseteq Nat \ {0}
  BY LinkAssumption
<1> QED BY <1>1, LinkAssumption

LEMMA CellsAre ==
  ASSUME NEW sizes \in Seq(Nat \ {0})
  PROVE  /\ DOMAIN sizes = 1 .. Len(sizes) /\ Len(sizes) \in Nat
         /\ \A id \in 1 .. Len(sizes) : sizes[id] \in Nat /\ sizes[id] > 0
         /\ \A c \in Cells(sizes) :
              /\ c = <<c[1], c[2]>> /\ c[1] \in 1 .. Len(sizes)
              /\ c[2] \in Nat /\ 1 <= c[2] /\ c[2] <= sizes[c[1]]
         /\ \A id \in 1 .. Len(sizes) : \A k \in 1 .. sizes[id] :
              <<id, k>> \in Cells(sizes)
<1>1. DOMAIN sizes = 1 .. Len(sizes) /\ Len(sizes) \in Nat BY LenProperties
<1>2. \A id \in 1 .. Len(sizes) : sizes[id] \in Nat /\ sizes[id] > 0
  BY ElementOfSeq
<1>3. ASSUME NEW c \in Cells(sizes)
      PROVE  /\ c = <<c[1], c[2]>> /\ c[1] \in 1 .. Len(sizes)
             /\ c[2] \in Nat /\ 1 <= c[2] /\ c[2] <= sizes[c[1]]
  <2>1. PICK id \in 1 .. Len(sizes) : c \in {id} \X (1 .. sizes[id])
    BY <1>1 DEF Cells
  <2>2. sizes[id] \in Nat BY <1>2
  <2> QED BY <2>1, <2>2
<1>4. ASSUME NEW id \in 1 .. Len(sizes), NEW k \in 1 .. sizes[id]
      PROVE  <<id, k>> \in Cells(sizes)
  BY <1>1 DEF Cells
<1> QED BY <1>1, <1>2, <1>3, <1>4

LEMMA PacketIs ==
  ASSUME NEW sizes \in Seq(Nat \ {0}), NEW id \in 1 .. Len(sizes)
  PROVE  /\ Packet(sizes, id) \in Seq(Cells(sizes))
         /\ Len(Packet(sizes, id)) = sizes[id] /\ Packet(sizes, id) # <<>>
         /\ \A i \in 1 .. sizes[id] : Packet(sizes, id)[i] = <<id, i>>
<1>1. sizes[id] \in Nat /\ sizes[id] > 0 BY CellsAre
<1>2. \A i \in 1 .. sizes[id] : <<id, i>> \in Cells(sizes) BY CellsAre
<1>3. Packet(sizes, id) \in [1 .. sizes[id] -> Cells(sizes)] BY <1>2 DEF Packet
<1>4. /\ Packet(sizes, id) \in Seq(Cells(sizes)) /\ Len(Packet(sizes, id)) = sizes[id]
  BY <1>1, <1>3
<1>5. Packet(sizes, id) # <<>> BY <1>1, <1>4
<1> QED BY <1>4, <1>5 DEF Packet

LEMMA CutInTwo ==
  ASSUME NEW S, NEW s \in Seq(S), NEW n \in Nat
  PROVE  /\ Front(s, n) \in Seq(S) /\ Rest(s, n) \in Seq(S)
         /\ Len(Front(s, n)) = IF n < Len(s) THEN n ELSE Len(s)
         /\ Len(Rest(s, n)) = IF n < Len(s) THEN Len(s) - n ELSE 0
         /\ \A i \in 1 .. Len(Front(s, n)) : Front(s, n)[i] = s[i]
         /\ \A i \in 1 .. Len(Rest(s, n)) : Rest(s, n)[i] = s[n + i]
         /\ Front(s, n) \o Rest(s, n) = s
<1>1. Len(s) \in Nat /\ \A i \in 1 .. Len(s) : s[i] \in S
  BY LenProperties, ElementOfSeq
<1> DEFINE k == Least(n, Len(s))
<1>2. k \in 0 .. Len(s) /\ k = IF n < Len(s) THEN n ELSE Len(s)
  BY <1>1 DEF Least
<1> HIDE DEF k
<1>3. /\ Front(s, n) \in Seq(S) /\ Len(Front(s, n)) = k
      /\ \A i \in 1 .. k : Front(s, n)[i] = s[i]
  <2>1. Front(s, n) = SubSeq(s, 1, k) BY DEF Front, k
  <2>2. \A i \in 1 .. k : s[i] \in S BY <1>1, <1>2
  <2>3. k \in Int /\ 1 \in Int BY <1>2
  <2>4. /\ SubSeq(s, 1, k) \in Seq(S)
        /\ Len(SubSeq(s, 1, k)) = IF 1 <= k THEN k - 1 + 1 ELSE 0
        /\ \A i \in 1 .. k - 1 + 1 : SubSeq(s, 1, k)[i] = s[1 + i - 1]
    BY <2>2, <2>3, SubSeqProperties
  <2> QED BY <1>2, <2>1, <2>4
<1>4. /\ Rest(s, n) \in Seq(S)
      /\ Len(Rest(s, n)) = IF n < Len(s) THEN Len(s) - n ELSE 0
      /\ \A i \in 1 .. Len(s) - n : Rest(s, n)[i] = s[n + i]
  <2>1. \A i \in n + 1 .. Len(s) : s[i] \in S BY <1>1
  <2>2. n + 1 \in Int /\ Len(s) \in Int BY <1>1
  <2>3. /\ SubSeq(s, n + 1, Len(s)) \in Seq(S)
        /\ Len(SubSeq(s, n + 1, Len(s))) =
             IF n + 1 <= Len(s) THEN Len(s) - (n + 1) + 1 ELSE 0
        /\ \A i \in 1 .. Len(s) - (n + 1) + 1 :
             SubSeq(s, n + 1, Len(s))[i] = s[n + 1 + i - 1]
    BY <2>1, <2>2, SubSeqProperties
  <2> QED BY <1>1, <2>3 DEF Rest
<1>5. PICK f \in Seq(S) : f = Front(s, n) BY <1>3
<1>6. PICK r \in Seq(S) : r = Rest(s, n) BY <1>4
<1>7. PICK c \in Seq(S) : c = f \o r BY ConcatProperties
<1>8. c = s
  <2>1. /\ Len(c) = Len(f) + Len(r)
        /\ \A i \in 1 .. Len(f) + Len(r) :
             c[i] = IF i <= Len(f) THEN f[i] ELSE r[i - Len(f)]
    BY <1>7, ConcatProperties
  <2>2. Len(f) = k /\ Len(r) = IF n < Len(s) THEN Len(s) - n ELSE 0
    BY <1>3, <1>4, <1>5, <1>6
  <2>3. Len(c) = Len(s) BY <1>1, <1>2, <2>1, <2>2
  <2>4. ASSUME NEW i \in 1 .. Len(s) PROVE c[i] = s[i]
    <3>1. i \in 1 .. Len(f) + Len(r) BY <1>1, <1>2, <2>1, <2>2, <2>3
    <3>2. CASE i <= k
      <4>1. c[i] = f[i] /\ f[i] = s[i] BY <1>2, <1>3, <1>5, <2>1, <2>2, <3>1, <3>2
      <4> QED BY <4>1
    <3>3. CASE i > k
      <4>1. k = n /\ i - k \in 1 .. Len(s) - n BY <1>1, <1>2, <3>3
      <4>2. r[i - k] = s[n + (i - k)] BY <1>4, <1>6, <4>1
      <4>3. n + (i - k) = i /\ ~(i <= k) BY <1>2, <3>3, <4>1
      <4>4. c[i] = r[i - k] BY <2>1, <2>2, <3>1, <4>3
      <4> QED BY <4>2, <4>3, <4>4
    <3>4. k \in Int /\ i \in Int BY <1>1, <1>2
    <3> QED BY <3>2, <3>3, <3>4
  <2> QED BY <2>3, <2>4, SeqEqual
<1> QED BY <1>1, <1>2, <1>3, <1>4, <1>5, <1>6, <1>7, <1>8

(* Two sequences one behind the other, cell by cell.                       *)
LEMMA ConcatIs ==
  ASSUME NEW S, NEW s \in Seq(S), NEW t \in Seq(S)
  PROVE  /\ Len(s) \in Nat /\ Len(t) \in Nat /\ Len(s \o t) = Len(s) + Len(t)
         /\ \A i \in 1 .. Len(s) : (s \o t)[i] = s[i]
         /\ \A i \in 1 .. Len(t) : (s \o t)[Len(s) + i] = t[i]
<1>1. PICK u \in Seq(S) : u = s \o t BY ConcatProperties
<1>2. /\ Len(u) = Len(s) + Len(t)
      /\ \A i \in 1 .. Len(s) + Len(t) :
           u[i] = IF i <= Len(s) THEN s[i] ELSE t[i - Len(s)]
  BY <1>1, ConcatProperties
<1>3. Len(s) \in Nat /\ Len(t) \in Nat BY LenProperties
<1>4. ASSUME NEW i \in 1 .. Len(s) PROVE u[i] = s[i]
  <2>1. i \in 1 .. Len(s) + Len(t) /\ i <= Len(s) BY <1>3
  <2> QED BY <1>2, <2>1
<1>5. ASSUME NEW i \in 1 .. Len(t) PROVE u[Len(s) + i] = t[i]
  <2>1. /\ Len(s) + i \in 1 .. Len(s) + Len(t) /\ ~(Len(s) + i <= Len(s))
        /\ (Len(s) + i) - Len(s) = i
    BY <1>3
  <2> QED BY <1>2, <2>1
<1> QED BY <1>1, <1>2, <1>3, <1>4, <1>5

(* Cutting off no more than what comes first leaves the second alone.      *)
LEMMA RestOfConcat ==
  ASSUME NEW S, NEW s \in Seq(S), NEW t \in Seq(S), NEW n \in 0 .. Len(s)
  PROVE  Rest(s \o t, n) = Rest(s, n) \o t
<1>1. PICK u \in Seq(S) : u = s \o t BY ConcatProperties
<1>2. /\ Len(s) \in Nat /\ Len(t) \in Nat /\ Len(u) = Len(s) + Len(t)
      /\ \A i \in 1 .. Len(s) : u[i] = s[i]
      /\ \A i \in 1 .. Len(t) : u[Len(s) + i] = t[i]
  BY <1>1, ConcatIs
<1>3. n \in Nat /\ n <= Len(s) /\ Len(s) \in Nat /\ Len(t) \in Nat BY <1>2
<1>4. PICK r \in Seq(S) : r = Rest(s, n) BY <1>3, CutInTwo
<1>5. Len(r) = Len(s) - n /\ \A i \in 1 .. Len(r) : r[i] = s[n + i]
  <2>1. Len(r) = IF n < Len(s) THEN Len(s) - n ELSE 0 BY <1>4, <1>3, CutInTwo
  <2>2. \A i \in 1 .. Len(r) : r[i] = s[n + i] BY <1>4, <1>3, CutInTwo
  <2> QED BY <1>3, <2>1, <2>2
<1>6. PICK q \in Seq(S) : q = Rest(u, n) BY <1>3, CutInTwo
<1>7. Len(q) = Len(u) - n /\ \A i \in 1 .. Len(q) : q[i] = u[n + i]
  <2>1. Len(q) = IF n < Len(u) THEN Len(u) - n ELSE 0 BY <1>6, <1>3, CutInTwo
  <2>2. \A i \in 1 .. Len(q) : q[i] = u[n + i] BY <1>6, <1>3, CutInTwo
  <2> QED BY <1>2, <1>3, <2>1, <2>2
<1>8. PICK p \in Seq(S) : p = r \o t BY ConcatProperties
<1>9. /\ Len(p) = Len(r) + Len(t)
      /\ \A i \in 1 .. Len(r) : p[i] = r[i]
      /\ \A i \in 1 .. Len(t) : p[Len(r) + i] = t[i]
  BY <1>8, ConcatIs, SMTT(20)
<1>10. Len(r) = Len(s) - n /\ Len(p) = Len(r) + Len(t) /\ Len(q) = Len(p)
  BY <1>2, <1>5, <1>7, <1>9, <1>3
<1>11. ASSUME NEW i \in 1 .. Len(q) PROVE q[i] = p[i]
  <2>1. q[i] = u[n + i] BY <1>7
  <2>2. CASE i <= Len(r)
    <3>1. i \in 1 .. Len(r) /\ n + i \in 1 .. Len(s) BY <1>3, <1>10, <2>2
    <3>2. u[n + i] = s[n + i] BY <1>2, <3>1
    <3>3. p[i] = r[i] /\ r[i] = s[n + i] BY <1>5, <1>9, <3>1
    <3> QED BY <2>1, <3>2, <3>3
  <2>3. CASE i > Len(r)
    <3>1. PICK k \in 1 .. Len(t) : k = i - Len(r)
      <4>1. i - Len(r) \in 1 .. Len(t) BY <1>3, <1>10, <2>3
      <4> QED BY <4>1
    <3>2. n + i = Len(s) + k /\ i = Len(r) + k BY <1>3, <1>10, <3>1
    <3>3. u[n + i] = t[k] BY <1>2, <3>2
    <3>4. p[i] = t[k] BY <1>9, <3>2
    <3> QED BY <2>1, <3>3, <3>4
  <2> QED BY <1>3, <1>10, <2>2, <2>3
<1>12. q = p BY <1>11, <1>10, SeqEqual
<1> QED BY <1>1, <1>4, <1>6, <1>8, <1>12

(* Three buffers one behind the other.                                     *)
LEMMA ThreeInARow ==
  ASSUME NEW S, NEW s \in Seq(S), NEW t \in Seq(S), NEW u \in Seq(S)
  PROVE  /\ s \o (t \o u) \in Seq(S) /\ (s \o t) \o u = s \o (t \o u)
         /\ s \o <<>> = s /\ <<>> \o s = s
BY ConcatProperties, ConcatAssociative, ConcatEmptySeq

--------------------------------------------------------------------------------
(* Runs of the server's packets: what comes first in one is one; what is   *)
(* left when the first packet is taken is one; and a packet that comes     *)
(* after the last one makes one.                                           *)
InCells == Seq(Cells(Inbound))

LEMMA InCell ==
  ASSUME NEW s \in InCells
  PROVE  /\ Len(s) \in Nat /\ (s = <<>> <=> Len(s) = 0)
         /\ \A i \in 1 .. Len(s) :
              /\ s[i][1] \in 1 .. Len(Inbound) /\ s[i][2] \in Nat /\ 1 <= s[i][2]
              /\ s[i][2] <= Inbound[s[i][1]] /\ Inbound[s[i][1]] \in Nat
<1>1. Len(s) \in Nat /\ (s = <<>> <=> Len(s) = 0)
  BY LenProperties, EmptySeq DEF InCells
<1>2. ASSUME NEW i \in 1 .. Len(s)
      PROVE  /\ s[i][1] \in 1 .. Len(Inbound) /\ s[i][2] \in Nat /\ 1 <= s[i][2]
             /\ s[i][2] <= Inbound[s[i][1]] /\ Inbound[s[i][1]] \in Nat
  <2>1. PICK c \in Cells(Inbound) : c = s[i] BY ElementOfSeq DEF InCells
  <2>2. c[1] \in 1 .. Len(Inbound) /\ c[2] \in Nat /\ 1 <= c[2] /\ c[2] <= Inbound[c[1]]
    BY CellsAre, Sizes
  <2>3. Inbound[c[1]] \in Nat BY <2>2, CellsAre, Sizes
  <2> QED BY <2>1, <2>2, <2>3
<1> QED BY <1>1, <1>2

LEMMA RunPrefix ==
  ASSUME NEW s \in InCells, NEW t \in InCells, NEW id, Run(s \o t, id)
  PROVE  Run(s, id)
<1>1. PICK u \in InCells : u = s \o t BY ConcatProperties DEF InCells
<1>2. /\ Len(u) = Len(s) + Len(t) /\ Len(s) \in Nat /\ Len(t) \in Nat
      /\ \A i \in 1 .. Len(s) : u[i] = s[i]
  BY <1>1, ConcatProperties, LenProperties DEF InCells
<1>3. Run(u, id) BY <1>1
<1>4. s # <<>> => s[1] = <<id, 1>>
  <2>1. ASSUME s # <<>> PROVE s[1] = <<id, 1>>
    <3>1. 1 \in 1 .. Len(s) /\ u # <<>> BY <1>2, <2>1, InCell
    <3> QED BY <1>2, <1>3, <3>1 DEF Run
  <2> QED BY <2>1
<1>5. ASSUME NEW i \in 1 .. Len(s), NEW m \in 0 .. Len(s), i + m <= Len(s),
             s[i][2] + m <= Inbound[s[i][1]]
      PROVE  s[i + m] = <<s[i][1], s[i][2] + m>>
  <2>1. i \in 1 .. Len(u) /\ m \in 0 .. Len(u) /\ i + m <= Len(u) BY <1>2, <1>5
  <2>2. u[i] = s[i] /\ i + m \in 1 .. Len(s) BY <1>2, <1>5
  <2>3. u[i + m] = <<u[i][1], u[i][2] + m>> BY <1>3, <1>5, <2>1, <2>2 DEF Run
  <2> QED BY <1>2, <2>2, <2>3
<1>6. ASSUME NEW i \in 1 .. Len(s), i < Len(s), s[i][2] = Inbound[s[i][1]]
      PROVE  s[i + 1] = <<s[i][1] + 1, 1>>
  <2>1. i \in 1 .. Len(u) /\ i < Len(u) /\ i + 1 \in 1 .. Len(s) BY <1>2, <1>6
  <2> QED BY <1>2, <1>3, <1>6, <2>1 DEF Run
<1> QED BY <1>4, <1>5, <1>6 DEF Run

LEMMA RunAhead ==
  ASSUME NEW s \in InCells, NEW id, Run(s, id), s # <<>>, Len(s) >= Inbound[id]
  PROVE  /\ id \in 1 .. Len(Inbound) /\ Inbound[id] \in 1 .. Len(s)
         /\ \A i \in 1 .. Inbound[id] : s[i] = <<id, i>>
<1>1. s[1] = <<id, 1>> /\ Len(s) \in Nat /\ Len(s) > 0 BY InCell DEF Run
<1>2. /\ id \in 1 .. Len(Inbound) /\ Inbound[id] \in Nat /\ 1 <= Inbound[id]
  <2>1. 1 \in 1 .. Len(s) BY <1>1
  <2>2. s[1][1] = id /\ s[1][2] = 1 BY <1>1
  <2> QED BY <2>1, <2>2, InCell
<1>3. ASSUME NEW i \in 1 .. Inbound[id] PROVE s[i] = <<id, i>>
  <2>1. i - 1 \in 0 .. Len(s) /\ 1 + (i - 1) = i /\ i <= Len(s) /\ 1 \in 1 .. Len(s)
    BY <1>1, <1>2
  <2>2. s[1][1] = id /\ s[1][2] = 1 BY <1>1
  <2>3. s[1][2] + (i - 1) <= Inbound[s[1][1]] BY <1>2, <2>2
  <2>4. s[1 + (i - 1)] = <<s[1][1], s[1][2] + (i - 1)>>
    BY <2>1, <2>3 DEF Run
  <2> QED BY <2>1, <2>2, <2>4
<1> QED BY <1>1, <1>2, <1>3

LEMMA RunShrinks ==
  ASSUME NEW s \in InCells, NEW id, Run(s, id), s # <<>>, Len(s) >= Inbound[id]
  PROVE  Run(Rest(s, Inbound[id]), id + 1)
<1>1. /\ id \in 1 .. Len(Inbound) /\ Inbound[id] \in 1 .. Len(s)
      /\ \A i \in 1 .. Inbound[id] : s[i] = <<id, i>> /\ Len(s) \in Nat
  BY RunAhead, InCell
<1>2. PICK n \in Nat : n = Inbound[id] BY <1>1
<1>3. PICK r \in InCells : r = Rest(s, n) BY CutInTwo DEF InCells
<1>4. Len(r) = IF n < Len(s) THEN Len(s) - n ELSE 0
  BY <1>3, CutInTwo DEF InCells
<1>5. \A i \in 1 .. Len(r) : r[i] = s[n + i] BY <1>3, CutInTwo DEF InCells
<1>6. Len(r) = Len(s) - n /\ n \in 1 .. Len(s) /\ s[n] = <<id, n>> /\ Len(s) \in Nat
  BY <1>1, <1>2, <1>4
<1>7. ASSUME r # <<>> PROVE r[1] = <<id + 1, 1>>
  <2>1. Len(r) > 0 BY <1>7, InCell
  <2>2. n < Len(s) /\ 1 \in 1 .. Len(r) BY <1>6, <2>1
  <2>3. s[n][1] = id /\ s[n][2] = n BY <1>6
  <2>4. s[n][2] = Inbound[s[n][1]] BY <1>2, <2>3
  <2>5. s[n + 1] = <<s[n][1] + 1, 1>> BY <1>6, <2>2, <2>4 DEF Run
  <2> QED BY <1>5, <2>2, <2>3, <2>5
<1>8. ASSUME NEW i \in 1 .. Len(r), NEW m \in 0 .. Len(r), i + m <= Len(r),
             r[i][2] + m <= Inbound[r[i][1]]
      PROVE  r[i + m] = <<r[i][1], r[i][2] + m>>
  <2>1. /\ n + i \in 1 .. Len(s) /\ m \in 0 .. Len(s) /\ (n + i) + m <= Len(s)
        /\ i + m \in 1 .. Len(r) /\ n + (i + m) = (n + i) + m
    BY <1>6, <1>8
  <2>2. r[i] = s[n + i] /\ r[i + m] = s[n + (i + m)] BY <1>5, <2>1
  <2>3. s[(n + i) + m] = <<s[n + i][1], s[n + i][2] + m>>
    BY <1>8, <2>1, <2>2 DEF Run
  <2> QED BY <2>1, <2>2, <2>3
<1>9. ASSUME NEW i \in 1 .. Len(r), i < Len(r), r[i][2] = Inbound[r[i][1]]
      PROVE  r[i + 1] = <<r[i][1] + 1, 1>>
  <2>1. /\ n + i \in 1 .. Len(s) /\ n + i < Len(s) /\ i + 1 \in 1 .. Len(r)
        /\ n + (i + 1) = (n + i) + 1
    BY <1>6, <1>9
  <2>2. r[i] = s[n + i] /\ r[i + 1] = s[n + (i + 1)] BY <1>5, <2>1
  <2>3. s[(n + i) + 1] = <<s[n + i][1] + 1, 1>>
    BY <1>9, <2>1, <2>2 DEF Run
  <2> QED BY <2>1, <2>2, <2>3
<1>10. Run(r, id + 1) BY <1>7, <1>8, <1>9 DEF Run
<1> QED BY <1>2, <1>3, <1>10

LEMMA RunGrows ==
  ASSUME NEW s \in InCells, NEW id \in 1 .. Len(Inbound) + 1, Run(s, id),
         NEW last \in 0 .. Len(Inbound) - 1, EndsWith(s, id - 1, last)
  PROVE  /\ Run(s \o Packet(Inbound, last + 1), id)
         /\ EndsWith(s \o Packet(Inbound, last + 1), id - 1, last + 1)
<1>1. PICK new \in 1 .. Len(Inbound) : new = last + 1
  BY LenProperties, Sizes
<1>2. last \in Int /\ id \in Int BY LenProperties, Sizes
<1>3. PICK p \in InCells : p = Packet(Inbound, new)
  BY PacketIs, Sizes DEF InCells
<1>4. /\ Len(p) = Inbound[new] /\ Len(p) \in Nat /\ Len(p) > 0
      /\ \A i \in 1 .. Len(p) : p[i] = <<new, i>>
  <2>1. Len(p) = Inbound[new] /\ \A i \in 1 .. Inbound[new] : p[i] = <<new, i>>
    BY <1>3, PacketIs, Sizes
  <2>2. Inbound[new] \in Nat /\ Inbound[new] > 0 BY CellsAre, Sizes
  <2> QED BY <2>1, <2>2
<1>5. PICK u \in InCells : u = s \o p BY ConcatProperties DEF InCells
<1>6. /\ Len(s) \in Nat /\ Len(u) = Len(s) + Len(p)
      /\ \A i \in 1 .. Len(s) : u[i] = s[i]
      /\ \A i \in 1 .. Len(p) : u[Len(s) + i] = p[i]
  <2>1. /\ Len(u) = Len(s) + Len(p)
        /\ \A i \in 1 .. Len(s) + Len(p) :
             u[i] = IF i <= Len(s) THEN s[i] ELSE p[i - Len(s)]
    BY <1>5, ConcatProperties DEF InCells
  <2>2. Len(s) \in Nat BY InCell
  <2>3. ASSUME NEW i \in 1 .. Len(p) PROVE u[Len(s) + i] = p[i]
    <3>1. /\ Len(s) + i \in 1 .. Len(s) + Len(p) /\ ~(Len(s) + i <= Len(s))
          /\ (Len(s) + i) - Len(s) = i
      BY <1>4, <2>2
    <3> QED BY <2>1, <3>1
  <2>4. ASSUME NEW i \in 1 .. Len(s) PROVE u[i] = s[i]
    <3>1. i \in 1 .. Len(s) + Len(p) /\ i <= Len(s) BY <1>4, <2>2
    <3> QED BY <2>1, <3>1
  <2> QED BY <2>1, <2>2, <2>3, <2>4
<1>7. /\ Len(s) \in Nat /\ Len(p) \in Nat /\ Len(p) > 0
      /\ Len(u) = Len(s) + Len(p)
  BY <1>4, <1>6
<1>8. EndsWith(u, id - 1, new)
  <2>1. u # <<>> /\ Len(u) = Len(s) + Len(p) /\ Len(p) \in 1 .. Len(p)
    BY <1>4, <1>6, InCell, SMTT(40)
  <2>2. u[Len(u)] = <<new, Inbound[new]>> BY <1>4, <1>6, <2>1
  <2> QED BY <2>1, <2>2 DEF EndsWith
<1>9. u # <<>> => u[1] = <<id, 1>>
  <2>1. CASE s = <<>>
    <3>1. id = new /\ Len(s) = 0 BY <1>1, <1>2, <2>1, InCell DEF EndsWith
    <3>2. 1 \in 1 .. Len(p) /\ Len(s) + 1 = 1 BY <1>4, <3>1
    <3> QED BY <1>4, <1>6, <3>1, <3>2
  <2>2. CASE s # <<>>
    <3>1. 1 \in 1 .. Len(s) /\ s[1] = <<id, 1>> BY <2>2, InCell DEF Run
    <3> QED BY <1>6, <3>1
  <2> QED BY <2>1, <2>2
<1>10. ASSUME s # <<>>
       PROVE  /\ Len(s) \in 1 .. Len(s) /\ s[Len(s)][1] = last
              /\ s[Len(s)][2] = Inbound[last]
  BY <1>6, <1>10, InCell DEF EndsWith
<1>11. ASSUME NEW i \in 1 .. Len(u), NEW m \in 0 .. Len(u), i + m <= Len(u),
              u[i][2] + m <= Inbound[u[i][1]]
       PROVE  u[i + m] = <<u[i][1], u[i][2] + m>>
  <2>1. CASE i + m <= Len(s)
    <3>1. i \in 1 .. Len(s) /\ m \in 0 .. Len(s) /\ i + m \in 1 .. Len(s)
      BY <1>11, <1>7, <2>1
    <3>2. u[i] = s[i] /\ u[i + m] = s[i + m] BY <1>6, <3>1
    <3> QED BY <1>11, <2>1, <3>1, <3>2 DEF Run
  <2>2. CASE i > Len(s)
    <3>1. PICK k \in 1 .. Len(p) : i = Len(s) + k
      <4>1. PICK a \in Nat, z \in Nat : a = Len(s) /\ z = Len(p) BY <1>7
      <4>2. i <= a + z BY <1>7, <4>1
      <4>3. i - a \in 1 .. z /\ i = a + (i - a) BY <2>2, <4>1, <4>2
      <4> QED BY <4>1, <4>3
    <3>2. k + m \in 1 .. Len(p) /\ i + m = Len(s) + (k + m)
      <4>1. k \in Nat /\ k >= 1 /\ m \in Nat /\ i + m <= Len(s) + Len(p)
        BY <1>11, <1>7
      <4> QED BY <1>7, <3>1, <4>1
    <3>3. u[i] = <<new, k>> /\ u[i + m] = <<new, k + m>>
      BY <1>4, <1>6, <3>1, <3>2
    <3> QED BY <3>3
  <2>3. CASE i <= Len(s) /\ i + m > Len(s)
    <3>1. PICK n \in 0 .. Len(s) : n = Len(s) - i
      <4>1. Len(s) - i \in 0 .. Len(s) BY <1>7, <2>3
      <4> QED BY <4>1
    <3>2. i \in 1 .. Len(s) /\ i + n = Len(s) /\ n < m BY <1>7, <2>3, <3>1
    <3>3. u[i] = s[i] BY <1>6, <3>2
    <3>4. /\ s[i][2] \in Nat /\ Inbound[s[i][1]] \in Nat /\ s # <<>>
          /\ s[i][2] + m <= Inbound[s[i][1]]
      <4>1. s[i][2] \in Nat /\ Inbound[s[i][1]] \in Nat BY <3>2, InCell
      <4>2. s # <<>> BY <1>7, <3>2, InCell
      <4> QED BY <1>11, <3>3, <4>1, <4>2
    <3>5. s[i][2] + n <= Inbound[s[i][1]]
      <4>1. n \in Int /\ m \in Int BY <1>7
      <4>2. PICK a \in Nat, z \in Nat : a = s[i][2] /\ z = Inbound[s[i][1]]
        BY <3>4
      <4>3. a + m <= z /\ n < m BY <3>2, <3>4, <4>2
      <4>4. a + n <= z BY <4>1, <4>3
      <4> QED BY <4>2, <4>4
    <3>6. i + n <= Len(s) BY <1>7, <3>2
    <3>7. s[i + n] = <<s[i][1], s[i][2] + n>>
      BY <3>1, <3>2, <3>5, <3>6 DEF Run
    <3>8. s[Len(s)] = <<s[i][1], s[i][2] + n>> BY <3>2, <3>7
    <3>9. last = s[i][1] /\ Inbound[last] = s[i][2] + n
      BY <1>10, <3>4, <3>8, SMTT(20)
    <3>10. FALSE
      <4>1. PICK a \in Nat, k \in Nat : a = s[i][2] /\ k = m BY <1>7, <3>4, SMTT(40)
      <4>2. a + k <= a + n BY <3>4, <3>9, <4>1
      <4> QED BY <3>2, <4>1, <4>2, SMTT(40)
    <3> QED BY <3>10
  <2> QED BY <1>7, <2>1, <2>2, <2>3, SMTT(40)
<1>12. ASSUME NEW i \in 1 .. Len(u), i < Len(u), u[i][2] = Inbound[u[i][1]]
       PROVE  u[i + 1] = <<u[i][1] + 1, 1>>
  <2>1. CASE i < Len(s)
    <3>1. i \in 1 .. Len(s) /\ i + 1 \in 1 .. Len(s) BY <1>6, <2>1
    <3>2. u[i] = s[i] /\ u[i + 1] = s[i + 1] BY <1>6, <3>1
    <3> QED BY <1>12, <2>1, <3>1, <3>2 DEF Run
  <2>2. CASE i = Len(s)
    <3>1. s # <<>> /\ 1 \in 1 .. Len(p) /\ i \in 1 .. Len(s)
      BY <1>4, <1>6, <2>2, InCell
    <3>2. u[i] = s[i] /\ u[Len(s) + 1] = p[1] BY <1>6, <3>1
    <3>3. s[i][1] = last BY <1>10, <2>2, <3>1
    <3> QED BY <1>1, <1>4, <2>2, <3>1, <3>2, <3>3
  <2>3. CASE i > Len(s)
    <3>1. PICK k \in 1 .. Len(p) : i = Len(s) + k
      <4>1. i - Len(s) \in 1 .. Len(p) /\ i = Len(s) + (i - Len(s))
        BY <1>4, <1>6, <2>3
      <4> QED BY <4>1
    <3>2. u[i] = <<new, k>> BY <1>4, <1>6, <3>1
    <3>3. k = Len(p) BY <1>4, <1>12, <3>2
    <3> QED BY <1>12, <1>7, <3>1, <3>3
  <2> QED BY <1>7, <2>1, <2>2, <2>3
<1>13. Run(u, id) BY <1>9, <1>11, <1>12 DEF Run
<1> QED BY <1>1, <1>3, <1>5, <1>8, <1>13

--------------------------------------------------------------------------------
(* Whole packets on their way out: what comes first of them is such, and a *)
(* packet with a higher number can come after them.                        *)
OutCells == Seq(Cells(Outbound))

LEMMA OutCell ==
  ASSUME NEW s \in OutCells
  PROVE  /\ Len(s) \in Nat /\ (s = <<>> <=> Len(s) = 0)
         /\ \A i \in 1 .. Len(s) :
              /\ s[i][1] \in 1 .. Len(Outbound) /\ s[i][2] \in Nat /\ 1 <= s[i][2]
<1>1. Len(s) \in Nat /\ (s = <<>> <=> Len(s) = 0)
  BY LenProperties, EmptySeq DEF OutCells
<1>2. ASSUME NEW i \in 1 .. Len(s)
      PROVE  s[i][1] \in 1 .. Len(Outbound) /\ s[i][2] \in Nat /\ 1 <= s[i][2]
  <2>1. PICK c \in Cells(Outbound) : c = s[i] BY ElementOfSeq DEF OutCells
  <2>2. c[1] \in 1 .. Len(Outbound) /\ c[2] \in Nat /\ 1 <= c[2] BY CellsAre, Sizes
  <2> QED BY <2>1, <2>2
<1> QED BY <1>1, <1>2

LEMMA AscendsPrefix ==
  ASSUME NEW s \in OutCells, NEW t \in OutCells, Ascends(s \o t)
  PROVE  Ascends(s)
<1>1. PICK u \in OutCells : u = s \o t BY ConcatProperties DEF OutCells
<1>2. /\ Len(u) = Len(s) + Len(t) /\ Len(s) \in Nat /\ Len(t) \in Nat
      /\ \A i \in 1 .. Len(s) : u[i] = s[i]
  BY <1>1, ConcatProperties, LenProperties DEF OutCells
<1>3. Ascends(u) BY <1>1
<1>4. ASSUME NEW i \in 1 .. Len(s)
      PROVE  IF s[i][2] > 1
             THEN i > 1 /\ s[i - 1] = <<s[i][1], s[i][2] - 1>>
             ELSE i > 1 => /\ s[i - 1][1] < s[i][1]
                           /\ s[i - 1][2] = Outbound[s[i - 1][1]]
  <2>1. i \in 1 .. Len(u) /\ u[i] = s[i] BY <1>2
  <2>2. i > 1 => u[i - 1] = s[i - 1]
    <3>1. i > 1 => i - 1 \in 1 .. Len(s) BY <1>2
    <3> QED BY <1>2, <3>1
  <2>3. IF u[i][2] > 1
        THEN i > 1 /\ u[i - 1] = <<u[i][1], u[i][2] - 1>>
        ELSE i > 1 => /\ u[i - 1][1] < u[i][1]
                      /\ u[i - 1][2] = Outbound[u[i - 1][1]]
    BY <1>3, <2>1 DEF Ascends
  <2> QED BY <2>1, <2>2, <2>3
<1> QED BY <1>4 DEF Ascends

LEMMA AscendsGrows ==
  ASSUME NEW s \in OutCells, NEW id \in 1 .. Len(Outbound), Ascends(s),
         s # <<>> => /\ s[Len(s)][1] < id
                     /\ s[Len(s)][2] = Outbound[s[Len(s)][1]]
  PROVE  LET u == s \o Packet(Outbound, id)
         IN  u # <<>> /\ Ascends(u) /\ u[Len(u)] = <<id, Outbound[id]>>
<1>1. PICK p \in OutCells : p = Packet(Outbound, id)
  BY PacketIs, Sizes DEF OutCells
<1>2. /\ Len(p) = Outbound[id] /\ Len(p) \in Nat /\ Len(p) > 0
      /\ \A i \in 1 .. Len(p) : p[i] = <<id, i>>
  <2>1. Len(p) = Outbound[id] /\ \A i \in 1 .. Outbound[id] : p[i] = <<id, i>>
    BY <1>1, PacketIs, Sizes
  <2>2. Outbound[id] \in Nat /\ Outbound[id] > 0 BY CellsAre, Sizes
  <2> QED BY <2>1, <2>2
<1>3. PICK u \in OutCells : u = s \o p BY ConcatProperties DEF OutCells
<1>4. /\ Len(s) \in Nat /\ Len(u) = Len(s) + Len(p)
      /\ \A i \in 1 .. Len(s) + Len(p) :
           u[i] = IF i <= Len(s) THEN s[i] ELSE p[i - Len(s)]
  BY <1>3, ConcatProperties, OutCell DEF OutCells
<1>5. /\ Len(s) \in Nat /\ Len(p) \in Nat /\ Len(p) > 0 /\ Len(u) = Len(s) + Len(p)
  BY <1>2, <1>4
<1>6. ASSUME NEW k \in 1 .. Len(p) PROVE u[Len(s) + k] = <<id, k>>
  <2>1. /\ Len(s) + k \in 1 .. Len(s) + Len(p) /\ ~(Len(s) + k <= Len(s))
        /\ (Len(s) + k) - Len(s) = k
    BY <1>5
  <2> QED BY <1>2, <1>4, <2>1
<1>7. ASSUME NEW i \in 1 .. Len(s) PROVE u[i] = s[i]
  <2>1. i \in 1 .. Len(s) + Len(p) /\ i <= Len(s) BY <1>5
  <2> QED BY <1>4, <2>1
<1>8. u # <<>> /\ u[Len(u)] = <<id, Outbound[id]>>
  <2>1. Len(p) \in 1 .. Len(p) /\ Len(u) # 0 BY <1>5
  <2> QED BY <1>2, <1>5, <1>6, <2>1, OutCell
<1>9. ASSUME NEW i \in 1 .. Len(u)
      PROVE  IF u[i][2] > 1
             THEN i > 1 /\ u[i - 1] = <<u[i][1], u[i][2] - 1>>
             ELSE i > 1 => /\ u[i - 1][1] < u[i][1]
                           /\ u[i - 1][2] = Outbound[u[i - 1][1]]
  <2>1. CASE i <= Len(s)
    <3>1. i \in 1 .. Len(s) /\ (i > 1 => i - 1 \in 1 .. Len(s)) BY <1>5, <2>1
    <3>2. u[i] = s[i] /\ (i > 1 => u[i - 1] = s[i - 1]) BY <1>7, <3>1
    <3>3. IF s[i][2] > 1
          THEN i > 1 /\ s[i - 1] = <<s[i][1], s[i][2] - 1>>
          ELSE i > 1 => /\ s[i - 1][1] < s[i][1]
                        /\ s[i - 1][2] = Outbound[s[i - 1][1]]
      BY <3>1 DEF Ascends
    <3> QED BY <3>2, <3>3
  <2>2. CASE i > Len(s) + 1
    <3>1. PICK k \in 1 .. Len(p) : i = Len(s) + k /\ k > 1
      <4>1. i - Len(s) \in 1 .. Len(p) /\ i = Len(s) + (i - Len(s)) /\ i - Len(s) > 1
        BY <1>5, <2>2
      <4> QED BY <4>1
    <3>2. k - 1 \in 1 .. Len(p) /\ i - 1 = Len(s) + (k - 1) /\ i > 1
      BY <1>5, <3>1
    <3>3. u[i] = <<id, k>> /\ u[i - 1] = <<id, k - 1>> BY <1>6, <3>1, <3>2
    <3> QED BY <3>1, <3>2, <3>3
  <2>3. CASE i = Len(s) + 1
    <3>1. u[i] = <<id, 1>>
      <4>1. 1 \in 1 .. Len(p) BY <1>5
      <4> QED BY <1>6, <2>3, <4>1
    <3>2. ASSUME i > 1
          PROVE  u[i - 1][1] < id /\ u[i - 1][2] = Outbound[u[i - 1][1]]
      <4>1. Len(s) \in 1 .. Len(s) /\ i - 1 = Len(s) /\ Len(s) # 0 BY <1>5, <2>3, <3>2
      <4>2. u[i - 1] = s[Len(s)] /\ s # <<>> BY <1>7, <4>1, OutCell
      <4> QED BY <4>2
    <3>3. u[i][2] = 1 /\ u[i][1] = id BY <3>1
    <3> QED BY <3>2, <3>3
  <2> QED BY <1>5, <2>1, <2>2, <2>3
<1>10. Ascends(u) BY <1>9 DEF Ascends
<1> QED BY <1>1, <1>3, <1>8, <1>10

(* Three buffers on the way out.                                           *)
LEMMA OutRow ==
  ASSUME NEW s \in OutCells, NEW t \in OutCells, NEW u \in OutCells
  PROVE  (s \o t) \o u = s \o (t \o u)
BY ConcatAssociative DEF OutCells

LEMMA OutEnds ==
  ASSUME NEW s \in OutCells PROVE s \o <<>> = s /\ <<>> \o s = s
BY ConcatEmptySeq DEF OutCells

LEMMA Flushed ==
  ASSUME wire \in OutCells, sendb \in OutCells
  PROVE  \A more \in OutCells : (wire \o sendb) \o more = wire \o (sendb \o more)
<1>1. ASSUME NEW w \in OutCells, NEW b \in OutCells
      PROVE  \A more \in OutCells : (w \o b) \o more = w \o (b \o more)
  BY OutRow
<1> QED BY <1>1

(* What supla_esp_data_write makes of the cells it is given: as long as    *)
(* nothing spills they come after those that wait, and on a connection     *)
(* that is not open nothing leaves.                                        *)
LEMMA WroteKeeps ==
  ASSUME NEW cells \in OutCells, NEW rest \in OutCells, sendb \in OutCells,
         wire \in OutCells, Len(sendb) <= SendMax, spilled \in BOOLEAN,
         NEW first \in Results, NEW result \in {"ok", "busy", "error"},
         Wrote(cells, first, result)
  PROVE  /\ sendb' \in OutCells /\ wire' \in OutCells /\ Len(sendb') <= SendMax
         /\ spilled' \in BOOLEAN /\ (~spilled' => ~spilled)
         /\ conn = "open" /\ result # "error" /\ ~spilled' =>
              wire' \o (sendb' \o rest) = wire \o (sendb \o (cells \o rest))
         /\ conn # "open" /\ (cells = <<>> \/ result = "error") => wire' = wire
<1>1. \A more \in OutCells : (wire \o sendb) \o more = wire \o (sendb \o more)
  BY Flushed
<1>2. PICK flushed \in BOOLEAN : flushed <=> sendb # <<>> /\ first = "ok" OBVIOUS
<1>3. <<>> \in OutCells /\ Len(<<>>) = 0 BY EmptySeq DEF OutCells
<1>4. PICK waiting \in OutCells : waiting = IF flushed THEN <<>> ELSE sendb
  BY <1>3
<1>5. PICK gone \in OutCells : gone = IF flushed THEN wire \o sendb ELSE wire
  BY ConcatProperties DEF OutCells
<1>6. PICK append \in BOOLEAN : append <=> waiting # <<>> \/ result = "busy"
  OBVIOUS
<1>7. PICK fits \in BOOLEAN : fits <=> Len(waiting) + Len(cells) <= SendMax
  OBVIOUS
<1>8. /\ sendb' = IF append /\ fits THEN waiting \o cells ELSE waiting
      /\ wire'  = IF ~append /\ result = "ok" THEN gone \o cells ELSE gone
      /\ spilled' = \/ spilled
                    \/ /\ cells # <<>>
                       /\ IF append THEN ~fits ELSE result = "error"
  BY <1>2, <1>4, <1>5, <1>6, <1>7 DEF Wrote
<1>9. /\ Len(waiting) \in Nat /\ Len(cells) \in Nat /\ Len(sendb) \in Nat
      /\ SendMax \in Nat /\ (cells = <<>> <=> Len(cells) = 0)
  BY OutCell, Sizes
<1>10. Len(waiting) <= SendMax BY <1>3, <1>4, <1>9
<1>11. /\ waiting \o cells \in OutCells /\ gone \o cells \in OutCells
       /\ Len(waiting \o cells) = Len(waiting) + Len(cells)
  BY ConcatProperties DEF OutCells
<1>12. sendb' \in OutCells /\ Len(sendb') <= SendMax
  BY <1>7, <1>8, <1>10, <1>11
<1>13. wire' \in OutCells BY <1>8, <1>11
<1>14. spilled' \in BOOLEAN /\ (~spilled' => ~spilled)
  BY <1>8, Zenon
<1>15. ASSUME conn # "open", cells = <<>> \/ result = "error"
       PROVE  wire' = wire
  <2>1. first = "error" BY <1>15 DEF Results
  <2>2. gone = wire BY <1>2, <1>5, <2>1
  <2>3. gone \o <<>> = gone BY ConcatEmptySeq DEF OutCells
  <2> QED BY <1>8, <1>15, <2>2, <2>3
<1>16. ASSUME conn = "open", result # "error", ~spilled'
       PROVE  wire' \o (sendb' \o rest) = wire \o (sendb \o (cells \o rest))
  <2>1. cells # <<>> /\ append => fits BY <1>8, <1>16
  <2>2. append => fits BY <1>7, <1>9, <1>10, <2>1
  <2>3. PICK more \in OutCells : more = cells \o rest
    BY ConcatProperties DEF OutCells
  <2>4. gone \o (waiting \o more) = wire \o (sendb \o more)
    <3>1. CASE flushed
      <4>1. gone = wire \o sendb /\ waiting = <<>> BY <1>4, <1>5, <3>1
      <4>2. <<>> \o more = more BY OutEnds
      <4> QED BY <1>1, <4>1, <4>2
    <3>2. CASE ~flushed BY <1>4, <1>5, <3>2
    <3> QED BY <3>1, <3>2
  <2>5. CASE append
    <3>1. sendb' = waiting \o cells /\ wire' = gone
      <4>1. append /\ fits BY <2>2, <2>5
      <4>2. sendb' = waiting \o cells BY <1>8, <4>1
      <4>3. wire' = gone BY <1>8, <4>1
      <4> QED BY <4>2, <4>3
    <3>2. (waiting \o cells) \o rest = waiting \o (cells \o rest) BY OutRow, SMTT(40)
    <3> QED BY <2>3, <2>4, <3>1, <3>2
  <2>6. CASE ~append
    <3>1. result = "ok" /\ waiting = <<>> BY <1>6, <1>16, <2>6
    <3>2. sendb' = <<>> /\ wire' = gone \o cells BY <1>8, <2>6, <3>1
    <3>3. <<>> \o rest = rest /\ <<>> \o more = more BY OutEnds
    <3>4. (gone \o cells) \o rest = gone \o (cells \o rest) BY OutRow, SMTT(40)
    <3> QED BY <2>3, <2>4, <3>1, <3>2, <3>3, <3>4
  <2> QED BY <2>5, <2>6
<1> QED BY <1>12, <1>13, <1>14, <1>15, <1>16

--------------------------------------------------------------------------------
(* The queue of calls.  More calls leave it in order and behind what has   *)
(* left it; the first of it follows what is on its way out.                *)
Queues == Seq(DOMAIN Outbound)

LEMMA InQueue ==
  ASSUME NEW q \in Queues
  PROVE  /\ Len(q) \in Nat /\ Len(Outbound) \in Nat
         /\ \A i \in 1 .. Len(q) : q[i] \in 1 .. Len(Outbound)
<1>1. Len(q) \in Nat /\ \A i \in 1 .. Len(q) : q[i] \in DOMAIN Outbound
  BY LenProperties, ElementOfSeq DEF Queues
<1>2. DOMAIN Outbound = 1 .. Len(Outbound) /\ Len(Outbound) \in Nat
  BY CellsAre, Sizes
<1> QED BY <1>1, <1>2

LEMMA QueueGrows ==
  ASSUME NEW q \in Queues, NEW n \in Nat, NEW k \in Nat, n + k <= Len(Outbound)
  PROVE  LET p == Pushed(q, [i \in 1 .. k |-> n + i])
         IN  /\ p \in Queues /\ Len(p) <= QueueSize
             /\ \A i \in 1 .. Len(p) : \/ i <= Len(q) /\ p[i] = q[i]
                                       \/ i > Len(q) /\ p[i] = n + (i - Len(q))
                                          /\ i - Len(q) <= k
<1>1. PICK ids \in Queues : ids = [i \in 1 .. k |-> n + i]
  <2>1. \A i \in 1 .. k : n + i \in 1 .. Len(Outbound) BY InQueue
  <2>2. DOMAIN Outbound = 1 .. Len(Outbound) BY CellsAre, Sizes
  <2>3. \A i \in 1 .. k : n + i \in DOMAIN Outbound BY <2>1, <2>2
  <2>4. [i \in 1 .. k |-> n + i] \in Seq(DOMAIN Outbound) BY <2>3, IsASeq
  <2> QED BY <2>4 DEF Queues
<1>2. Len(ids) = k /\ \A i \in 1 .. k : ids[i] = n + i
  <2>1. DOMAIN ids = 1 .. k BY <1>1
  <2> QED BY <1>1, <2>1, LenProperties DEF Queues
<1>3. PICK u \in Queues : u = q \o ids BY ConcatProperties DEF Queues
<1>4. /\ Len(u) = Len(q) + k
      /\ \A i \in 1 .. Len(q) + k :
           u[i] = IF i <= Len(q) THEN q[i] ELSE ids[i - Len(q)]
  BY <1>2, <1>3, ConcatProperties DEF Queues
<1>5. PICK p \in Queues : p = Front(u, QueueSize)
  BY CutInTwo, Sizes DEF Queues
<1>6. /\ Len(p) = (IF QueueSize < Len(u) THEN QueueSize ELSE Len(u))
      /\ \A i \in 1 .. Len(p) : p[i] = u[i]
  BY <1>5, CutInTwo, Sizes, ZenonT(40) DEF Queues
<1>7. Len(p) <= QueueSize /\ Len(p) <= Len(q) + k /\ Len(q) \in Nat /\ Len(p) \in Nat
  BY <1>4, <1>6, InQueue, Sizes
<1>8. ASSUME NEW i \in 1 .. Len(p)
      PROVE  \/ i <= Len(q) /\ p[i] = q[i]
             \/ i > Len(q) /\ p[i] = n + (i - Len(q)) /\ i - Len(q) <= k
  <2>1. i \in 1 .. Len(q) + k /\ p[i] = u[i] BY <1>6, <1>7
  <2>2. CASE i <= Len(q) BY <1>4, <2>1, <2>2
  <2>3. CASE i > Len(q)
    <3>1. i - Len(q) \in 1 .. k /\ ~(i <= Len(q)) BY <1>7, <2>1, <2>3
    <3>2. p[i] = ids[i - Len(q)] BY <1>4, <2>1, <3>1
    <3> QED BY <1>2, <2>3, <3>1, <3>2
  <2> QED BY <1>7, <2>2, <2>3
<1>9. Pushed(q, [i \in 1 .. k |-> n + i]) = p BY <1>1, <1>3, <1>5 DEF Pushed
<1> QED BY <1>7, <1>8, <1>9

LEMMA ClosedGrows ==
  ASSUME NEW cells \in OutCells, NEW q \in Queues, NEW n \in Nat, NEW k \in Nat,
         n + k <= Len(Outbound), Closed(cells, q, n)
  PROVE  Closed(cells, Pushed(q, [i \in 1 .. k |-> n + i]), n + k)
<1>1. PICK p \in Queues : p = Pushed(q, [i \in 1 .. k |-> n + i]) BY QueueGrows
<1>2. \A i \in 1 .. Len(p) : \/ i <= Len(q) /\ p[i] = q[i]
                             \/ i > Len(q) /\ p[i] = n + (i - Len(q))
                                /\ i - Len(q) <= k
  BY <1>1, QueueGrows
<1>3. /\ Len(p) \in Nat /\ Len(q) \in Nat
      /\ \A i \in 1 .. Len(q) : q[i] \in Nat
      /\ \A i \in 1 .. Len(p) : p[i] \in Nat
  BY InQueue
<1>4. /\ \A i \in 1 .. Len(q) : q[i] <= n
      /\ \A i, j \in 1 .. Len(q) : i < j => q[i] < q[j]
  BY DEF Closed
<1>5. ASSUME NEW i \in 1 .. Len(p) PROVE p[i] <= n + k
  <2>1. CASE i <= Len(q) /\ p[i] = q[i]
    <3>1. i \in 1 .. Len(q) BY <1>3, <2>1
    <3>2. q[i] <= n /\ q[i] \in Nat BY <1>3, <1>4, <3>1
    <3> QED BY <2>1, <3>2
  <2>2. CASE p[i] = n + (i - Len(q)) /\ i - Len(q) <= k BY <1>3, <2>2
  <2> QED BY <1>2, <2>1, <2>2
<1>6. ASSUME NEW i \in 1 .. Len(p), NEW j \in 1 .. Len(p), i < j
      PROVE  p[i] < p[j]
  <2>1. CASE j <= Len(q)
    <3>1. i \in 1 .. Len(q) /\ j \in 1 .. Len(q) BY <1>3, <1>6, <2>1
    <3>2. p[i] = q[i] /\ p[j] = q[j] BY <1>2, <1>3, <3>1
    <3> QED BY <1>4, <1>6, <3>1, <3>2
  <2>2. CASE j > Len(q) /\ i <= Len(q)
    <3>1. i \in 1 .. Len(q) BY <1>3, <2>2
    <3>2. p[i] = q[i] /\ q[i] <= n BY <1>2, <1>3, <1>4, <3>1
    <3>3. p[j] = n + (j - Len(q)) BY <1>2, <1>3, <2>2
    <3>4. q[i] \in Nat BY <1>3, <3>1
    <3> QED BY <1>3, <2>2, <3>2, <3>3, <3>4
  <2>3. CASE i > Len(q)
    <3>1. p[i] = n + (i - Len(q)) BY <1>2, <1>3, <2>3
    <3>2. j > Len(q) BY <1>3, <1>6, <2>3
    <3>3. p[j] = n + (j - Len(q)) BY <1>2, <1>3, <3>2
    <3> QED BY <1>3, <1>6, <3>1, <3>3
  <2> QED BY <1>3, <2>1, <2>2, <2>3
<1>7. ASSUME cells # <<>>
      PROVE  /\ cells[Len(cells)][2] = Outbound[cells[Len(cells)][1]]
             /\ cells[Len(cells)][1] <= n + k
             /\ \A i \in 1 .. Len(p) : cells[Len(cells)][1] < p[i]
  <2>1. PICK c \in Nat : c = cells[Len(cells)][1]
    <3>1. Len(cells) \in 1 .. Len(cells) BY <1>7, OutCell
    <3>2. cells[Len(cells)][1] \in 1 .. Len(Outbound) BY <3>1, OutCell
    <3> QED BY <3>2
  <2>2. /\ cells[Len(cells)][2] = Outbound[c] /\ c <= n
        /\ \A i \in 1 .. Len(q) : c < q[i]
    BY <1>7, <2>1 DEF Closed
  <2>3. ASSUME NEW i \in 1 .. Len(p) PROVE c < p[i]
    <3>1. CASE i <= Len(q)
      <4>1. i \in 1 .. Len(q) BY <1>3, <3>1
      <4>2. c < q[i] BY <2>2, <4>1
      <4> QED BY <1>2, <1>3, <4>1, <4>2
    <3>2. CASE i > Len(q)
      <4>1. p[i] = n + (i - Len(q)) BY <1>2, <1>3, <3>2
      <4> QED BY <1>3, <2>2, <3>2, <4>1
    <3> QED BY <1>3, <3>1, <3>2
  <2> QED BY <2>1, <2>2, <2>3
<1>8. Closed(cells, p, n + k) BY <1>5, <1>6, <1>7 DEF Closed
<1> QED BY <1>1, <1>8

LEMMA ClosedShrinks ==
  ASSUME NEW cells \in OutCells, NEW q \in Queues, q # <<>>, NEW n,
         Closed(cells, q, n)
  PROVE  /\ Closed(cells, Tail(q), n) /\ Head(q) \in 1 .. Len(Outbound)
         /\ cells # <<>> => /\ cells[Len(cells)][1] < Head(q)
                            /\ cells[Len(cells)][2] = Outbound[cells[Len(cells)][1]]
         /\ \A more \in OutCells :
              more # <<>> /\ more[Len(more)] = <<Head(q), Outbound[Head(q)]>> =>
                Closed(more, Tail(q), n)
<1>1. PICK t \in Queues : t = Tail(q) BY HeadTailProperties DEF Queues
<1>2. /\ Len(q) \in Nat /\ Len(q) > 0 /\ Len(t) = Len(q) - 1
      /\ \A i \in 1 .. Len(t) : t[i] = q[i + 1] /\ i + 1 \in 1 .. Len(q)
  <2>1. Len(q) \in Nat /\ Len(q) > 0 BY InQueue, EmptySeq DEF Queues
  <2>2. Len(t) = Len(q) - 1 BY <1>1, HeadTailProperties DEF Queues
  <2>3. \A i \in 1 .. Len(t) : t[i] = q[i + 1]
    BY <1>1, <2>2, HeadTailProperties DEF Queues
  <2> QED BY <2>1, <2>2, <2>3
<1>3. PICK h \in 1 .. Len(Outbound) : h = Head(q) /\ h = q[1]
  <2>1. 1 \in 1 .. Len(q) BY <1>2
  <2>2. q[1] \in 1 .. Len(Outbound) BY <2>1, InQueue
  <2> QED BY <2>2
<1>4. /\ \A i \in 1 .. Len(q) : q[i] <= n
      /\ \A i, j \in 1 .. Len(q) : i < j => q[i] < q[j]
  BY DEF Closed
<1>5. \A i \in 1 .. Len(t) : t[i] <= n /\ h < t[i]
  <2>1. ASSUME NEW i \in 1 .. Len(t) PROVE t[i] <= n /\ h < t[i]
    <3>1. i + 1 \in 1 .. Len(q) /\ 1 \in 1 .. Len(q) /\ 1 < i + 1 /\ t[i] = q[i + 1]
      BY <1>2
    <3> QED BY <1>3, <1>4, <3>1
  <2> QED BY <2>1
<1>6. \A i, j \in 1 .. Len(t) : i < j => t[i] < t[j]
  <2>1. ASSUME NEW i \in 1 .. Len(t), NEW j \in 1 .. Len(t), i < j
        PROVE  t[i] < t[j]
    <3>1. i + 1 \in 1 .. Len(q) /\ j + 1 \in 1 .. Len(q) /\ i + 1 < j + 1
      BY <1>2, <2>1
    <3> QED BY <1>2, <1>4, <3>1
  <2> QED BY <2>1
<1>7. cells # <<>> => /\ cells[Len(cells)][1] < h
                      /\ cells[Len(cells)][2] = Outbound[cells[Len(cells)][1]]
                      /\ cells[Len(cells)][1] <= n
                      /\ \A i \in 1 .. Len(t) : cells[Len(cells)][1] < t[i]
  <2>1. ASSUME cells # <<>>
        PROVE  /\ cells[Len(cells)][1] < h
               /\ cells[Len(cells)][2] = Outbound[cells[Len(cells)][1]]
               /\ cells[Len(cells)][1] <= n
               /\ \A i \in 1 .. Len(t) : cells[Len(cells)][1] < t[i]
    <3>1. /\ cells[Len(cells)][2] = Outbound[cells[Len(cells)][1]]
          /\ cells[Len(cells)][1] <= n
          /\ \A i \in 1 .. Len(q) : cells[Len(cells)][1] < q[i]
      BY <2>1 DEF Closed
    <3>2. 1 \in 1 .. Len(q) BY <1>2
    <3> QED BY <1>2, <1>3, <3>1, <3>2
  <2> QED BY <2>1
<1>8. Closed(cells, t, n) BY <1>5, <1>6, <1>7 DEF Closed
<1>9. ASSUME NEW more \in OutCells, more # <<>>,
             more[Len(more)] = <<h, Outbound[h]>>
      PROVE  Closed(more, t, n)
  <2>1. more[Len(more)][1] = h /\ more[Len(more)][2] = Outbound[h] BY <1>9
  <2>2. h <= n
    <3>1. 1 \in 1 .. Len(q) BY <1>2
    <3> QED BY <1>3, <1>4, <3>1
  <2> QED BY <1>5, <1>6, <2>1, <2>2 DEF Closed
<1> QED BY <1>1, <1>3, <1>7, <1>8, <1>9

--------------------------------------------------------------------------------
(* What the steps do to the way out.                                       *)
LEMMA OutTypes ==
  ASSUME TypeOK
  PROVE  /\ outq \in Queues /\ outb \in OutCells /\ sendb \in OutCells
         /\ wire \in OutCells /\ Len(sendb) <= SendMax /\ Len(outq) <= QueueSize
         /\ called \in Nat /\ called <= Len(Outbound) /\ Len(Outbound) \in Nat
         /\ spilled \in BOOLEAN /\ Len(outb) < BufferMax
         /\ Outgoing \in OutCells
<1>1. Len(Outbound) \in Nat BY CellsAre, Sizes
<1>2. /\ outq \in Queues /\ outb \in OutCells /\ sendb \in OutCells
      /\ wire \in OutCells /\ Len(sendb) <= SendMax /\ Len(outq) <= QueueSize
      /\ called \in Nat /\ called <= Len(Outbound) /\ spilled \in BOOLEAN
      /\ Len(outb) < BufferMax
  BY <1>1 DEF TypeOK, Queues, OutCells
<1>3. PICK w \in OutCells, s \in OutCells, b \in OutCells :
        w = wire /\ s = sendb /\ b = outb
  BY <1>2
<1>4. w \o (s \o b) \in OutCells BY ConcatProperties DEF OutCells
<1> QED BY <1>1, <1>2, <1>3, <1>4 DEF Outgoing

(* The types of what a step changes on the way out.                        *)
OutTyped ==
  /\ outq \in Queues /\ Len(outq) <= QueueSize
  /\ outb \in OutCells /\ Len(outb) < BufferMax
  /\ sendb \in OutCells /\ Len(sendb) <= SendMax /\ wire \in OutCells
  /\ called \in 0 .. Len(Outbound) /\ spilled \in BOOLEAN

LEMMA OutwardSame ==
  ASSUME TypeOK, OutwardInv, UNCHANGED output, conn' = "open" => conn = "open"
  PROVE  OutTyped' /\ OutwardInv'
<1>1. /\ outq' = outq /\ outb' = outb /\ sendb' = sendb /\ wire' = wire
      /\ called' = called /\ spilled' = spilled
  BY DEF output
<1>2. OutTyped BY OutTypes DEF OutTyped
<1>3. OutTyped' BY <1>1, <1>2 DEF OutTyped
<1>4. OutwardInv' BY <1>1 DEF OutwardInv, Outgoing
<1> QED BY <1>3, <1>4

LEMMA CallsKeep ==
  ASSUME TypeOK, OutwardInv, NEW k \in Nat, Calls(k), conn' = conn,
         UNCHANGED <<outb, sendb, wire, spilled>>
  PROVE  OutTyped' /\ OutwardInv'
<1>1. PICK q \in Queues, n \in Nat, g \in OutCells :
        q = outq /\ n = called /\ g = Outgoing
  BY OutTypes
<1>2. n + k <= Len(Outbound) /\ called' = n + k BY <1>1 DEF Calls
<1>3. outq' = Pushed(q, [i \in 1 .. k |-> n + i]) BY <1>1 DEF Calls
<1>4. outq' \in Queues /\ Len(outq') <= QueueSize BY <1>2, <1>3, QueueGrows
<1>5. called' \in 0 .. Len(Outbound) BY <1>2, OutTypes
<1>6. OutTyped' BY <1>4, <1>5, OutTypes DEF OutTyped
<1>7. Outgoing' = g BY <1>1 DEF Outgoing
<1>8. Closed(g, q, n) => Closed(g, outq', called')
  BY <1>2, <1>3, ClosedGrows
<1>9. OutwardInv' BY <1>1, <1>7, <1>8 DEF OutwardInv
<1> QED BY <1>6, <1>9

(* The buffer is flushed, or is not.                                       *)
LEMMA FlushKeeps ==
  ASSUME TypeOK, OutwardInv, NEW first \in Results, Wrote(<<>>, first, "ok"),
         conn' = conn, UNCHANGED <<outq, outb, called>>
  PROVE  OutTyped' /\ OutwardInv'
<1>1. PICK b \in OutCells : b = outb BY OutTypes
<1>2. <<>> \in OutCells BY EmptySeq DEF OutCells
<1>3. /\ sendb' \in OutCells /\ wire' \in OutCells /\ Len(sendb') <= SendMax
      /\ spilled' \in BOOLEAN /\ (~spilled' => ~spilled)
      /\ conn = "open" /\ ~spilled' =>
           wire' \o (sendb' \o b) = wire \o (sendb \o (<<>> \o b))
      /\ conn # "open" => wire' = wire
  BY <1>2, OutTypes, WroteKeeps
<1>4. <<>> \o b = b BY OutEnds
<1>5. OutTyped' BY <1>3, OutTypes DEF OutTyped
<1>6. ASSUME conn = "open", ~spilled' PROVE Outgoing' = Outgoing
  BY <1>1, <1>3, <1>4, <1>6 DEF Outgoing
<1>7. ASSUME conn = "open", ~spilled' PROVE Ascends(wire') /\ Ascends(Outgoing')
  <2>1. Ascends(Outgoing') BY <1>3, <1>6, <1>7 DEF OutwardInv
  <2>2. PICK w \in OutCells, s \in OutCells : w = wire' /\ s = sendb' BY <1>3
  <2>3. PICK t \in OutCells : t = s \o b BY ConcatProperties DEF OutCells
  <2>4. Ascends(w \o t) BY <1>1, <2>1, <2>2, <2>3 DEF Outgoing
  <2> QED BY <2>1, <2>2, <2>4, AscendsPrefix
<1>8. OutwardInv' BY <1>3, <1>6, <1>7 DEF OutwardInv
<1> QED BY <1>5, <1>8

(* A packet is taken from the queue and a chunk leaves the out buffer.     *)
LEMMA OutKeeps ==
  ASSUME TypeOK, OutwardInv, Out, conn' = conn
  PROVE  OutTyped' /\ OutwardInv'
<1>1. ASSUME NEW p \in OutCells
      PROVE  wire \o (sendb \o (outb \o p)) = Outgoing \o p
  <2>1. PICK w \in OutCells, s \in OutCells, b \in OutCells :
          w = wire /\ s = sendb /\ b = outb
    BY OutTypes
  <2>2. ASSUME NEW t \in OutCells PROVE (w \o t) \o p = w \o (t \o p) BY OutRow, SMTT(40)
  <2>3. s \o b \in OutCells BY ConcatProperties DEF OutCells
  <2>4. (w \o (s \o b)) \o p = w \o ((s \o b) \o p) BY <2>2, <2>3
  <2>5. (s \o b) \o p = s \o (b \o p) BY OutRow, SMTT(40)
  <2> QED BY <2>1, <2>4, <2>5 DEF Outgoing
<1>2. PICK q \in Queues, b \in OutCells, g \in OutCells, n \in Nat :
        q = outq /\ b = outb /\ g = Outgoing /\ n = called
  BY OutTypes
<1>3. <<>> \in OutCells /\ <<>> \in Queues /\ Len(<<>>) = 0
  BY EmptySeq DEF OutCells, Queues
<1>4. q # <<>> => Head(q) \in 1 .. Len(Outbound) /\ Tail(q) \in Queues
  /\ Len(Tail(q)) <= QueueSize
  <2>1. ASSUME q # <<>>
        PROVE  /\ Head(q) \in 1 .. Len(Outbound) /\ Tail(q) \in Queues
               /\ Len(Tail(q)) <= QueueSize
    <3>1. DOMAIN Outbound = 1 .. Len(Outbound) BY CellsAre, Sizes
    <3>2. /\ Head(q) \in DOMAIN Outbound /\ Tail(q) \in Seq(DOMAIN Outbound)
          /\ Len(Tail(q)) = Len(q) - 1
      BY <2>1, HeadTailProperties DEF Queues
    <3>3. Len(q) <= QueueSize /\ Len(q) \in Nat BY <1>2, OutTypes, InQueue
    <3> QED BY <3>1, <3>2, <3>3, Sizes DEF Queues
  <2> QED BY <2>1
<1>5. PICK packet \in OutCells :
        packet = IF q = <<>> THEN <<>> ELSE Packet(Outbound, Head(q))
  BY <1>3, <1>4, PacketIs, Sizes DEF OutCells
<1>6. PICK fits \in BOOLEAN : fits <=> Len(b) + Len(packet) < BufferMax OBVIOUS
<1>7. PICK all \in OutCells : all = IF fits THEN b \o packet ELSE b
  BY ConcatProperties DEF OutCells
<1>8. /\ outq' = (IF q = <<>> THEN <<>> ELSE Tail(q))
      /\ outb' = Rest(all, Chunk) /\ called' = n
      /\ IF all = <<>> THEN UNCHANGED <<sendb, wire, spilled>>
         ELSE \E first, result \in Results : Wrote(Front(all, Chunk), first, result)
  BY <1>2, <1>5, <1>6, <1>7 DEF Out
<1>9. outq' \in Queues /\ Len(outq') <= QueueSize BY <1>3, <1>4, <1>8, Sizes
<1>10. PICK f \in OutCells, r \in OutCells :
         f = Front(all, Chunk) /\ r = Rest(all, Chunk)
  BY CutInTwo, Sizes DEF OutCells
<1>11. f \o r = all /\ Len(r) <= Len(all)
  <2>1. Len(r) = (IF Chunk < Len(all) THEN Len(all) - Chunk ELSE 0) /\ f \o r = all
    BY <1>10, CutInTwo, Sizes DEF OutCells
  <2> QED BY <2>1, OutCell, Sizes
<1>12. Len(all) < BufferMax
  <2>1. Len(b \o packet) = Len(b) + Len(packet) BY ConcatProperties DEF OutCells
  <2> QED BY <1>2, <1>6, <1>7, <2>1, OutTypes
<1>13. outb' \in OutCells /\ Len(outb') < BufferMax
  BY <1>8, <1>10, <1>11, <1>12, OutCell, Sizes
<1>14. /\ sendb' \in OutCells /\ wire' \in OutCells /\ Len(sendb') <= SendMax
       /\ spilled' \in BOOLEAN /\ (~spilled' => ~spilled)
       /\ conn # "open" => wire' = wire
       /\ conn = "open" /\ ~spilled' =>
            Outgoing' = wire \o (sendb \o all)
  <2>1. CASE all = <<>>
    <3>1. sendb' = sendb /\ wire' = wire /\ spilled' = spilled BY <1>8, <2>1
    <3>2. Len(r) = 0 BY <1>3, <1>11, <2>1, OutCell
    <3>3. outb' = all BY <1>8, <1>10, <2>1, <3>2, OutCell
    <3> QED BY <3>1, <3>3, OutTypes DEF Outgoing
  <2>2. CASE all # <<>>
    <3>1. PICK first \in Results, result \in Results : Wrote(f, first, result)
      BY <1>8, <1>10, <2>2
    <3>2. result \in {"ok", "busy", "error"} BY DEF Results
    <3>3. /\ conn = "open" => result # "error"
          /\ conn # "open" => result = "error"
      BY DEF Results
    <3>4. /\ sendb' \in OutCells /\ wire' \in OutCells /\ Len(sendb') <= SendMax
          /\ spilled' \in BOOLEAN /\ (~spilled' => ~spilled)
          /\ conn = "open" /\ result # "error" /\ ~spilled' =>
               wire' \o (sendb' \o r) = wire \o (sendb \o (f \o r))
          /\ conn # "open" /\ (f = <<>> \/ result = "error") => wire' = wire
      BY <3>1, <3>2, OutTypes, WroteKeeps
    <3>5. conn # "open" => wire' = wire BY <3>3, <3>4
    <3>6. conn = "open" /\ ~spilled' => Outgoing' = wire \o (sendb \o all)
      BY <1>8, <1>10, <1>11, <3>3, <3>4 DEF Outgoing
    <3> QED BY <3>4, <3>5, <3>6
  <2> QED BY <2>1, <2>2
<1>15. OutTyped'
  <2>1. called' \in 0 .. Len(Outbound) BY <1>2, <1>8, OutTypes
  <2> QED BY <1>9, <1>13, <1>14, <2>1 DEF OutTyped
<1>16. wire \o (sendb \o all) = IF fits THEN g \o packet ELSE g
  <2>1. wire \o (sendb \o (b \o packet)) = g \o packet BY <1>1, <1>2
  <2>2. wire \o (sendb \o b) = g BY <1>2 DEF Outgoing
  <2> QED BY <1>7, <2>1, <2>2
<1>17. ASSUME conn = "open", ~spilled'
       PROVE  Ascends(Outgoing') /\ Closed(Outgoing', outq', called')
  <2>1. Ascends(g) /\ Closed(g, q, n) BY <1>2, <1>14, <1>17 DEF OutwardInv
  <2>2. PICK o \in OutCells : o = IF fits THEN g \o packet ELSE g
    BY ConcatProperties DEF OutCells
  <2>3. Outgoing' = o BY <1>14, <1>16, <1>17, <2>2
  <2>4. CASE q = <<>>
    <3>1. g \o packet = g BY <1>5, <2>4, OutEnds
    <3>2. o = g /\ outq' = q BY <1>8, <2>2, <2>4, <3>1
    <3> QED BY <1>8, <2>1, <2>3, <3>2
  <2>5. CASE q # <<>> /\ fits
    <3>1. PICK h \in 1 .. Len(Outbound) : h = Head(q) BY <1>4, <2>5
    <3>2. g # <<>> => /\ g[Len(g)][1] < h
                      /\ g[Len(g)][2] = Outbound[g[Len(g)][1]]
      BY <2>1, <2>5, <3>1, ClosedShrinks
    <3>3. o = g \o Packet(Outbound, h) BY <1>5, <2>2, <2>5, <3>1
    <3>4. o # <<>> /\ Ascends(o) /\ o[Len(o)] = <<h, Outbound[h]>>
      BY <2>1, <3>2, <3>3, AscendsGrows
    <3>5. Closed(o, Tail(q), n) BY <2>1, <2>5, <3>1, <3>4, ClosedShrinks
    <3> QED BY <1>8, <2>3, <2>5, <3>4, <3>5
  <2>6. CASE q # <<>> /\ ~fits
    <3>1. Closed(g, Tail(q), n) BY <2>1, <2>6, ClosedShrinks
    <3> QED BY <1>8, <2>1, <2>2, <2>3, <2>6, <3>1
  <2> QED BY <2>4, <2>5, <2>6
<1>18. ASSUME ~spilled' PROVE Ascends(wire')
  <2>1. CASE conn = "open"
    <3>1. PICK w \in OutCells, s \in OutCells, c \in OutCells :
            w = wire' /\ s = sendb' /\ c = outb'
      BY <1>13, <1>14
    <3>2. PICK t \in OutCells : t = s \o c BY ConcatProperties DEF OutCells
    <3>3. Ascends(w \o t) BY <1>17, <1>18, <2>1, <3>1, <3>2 DEF Outgoing
    <3> QED BY <3>1, <3>3, AscendsPrefix
  <2>2. CASE conn # "open" BY <1>14, <1>18, <2>2 DEF OutwardInv
  <2> QED BY <2>1, <2>2
<1>19. OutwardInv' BY <1>17, <1>18 DEF OutwardInv
<1> QED BY <1>15, <1>19

--------------------------------------------------------------------------------
(* What the steps do to the way in.                                        *)
Ids == {Garbled} \cup DOMAIN Inbound

LEMMA InTypes ==
  ASSUME TypeOK
  PROVE  /\ stream \in InCells /\ recv \in InCells /\ inb \in InCells
         /\ Len(recv) <= RecvMax /\ Len(inb) < BufferMax
         /\ inq \in Seq(Ids) /\ Len(inq) <= QueueSize /\ Len(inq) \in Nat
         /\ handled \in Seq(Ids) /\ Len(handled) \in Nat
         /\ sent \in Nat /\ sent <= Len(Inbound) /\ Len(Inbound) \in Nat
         /\ gap \in BOOLEAN /\ Taken \in Nat
         /\ Incoming \in InCells
<1>1. Len(Inbound) \in Nat BY CellsAre, Sizes
<1>2. /\ stream \in InCells /\ recv \in InCells /\ inb \in InCells
      /\ Len(recv) <= RecvMax /\ Len(inb) < BufferMax
      /\ inq \in Seq(Ids) /\ Len(inq) <= QueueSize /\ handled \in Seq(Ids)
      /\ sent \in Nat /\ sent <= Len(Inbound) /\ gap \in BOOLEAN
  BY <1>1 DEF TypeOK, InCells, Ids
<1>3. Len(inq) \in Nat /\ Len(handled) \in Nat BY <1>2, LenProperties
<1>4. PICK b \in InCells, r \in InCells, s \in InCells :
        b = inb /\ r = recv /\ s = stream
  BY <1>2
<1>5. b \o (r \o s) \in InCells BY ConcatProperties DEF InCells
<1> QED BY <1>1, <1>2, <1>3, <1>4, <1>5 DEF Incoming, Taken

(* The types of what a step changes on the way in.                         *)
InTyped ==
  /\ stream \in InCells /\ recv \in InCells /\ Len(recv) <= RecvMax
  /\ inb \in InCells /\ Len(inb) < BufferMax
  /\ inq \in Seq(Ids) /\ Len(inq) <= QueueSize /\ handled \in Seq(Ids)
  /\ sent \in 0 .. Len(Inbound) /\ gap \in BOOLEAN

LEMMA Typed ==
  ASSUME InTyped, OutTyped, conn \in {"open", "closing", "lost", "down"},
         srpc \in BOOLEAN, phase \in {"idle", "handle", "out"}
  PROVE  TypeOK
BY DEF InTyped, OutTyped, TypeOK, InCells, OutCells, Ids, Queues

(* Nothing is on its way at the beginning, nor after a restart.            *)
LEMMA InitKeeps == Init => IInv
<1> SUFFICES ASSUME Init PROVE IInv OBVIOUS
<1> USE DEF Init
<1>1. /\ <<>> \in InCells /\ <<>> \in OutCells /\ <<>> \in Queues
      /\ <<>> \in Seq(Ids) /\ Len(<<>>) = 0
  BY EmptySeq DEF InCells, OutCells, Queues
<1>2. Len(Inbound) \in Nat /\ Len(Outbound) \in Nat BY CellsAre, Sizes
<1>3. InTyped
  <2>1. 0 \in 0 .. Len(Inbound) /\ 0 <= RecvMax /\ 0 < BufferMax /\ 0 <= QueueSize
    BY <1>2, Sizes
  <2> QED BY <1>1, <2>1 DEF InTyped
<1>4. OutTyped
  <2>1. 0 \in 0 .. Len(Outbound) /\ 0 <= SendMax /\ 0 < BufferMax /\ 0 <= QueueSize
    BY <1>2, Sizes
  <2> QED BY <1>1, <2>1 DEF OutTyped
<1>5. TypeOK BY <1>3, <1>4, Typed
<1>6. Incoming = <<>> /\ Outgoing = <<>>
  <2>1. <<>> \o <<>> = <<>> BY ConcatEmptySeq, <1>1 DEF InCells
  <2> QED BY <2>1 DEF Incoming, Outgoing
<1>7. Taken = 0 BY <1>1 DEF Taken
<1>8. 1 .. Len(<<>>) = {} BY <1>1
<1>9. Session BY DEF Session
<1>10. InwardInv BY <1>6, <1>7, <1>8 DEF InwardInv, Run, EndsWith
<1>11. OutwardInv BY <1>6, <1>8 DEF OutwardInv, Ascends, Closed
<1> QED BY <1>5, <1>9, <1>10, <1>11 DEF IInv

LEMMA ResetKeeps == ASSUME Reset PROVE IInv'
<1>1. Init' BY DEF Reset, Init
<1> QED BY <1>1, InitKeeps, PTL

LEMMA InwardSame ==
  ASSUME TypeOK, Session, InwardInv, UNCHANGED <<conn, srpc, input>>,
         phase # "handle", phase' # "handle"
  PROVE  InTyped' /\ Session' /\ InwardInv'
<1>1. /\ stream' = stream /\ recv' = recv /\ inb' = inb /\ inq' = inq
      /\ handled' = handled /\ sent' = sent /\ gap' = gap
      /\ conn' = conn /\ srpc' = srpc
  BY DEF input
<1>2. InTyped BY InTypes DEF InTyped
<1>3. InTyped' BY <1>1, <1>2 DEF InTyped
<1>4. Session' BY <1>1 DEF Session
<1>5. InwardInv' BY <1>1 DEF InwardInv, Incoming, Taken
<1> QED BY <1>3, <1>4, <1>5

LEMMA InRow ==
  ASSUME NEW s \in InCells, NEW t \in InCells, NEW u \in InCells
  PROVE  (s \o t) \o u = s \o (t \o u)
BY ConcatAssociative DEF InCells

(* A segment moves from the stream to the buffer.                          *)
LEMMA Moved ==
  ASSUME NEW r \in InCells, NEW s \in InCells, NEW n \in Nat
  PROVE  (r \o Front(s, n)) \o Rest(s, n) = r \o s
<1>1. ASSUME NEW f \in InCells, NEW c \in InCells
      PROVE  (r \o f) \o c = r \o (f \o c)
  BY InRow
<1>2. PICK f \in InCells, c \in InCells :
        f = Front(s, n) /\ c = Rest(s, n) /\ f \o c = s
  BY CutInTwo DEF InCells
<1>3. (r \o f) \o c = r \o (f \o c) BY <1>1
<1> QED BY <1>2, <1>3

(* Reading does not change what is on its way.                             *)
LEMMA SameCells ==
  ASSUME NEW i \in InCells, NEW c \in InCells
  PROVE  \A s \in InCells :
           i \o (s \o c) = (i \o Front(s, Chunk)) \o (Rest(s, Chunk) \o c)
<1>1. ASSUME NEW f \in InCells, NEW r \in InCells
      PROVE  i \o ((f \o r) \o c) = (i \o f) \o (r \o c)
  <2>1. (f \o r) \o c = f \o (r \o c) BY ConcatAssociative, SMTT(40) DEF InCells
  <2>2. ASSUME NEW t \in InCells PROVE (i \o f) \o t = i \o (f \o t)
    BY ConcatAssociative, SMTT(40) DEF InCells
  <2>3. r \o c \in InCells BY ConcatProperties DEF InCells
  <2>4. (i \o f) \o (r \o c) = i \o (f \o (r \o c)) BY <2>2, <2>3
  <2> QED BY <2>1, <2>4
<1>2. ASSUME NEW s \in InCells
      PROVE  i \o (s \o c) = (i \o Front(s, Chunk)) \o (Rest(s, Chunk) \o c)
  <2>1. PICK f \in InCells, r \in InCells :
          f = Front(s, Chunk) /\ r = Rest(s, Chunk) /\ f \o r = s
    BY CutInTwo, Sizes DEF InCells
  <2>2. i \o ((f \o r) \o c) = (i \o f) \o (r \o c) BY <1>1
  <2> QED BY <2>1, <2>2
<1> QED BY <1>2

(* The queue takes one packet when it is empty.                            *)
LEMMA PushedOne ==
  ASSUME NEW S, NEW p \in S
  PROVE  Pushed(<<>>, <<p>>) = <<p>>
<1>1. <<p>> \in Seq(S) /\ Len(<<p>>) = 1 OBVIOUS
<1>2. PICK one \in Seq(S) : one = <<p>> /\ Len(one) = 1 BY <1>1
<1>3. <<>> \o one = one BY ConcatEmptySeq
<1>4. /\ Front(one, QueueSize) \in Seq(S)
      /\ Len(Front(one, QueueSize)) =
           IF QueueSize < Len(one) THEN QueueSize ELSE Len(one)
      /\ \A i \in 1 .. Len(Front(one, QueueSize)) : Front(one, QueueSize)[i] = one[i]
  BY CutInTwo, Sizes
<1>5. PICK f \in Seq(S) : f = Front(one, QueueSize) BY <1>4
<1>6. \A i \in 1 .. Len(f) : f[i] = one[i] BY <1>4, <1>5
<1>7. Len(f) = Len(one) BY <1>2, <1>4, <1>5, Sizes
<1>8. f = one BY <1>6, <1>7, SeqEqual
<1> QED BY <1>2, <1>3, <1>5, <1>8 DEF Pushed

(* The first packet of a run is taken.                                     *)
LEMMA RunTaken ==
  ASSUME NEW b \in InCells, NEW t \in InCells, NEW id \in Nat,
         Run(b \o t, id), b # <<>>, ~Incomplete(b), ~Broken(b)
  PROVE  /\ Popped(b) = id /\ Shrunk(b) \o t \in InCells
         /\ Run(Shrunk(b) \o t, id + 1)
         /\ \A last : EndsWith(b \o t, id - 1, last) => EndsWith(Shrunk(b) \o t, id, last)
<1>1. Run(b, id) BY RunPrefix
<1>2. b[1] = <<id, 1>> BY <1>1 DEF Run
<1>3. b[1][1] = id /\ b[1][2] = 1 BY <1>2
<1>4. Len(b) >= Inbound[id]
  <2>1. 1 \in 1 .. Len(b) BY InCell
  <2>2. Inbound[id] \in Nat /\ Len(b) \in Nat BY <1>3, <2>1, InCell
  <2> QED BY <1>3, <2>2 DEF Incomplete
<1>5. /\ id \in 1 .. Len(Inbound) /\ Inbound[id] \in 1 .. Len(b)
      /\ \A i \in 1 .. Inbound[id] : b[i] = <<id, i>>
  BY <1>1, <1>4, RunAhead
<1>6. Same(b, Inbound[id]) BY <1>3, <1>5 DEF Same
<1>7. Popped(b) = id BY <1>3, <1>6 DEF Popped
<1>8. PICK n \in 0 .. Len(b) : n = Inbound[id] BY <1>5
<1>9. PICK u \in InCells : u = b \o t BY ConcatProperties DEF InCells
<1>10. Len(u) = Len(b) + Len(t) /\ Len(b) \in Nat /\ Len(t) \in Nat
  BY <1>9, ConcatProperties, InCell DEF InCells
<1>11. Shrunk(b) \o t = Rest(u, n)
  BY <1>3, <1>8, <1>9, RestOfConcat DEF Shrunk, InCells
<1>12. n \in Nat /\ n <= Len(u) /\ n > 0 /\ Len(u) \in Nat BY <1>5, <1>8, <1>10
<1>13. PICK r \in InCells : r = Rest(u, n) BY <1>12, CutInTwo DEF InCells
<1>14. Run(r, id + 1)
  <2>1. u # <<>> /\ Run(u, id) /\ Len(u) >= Inbound[id]
    BY <1>8, <1>9, <1>12, InCell
  <2> QED BY <1>8, <1>13, <2>1, RunShrinks
<1>15. ASSUME NEW last, EndsWith(u, id - 1, last) PROVE EndsWith(r, id, last)
  <2>1. Len(r) = (IF n < Len(u) THEN Len(u) - n ELSE 0)
    BY <1>12, <1>13, CutInTwo DEF InCells
  <2>2. \A i \in 1 .. Len(r) : r[i] = u[n + i]
    BY <1>12, <1>13, CutInTwo DEF InCells
  <2>3. u[Len(u)] = <<last, Inbound[last]>>
    <3>1. u # <<>> BY <1>12, InCell
    <3> QED BY <1>15, <3>1 DEF EndsWith
  <2>4. CASE r = <<>>
    <3>1. Len(u) = n BY <1>12, <2>1, <2>4, InCell
    <3>2. u[n] = b[n]
      <4>1. n \in 1 .. Len(b) /\ n \in 1 .. Len(b) + Len(t) BY <1>10, <1>12
      <4> QED BY <1>9, <1>10, <4>1, ConcatProperties DEF InCells
    <3>3. b[n] = <<id, n>> BY <1>5, <1>8, <1>12
    <3>4. <<last, Inbound[last]>> = <<id, n>> BY <2>3, <3>1, <3>2, <3>3
    <3>5. id = last BY <3>4
    <3> QED BY <2>4, <3>5 DEF EndsWith
  <2>5. CASE r # <<>>
    <3>1. Len(r) \in 1 .. Len(r) /\ Len(r) > 0 BY <2>5, InCell
    <3>2. n + Len(r) = Len(u) BY <1>12, <2>1, <3>1
    <3>3. r[Len(r)] = u[Len(u)] BY <2>2, <3>1, <3>2
    <3> QED BY <2>3, <2>5, <3>3 DEF EndsWith
  <2> QED BY <2>4, <2>5
<1> QED BY <1>7, <1>9, <1>11, <1>13, <1>14, <1>15

(* supla_esp_devconn_iterate up to the call of the handler.                *)
LEMMA InKeeps ==
  ASSUME IInv, phase = "idle", srpc, NEW received \in InCells,
         NEW coming \in InCells, Len(received) <= RecvMax,
         received \o coming = recv \o stream, In(received, coming)
  PROVE  IInv'
<1>1. TypeOK /\ Session /\ InwardInv /\ OutwardInv BY DEF IInv
<1>2. PICK i \in InCells : i = inb BY <1>1, InTypes
<1>3. i \o (received \o coming)
        = (i \o Front(received, Chunk)) \o (Rest(received, Chunk) \o coming)
  BY SameCells
<1>4. PICK f \in InCells, r \in InCells :
        f = Front(received, Chunk) /\ r = Rest(received, Chunk)
  BY CutInTwo, Sizes DEF InCells
<1>5. f \o r = received /\ Len(r) <= RecvMax
  <2>1. f \o r = received /\ Len(r) = IF Chunk < Len(received)
                                      THEN Len(received) - Chunk ELSE 0
    BY <1>4, CutInTwo, Sizes DEF InCells
  <2>2. Len(received) \in Nat BY InCell
  <2> QED BY <2>1, <2>2, Sizes
<1>6. PICK b \in InCells : b = i \o f BY ConcatProperties DEF InCells
<1>7. PICK t \in InCells : t = r \o coming BY ConcatProperties DEF InCells
<1>8. Incoming = b \o t BY <1>2, <1>4, <1>6, <1>7, <1>3 DEF Incoming
<1>9. inq = <<>> /\ Taken = Len(handled) /\ Len(handled) \in Nat
  <2>1. inq = <<>> BY <1>1 DEF Session
  <2>2. Len(<<>>) = 0 BY EmptySeq
  <2> QED BY <1>1, <2>1, <2>2, InTypes DEF Taken
<1>10. CASE Len(b) >= BufferMax \/ Broken(b)
  <2>1. Reset BY <1>2, <1>4, <1>6, <1>10 DEF In
  <2> QED BY <2>1, ResetKeeps
<1>11. CASE ~(Len(b) >= BufferMax \/ Broken(b))
  <2>1. /\ recv' = r
        /\ IF Incomplete(b)
           THEN inb' = b /\ phase' = "out" /\ inq' = inq
           ELSE /\ inb' = Shrunk(b)
                /\ phase' = "handle"
                /\ inq' = Pushed(inq, <<Popped(b)>>)
        /\ \E first \in Results : Wrote(<<>>, first, "ok")
        /\ stream' = coming
        /\ UNCHANGED <<conn, srpc, outq, outb, called, handled, sent, gap>>
    BY <1>2, <1>4, <1>6, <1>11 DEF In
  <2>2. OutTyped' /\ OutwardInv'
    <3>1. PICK first \in Results : Wrote(<<>>, first, "ok") BY <2>1
    <3> QED BY <1>1, <2>1, <3>1, FlushKeeps
  <2>3. Len(b) \in Nat /\ Len(b) < BufferMax BY <1>11, InCell, Sizes
  <2>4. CASE Incomplete(b)
    <3>1. /\ inb' = b /\ phase' = "out" /\ inq' = inq /\ recv' = r
          /\ stream' = coming /\ handled' = handled /\ sent' = sent /\ gap' = gap
          /\ conn' = conn /\ srpc' = srpc
      BY <2>1, <2>4
    <3>2. InTyped'
      <4>1. InTyped BY <1>1, InTypes DEF InTyped
      <4> QED BY <1>5, <2>3, <3>1, <4>1 DEF InTyped
    <3>3. Session' BY <1>1, <1>9, <3>1 DEF Session
    <3>4. Incoming' = Incoming /\ Taken' = Taken
      BY <1>7, <1>8, <3>1 DEF Incoming, Taken
    <3>5. InwardInv' BY <1>1, <3>1, <3>4 DEF InwardInv
    <3>6. TypeOK'
      <4>1. /\ conn' \in {"open", "closing", "lost", "down"} /\ srpc' \in BOOLEAN
            /\ phase' \in {"idle", "handle", "out"}
        BY <1>1, <3>1 DEF TypeOK
      <4> QED BY <2>2, <3>2, <4>1 DEF InTyped, OutTyped, TypeOK, InCells, OutCells,
                                      Ids, Queues
    <3> QED BY <2>2, <3>3, <3>5, <3>6 DEF IInv
  <2>5. CASE ~Incomplete(b)
    <3>1. /\ inb' = Shrunk(b) /\ phase' = "handle" /\ recv' = r
          /\ inq' = Pushed(inq, <<Popped(b)>>)
          /\ stream' = coming /\ handled' = handled /\ sent' = sent /\ gap' = gap
          /\ conn' = conn /\ srpc' = srpc
      BY <2>1, <2>5
    <3>2. b # <<>> /\ ~Broken(b) BY <1>11, <2>5 DEF Incomplete
    <3>3. b[1][1] \in DOMAIN Inbound /\ Inbound[b[1][1]] \in Nat
      <4>1. 1 \in 1 .. Len(b) BY <3>2, InCell
      <4>2. DOMAIN Inbound = 1 .. Len(Inbound) BY CellsAre, Sizes
      <4> QED BY <4>1, <4>2, InCell
    <3>4. PICK p \in Ids : p = Popped(b) BY <3>3 DEF Popped, Ids
    <3>5. inq' = <<p>> BY <1>9, <3>1, <3>4, PushedOne
    <3>6. inq' \in Seq(Ids) /\ Len(inq') = 1 /\ inq'[1] = p BY <3>5
    <3>7. PICK n \in Nat : n = Inbound[b[1][1]] BY <3>3
    <3>8. inb' \in InCells /\ Len(inb') < BufferMax
      <4>1. inb' = Rest(b, n) BY <3>1, <3>7 DEF Shrunk
      <4>2. /\ Rest(b, n) \in InCells
            /\ Len(Rest(b, n)) = IF n < Len(b) THEN Len(b) - n ELSE 0
        BY CutInTwo DEF InCells
      <4> QED BY <2>3, <4>1, <4>2, Sizes
    <3>9. InTyped'
      <4>1. InTyped BY <1>1, InTypes DEF InTyped
      <4>2. Len(inq') <= QueueSize BY <3>6, Sizes
      <4> QED BY <1>5, <3>1, <3>6, <3>8, <4>1, <4>2 DEF InTyped
    <3>10. Session' BY <3>1, <3>6 DEF Session
    <3>11. Taken' = Taken + 1 BY <1>9, <3>1, <3>6 DEF Taken
    <3>12. Incoming' = Shrunk(b) \o t BY <1>7, <3>1 DEF Incoming
    <3>13. InwardInv'
      <4>1. SUFFICES ASSUME ~gap PROVE
              /\ \A j \in 1 .. Len(handled) : handled[j] = j
              /\ inq'[1] = Taken'
              /\ Run(Incoming', Taken' + 1)
              /\ conn = "open" => EndsWith(Incoming', Taken', sent)
        BY <3>1 DEF InwardInv
      <4>2. Run(b \o t, Taken + 1) BY <1>1, <1>8, <4>1 DEF InwardInv
      <4>3. PICK k \in Nat : k = Taken BY <1>9
      <4>4. Popped(b) = k + 1 /\ Run(Shrunk(b) \o t, (k + 1) + 1)
        BY <3>2, <2>5, <4>2, <4>3, RunTaken
      <4>5. conn = "open" => EndsWith(Shrunk(b) \o t, k + 1, sent)
        <5>1. ASSUME conn = "open" PROVE EndsWith(Shrunk(b) \o t, k + 1, sent)
          <6>1. EndsWith(b \o t, k, sent) BY <1>1, <1>8, <4>1, <4>3, <5>1 DEF InwardInv
          <6>2. (k + 1) - 1 = k /\ k + 1 \in Nat OBVIOUS
          <6> QED BY <2>5, <3>2, <4>2, <4>3, <6>1, <6>2, RunTaken
        <5> QED BY <5>1
      <4>6. \A j \in 1 .. Len(handled) : handled[j] = j
        BY <1>1, <4>1 DEF InwardInv
      <4> QED BY <3>4, <3>6, <3>11, <3>12, <4>3, <4>4, <4>5, <4>6
    <3>14. TypeOK'
      <4>1. /\ conn' \in {"open", "closing", "lost", "down"} /\ srpc' \in BOOLEAN
            /\ phase' \in {"idle", "handle", "out"}
        BY <1>1, <3>1 DEF TypeOK
      <4> QED BY <2>2, <3>9, <4>1 DEF InTyped, OutTyped, TypeOK, InCells, OutCells,
                                      Ids, Queues
    <3> QED BY <2>2, <3>10, <3>13, <3>14 DEF IInv
  <2> QED BY <2>4, <2>5
<1> QED BY <1>10, <1>11

--------------------------------------------------------------------------------
(* Every step keeps the invariant.                                         *)
LEMMA Together ==
  ASSUME InTyped', OutTyped', conn' \in {"open", "closing", "lost", "down"},
         srpc' \in BOOLEAN, phase' \in {"idle", "handle", "out"},
         Session', InwardInv', OutwardInv'
  PROVE  IInv'
BY DEF InTyped, OutTyped, TypeOK, InCells, OutCells, Ids, Queues, IInv

LEMMA ServerSendsKeeps == ASSUME IInv, ServerSends PROVE IInv'
<1>1. TypeOK /\ Session /\ InwardInv /\ OutwardInv BY DEF IInv
<1>2. /\ conn = "open" /\ sent < Len(Inbound) /\ sent' = sent + 1
      /\ stream' = stream \o Packet(Inbound, sent + 1)
      /\ conn' = conn /\ srpc' = srpc /\ phase' = phase /\ recv' = recv
      /\ inb' = inb /\ inq' = inq /\ handled' = handled /\ gap' = gap
      /\ UNCHANGED output
  BY DEF ServerSends
<1>3. OutTyped' /\ OutwardInv' BY <1>1, <1>2, OutwardSame
<1>4. srpc BY <1>1, <1>2 DEF Session
<1>5. PICK n \in 0 .. Len(Inbound) - 1 : n = sent BY <1>1, <1>2, InTypes
<1>6. n + 1 \in 1 .. Len(Inbound) /\ Len(Inbound) \in Nat BY <1>1, InTypes
<1>7. PICK p \in InCells : p = Packet(Inbound, n + 1)
  BY <1>6, PacketIs, Sizes DEF InCells
<1>8. stream \o p \in InCells BY <1>1, InTypes, ConcatProperties DEF InCells
<1>9. InTyped'
  <2>1. InTyped BY <1>1, InTypes DEF InTyped
  <2>2. sent' \in 0 .. Len(Inbound) BY <1>2, <1>5, <1>6
  <2> QED BY <1>2, <1>5, <1>7, <1>8, <2>1, <2>2 DEF InTyped
<1>10. Session' BY <1>1, <1>2 DEF Session
<1>11. Incoming' = Incoming \o p
  <2>1. PICK i \in InCells, r \in InCells, s \in InCells :
          i = inb /\ r = recv /\ s = stream
    BY <1>1, InTypes
  <2>2. ASSUME NEW t \in InCells PROVE (i \o t) \o p = i \o (t \o p)
    BY ConcatAssociative, SMTT(40) DEF InCells
  <2>3. (r \o s) \o p = r \o (s \o p) BY InRow
  <2>4. r \o s \in InCells BY ConcatProperties DEF InCells
  <2>5. (i \o (r \o s)) \o p = i \o ((r \o s) \o p) BY <2>2, <2>4
  <2> QED BY <1>2, <1>5, <1>7, <2>1, <2>3, <2>5 DEF Incoming
<1>12. InwardInv'
  <2>1. SUFFICES ASSUME ~gap
                 PROVE  /\ \A i \in 1 .. Len(handled) : handled[i] = i
                        /\ phase = "handle" => inq[1] = Taken
                        /\ Run(Incoming \o p, Taken + 1)
                        /\ EndsWith(Incoming \o p, Taken, n + 1)
    BY <1>2, <1>5, <1>11 DEF InwardInv, Taken
  <2>2. /\ \A i \in 1 .. Len(handled) : handled[i] = i
        /\ phase = "handle" => inq[1] = Taken
        /\ Run(Incoming, Taken + 1) /\ EndsWith(Incoming, Taken, n)
    BY <1>1, <1>2, <1>4, <1>5, <2>1 DEF InwardInv
  <2>3. PICK g \in InCells, k \in Nat : g = Incoming /\ k = Taken BY <1>1, InTypes
  <2>4. k + 1 \in 1 .. Len(Inbound) + 1 /\ (k + 1) - 1 = k
    <3>1. CASE g = <<>>
      <4>1. k = n BY <2>2, <2>3, <3>1 DEF EndsWith
      <4> QED BY <1>6, <4>1
    <3>2. CASE g # <<>>
      <4>1. g[1] = <<k + 1, 1>> /\ 1 \in 1 .. Len(g) BY <2>2, <2>3, <3>2, InCell DEF Run
      <4>2. g[1][1] \in 1 .. Len(Inbound) /\ g[1][1] = k + 1 BY <4>1, InCell
      <4> QED BY <1>6, <4>2
    <3> QED BY <3>1, <3>2
  <2>5. /\ Run(g \o Packet(Inbound, n + 1), k + 1)
        /\ EndsWith(g \o Packet(Inbound, n + 1), k, n + 1)
    BY <2>2, <2>3, <2>4, RunGrows
  <2> QED BY <1>7, <2>2, <2>3, <2>5
<1> QED BY <1>1, <1>2, <1>3, <1>9, <1>10, <1>12, Together DEF TypeOK

LEMMA ReceivesKeeps == ASSUME IInv, Receives PROVE IInv'
<1>1. TypeOK /\ Session /\ InwardInv /\ OutwardInv BY DEF IInv
<1>2. /\ conn = "open" /\ srpc /\ phase = "idle" BY DEF Receives
<1>3. PICK n \in 1 .. Len(stream) :
        IF Len(recv) + n <= RecvMax
        THEN In(recv \o Front(stream, n), Rest(stream, n))
        ELSE /\ stream' = Rest(stream, n)
             /\ gap' = TRUE
             /\ UNCHANGED <<conn, srpc, phase, recv, inb, inq, handled, sent, output>>
  BY DEF Receives
<1>4. PICK r \in InCells, s \in InCells : r = recv /\ s = stream BY <1>1, InTypes
<1>5. n \in Nat /\ n <= Len(s) /\ Len(s) \in Nat /\ Len(r) \in Nat BY <1>4, InCell
<1>6. (r \o Front(s, n)) \o Rest(s, n) = r \o s BY <1>5, Moved
<1>7. PICK f \in InCells, c \in InCells :
        f = Front(s, n) /\ c = Rest(s, n) /\ Len(f) = n /\ f \o c = s
  <2>1. /\ Front(s, n) \in InCells /\ Rest(s, n) \in InCells
        /\ Len(Front(s, n)) = (IF n < Len(s) THEN n ELSE Len(s))
        /\ Front(s, n) \o Rest(s, n) = s
    BY <1>5, CutInTwo DEF InCells
  <2>2. Len(Front(s, n)) = n BY <1>5, <2>1
  <2> QED BY <2>1, <2>2
<1>8. CASE Len(recv) + n <= RecvMax
  <2>1. In(r \o f, c) BY <1>3, <1>4, <1>7, <1>8
  <2>2. r \o f \in InCells /\ Len(r \o f) = Len(r) + n
    BY <1>7, ConcatProperties DEF InCells
  <2>3. (r \o f) \o c = recv \o stream BY <1>4, <1>7, <1>6
  <2>4. Len(r \o f) <= RecvMax BY <1>4, <1>8, <2>2
  <2> QED BY <1>2, <2>1, <2>2, <2>3, <2>4, InKeeps
<1>9. CASE ~(Len(recv) + n <= RecvMax)
  <2>1. /\ stream' = c /\ gap' = TRUE /\ conn' = conn /\ srpc' = srpc
        /\ phase' = phase /\ recv' = recv /\ inb' = inb /\ inq' = inq
        /\ handled' = handled /\ sent' = sent /\ UNCHANGED output
    BY <1>3, <1>4, <1>7, <1>9
  <2>2. OutTyped' /\ OutwardInv' BY <1>1, <2>1, OutwardSame
  <2>3. InTyped'
    <3>1. InTyped BY <1>1, InTypes DEF InTyped
    <3> QED BY <2>1, <3>1 DEF InTyped
  <2>4. Session' BY <1>1, <2>1 DEF Session
  <2>5. InwardInv' BY <2>1 DEF InwardInv
  <2> QED BY <1>1, <2>1, <2>2, <2>3, <2>4, <2>5, Together DEF TypeOK
<1> QED BY <1>8, <1>9

LEMMA IterateFiresKeeps == ASSUME IInv, IterateFires PROVE IInv'
<1>1. recv \in InCells /\ stream \in InCells /\ Len(recv) <= RecvMax
  BY InTypes DEF IInv
<1> QED BY <1>1, InKeeps DEF IterateFires

LEMMA HandlesKeeps == ASSUME IInv, Handles PROVE IInv'
<1>1. TypeOK /\ Session /\ InwardInv /\ OutwardInv BY DEF IInv
<1>2. /\ phase = "handle" /\ phase' = "out" /\ conn' = conn /\ srpc' = srpc
      /\ stream' = stream /\ recv' = recv /\ inb' = inb /\ sent' = sent
      /\ gap' = gap /\ outb' = outb /\ sendb' = sendb /\ wire' = wire
      /\ spilled' = spilled
      /\ handled' = Append(handled, Head(inq)) /\ inq' = Tail(inq)
  BY DEF Handles
<1>3. PICK k \in 0 .. Replies : Calls(k) BY DEF Handles
<1>4. OutTyped' /\ OutwardInv'
  <2>1. k \in Nat BY Sizes
  <2> QED BY <1>1, <1>2, <1>3, <2>1, CallsKeep
<1>5. PICK h \in Seq(Ids), q \in Seq(Ids) : h = handled /\ q = inq
  BY <1>1, InTypes
<1>6. srpc /\ Len(q) = 1 /\ q # <<>>
  <2>1. Len(q) = 1 /\ srpc BY <1>1, <1>2, <1>5 DEF Session
  <2>2. q # <<>>
    <3>1. ASSUME q = <<>> PROVE FALSE
      <4>1. Len(<<>>) = 0 BY EmptySeq
      <4> QED BY <2>1, <3>1, <4>1
    <3> QED BY <3>1
  <2> QED BY <2>1, <2>2
<1>7. Tail(q) \in Seq(Ids) /\ Len(Tail(q)) = 0 /\ Head(q) \in Ids /\ Head(q) = q[1]
  BY <1>6, HeadTailProperties
<1>8. Tail(q) = <<>> BY <1>7, EmptySeq
<1>9. /\ Append(h, q[1]) \in Seq(Ids) /\ Len(Append(h, q[1])) = Len(h) + 1
      /\ \A i \in 1 .. Len(h) : Append(h, q[1])[i] = h[i]
      /\ Append(h, q[1])[Len(h) + 1] = q[1] /\ Len(h) \in Nat
  BY <1>7, AppendProperties, LenProperties
<1>10. handled' = Append(h, q[1]) /\ inq' = <<>> BY <1>2, <1>5, <1>7, <1>8
<1>11. InTyped'
  <2>1. InTyped BY <1>1, InTypes DEF InTyped
  <2>2. Len(inq') = 0 /\ 0 <= QueueSize BY <1>10, EmptySeq, Sizes
  <2> QED BY <1>2, <1>5, <1>7, <1>8, <1>9, <1>10, <2>1, <2>2 DEF InTyped
<1>12. Session' BY <1>1, <1>2, <1>10 DEF Session
<1>13. Incoming' = Incoming BY <1>2 DEF Incoming
<1>14. Taken' = Taken /\ Taken = Len(h) + 1
  <2>1. Len(inq') = 0 BY <1>10, EmptySeq
  <2> QED BY <1>5, <1>6, <1>9, <1>10, <2>1 DEF Taken
<1>15. InwardInv'
  <2>1. SUFFICES ASSUME ~gap
                 PROVE  /\ \A i \in 1 .. Len(handled') : handled'[i] = i
                        /\ srpc => Run(Incoming, Taken + 1)
                        /\ conn = "open" => EndsWith(Incoming, Taken, sent)
    BY <1>2, <1>13, <1>14 DEF InwardInv
  <2>2. /\ \A i \in 1 .. Len(h) : h[i] = i
        /\ q[1] = Len(h) + 1
        /\ srpc => Run(Incoming, Taken + 1)
        /\ conn = "open" => EndsWith(Incoming, Taken, sent)
    BY <1>1, <1>2, <1>5, <1>14, <2>1 DEF InwardInv
  <2>3. ASSUME NEW i \in 1 .. Len(handled') PROVE handled'[i] = i
    <3>1. i \in 1 .. Len(h) \/ i = Len(h) + 1 BY <1>9, <1>10
    <3> QED BY <1>9, <1>10, <2>2, <3>1
  <2> QED BY <2>2, <2>3
<1> QED BY <1>1, <1>2, <1>4, <1>11, <1>12, <1>15, Together DEF TypeOK

LEMMA HandlerStopsKeeps == ASSUME IInv, HandlerStops PROVE IInv'
<1>1. TypeOK /\ Session /\ InwardInv /\ OutwardInv BY DEF IInv
<1>2. /\ phase = "handle" /\ phase' = "out" /\ srpc' = FALSE
      /\ conn' = (IF conn = "open" THEN "closing" ELSE conn)
      /\ stream' = <<>> /\ inb' = <<>> /\ inq' = <<>> /\ outq' = <<>> /\ outb' = <<>>
      /\ recv' = recv /\ handled' = handled /\ sent' = sent /\ gap' = gap
      /\ sendb' = sendb /\ wire' = wire /\ called' = called /\ spilled' = spilled
  BY DEF HandlerStops
<1>3. /\ <<>> \in InCells /\ <<>> \in OutCells /\ <<>> \in Queues
      /\ <<>> \in Seq(Ids) /\ Len(<<>>) = 0
  BY EmptySeq DEF InCells, OutCells, Queues
<1>4. 0 < BufferMax /\ 0 <= QueueSize BY Sizes
<1>5. InTyped'
  <2>1. InTyped BY <1>1, InTypes DEF InTyped
  <2> QED BY <1>2, <1>3, <1>4, <2>1 DEF InTyped
<1>6. OutTyped'
  <2>1. OutTyped BY <1>1, OutTypes DEF OutTyped
  <2> QED BY <1>2, <1>3, <1>4, <2>1 DEF OutTyped
<1>7. conn' \in {"closing", "lost", "down"} BY <1>1, <1>2 DEF TypeOK
<1>8. Session' BY <1>2, <1>7 DEF Session
<1>9. InwardInv' BY <1>1, <1>2, <1>7 DEF InwardInv
<1>10. OutwardInv' BY <1>1, <1>2, <1>7 DEF OutwardInv
<1> QED BY <1>2, <1>5, <1>6, <1>7, <1>8, <1>9, <1>10, Together

LEMMA IterateEndsKeeps == ASSUME IInv, IterateEnds PROVE IInv'
<1>1. TypeOK /\ Session /\ InwardInv /\ OutwardInv BY DEF IInv
<1>2. /\ phase = "out" /\ phase' = "idle" /\ Out
      /\ UNCHANGED <<conn, srpc, input>>
  BY DEF IterateEnds
<1>3. OutTyped' /\ OutwardInv' BY <1>1, <1>2, OutKeeps
<1>4. InTyped' /\ Session' /\ InwardInv' BY <1>1, <1>2, InwardSame
<1> QED BY <1>1, <1>2, <1>3, <1>4, Together DEF TypeOK

LEMMA IterateOnFreedKeeps == ASSUME IInv, IterateOnFreed PROVE IInv'
<1>1. TypeOK /\ Session /\ InwardInv /\ OutwardInv BY DEF IInv
<1>2. CASE phase' = "idle" /\ UNCHANGED <<conn, srpc, input, output>>
  <2>1. phase = "out" BY DEF IterateOnFreed
  <2>2. OutTyped' /\ OutwardInv' BY <1>1, <1>2, OutwardSame
  <2>3. InTyped' /\ Session' /\ InwardInv' BY <1>1, <1>2, <2>1, InwardSame
  <2> QED BY <1>1, <1>2, <2>2, <2>3, Together DEF TypeOK
<1>3. CASE Reset BY <1>3, ResetKeeps
<1> QED BY <1>2, <1>3 DEF IterateOnFreed

LEMMA DeviceCallsKeeps == ASSUME IInv, DeviceCalls PROVE IInv'
<1>1. TypeOK /\ Session /\ InwardInv /\ OutwardInv BY DEF IInv
<1>2. /\ phase = "idle" /\ phase' = phase /\ Calls(1)
      /\ UNCHANGED <<conn, srpc, input>> /\ UNCHANGED <<outb, sendb, wire, spilled>>
  BY DEF DeviceCalls
<1>3. OutTyped' /\ OutwardInv' BY <1>1, <1>2, CallsKeep
<1>4. InTyped' /\ Session' /\ InwardInv' BY <1>1, <1>2, InwardSame
<1> QED BY <1>1, <1>2, <1>3, <1>4, Together DEF TypeOK

LEMMA ClosesKeeps == ASSUME IInv, Closes PROVE IInv'
<1>1. TypeOK /\ Session /\ InwardInv /\ OutwardInv BY DEF IInv
<1>2. /\ phase = "idle" /\ phase' = phase /\ conn' = "down" /\ srpc' = srpc
      /\ recv' = <<>> /\ sendb' = <<>> /\ stream' = <<>>
      /\ inb' = inb /\ inq' = inq /\ handled' = handled /\ sent' = sent /\ gap' = gap
      /\ outq' = outq /\ outb' = outb /\ wire' = wire /\ called' = called
      /\ spilled' = spilled
  BY DEF Closes
<1>3. <<>> \in InCells /\ <<>> \in OutCells /\ Len(<<>>) = 0
  BY EmptySeq DEF InCells, OutCells
<1>4. InTyped'
  <2>1. InTyped BY <1>1, InTypes DEF InTyped
  <2> QED BY <1>2, <1>3, <2>1, Sizes DEF InTyped
<1>5. OutTyped'
  <2>1. OutTyped BY <1>1, OutTypes DEF OutTyped
  <2> QED BY <1>2, <1>3, <2>1, Sizes DEF OutTyped
<1>6. Session' BY <1>1, <1>2 DEF Session
<1>7. PICK i \in InCells, t \in InCells : i = inb /\ t = recv \o stream
  BY <1>1, InTypes, ConcatProperties DEF InCells
<1>8. Incoming' = i
  <2>1. <<>> \o <<>> = <<>> /\ i \o <<>> = i BY ConcatEmptySeq DEF InCells
  <2> QED BY <1>2, <1>7, <2>1 DEF Incoming
<1>9. InwardInv'
  <2>1. ~gap /\ srpc => Run(i, Taken + 1)
    <3>1. ASSUME ~gap, srpc PROVE Run(i, Taken + 1)
      <4>1. PICK k \in Nat : k = Taken + 1 BY <1>1, InTypes
      <4>2. Run(i \o t, k) BY <1>1, <1>7, <3>1, <4>1 DEF InwardInv, Incoming
      <4> QED BY <4>1, <4>2, RunPrefix
    <3> QED BY <3>1
  <2> QED BY <1>1, <1>2, <1>8, <2>1 DEF InwardInv, Taken
<1>10. OutwardInv' BY <1>1, <1>2 DEF OutwardInv
<1> QED BY <1>1, <1>2, <1>4, <1>5, <1>6, <1>9, <1>10, Together DEF TypeOK

LEMMA BreaksKeeps == ASSUME IInv, Breaks PROVE IInv'
<1>1. TypeOK /\ Session /\ InwardInv /\ OutwardInv BY DEF IInv
<1>2. /\ phase = "idle" /\ phase' = phase /\ conn' = "lost" /\ srpc' = srpc
      /\ stream' = <<>> /\ recv' = recv /\ inb' = inb /\ inq' = inq
      /\ handled' = handled /\ sent' = sent /\ gap' = gap /\ UNCHANGED output
  BY DEF Breaks
<1>3. OutTyped' /\ OutwardInv' BY <1>1, <1>2, OutwardSame
<1>4. <<>> \in InCells BY EmptySeq DEF InCells
<1>5. InTyped'
  <2>1. InTyped BY <1>1, InTypes DEF InTyped
  <2> QED BY <1>2, <1>4, <2>1 DEF InTyped
<1>6. Session' BY <1>1, <1>2 DEF Session
<1>7. PICK i \in InCells, r \in InCells, s \in InCells :
        i = inb /\ r = recv /\ s = stream
  BY <1>1, InTypes
<1>8. i \o (r \o s) = (i \o r) \o s
  <2>1. (i \o r) \o s = i \o (r \o s) BY ConcatAssociative DEF InCells
  <2> QED BY <2>1
<1>9. PICK g \in InCells : g = i \o r BY ConcatProperties DEF InCells
<1>10. Incoming' = g
  <2>1. r \o <<>> = r BY ConcatEmptySeq DEF InCells
  <2> QED BY <1>2, <1>7, <1>9, <2>1 DEF Incoming
<1>11. InwardInv'
  <2>1. ~gap /\ srpc => Run(g, Taken + 1)
    <3>1. ASSUME ~gap, srpc PROVE Run(g, Taken + 1)
      <4>1. PICK k \in Nat : k = Taken + 1 BY <1>1, InTypes
      <4>2. Run(g \o s, k)
        BY <1>1, <1>7, <1>8, <1>9, <3>1, <4>1 DEF InwardInv, Incoming
      <4> QED BY <4>1, <4>2, RunPrefix
    <3> QED BY <3>1
  <2> QED BY <1>1, <1>2, <1>10, <2>1 DEF InwardInv, Taken
<1> QED BY <1>1, <1>2, <1>3, <1>5, <1>6, <1>11, Together DEF TypeOK

LEMMA ReconnectsKeeps == ASSUME IInv, Reconnects PROVE IInv'
<1>1. TypeOK /\ Session /\ InwardInv /\ OutwardInv BY DEF IInv
<1>2. /\ phase = "idle" /\ phase' = phase /\ conn' = "open" /\ srpc' = TRUE
      /\ stream' = <<>> /\ inb' = <<>> /\ inq' = <<>> /\ outq' = <<>> /\ outb' = <<>>
      /\ wire' = <<>> /\ handled' = <<>> /\ sent' = 0 /\ called' = 0
      /\ gap' = (recv # <<>>) /\ spilled' = (sendb # <<>>)
      /\ recv' = recv /\ sendb' = sendb
  BY DEF Reconnects
<1>3. /\ <<>> \in InCells /\ <<>> \in OutCells /\ <<>> \in Queues
      /\ <<>> \in Seq(Ids) /\ Len(<<>>) = 0
  BY EmptySeq DEF InCells, OutCells, Queues
<1>4. 0 < BufferMax /\ 0 <= QueueSize /\ 0 \in 0 .. Len(Inbound)
      /\ 0 \in 0 .. Len(Outbound)
  BY CellsAre, Sizes
<1>5. InTyped'
  <2>1. InTyped BY <1>1, InTypes DEF InTyped
  <2> QED BY <1>2, <1>3, <1>4, <2>1 DEF InTyped
<1>6. OutTyped'
  <2>1. OutTyped BY <1>1, OutTypes DEF OutTyped
  <2> QED BY <1>2, <1>3, <1>4, <2>1 DEF OutTyped
<1>7. Session' BY <1>2 DEF Session
<1>8. 1 .. Len(<<>>) = {} BY <1>3
<1>9. <<>> \o <<>> = <<>> BY ConcatEmptySeq, <1>3 DEF InCells
<1>10. Taken' = 0 BY <1>2, <1>3 DEF Taken
<1>11. InwardInv'
  <2>1. ~gap' => Incoming' = <<>> BY <1>2, <1>9 DEF Incoming
  <2> QED BY <1>2, <1>8, <1>10, <2>1 DEF InwardInv, Run, EndsWith
<1>12. OutwardInv'
  <2>1. ~spilled' => Outgoing' = <<>> BY <1>2, <1>9 DEF Outgoing
  <2> QED BY <1>2, <1>8, <2>1 DEF OutwardInv, Ascends, Closed
<1> QED BY <1>1, <1>2, <1>5, <1>6, <1>7, <1>11, <1>12, Together DEF TypeOK

LEMMA NextKeeps == IInv /\ [Next]_vars => IInv'
<1> SUFFICES ASSUME IInv, [Next]_vars PROVE IInv' OBVIOUS
<1>1. CASE ServerSends BY <1>1, ServerSendsKeeps
<1>2. CASE Receives BY <1>2, ReceivesKeeps
<1>3. CASE IterateFires BY <1>3, IterateFiresKeeps
<1>4. CASE Handles BY <1>4, HandlesKeeps
<1>5. CASE HandlerStops BY <1>5, HandlerStopsKeeps
<1>6. CASE IterateEnds BY <1>6, IterateEndsKeeps
<1>7. CASE TagDoesNotFit BY <1>7, ResetKeeps DEF TagDoesNotFit
<1>8. CASE IterateOnFreed BY <1>8, IterateOnFreedKeeps
<1>9. CASE DeviceCalls BY <1>9, DeviceCallsKeeps
<1>10. CASE Closes BY <1>10, ClosesKeeps
<1>11. CASE Breaks BY <1>11, BreaksKeeps
<1>12. CASE Reconnects BY <1>12, ReconnectsKeeps
<1>13. CASE UNCHANGED vars
  <2>1. /\ conn' = conn /\ srpc' = srpc /\ phase' = phase
        /\ stream' = stream /\ recv' = recv /\ inb' = inb /\ inq' = inq
        /\ handled' = handled /\ sent' = sent /\ gap' = gap
        /\ outq' = outq /\ outb' = outb /\ sendb' = sendb /\ wire' = wire
        /\ called' = called /\ spilled' = spilled
    BY <1>13 DEF vars, input, output
  <2>2. TypeOK' /\ Session' BY <2>1 DEF IInv, TypeOK, Session
  <2>3. InwardInv' BY <2>1 DEF IInv, InwardInv, Incoming, Taken
  <2>4. OutwardInv' BY <2>1 DEF IInv, OutwardInv, Outgoing
  <2> QED BY <2>2, <2>3, <2>4 DEF IInv
<1> QED BY <1>1, <1>2, <1>3, <1>4, <1>5, <1>6, <1>7, <1>8, <1>9, <1>10, <1>11,
           <1>12, <1>13 DEF Next

--------------------------------------------------------------------------------
(* The inductive invariant holds in every reachable state: the session     *)
(* that srpc_iterate works on is there while a handler runs, what is on    *)
(* its way in continues what was handled, and what is on its way out is    *)
(* whole and in the order of the calls.                                    *)
THEOREM Invariance == Spec => []IInv
<1>1. Init => IInv BY InitKeeps
<1>2. IInv /\ [Next]_vars => IInv' BY NextKeeps
<1> QED BY <1>1, <1>2, PTL DEF Spec

(* The variables of the connection keep their types: no buffer grows past  *)
(* its size and no queue past its limit, whatever the sizes are.           *)
THEOREM TypeCorrect == Spec => []TypeOK
<1>1. IInv => TypeOK BY DEF IInv
<1> QED BY <1>1, Invariance, PTL

(* As long as supla_esp_devconn_recv_cb drops no segment and nothing was   *)
(* left of the connection before, the handlers get the packets of the      *)
(* server whole, each once and in order, however TCP cuts them.            *)
THEOREM HandledInOrder == Spec => []InOrder
<1>1. IInv => InOrder
  <2>1. ASSUME IInv PROVE InOrder
    <3>1. DOMAIN handled = 1 .. Len(handled)
      <4>1. handled \in Seq(Ids) BY <2>1, InTypes DEF IInv
      <4> QED BY <4>1, LenProperties
    <3> QED BY <2>1, <3>1 DEF IInv, InwardInv, InOrder
  <2> QED BY <2>1
<1> QED BY <1>1, Invariance, PTL

(* As long as supla_esp_data_write loses nothing, the server gets whole    *)
(* packets in the order of the calls, the last one perhaps unfinished.     *)
THEOREM LeavesWhole == Spec => []WholePackets
<1>1. IInv => WholePackets
  <2>1. ASSUME IInv PROVE WholePackets
    <3>1. DOMAIN wire = 1 .. Len(wire)
      <4>1. wire \in OutCells BY <2>1, OutTypes DEF IInv
      <4> QED BY <4>1, LenProperties DEF OutCells
    <3> QED BY <2>1, <3>1 DEF IInv, OutwardInv, Ascends, WholePackets
  <2> QED BY <2>1
<1> QED BY <1>1, Invariance, PTL
================================================================================
