----------------------------- MODULE TftpProofs -----------------------------
(***************************************************************************)
(* Proofs about Tftp: it implements FileTransfer for any files, block      *)
(* sizes and widths of the block number, and any number of sessions, and   *)
(* of packets that are lost, repeated, delayed and reordered; and its      *)
(* retries make up for as many losses as there are retries.                *)
(***************************************************************************)
EXTENDS Tftp, TLAPS

Busy == status = "busy"
Ports == 1..Len(sessions)

(* The client never gets past block number IdxMod - 1: no packet has the   *)
(* number IdxMod it would wait for.                                        *)
Stuck == blockidx = IdxMod - 1
Sendable(n) == n <= blockidx + 1 \/ Stuck

(* A session, and what it may have sent.  Sessions of the local port in    *)
(* use are of the current file and at most one block ahead of the client.  *)
SessionOK(s) ==
  /\ s \in [port : Nat, file : 1..Len(size), sent : Nat]
  /\ s.port <= lport /\ s.sent <= LastBlock(s.file, BlkOf)
  /\ s.port = lport => /\ s.file = current /\ Sendable(s.sent)
                       /\ Busy /\ s.sent > 0 => blksize = BlkOf
SessionsInv == sessions \in Seq([port : Nat, file : 1..Len(size), sent : Nat])
               /\ \A t \in Ports : SessionOK(sessions[t])

(* DATA is block n of a file of the server; to the local port in use, of   *)
(* the current file and no later than the one the client waits for.        *)
DataOK(m) ==
  /\ m.op = "DATA"
  /\ \E n \in Nat \ {0} :
      /\ m.block = n % IdxMod /\ m.off = (n - 1) * BlkOf /\ m.len = BlockLen(m.file, BlkOf, n)
      /\ m.from \in Ports /\ m.file \in 1..Len(size) /\ n <= LastBlock(m.file, BlkOf)
      /\ m.to \in Nat /\ m.to <= lport
      /\ m.to = lport => /\ m.file = current /\ Sendable(n)
                         /\ Busy => blksize = BlkOf
OackOK(m)  == m.op = "OACK" /\ m.from \in Ports /\ m.to \in Nat /\ m.to <= lport
              /\ m.blksize = srvblk
ErrorOK(m) == m.op = "ERROR" /\ m.to \in Nat /\ m.to <= lport
RrqOK(m)   == /\ m.op = "RRQ" /\ m.port \in Nat /\ m.port <= lport /\ m.file \in 1..Len(size)
              /\ m.port = lport => m.file = current
(* An ACK from the local port in use is of no later block than the last    *)
(* received; one to a session of that port says the block size is agreed.  *)
AckOK(m) ==
  /\ m.op = "ACK" /\ m.port \in Nat /\ m.port <= lport /\ m.tid \in Ports /\ m.block \in Nat
  /\ m.port = lport => m.block <= blockidx
  /\ m.port = lport /\ sessions[m.tid].port = lport /\ Busy => blksize = BlkOf
MessageOK(m) == DataOK(m) \/ OackOK(m) \/ ErrorOK(m) \/ RrqOK(m) \/ AckOK(m)
NetInv == \A m \in net : MessageOK(m)

WorldInv == size \in Seq(Nat) /\ srvblk \in Nat

ClientInv ==
  /\ current \in 0..Len(size) /\ lport \in Nat /\ intact = TRUE
  /\ blockidx \in 0..(IdxMod - 1)
  /\ Busy => /\ current \in 1..Len(size) /\ blksize \in Nat /\ got = blockidx * blksize
             /\ blockidx > 0 => blksize = BlkOf
             /\ srvblk = 0 => blksize = Default
             /\ xmit.op = "RRQ" => xmit.file = current
             /\ xmit.op = "ACK" => rport \in Ports /\ xmit.block = blockidx

IInv == WorldInv /\ ClientInv /\ SessionsInv /\ NetInv

-----------------------------------------------------------------------------
(* How a step of the client may move it: to a new local port, or forward   *)
(* in the transfer.                                                        *)
Forward ==
  \/ lport' \in Nat /\ lport' > lport
  \/ /\ UNCHANGED <<lport, current>>
     /\ blockidx' = blockidx \/ (blockidx' = blockidx + 1 /\ ~Stuck)
     /\ Busy' => Busy /\ blksize' \in {blksize, BlkOf}

(* What the server may do to its sessions.                                 *)
SessionsGrow ==
  /\ Len(sessions') \in Nat /\ Len(sessions') >= Len(sessions)
  /\ \A t \in Ports : sessions'[t].port = sessions[t].port

LEMMA SessionStays ==
  ASSUME WorldInv, ClientInv, NEW s, SessionOK(s), UNCHANGED world, Forward
  PROVE  SessionOK(s)'
<1>1. s.port \in Nat /\ s.sent \in Nat /\ lport \in Nat /\ blockidx \in Nat /\ IdxMod \in Nat
  BY SizesAssumption DEF SessionOK, ClientInv
<1>2. size' = size /\ BlkOf' = BlkOf /\ LastBlock(s.file, BlkOf)' = LastBlock(s.file, BlkOf)
  BY DEF world, BlkOf, LastBlock
<1>3. CASE lport' \in Nat /\ lport' > lport
  BY <1>1, <1>2, <1>3 DEF SessionOK
<1>4. CASE /\ UNCHANGED <<lport, current>>
           /\ blockidx' = blockidx \/ (blockidx' = blockidx + 1 /\ ~Stuck)
           /\ Busy' => Busy /\ blksize' \in {blksize, BlkOf}
  <2>1. Sendable(s.sent) => Sendable(s.sent)'
    BY <1>1, <1>4 DEF Sendable, Stuck
  <2> QED BY <1>1, <1>2, <1>4, <2>1 DEF SessionOK
<1> QED BY <1>3, <1>4 DEF Forward

LEMMA MessageStays ==
  ASSUME WorldInv, ClientInv, SessionsInv, NEW m, MessageOK(m), UNCHANGED world,
         SessionsGrow, Forward
  PROVE  MessageOK(m)'
<1>1. lport \in Nat /\ blockidx \in Nat /\ IdxMod \in Nat /\ Len(sessions) \in Nat
  BY SizesAssumption DEF ClientInv, SessionsInv
<1>2. size' = size /\ srvblk' = srvblk /\ BlkOf' = BlkOf
  BY DEF world, BlkOf
<1>3. Ports \subseteq Ports'
  BY <1>1 DEF SessionsGrow, Ports
<1>4. CASE DataOK(m)
  <2>1. PICK n \in Nat \ {0} :
          /\ m.block = n % IdxMod /\ m.off = (n - 1) * BlkOf /\ m.len = BlockLen(m.file, BlkOf, n)
          /\ m.from \in Ports /\ m.file \in 1..Len(size) /\ n <= LastBlock(m.file, BlkOf)
          /\ m.to \in Nat /\ m.to <= lport
          /\ m.to = lport => /\ m.file = current /\ Sendable(n)
                             /\ Busy => blksize = BlkOf
    BY <1>4 DEF DataOK
  <2>2. /\ BlockLen(m.file, BlkOf, n)' = BlockLen(m.file, BlkOf, n)
        /\ LastBlock(m.file, BlkOf)' = LastBlock(m.file, BlkOf)
    BY <1>2 DEF BlockLen, LastBlock
  <2>3. m.to \in Nat /\ m.to <= lport'
    BY <1>1, <2>1 DEF Forward
  <2>4. m.to = lport' => /\ m.file = current' /\ Sendable(n)'
                         /\ Busy' => blksize' = BlkOf
    <3>1. CASE lport' \in Nat /\ lport' > lport
      BY <1>1, <2>1, <3>1
    <3>2. CASE /\ UNCHANGED <<lport, current>>
               /\ blockidx' = blockidx \/ (blockidx' = blockidx + 1 /\ ~Stuck)
               /\ Busy' => Busy /\ blksize' \in {blksize, BlkOf}
      <4>1. Sendable(n) => Sendable(n)'
        BY <1>1, <3>2 DEF Sendable, Stuck
      <4> QED BY <2>1, <3>2, <4>1
    <3> QED BY <3>1, <3>2 DEF Forward
  <2> QED BY <1>2, <1>3, <1>4, <2>1, <2>2, <2>3, <2>4 DEF MessageOK, DataOK
<1>5. CASE OackOK(m) \/ ErrorOK(m)
  BY <1>1, <1>2, <1>3, <1>5 DEF MessageOK, OackOK, ErrorOK, Forward
<1>6. CASE RrqOK(m)
  BY <1>1, <1>2, <1>6 DEF MessageOK, RrqOK, Forward
<1>7. CASE AckOK(m)
  <2>1. m.port \in Nat /\ m.port <= lport' /\ m.tid \in Ports' /\ m.block \in Nat
    BY <1>1, <1>3, <1>7 DEF AckOK, Forward
  <2>2. m.port = lport' => m.block <= blockidx'
    BY <1>1, <1>7 DEF AckOK, Forward
  <2>3. m.port = lport' /\ sessions'[m.tid].port = lport' /\ Busy' => blksize' = BlkOf
    BY <1>1, <1>7 DEF AckOK, Forward, SessionsGrow
  <2> QED BY <1>2, <1>7, <2>1, <2>2, <2>3 DEF MessageOK, AckOK
<1> QED BY <1>4, <1>5, <1>6, <1>7 DEF MessageOK

(* So a step of the client need only show its new packets and its own      *)
(* state.                                                                  *)
LEMMA ClientStep ==
  ASSUME IInv, UNCHANGED <<world, sessions>>, Forward,
         NEW new, net' \subseteq net \cup new, \A m \in new : MessageOK(m)'
  PROVE  WorldInv' /\ SessionsInv' /\ NetInv'
<1>1. WorldInv'
  BY DEF IInv, WorldInv, world
<1>2. SessionsInv'
  <2>1. \A t \in Ports : SessionOK(sessions[t])'
    BY SessionStays DEF IInv, SessionsInv
  <2> QED BY <2>1 DEF IInv, SessionsInv, Ports, world
<1>3. SessionsGrow
  BY DEF SessionsGrow, IInv, SessionsInv
<1>4. NetInv'
  <2> SUFFICES ASSUME NEW m \in net' PROVE MessageOK(m)'
    BY DEF NetInv
  <2>1. CASE m \in net
    BY <1>3, <2>1, MessageStays DEF IInv, NetInv
  <2> QED BY <2>1
<1> QED BY <1>1, <1>2, <1>4

(* The common cases: one new packet, and none.                             *)
LEMMA ClientStepOne ==
  ASSUME IInv, UNCHANGED <<world, sessions>>, Forward,
         NEW a, net' \subseteq net \cup {a}, MessageOK(a)'
  PROVE  WorldInv' /\ SessionsInv' /\ NetInv'
<1> DEFINE new == {a}
<1>1. net' \subseteq net \cup new
  OBVIOUS
<1>2. \A m \in new : MessageOK(m)'
  <2> SUFFICES ASSUME NEW m \in new PROVE MessageOK(m)'
    OBVIOUS
  <2>1. m = a
    OBVIOUS
  <2> QED BY <2>1
<1> HIDE DEF new
<1> QED BY <1>1, <1>2, ClientStep

LEMMA QuietStep ==
  ASSUME IInv, UNCHANGED <<world, sessions>>, Forward, net' \subseteq net
  PROVE  WorldInv' /\ SessionsInv' /\ NetInv'
<1> DEFINE new == {}
<1>1. net' \subseteq net \cup new
  OBVIOUS
<1>2. \A m \in new : MessageOK(m)'
  OBVIOUS
<1> HIDE DEF new
<1> QED BY <1>1, <1>2, ClientStep

LEMMA ExchangeBounds ==
  ASSUME NEW m, NEW new, Exchange(m, new)
  PROVE  net' \subseteq net \cup new
  BY DEF Exchange

-----------------------------------------------------------------------------
(* The arithmetic of blocks: all before the last are full, and the last    *)
(* one ends the file.                                                      *)
LEMMA BlockArithmetic ==
  ASSUME NEW f, size[f] \in Nat, NEW b \in Nat \ {0}, NEW n \in Nat \ {0}, n <= LastBlock(f, b)
  PROVE  /\ BlockLen(f, b, n) \in Nat /\ BlockLen(f, b, n) <= b
         /\ (n - 1) * b + BlockLen(f, b, n) <= size[f]
         /\ BlockLen(f, b, n) < b => (n - 1) * b + BlockLen(f, b, n) = size[f]
<1> DEFINE q == size[f] \div b
<1>1. q \in Nat /\ q * b <= size[f]
  OBVIOUS
<1>2. n - 1 \in Nat /\ n - 1 <= q
  BY <1>1 DEF LastBlock
<1>3. (n - 1) * b <= q * b
  BY <1>1, <1>2
<1>4. (n - 1) * b \in Nat /\ q * b \in Nat /\ n * b = (n - 1) * b + b
  BY <1>1, <1>2
<1>5. (n - 1) * b <= size[f]
  <2> HIDE DEF q
  <2> QED BY <1>1, <1>3, <1>4
<1> QED BY <1>4, <1>5 DEF BlockLen

LEMMA BlkOfType == WorldInv => BlkOf \in Nat \ {0}
  BY DEF WorldInv, BlkOf, Default

(* The block await_tftp() lets through and tftp_block() waits for is the   *)
(* next piece of the current file.                                         *)
LEMMA NextBlock ==
  ASSUME IInv, NEW m \in net, Busy, await_tftp(m), Expected(m)
  PROVE  /\ blockidx + 1 < IdxMod /\ blksize = BlkOf /\ m.from \in Ports
         /\ m.file = current /\ m.off = got /\ got \in Nat /\ m.len \in Nat
         /\ got + m.len <= size[current]
         /\ m.len < blksize => got + m.len = size[current]
         /\ ~(m.len < blksize) => m.len = blksize
<1>1. DataOK(m) /\ m.to = lport
  BY DEF IInv, NetInv, MessageOK, OackOK, ErrorOK, RrqOK, AckOK, Expected, await_tftp
<1>2. PICK n \in Nat \ {0} :
        /\ m.block = n % IdxMod /\ m.off = (n - 1) * BlkOf /\ m.len = BlockLen(m.file, BlkOf, n)
        /\ m.from \in Ports /\ n <= LastBlock(m.file, BlkOf)
        /\ m.file = current /\ Sendable(n) /\ blksize = BlkOf
  BY <1>1 DEF DataOK
<1>3. /\ current \in 1..Len(size) /\ blockidx \in 0..(IdxMod - 1) /\ got = blockidx * blksize
      /\ size \in Seq(Nat)
  BY DEF IInv, ClientInv, WorldInv
<1>4. IdxMod \in Nat /\ IdxMod > 0 /\ n % IdxMod = blockidx + 1 /\ n % IdxMod < IdxMod
  BY <1>2, SizesAssumption DEF Expected
<1>5. blockidx + 1 < IdxMod /\ n <= blockidx + 1
  BY <1>2, <1>3, <1>4 DEF Sendable, Stuck
<1>6. n = blockidx + 1
  BY <1>3, <1>4, <1>5
<1>7. size[current] \in Nat /\ BlkOf \in Nat \ {0}
  BY <1>3, BlkOfType DEF IInv
<1>8. /\ m.len \in Nat /\ m.len <= BlkOf /\ (n - 1) * BlkOf + m.len <= size[current]
      /\ m.len < BlkOf => (n - 1) * BlkOf + m.len = size[current]
  BY <1>2, <1>7, BlockArithmetic
<1>9. (n - 1) * BlkOf = got /\ got \in Nat
  BY <1>2, <1>3, <1>6, <1>7
<1> QED BY <1>2, <1>5, <1>7, <1>8, <1>9

(* An acknowledgement of the last block to the sender of a packet.         *)
LEMMA AckIsOK ==
  ASSUME IInv, NEW t \in Ports, UNCHANGED <<world, sessions, lport>>, blockidx' \in Nat,
         Busy' => (blksize' = BlkOf \/ sessions[t].port # lport),
         NEW a, a = Ack(lport, t, blockidx')
  PROVE  MessageOK(a)'
<1>1. BlkOf' = BlkOf /\ t \in Ports' /\ lport \in Nat
  BY DEF world, BlkOf, Ports, IInv, ClientInv
<1> QED BY <1>1 DEF MessageOK, AckOK, Ack

LEMMA ReceiveDataKeeps ==
  ASSUME IInv, NEW m \in net, ReceiveData(m)
  PROVE  IInv'
<1>1. /\ Busy /\ await_tftp(m) /\ Expected(m) /\ UNCHANGED <<world, sessions, lport, current>>
      /\ rport' = m.from /\ blockidx' = (blockidx + 1) % IdxMod /\ got' = got + m.len
      /\ intact' = (intact /\ m.file = current /\ m.off = got)
      /\ IF IsEof(m) THEN blksize' = 0 /\ status' = "complete" ELSE UNCHANGED <<blksize, status>>
      /\ xmit' = [op |-> "ACK", block |-> blockidx'] /\ Exchange(m, {Ack(lport, m.from, blockidx')})
  BY DEF ReceiveData, Busy, SendAck
<1>2. /\ blockidx + 1 < IdxMod /\ blksize = BlkOf /\ m.from \in Ports
      /\ m.file = current /\ m.off = got /\ got \in Nat /\ m.len \in Nat
      /\ ~(m.len < blksize) => m.len = blksize
  BY <1>1, NextBlock
<1>3. /\ blockidx \in Nat /\ IdxMod \in Nat \ {0} /\ blksize \in Nat /\ got = blockidx * blksize
      /\ intact = TRUE /\ current \in 1..Len(size) /\ lport \in Nat
  BY <1>1, SizesAssumption DEF IInv, ClientInv
<1>4. blockidx' = blockidx + 1 /\ blockidx' \in 0..(IdxMod - 1)
  BY <1>1, <1>2, <1>3, SMTT(30)
<1>5. Forward
  BY <1>1, <1>2, <1>3, <1>4 DEF Forward, Busy, Stuck
<1>6. PICK a : a = Ack(lport, m.from, blockidx')
  OBVIOUS
<1>7. MessageOK(a)' /\ net' \subseteq net \cup {a}
  BY <1>1, <1>2, <1>3, <1>4, <1>6, AckIsOK, ExchangeBounds DEF Busy
<1>8. WorldInv' /\ SessionsInv' /\ NetInv'
  BY <1>1, <1>5, <1>7, ClientStepOne
<1>9. ClientInv'
  <2>1. size' = size /\ srvblk' = srvblk /\ BlkOf' = BlkOf /\ Ports' = Ports
    BY <1>1 DEF world, BlkOf, Ports
  <2>2. intact' = TRUE
    BY <1>1, <1>2, <1>3
  <2>3. Busy' => blksize' = blksize /\ got' = blockidx' * blksize'
    <3> SUFFICES ASSUME Busy' PROVE blksize' = blksize /\ got' = blockidx' * blksize'
      OBVIOUS
    <3>1. ~(m.len < blksize) /\ blksize' = blksize
      BY <1>1 DEF Busy, IsEof
    <3>2. got' = blockidx * blksize + blksize
      BY <1>1, <1>2, <1>3, <3>1
    <3> QED BY <1>3, <1>4, <3>1, <3>2
  <2>4. Busy' => (srvblk' = 0 => blksize' = Default)
    BY <1>1, <2>1, <2>3 DEF IInv, ClientInv
  <2> QED BY <1>1, <1>2, <1>3, <1>4, <2>1, <2>2, <2>3, <2>4 DEF ClientInv
<1> QED BY <1>8, <1>9 DEF IInv

LEMMA ReceiveOtherKeeps ==
  ASSUME IInv, NEW m \in net, ReceiveOther(m)
  PROVE  IInv'
<1>1. /\ Busy /\ await_tftp(m) /\ (m.op = "DATA" \/ (m.op = "OACK" /\ blockidx # 0))
      /\ UNCHANGED <<world, sessions, lport, current, status, got, intact, blockidx, blksize>>
      /\ rport' = m.from /\ xmit' = [op |-> "ACK", block |-> blockidx]
      /\ Exchange(m, {Ack(lport, m.from, blockidx)})
  BY DEF ReceiveOther, Busy, SendAck
<1>2. (DataOK(m) \/ OackOK(m)) /\ m.to = lport
  BY <1>1 DEF IInv, NetInv, MessageOK, ErrorOK, RrqOK, AckOK, await_tftp
<1>3. blockidx \in Nat /\ lport \in Nat
  BY SizesAssumption DEF IInv, ClientInv
<1>4. m.from \in Ports /\ blksize = BlkOf
  BY <1>1, <1>2, <1>3 DEF DataOK, OackOK, IInv, ClientInv
<1>5. Forward
  BY <1>1 DEF Forward, Busy
<1>6. PICK a : a = Ack(lport, m.from, blockidx')
  OBVIOUS
<1>7. MessageOK(a)' /\ net' \subseteq net \cup {a}
  BY <1>1, <1>3, <1>4, <1>6, AckIsOK, ExchangeBounds
<1>8. WorldInv' /\ SessionsInv' /\ NetInv'
  BY <1>1, <1>5, <1>7, ClientStepOne
<1>9. ClientInv'
  <2>1. size' = size /\ srvblk' = srvblk /\ BlkOf' = BlkOf /\ Ports' = Ports
    BY <1>1 DEF world, BlkOf, Ports
  <2> QED BY <1>1, <1>4, <2>1 DEF IInv, ClientInv, Busy
<1> QED BY <1>8, <1>9 DEF IInv

LEMMA ReceiveOackKeeps ==
  ASSUME IInv, NEW m \in net, ReceiveOack(m)
  PROVE  IInv'
<1>1. /\ Busy /\ await_tftp(m) /\ m.op = "OACK" /\ blockidx = 0
      /\ UNCHANGED <<world, sessions, lport, current, got, intact, blockidx>>
      /\ rport' = m.from /\ blksize' = m.blksize
  BY DEF ReceiveOack, Busy
<1>2. OackOK(m) /\ m.to = lport
  BY <1>1 DEF IInv, NetInv, MessageOK, DataOK, ErrorOK, RrqOK, AckOK, await_tftp
<1>3. /\ lport \in Nat /\ m.from \in Ports /\ blksize' = srvblk /\ srvblk \in Nat
      /\ intact = TRUE /\ current \in 1..Len(size) /\ got = 0 /\ blksize \in Nat
  BY <1>1, <1>2 DEF IInv, ClientInv, WorldInv, OackOK
<1>4. size' = size /\ srvblk' = srvblk /\ BlkOf' = BlkOf /\ Ports' = Ports
  BY <1>1 DEF world, BlkOf, Ports
<1>5. CASE m.blksize < Default \/ m.blksize > MaxBlksize
  <2>1. ~Busy' /\ Exchange(m, {})
    BY <1>5 DEF ReceiveOack, Busy
  <2>2. net' \subseteq net
    BY <2>1, ExchangeBounds
  <2>3. Forward
    BY <1>1, <2>1 DEF Forward
  <2>4. WorldInv' /\ SessionsInv' /\ NetInv'
    BY <1>1, <2>2, <2>3, QuietStep
  <2>5. ClientInv'
    BY <1>1, <1>4, <2>1 DEF IInv, ClientInv
  <2> QED BY <2>4, <2>5 DEF IInv
<1>6. CASE ~(m.blksize < Default \/ m.blksize > MaxBlksize)
  <2>1. /\ Busy' /\ Exchange(m, {Ack(lport, m.from, 0)}) /\ xmit' = [op |-> "ACK", block |-> 0]
    BY <1>1, <1>6 DEF ReceiveOack, Busy, SendAck
  <2>2. srvblk # 0 /\ blksize' = BlkOf
    BY <1>1, <1>3, <1>6 DEF Default, BlkOf
  <2>3. Forward
    BY <1>1, <2>1, <2>2 DEF Forward
  <2>4. PICK a : a = Ack(lport, m.from, blockidx')
    OBVIOUS
  <2>5. MessageOK(a)' /\ net' \subseteq net \cup {a}
    BY <1>1, <1>3, <2>1, <2>2, <2>4, AckIsOK, ExchangeBounds
  <2>6. WorldInv' /\ SessionsInv' /\ NetInv'
    BY <1>1, <2>3, <2>5, ClientStepOne
  <2>7. ClientInv'
    BY <1>1, <1>3, <1>4, <2>1, <2>2 DEF IInv, ClientInv
  <2> QED BY <2>6, <2>7 DEF IInv
<1> QED BY <1>5, <1>6

LEMMA ReceiveErrorKeeps ==
  ASSUME IInv, NEW m \in net, ReceiveError(m)
  PROVE  IInv'
<1>1. /\ ~Busy' /\ UNCHANGED <<world, sessions, lport, current, got, intact, blockidx>>
      /\ Exchange(m, {})
  BY DEF ReceiveError, Busy
<1>2. net' \subseteq net
  BY <1>1, ExchangeBounds
<1>3. Forward
  BY <1>1 DEF Forward
<1>4. WorldInv' /\ SessionsInv' /\ NetInv'
  BY <1>1, <1>2, <1>3, QuietStep
<1>5. ClientInv'
  BY <1>1 DEF IInv, ClientInv, world
<1> QED BY <1>4, <1>5 DEF IInv

LEMMA RrqIsOK ==
  ASSUME IInv, UNCHANGED world, lport' \in Nat, current' \in 1..Len(size),
         NEW a, a = Rrq(lport', current')
  PROVE  MessageOK(a)'
  BY DEF MessageOK, RrqOK, Rrq, world

LEMMA NewRequestKeeps ==
  ASSUME IInv, NewRequest
  PROVE  IInv'
<1>1. /\ current' = current + 1 /\ current < Len(size) /\ UNCHANGED <<world, sessions, intact>>
      /\ xmit' = [op |-> "RRQ", file |-> current'] /\ lport' = lport + 1
      /\ blockidx' = 0 /\ got' = 0 /\ blksize' = Default
  BY DEF NewRequest
<1>2. lport \in Nat /\ current \in Nat /\ Len(size) \in Nat /\ intact = TRUE /\ IdxMod \in Nat \ {0}
  BY SizesAssumption DEF IInv, ClientInv, WorldInv
<1>3. lport' \in Nat /\ lport' > lport /\ current' \in 1..Len(size)
  BY <1>1, <1>2
<1>4. Forward
  BY <1>3 DEF Forward
<1>5. PICK a : a = Rrq(lport', current')
  OBVIOUS
<1>6. MessageOK(a)'
  BY <1>1, <1>3, <1>5, RrqIsOK
<1>7. net' \subseteq net \cup {a}
  BY <1>1, <1>5 DEF NewRequest, Transmit
<1>8. WorldInv' /\ SessionsInv' /\ NetInv'
  BY <1>1, <1>4, <1>6, <1>7, ClientStepOne
<1>9. ClientInv'
  BY <1>1, <1>2, <1>3 DEF ClientInv, world, Default
<1> QED BY <1>8, <1>9 DEF IInv

LEMMA TimeoutKeeps ==
  ASSUME IInv, Timeout
  PROVE  IInv'
<1>1. /\ Busy /\ UNCHANGED <<world, sessions, current, got, intact, rport, xmit, blockidx, blksize>>
  BY DEF Timeout, Busy
<1>2. /\ lport \in Nat /\ current \in 1..Len(size) /\ blockidx \in Nat
      /\ blockidx > 0 => blksize = BlkOf
  BY <1>1, SizesAssumption DEF IInv, ClientInv
<1>3. size' = size /\ srvblk' = srvblk /\ BlkOf' = BlkOf /\ Ports' = Ports
  BY <1>1 DEF world, BlkOf, Ports
<1>4. lport' \in Nat /\ lport' \in {lport, lport + 1}
  BY <1>2 DEF Timeout
<1>5. Forward
  BY <1>1, <1>2, <1>4 DEF Forward
<1>6. ClientInv'
  BY <1>1, <1>3, <1>4 DEF IInv, ClientInv, Busy
<1>7. CASE net' \subseteq net
  BY <1>1, <1>5, <1>6, <1>7, QuietStep DEF IInv
<1>8. CASE ~(net' \subseteq net)
  <2>1. /\ lport' = IF blockidx = 0 THEN lport + 1 ELSE lport
        /\ net' = net \cup Transmit(xmit, lport', rport)
    BY <1>8 DEF Timeout
  <2>2. CASE xmit.op = "RRQ"
    <3>1. PICK a : a = Rrq(lport', current')
      OBVIOUS
    <3>2. net' \subseteq net \cup {a}
      BY <1>1, <2>1, <2>2, <3>1 DEF Transmit, IInv, ClientInv
    <3>3. MessageOK(a)'
      BY <1>1, <1>2, <1>4, <3>1, RrqIsOK
    <3> QED BY <1>1, <1>5, <1>6, <3>2, <3>3, ClientStepOne DEF IInv
  <2>3. CASE xmit.op = "ACK"
    <3>1. PICK a : a = Ack(lport', rport, blockidx')
      OBVIOUS
    <3>2. rport \in Ports /\ xmit.block = blockidx
      BY <1>1, <2>3 DEF IInv, ClientInv
    <3>3. net' \subseteq net \cup {a}
      BY <1>1, <2>1, <2>3, <3>1, <3>2 DEF Transmit
    <3>4. sessions[rport].port = lport' => blksize' = BlkOf
      <4>1. sessions[rport].port \in Nat /\ sessions[rport].port <= lport
        BY <3>2 DEF IInv, SessionsInv, SessionOK
      <4> QED BY <1>1, <1>2, <2>1, <4>1
    <3>5. MessageOK(a)'
      BY <1>1, <1>2, <1>3, <1>4, <3>1, <3>2, <3>4 DEF MessageOK, AckOK, Ack
    <3> QED BY <1>1, <1>5, <1>6, <3>3, <3>5, ClientStepOne DEF IInv
  <2>4. CASE xmit.op # "RRQ" /\ xmit.op # "ACK"
    BY <1>8, <2>1, <2>4 DEF Transmit
  <2> QED BY <2>2, <2>3, <2>4
<1> QED BY <1>7, <1>8

LEMMA QuietKeeps ==
  ASSUME IInv, UNCHANGED <<world, client, sessions>>, net' \subseteq net
  PROVE  IInv'
<1>1. Forward
  BY DEF Forward, client, Busy
<1>2. WorldInv' /\ SessionsInv' /\ NetInv'
  BY <1>1, QuietStep
<1>3. ClientInv'
  BY DEF IInv, ClientInv, client, world, Busy, Ports, BlkOf
<1> QED BY <1>2, <1>3 DEF IInv

-----------------------------------------------------------------------------
(* A step of the server need only show its sessions and its packet.        *)
LEMMA ServerStep ==
  ASSUME IInv, UNCHANGED <<world, client>>, SessionsGrow,
         sessions' \in Seq([port : Nat, file : 1..Len(size), sent : Nat]),
         \A t \in 1..Len(sessions') : SessionOK(sessions'[t]),
         NEW a, net' \subseteq net \cup {a}, MessageOK(a)'
  PROVE  IInv'
<1>1. Forward
  BY DEF Forward, client, Busy
<1>2. WorldInv'
  BY DEF IInv, WorldInv, world
<1>3. ClientInv'
  <2>1. Ports \subseteq Ports'
    BY DEF SessionsGrow, Ports, IInv, SessionsInv
  <2> QED BY <2>1 DEF IInv, ClientInv, client, world, Busy, BlkOf
<1>4. SessionsInv'
  <2>1. ASSUME NEW t \in 1..Len(sessions') PROVE SessionOK(sessions[t])'
    <3>1. PICK s : s = sessions'[t]
      OBVIOUS
    <3>2. SessionOK(s)'
      BY <1>1, <3>1, SessionStays DEF IInv
    <3> QED BY <3>1, <3>2 DEF SessionOK
  <2>2. size' = size
    BY DEF world
  <2> QED BY <2>1, <2>2 DEF SessionsInv, Ports
<1>5. NetInv'
  <2> SUFFICES ASSUME NEW m \in net' PROVE MessageOK(m)'
    BY DEF NetInv
  <2>1. CASE m \in net
    BY <1>1, <2>1, MessageStays DEF IInv, NetInv
  <2>2. CASE m = a
    BY <2>2
  <2> QED BY <2>1, <2>2
<1> QED BY <1>2, <1>3, <1>4, <1>5 DEF IInv

(* A step of the server that sends a and opens or moves no session.        *)
LEMMA ServerSends ==
  ASSUME IInv, UNCHANGED <<world, client, sessions>>,
         NEW a, net' \subseteq net \cup {a}, MessageOK(a)'
  PROVE  IInv'
<1>1. SessionsGrow
  BY DEF SessionsGrow, IInv, SessionsInv
<1> QED BY <1>1, ServerStep DEF IInv, SessionsInv, Ports

(* The packets of a session: block n of its file and its OACK.             *)
LEMMA DataIsOK ==
  ASSUME IInv, NEW s, SessionOK(s), NEW t \in Ports, NEW n \in Nat \ {0}, n = s.sent,
         NEW a, a = Data(s.port, t, s.file, BlkOf, n)
  PROVE  MessageOK(a)
<1>1. /\ a.op = "DATA" /\ a.block = n % IdxMod /\ a.off = (n - 1) * BlkOf
      /\ a.len = BlockLen(a.file, BlkOf, n) /\ a.from = t /\ a.file = s.file /\ a.to = s.port
  BY DEF Data
<1>2. /\ s.port \in Nat /\ s.file \in 1..Len(size) /\ s.port <= lport /\ n <= LastBlock(s.file, BlkOf)
      /\ s.port = lport => s.file = current /\ Sendable(n) /\ (Busy => blksize = BlkOf)
  BY DEF SessionOK
<1> QED BY <1>1, <1>2 DEF MessageOK, DataOK

LEMMA OackIsOK ==
  ASSUME IInv, NEW s, SessionOK(s), NEW t \in Ports, NEW a, a = Oack(s.port, t)
  PROVE  MessageOK(a)
  BY DEF SessionOK, Oack, MessageOK, OackOK

LEMMA LastPacketIsOK ==
  ASSUME IInv, NEW t \in Ports, NEW a, a = LastPacket(t)
  PROVE  MessageOK(a)
<1>1. PICK s : s = sessions[t]
  OBVIOUS
<1>2. SessionOK(s) /\ s.sent \in Nat
  BY <1>1 DEF IInv, SessionsInv, SessionOK
<1>3. CASE s.sent = 0
  BY <1>1, <1>2, <1>3, OackIsOK DEF LastPacket
<1>4. CASE s.sent # 0
  <2>1. PICK n : n = s.sent
    OBVIOUS
  <2>2. a = Data(s.port, t, s.file, BlkOf, n)
    BY <1>1, <1>4, <2>1 DEF LastPacket
  <2> QED BY <1>2, <1>4, <2>1, <2>2, DataIsOK
<1> QED BY <1>3, <1>4

LEMMA PacketStays ==
  ASSUME IInv, NEW a, MessageOK(a), UNCHANGED <<world, client>>, SessionsGrow
  PROVE  MessageOK(a)'
<1>1. Forward
  BY DEF Forward, client, Busy
<1> QED BY <1>1, MessageStays DEF IInv

LEMMA ServeRrqKeeps ==
  ASSUME IInv, NEW m \in net, ServeRrq(m)
  PROVE  IInv'
<1>1. RrqOK(m) /\ UNCHANGED <<world, client>>
  BY DEF ServeRrq, IInv, NetInv, MessageOK, DataOK, OackOK, ErrorOK, AckOK
<1>2. /\ m.port \in Nat /\ m.port <= lport /\ m.file \in 1..Len(size)
      /\ m.port = lport => m.file = current
  BY <1>1 DEF RrqOK
<1>3. lport \in Nat /\ blockidx \in Nat /\ Len(sessions) \in Nat /\ IdxMod \in Nat
  BY SizesAssumption DEF IInv, ClientInv, SessionsInv
<1>4. CASE sessions' = sessions
  <2>1. Len(sessions') # Len(sessions) + 1
    BY <1>3, <1>4
  <2>2. sessions' # Append(sessions, [port |-> m.port, file |-> m.file, sent |-> IF srvblk = 0 THEN 1 ELSE 0])
    BY <2>1 DEF IInv, SessionsInv
  <2>3. Exchange(m, {Error(m.port, NoPort)})
    BY <2>2 DEF ServeRrq
  <2>4. PICK a : a = Error(m.port, NoPort)
    OBVIOUS
  <2>5. net' \subseteq net \cup {a}
    BY <2>3, <2>4, ExchangeBounds
  <2>6. MessageOK(a)
    BY <1>2, <2>4 DEF MessageOK, ErrorOK, Error
  <2>7. SessionsGrow
    BY <1>3, <1>4 DEF SessionsGrow
  <2> QED BY <1>1, <1>4, <2>5, <2>6, <2>7, PacketStays, ServerSends
<1>5. CASE sessions' # sessions
  <2>1. PICK s : s = [port |-> m.port, file |-> m.file, sent |-> IF srvblk = 0 THEN 1 ELSE 0]
    OBVIOUS
  <2>2. PICK t : t = Len(sessions) + 1
    OBVIOUS
  <2>3. PICK a : a = FirstPacket(m.port, t, m.file)
    OBVIOUS
  <2>4. sessions' = Append(sessions, s) /\ Exchange(m, {a})
    BY <1>5, <2>1, <2>2, <2>3 DEF ServeRrq
  <2>5. s \in [port : Nat, file : 1..Len(size), sent : Nat]
    BY <1>2, <2>1
  <2>6. /\ sessions' \in Seq([port : Nat, file : 1..Len(size), sent : Nat])
        /\ Len(sessions') = t /\ sessions'[t] = s
        /\ \A u \in 1..Len(sessions) : sessions'[u] = sessions[u]
    BY <2>2, <2>4, <2>5 DEF IInv, SessionsInv
  <2>7. SessionOK(s)
    <3>1. s.sent <= 1
      BY <2>1
    <3>2. LastBlock(s.file, BlkOf) \in Nat /\ LastBlock(s.file, BlkOf) >= 1
      <4>1. size[s.file] \in Nat /\ BlkOf \in Nat \ {0}
        BY <2>5, BlkOfType DEF IInv, WorldInv
      <4> QED BY <4>1 DEF LastBlock
    <3>3. Sendable(s.sent)
      BY <1>3, <2>5, <3>1 DEF Sendable
    <3>4. Busy /\ s.sent > 0 => blksize = BlkOf
      BY <2>1 DEF IInv, ClientInv, BlkOf
    <3>5. s.sent <= LastBlock(s.file, BlkOf)
      BY <2>5, <3>1, <3>2
    <3>6. s.port = m.port /\ s.file = m.file
      BY <2>1
    <3> QED BY <1>2, <2>5, <3>3, <3>4, <3>5, <3>6 DEF SessionOK
  <2>8. SessionsGrow
    <3>1. Len(sessions') \in Nat /\ Len(sessions') >= Len(sessions)
      BY <1>3, <2>2, <2>6
    <3>2. \A u \in Ports : sessions'[u].port = sessions[u].port
      BY <2>6 DEF Ports
    <3> QED BY <3>1, <3>2 DEF SessionsGrow
  <2>9. \A u \in 1..Len(sessions') : SessionOK(sessions'[u])
    <3> SUFFICES ASSUME NEW u \in 1..Len(sessions') PROVE SessionOK(sessions'[u])
      OBVIOUS
    <3>1. CASE u = t
      BY <2>6, <2>7, <3>1
    <3>2. CASE u # t
      <4>1. u \in 1..Len(sessions)
        BY <1>3, <2>2, <2>6, <3>2
      <4>2. sessions'[u] = sessions[u] /\ SessionOK(sessions[u])
        BY <2>6, <4>1 DEF IInv, SessionsInv, Ports
      <4> QED BY <4>2
    <3> QED BY <3>1, <3>2
  <2>10. MessageOK(a)'
    <3>1. t \in Ports' /\ BlkOf' = BlkOf /\ srvblk' = srvblk /\ size' = size
      BY <1>1, <1>3, <2>2, <2>6 DEF Ports, world, BlkOf
    <3>2. CASE srvblk # 0
      <4>1. a.op = "OACK" /\ a.from = t /\ a.to = m.port /\ a.blksize = srvblk
        BY <2>3, <3>2 DEF FirstPacket, Oack
      <4>2. lport' = lport
        BY <1>1 DEF client
      <4> QED BY <1>2, <3>1, <4>1, <4>2 DEF MessageOK, OackOK
    <3>3. CASE srvblk = 0
      <4>1. BlkOf = Default /\ s.sent = 1 /\ s.port = m.port /\ s.file = m.file
        BY <2>1, <3>3 DEF BlkOf
      <4>2. /\ a.op = "DATA" /\ a.block = 1 % IdxMod /\ a.off = (1 - 1) * BlkOf
            /\ a.len = BlockLen(a.file, BlkOf, 1) /\ a.from = t /\ a.file = s.file /\ a.to = s.port
        BY <2>3, <3>3, <4>1 DEF FirstPacket, Data
      <4>3. /\ s.port \in Nat /\ s.file \in 1..Len(size) /\ s.port <= lport
            /\ 1 <= LastBlock(s.file, BlkOf)
            /\ s.port = lport => s.file = current /\ Sendable(1) /\ (Busy => blksize = BlkOf)
        BY <2>7, <4>1 DEF SessionOK
      <4>4. /\ lport' = lport /\ current' = current /\ Sendable(1)' = Sendable(1) /\ Busy' = Busy
            /\ blksize' = blksize /\ LastBlock(s.file, BlkOf)' = LastBlock(s.file, BlkOf)
            /\ BlockLen(s.file, BlkOf, 1)' = BlockLen(s.file, BlkOf, 1)
        BY <1>1, <3>1 DEF client, Busy, Sendable, Stuck, LastBlock, BlockLen
      <4>5. DataOK(a)'
        BY <3>1, <4>2, <4>3, <4>4 DEF DataOK
      <4> QED BY <4>5 DEF MessageOK
    <3> QED BY <3>2, <3>3
  <2>11. net' \subseteq net \cup {a}
    BY <2>4, ExchangeBounds
  <2> QED BY <1>1, <2>6, <2>8, <2>9, <2>10, <2>11, ServerStep
<1> QED BY <1>4, <1>5

(* A block sent for an acknowledgement is one ahead of the client at most: *)
(* below IdxMod the block number determines the block.                     *)
LEMMA NextIsSendable ==
  ASSUME IInv, NEW n \in Nat, NEW k \in Nat, k = n % IdxMod, Sendable(n), k <= blockidx
  PROVE  Sendable(n + 1)
<1>1. blockidx \in 0..(IdxMod - 1) /\ IdxMod \in Nat \ {0}
  BY SizesAssumption DEF IInv, ClientInv
<1>2. CASE Stuck
  BY <1>2 DEF Sendable
<1>3. CASE ~Stuck
  <2>1. n < IdxMod
    BY <1>1, <1>3 DEF Sendable, Stuck
  <2>2. n % IdxMod = n
    BY <1>1, <2>1
  <2> QED BY <1>1, <2>2 DEF Sendable
<1> QED BY <1>2, <1>3

LEMMA ServeAckKeeps ==
  ASSUME IInv, NEW m \in net, ServeAck(m)
  PROVE  IInv'
<1>1. AckOK(m) /\ UNCHANGED <<world, client>>
  BY DEF ServeAck, IInv, NetInv, MessageOK, DataOK, OackOK, ErrorOK, RrqOK
<1>2. m.tid \in Ports /\ m.port \in Nat /\ m.port <= lport /\ m.block \in Nat
  BY <1>1 DEF AckOK
<1>3. PICK s : s = sessions[m.tid]
  OBVIOUS
<1>4. SessionOK(s) /\ s.sent \in Nat /\ s.port \in Nat
  BY <1>2, <1>3 DEF IInv, SessionsInv, SessionOK
<1>5. CASE /\ m.port = s.port
           /\ m.block = s.sent % IdxMod /\ s.sent < LastBlock(s.file, BlkOf)
  <2>1. PICK n : n = s.sent + 1
    OBVIOUS
  <2>2. PICK z : z = [s EXCEPT !.sent = n]
    OBVIOUS
  <2>3. PICK a : a = Data(s.port, m.tid, s.file, BlkOf, n)
    OBVIOUS
  <2>4. sessions' = [sessions EXCEPT ![m.tid].sent = n] /\ Exchange(m, {a})
    BY <1>3, <1>5, <2>1, <2>3 DEF ServeAck
  <2>5. s \in [port : Nat, file : 1..Len(size), sent : Nat]
    BY <1>4 DEF SessionOK
  <2>6. n \in Nat \ {0} /\ z \in [port : Nat, file : 1..Len(size), sent : Nat]
        /\ z.port = s.port /\ z.file = s.file /\ z.sent = n
    BY <1>4, <2>1, <2>2, <2>5
  <2>7. sessions' = [sessions EXCEPT ![m.tid] = z]
    BY <1>3, <2>2, <2>4
  <2>8. /\ sessions' \in Seq([port : Nat, file : 1..Len(size), sent : Nat])
        /\ Len(sessions') = Len(sessions) /\ sessions'[m.tid] = z
        /\ \A u \in 1..Len(sessions) : u # m.tid => sessions'[u] = sessions[u]
    BY <1>2, <2>6, <2>7, SMTT(30) DEF IInv, SessionsInv, Ports
  <2>9. SessionOK(z)
    <3>1. n <= LastBlock(z.file, BlkOf)
      <4>1. size[s.file] \in Nat /\ BlkOf \in Nat \ {0}
        BY <2>5, BlkOfType DEF IInv, WorldInv
      <4>2. LastBlock(s.file, BlkOf) \in Nat
        BY <4>1 DEF LastBlock
      <4> QED BY <1>4, <1>5, <2>1, <2>6, <4>2
    <3>2. s.port = lport => Sendable(n)
      BY <1>1, <1>2, <1>4, <1>5, <2>1, NextIsSendable DEF SessionOK, AckOK
    <3>3. s.port = lport /\ Busy => blksize = BlkOf
      BY <1>1, <1>3, <1>5 DEF AckOK
    <3> QED BY <1>4, <2>6, <3>1, <3>2, <3>3 DEF SessionOK
  <2>10. SessionsGrow
    <3>1. Len(sessions') \in Nat /\ Len(sessions') >= Len(sessions)
      BY <2>8 DEF IInv, SessionsInv
    <3>2. \A u \in Ports : sessions'[u].port = sessions[u].port
      BY <1>3, <2>6, <2>8 DEF Ports
    <3> QED BY <3>1, <3>2 DEF SessionsGrow
  <2>11. \A u \in 1..Len(sessions') : SessionOK(sessions'[u])
    <3> SUFFICES ASSUME NEW u \in 1..Len(sessions') PROVE SessionOK(sessions'[u])
      OBVIOUS
    <3>1. CASE u = m.tid
      BY <2>8, <2>9, <3>1
    <3>2. CASE u # m.tid
      <4>1. sessions'[u] = sessions[u] /\ SessionOK(sessions[u])
        BY <2>8, <3>2 DEF IInv, SessionsInv, Ports
      <4> QED BY <4>1
    <3> QED BY <3>1, <3>2
  <2>12. MessageOK(a)
    <3>1. a = Data(z.port, m.tid, z.file, BlkOf, n) /\ n = z.sent
      BY <2>3, <2>6
    <3> QED BY <1>2, <2>6, <2>9, <3>1, DataIsOK
  <2>13. MessageOK(a)' /\ net' \subseteq net \cup {a}
    BY <1>1, <2>4, <2>10, <2>12, PacketStays, ExchangeBounds
  <2> QED BY <1>1, <2>8, <2>10, <2>11, <2>13, ServerStep
<1>6. CASE ~(/\ m.port = s.port
             /\ m.block = s.sent % IdxMod /\ s.sent < LastBlock(s.file, BlkOf))
  <2>1. PICK a : a = LastPacket(m.tid)
    OBVIOUS
  <2>2. PICK e : e = Error(m.port, m.tid)
    OBVIOUS
  <2>3. UNCHANGED sessions /\ (Exchange(m, {a}) \/ Exchange(m, {}) \/ Exchange(m, {e}))
    BY <1>3, <1>6, <2>1, <2>2 DEF ServeAck
  <2>4. SessionsGrow
    BY <2>3 DEF SessionsGrow, IInv, SessionsInv
  <2>5. MessageOK(a)'
    BY <1>1, <1>2, <2>1, <2>4, LastPacketIsOK, PacketStays
  <2>6. MessageOK(e)
    BY <1>2, <2>2 DEF MessageOK, ErrorOK, Error
  <2>7. MessageOK(e)'
    BY <1>1, <2>4, <2>6, PacketStays
  <2>8. CASE Exchange(m, {a})
    BY <1>1, <2>3, <2>5, <2>8, ExchangeBounds, ServerSends
  <2>9. CASE Exchange(m, {})
    <3>1. net' \subseteq net
      BY <2>9, ExchangeBounds
    <3> QED BY <1>1, <2>3, <3>1, QuietKeeps
  <2>10. CASE Exchange(m, {e})
    BY <1>1, <2>3, <2>7, <2>10, ExchangeBounds, ServerSends
  <2> QED BY <2>3, <2>8, <2>9, <2>10
<1> QED BY <1>5, <1>6

LEMMA ResendKeeps ==
  ASSUME IInv, NEW t \in Ports, Resend(t)
  PROVE  IInv'
<1>1. PICK a : a = LastPacket(t)
  OBVIOUS
<1>2. UNCHANGED <<world, client, sessions>> /\ net' \subseteq net \cup {a}
  BY <1>1 DEF Resend
<1>3. SessionsGrow
  BY <1>2 DEF SessionsGrow, IInv, SessionsInv
<1>4. MessageOK(a)'
  BY <1>1, <1>2, <1>3, LastPacketIsOK, PacketStays
<1> QED BY <1>2, <1>4, ServerSends

-----------------------------------------------------------------------------
LEMMA InitIInv == Init => IInv
<1> SUFFICES ASSUME Init PROVE IInv
  OBVIOUS
<1>1. WorldInv
  BY SizesAssumption DEF Init, WorldInv
<1>2. ClientInv
  BY <1>1, SizesAssumption DEF Init, ClientInv, Busy, WorldInv
<1>3. SessionsInv /\ NetInv
  BY DEF Init, SessionsInv, NetInv, Ports
<1> QED BY <1>1, <1>2, <1>3 DEF IInv

LEMMA NextIInv == IInv /\ [Next]_vars => IInv'
<1> SUFFICES ASSUME IInv, [Next]_vars PROVE IInv'
  OBVIOUS
<1>1. CASE NewRequest
  BY <1>1, NewRequestKeeps
<1>2. CASE Timeout
  BY <1>2, TimeoutKeeps
<1>3. ASSUME NEW m \in net, Receive(m) PROVE IInv'
  BY <1>3, ReceiveDataKeeps, ReceiveOtherKeeps, ReceiveOackKeeps, ReceiveErrorKeeps DEF Receive
<1>4. ASSUME NEW m \in net, Discard(m) \/ Lose(m) PROVE IInv'
  BY <1>4, QuietKeeps DEF Discard, Lose
<1>5. ASSUME NEW m \in net, ServeRrq(m) PROVE IInv'
  BY <1>5, ServeRrqKeeps
<1>6. ASSUME NEW m \in net, ServeAck(m) PROVE IInv'
  BY <1>6, ServeAckKeeps
<1>7. ASSUME NEW t \in 1..Len(sessions), Resend(t) PROVE IInv'
  BY <1>7, ResendKeeps DEF Ports
<1>8. CASE Finished \/ UNCHANGED vars
  BY <1>8, QuietKeeps DEF Finished, vars
<1> QED BY <1>1, <1>2, <1>3, <1>4, <1>5, <1>6, <1>7, <1>8 DEF Next

(* What the client knows, the packets in flight and the server's sessions  *)
(* keep in step: the invariant everything here rests on.                   *)
THEOREM InStep == Spec => []IInv
  BY InitIInv, NextIInv, PTL DEF Spec

-----------------------------------------------------------------------------
(* Every step is one of FileTransfer, or one it does not see.              *)
LEMMA ChunkStep ==
  ASSUME IInv, NEW m \in net, ReceiveData(m)
  PROVE  FT!Chunk
<1>1. /\ Busy /\ await_tftp(m) /\ Expected(m) /\ UNCHANGED <<world, current>>
      /\ got' = got + m.len /\ intact' = (intact /\ m.file = current /\ m.off = got)
      /\ IF IsEof(m) THEN status' = "complete" ELSE UNCHANGED status
  BY DEF ReceiveData, Busy
<1>2. /\ m.file = current /\ m.off = got /\ got \in Nat /\ m.len \in Nat
      /\ got + m.len <= size[current]
      /\ m.len < blksize => got + m.len = size[current]
  BY <1>1, NextBlock
<1>3. size[current] \in Nat /\ intact = TRUE
  BY <1>1, SMTT(30) DEF IInv, ClientInv, WorldInv
<1>4. m.len \in 0..size[current]
  BY <1>2, <1>3
<1>5. status' = "busy" \/ (status' = "complete" /\ got' = size[current])
  BY <1>1, <1>2 DEF IsEof, Busy
<1>6. UNCHANGED <<size, current, intact>>
  BY <1>1, <1>2, <1>3 DEF world
<1> QED BY <1>1, <1>2, <1>4, <1>5, <1>6 DEF FT!Chunk, Busy

LEMMA StepsImplement == IInv /\ [Next]_vars => [FT!Next]_FT!vars
<1> SUFFICES ASSUME IInv, [Next]_vars PROVE [FT!Next]_FT!vars
  OBVIOUS
<1>1. CASE NewRequest
  <2>1. FT!Request
    BY <1>1 DEF NewRequest, FT!Request, world
  <2> QED BY <2>1 DEF FT!Next
<1>2. CASE Timeout
  <2>1. FT!Fail \/ UNCHANGED FT!vars
    BY <1>2 DEF Timeout, FT!Fail, FT!vars, world
  <2> QED BY <2>1 DEF FT!Next
<1>3. ASSUME NEW m \in net, Receive(m) PROVE FT!Next \/ UNCHANGED FT!vars
  <2>1. CASE ReceiveData(m)
    BY <2>1, ChunkStep DEF FT!Next
  <2>2. CASE ReceiveOther(m)
    BY <2>2 DEF ReceiveOther, FT!vars, world
  <2>3. CASE ReceiveOack(m)
    <3>1. FT!Fail \/ UNCHANGED FT!vars
      BY <2>3 DEF ReceiveOack, FT!Fail, FT!vars, world
    <3> QED BY <3>1 DEF FT!Next
  <2>4. CASE ReceiveError(m)
    <3>1. FT!Fail
      BY <2>4 DEF ReceiveError, FT!Fail, world
    <3> QED BY <3>1 DEF FT!Next
  <2> QED BY <1>3, <2>1, <2>2, <2>3, <2>4 DEF Receive
<1>4. ASSUME UNCHANGED <<world, client>> PROVE UNCHANGED FT!vars
  BY <1>4 DEF world, client, FT!vars
<1>5. CASE UNCHANGED vars
  BY <1>4, <1>5 DEF vars
<1> QED BY <1>1, <1>2, <1>3, <1>4, <1>5
        DEF Next, Discard, ServeRrq, ServeAck, Resend, Lose, Finished

(* tftp() hands over each file whole, in order and unmixed, and reports it *)
(* complete only then: for any files and however long they are, any block  *)
(* size the server answers, any number of sessions, and whatever packets   *)
(* the network loses, repeats, delays or reorders.                         *)
THEOREM TransferImplemented == Spec => ImplementsFileTransfer
<1>1. Init => FT!Init
  BY SizesAssumption DEF Init, FT!Init
<1> QED BY <1>1, InStep, StepsImplement, PTL DEF Spec, ImplementsFileTransfer, FT!Spec

-----------------------------------------------------------------------------
(* The plain server of PlainServerNeverFails.                              *)
Plain ==
  /\ healthy /\ srvblk = 0 /\ srvdup /\ NoWrap(Default)
  /\ MaxFaults <= MaxRetries + 1

(* There is one session per local port, and it is not behind the client.   *)
PlainSessions ==
  /\ \A t \in Ports : sessions[t].sent > 0
  /\ \A t, u \in Ports : sessions[t].port = sessions[u].port => t = u
  /\ \A t \in Ports : Busy /\ sessions[t].port = lport => blockidx <= sessions[t].sent

(* What the plain server and its client send each other: no errors, each   *)
(* packet between a local port and its session, and one RRQ per port.      *)
PlainPacket(m) ==
  /\ m.op \in {"DATA", "RRQ", "ACK"}
  /\ m.op = "DATA" => sessions[m.from].port = m.to /\ m.block <= sessions[m.from].sent
  /\ m.op = "ACK" => sessions[m.tid].port = m.port
  /\ m.op = "RRQ" => \A t \in Ports : sessions[t].port # m.port
PlainNet ==
  /\ \A m \in net : PlainPacket(m)
  /\ \A m, k \in net : m.op = "RRQ" /\ k.op = "RRQ" /\ m.port = k.port => m = k

PlainClient ==
  /\ status # "failed"
  /\ Busy => /\ blockidx < LastBlock(current, Default)
             /\ blockidx = 0 => xmit.op = "RRQ"
             /\ blockidx > 0 => xmit.op = "ACK" /\ sessions[rport].port = lport

(* A packet from which the client will hear again, unless it is lost; when *)
(* there is none, one more packet was lost than the client has resent.     *)
Live(m) ==
  \/ m.op = "DATA" /\ m.to = lport
  \/ m.op = "RRQ" /\ m.port = lport
  \/ m.op = "ACK" /\ m.port = lport /\ m.block = blockidx
Hope == \E m \in net : Live(m)
LossesCounted ==
  /\ faults \in 0..MaxFaults
  /\ Busy => retry \in Nat /\ faults >= retry + (IF Hope THEN 0 ELSE 1)

PlainInv == PlainSessions /\ PlainNet /\ PlainClient /\ LossesCounted

LEMMA PlainFacts ==
  ASSUME IInv, Plain
  PROVE  /\ BlkOf = 1 /\ IdxMod \in Nat /\ MaxRetries \in Nat /\ MaxFaults \in Nat
         /\ lport \in Nat /\ blockidx \in Nat /\ current \in Nat /\ Len(size) \in Nat
         /\ Busy => current \in 1..Len(size) /\ blksize = 1
         /\ \A f \in 1..Len(size) :
              /\ size[f] \in Nat /\ LastBlock(f, Default) = size[f] + 1 /\ LastBlock(f, Default) < IdxMod
<1>1. /\ BlkOf = 1 /\ IdxMod \in Nat /\ MaxRetries \in Nat /\ MaxFaults \in Nat
      /\ lport \in Nat /\ blockidx \in Nat /\ current \in Nat /\ Len(size) \in Nat
  BY SizesAssumption, BoundsAssumption DEF Plain, BlkOf, Default, IInv, ClientInv, WorldInv
<1>2. Busy => current \in 1..Len(size) /\ blksize = 1
  BY DEF Plain, IInv, ClientInv, Default
<1>3. ASSUME NEW f \in 1..Len(size)
      PROVE  /\ size[f] \in Nat /\ LastBlock(f, Default) = size[f] + 1 /\ LastBlock(f, Default) < IdxMod
  <2>1. size[f] \in Nat
    BY DEF IInv, WorldInv
  <2>2. \A x \in Nat : x \div 1 = x
    OBVIOUS
  <2>3. LastBlock(f, Default) = size[f] + 1
    BY <2>1, <2>2 DEF LastBlock, Default
  <2>4. LastBlock(f, Default) < IdxMod
    BY DEF Plain, NoWrap
  <2> QED BY <2>1, <2>3, <2>4
<1> QED BY <1>1, <1>2, <1>3

(* A block of the plain server says which it is.                           *)
LEMMA PlainData ==
  ASSUME IInv, Plain, NEW m \in net, m.op = "DATA"
  PROVE  /\ m.from \in Ports /\ m.block \in Nat \ {0} /\ m.to \in Nat
         /\ m.file \in 1..Len(size) /\ m.block <= size[m.file] + 1
         /\ m.len = IF m.block = size[m.file] + 1 THEN 0 ELSE 1
         /\ m.to = lport => m.file = current /\ (m.block <= blockidx + 1 \/ Stuck)
<1>1. DataOK(m)
  BY DEF IInv, NetInv, MessageOK, OackOK, ErrorOK, RrqOK, AckOK
<1>2. PICK n \in Nat \ {0} :
        /\ m.block = n % IdxMod /\ m.len = BlockLen(m.file, BlkOf, n)
        /\ m.from \in Ports /\ m.file \in 1..Len(size) /\ n <= LastBlock(m.file, BlkOf)
        /\ m.to \in Nat
        /\ m.to = lport => m.file = current /\ Sendable(n)
  BY <1>1 DEF DataOK
<1>3. /\ BlkOf = 1 /\ IdxMod \in Nat /\ size[m.file] \in Nat
      /\ LastBlock(m.file, 1) = size[m.file] + 1 /\ LastBlock(m.file, 1) < IdxMod
  BY <1>2, PlainFacts DEF Default
<1>4. n <= size[m.file] + 1 /\ n < IdxMod
  BY <1>2, <1>3
<1>5. m.block = n
  BY <1>2, <1>3, <1>4
<1>6. m.len = IF n = size[m.file] + 1 THEN 0 ELSE 1
  BY <1>2, <1>3, <1>4 DEF BlockLen
<1>7. m.to = lport => m.file = current /\ (m.block <= blockidx + 1 \/ Stuck)
  BY <1>2, <1>5 DEF Sendable
<1> QED BY <1>2, <1>4, <1>5, <1>6, <1>7

LEMMA NotStuck ==
  ASSUME IInv, Plain, PlainClient, Busy
  PROVE  ~Stuck /\ current \in 1..Len(size) /\ blockidx < size[current] + 1
         /\ blockidx + 1 < IdxMod
<1>1. current \in 1..Len(size) /\ blockidx < LastBlock(current, Default)
  BY PlainFacts DEF PlainClient
<1>2. /\ LastBlock(current, Default) = size[current] + 1 /\ LastBlock(current, Default) < IdxMod
      /\ size[current] \in Nat /\ IdxMod \in Nat /\ blockidx \in Nat
  BY <1>1, PlainFacts
<1> QED BY <1>1, <1>2 DEF Stuck

(* The packet sent last by a session.                                      *)
LEMMA PlainLast ==
  ASSUME IInv, Plain, PlainSessions, NEW t \in Ports, NEW a, a = LastPacket(t)
  PROVE  a.op = "DATA" /\ a.to = sessions[t].port /\ PlainPacket(a)
<1>1. /\ sessions[t].sent \in Nat /\ sessions[t].sent > 0 /\ sessions[t].file \in 1..Len(size)
      /\ sessions[t].sent <= LastBlock(sessions[t].file, BlkOf)
  BY DEF PlainSessions, IInv, SessionsInv, SessionOK
<1>2. a = Data(sessions[t].port, t, sessions[t].file, BlkOf, sessions[t].sent)
  BY <1>1 DEF LastPacket
<1>3. /\ a.op = "DATA" /\ a.to = sessions[t].port /\ a.from = t
      /\ a.block = sessions[t].sent % IdxMod
  BY <1>2 DEF Data
<1>4. sessions[t].sent < IdxMod /\ IdxMod \in Nat
  <2>1. PICK f : f = sessions[t].file
    OBVIOUS
  <2>2. sessions[t].sent <= LastBlock(f, Default)
    BY <1>1, <2>1, PlainFacts DEF Default
  <2>3. f \in 1..Len(size)
    BY <1>1, <2>1
  <2>4. /\ size[f] \in Nat /\ LastBlock(f, Default) = size[f] + 1
        /\ LastBlock(f, Default) < IdxMod /\ IdxMod \in Nat
    BY <2>3, PlainFacts
  <2> QED BY <1>1, <2>2, <2>4
<1>5. a.block = sessions[t].sent
  BY <1>1, <1>3, <1>4
<1> QED BY <1>1, <1>3, <1>5 DEF PlainPacket

-----------------------------------------------------------------------------
(* What has become of the packets, when no session has moved.              *)
LEMMA PlainNetGrows ==
  ASSUME PlainNet, UNCHANGED sessions, NEW a, net' \subseteq net \cup {a}, PlainPacket(a),
         a.op = "RRQ" => \A k \in net : k.op = "RRQ" => k.port # a.port
  PROVE  PlainNet'
<1>1. \A m \in net' : PlainPacket(m)'
  BY DEF PlainNet, PlainPacket, Ports
<1>2. \A m, k \in net' : m.op = "RRQ" /\ k.op = "RRQ" /\ m.port = k.port => m = k
  BY DEF PlainNet
<1> QED BY <1>1, <1>2 DEF PlainNet

LEMMA PlainNetShrinks ==
  ASSUME PlainNet, UNCHANGED sessions, net' \subseteq net
  PROVE  PlainNet'
<1>1. \A m \in net' : PlainPacket(m)'
  BY DEF PlainNet, PlainPacket, Ports
<1>2. \A m, k \in net' : m.op = "RRQ" /\ k.op = "RRQ" /\ m.port = k.port => m = k
  BY DEF PlainNet
<1> QED BY <1>1, <1>2 DEF PlainNet

LEMMA CountStays ==
  ASSUME LossesCounted, Plain, IInv, faults' \in {faults, faults + 1}, faults' <= MaxFaults,
         Busy' => Busy /\ retry' = retry, faults' = faults /\ Busy' /\ Hope => Hope'
  PROVE  LossesCounted'
<1>1. faults \in 0..MaxFaults /\ MaxFaults \in Nat /\ faults' \in 0..MaxFaults
  BY PlainFacts DEF LossesCounted
<1>2. ASSUME Busy' PROVE retry' \in Nat /\ faults' >= retry' + (IF Hope' THEN 0 ELSE 1)
  <2>1. retry \in Nat /\ retry' = retry /\ faults >= retry + (IF Hope THEN 0 ELSE 1)
    BY <1>2 DEF LossesCounted
  <2>2. CASE faults' = faults + 1
    BY <1>1, <2>1, <2>2
  <2>3. CASE faults' = faults
    BY <1>1, <1>2, <2>1, <2>3
  <2> QED BY <2>2, <2>3
<1> QED BY <1>1, <1>2 DEF LossesCounted

LEMMA CountAnew ==
  ASSUME LossesCounted, faults' = faults, Busy' => retry' = 0 /\ Hope'
  PROVE  LossesCounted'
<1>1. faults \in Nat
  BY BoundsAssumption DEF LossesCounted
<1> QED BY <1>1 DEF LossesCounted

(* A new RRQ, from a new local port.                                       *)
LEMMA PlainRrq ==
  ASSUME IInv, Plain, PlainInv, UNCHANGED <<world, sessions>>, lport' = lport + 1,
         blockidx' = 0, xmit'.op = "RRQ", Busy', current' \in 1..Len(size),
         net' = net \cup {Rrq(lport + 1, current')}
  PROVE  PlainSessions' /\ PlainNet' /\ PlainClient' /\ Hope'
<1>1. PICK a : a = Rrq(lport + 1, current')
  OBVIOUS
<1>2. a.op = "RRQ" /\ a.port = lport' /\ net' = net \cup {a}
  BY <1>1 DEF Rrq
<1>3. lport \in Nat
  BY PlainFacts
<1>4. \A t \in Ports : sessions[t].port \in Nat /\ sessions[t].port <= lport
  BY DEF IInv, SessionsInv, SessionOK
<1>5. PlainPacket(a)
  BY <1>2, <1>3, <1>4 DEF PlainPacket
<1>6. \A k \in net : k.op = "RRQ" => k.port \in Nat /\ k.port <= lport
  BY DEF IInv, NetInv, MessageOK, DataOK, OackOK, ErrorOK, RrqOK, AckOK
<1>7. PlainNet'
  <2>1. \A k \in net : k.op = "RRQ" => k.port # a.port
    BY <1>2, <1>3, <1>6
  <2> QED BY <1>2, <1>5, <2>1, PlainNetGrows DEF PlainInv
<1>8. PlainSessions'
  <2>1. \A t \in Ports : sessions[t].sent \in Nat
    BY DEF IInv, SessionsInv, SessionOK
  <2> QED BY <2>1 DEF PlainInv, PlainSessions, Ports
<1>9. PlainClient'
  <2>1. PICK c : c = current'
    OBVIOUS
  <2>2. size[c] \in Nat /\ LastBlock(c, Default) = size[c] + 1
    BY <2>1, PlainFacts
  <2>3. LastBlock(current, Default)' = size[c] + 1
    BY <2>1, <2>2 DEF world, LastBlock, Default
  <2> QED BY <2>2, <2>3 DEF PlainClient, Busy
<1>10. Live(a)'
  BY <1>2 DEF Live
<1> QED BY <1>2, <1>7, <1>8, <1>9, <1>10 DEF Hope

LEMMA PlainNewRequest ==
  ASSUME IInv, Plain, PlainInv, NewRequest
  PROVE  PlainInv'
<1>1. /\ current' = current + 1 /\ current < Len(size) /\ UNCHANGED <<world, sessions, faults>>
      /\ xmit' = [op |-> "RRQ", file |-> current'] /\ lport' = lport + 1
      /\ blockidx' = 0 /\ retry' = 0 /\ Busy'
      /\ net' = net \cup Transmit(xmit', lport', rport')
  BY DEF NewRequest, Plain, Busy
<1>2. net' = net \cup {Rrq(lport + 1, current')} /\ xmit'.op = "RRQ"
  BY <1>1 DEF Transmit
<1>3. current' \in 1..Len(size)
  BY <1>1, PlainFacts
<1>4. PlainSessions' /\ PlainNet' /\ PlainClient' /\ Hope'
  BY <1>1, <1>2, <1>3, PlainRrq
<1>5. LossesCounted'
  BY <1>1, <1>4, CountAnew DEF PlainInv
<1> QED BY <1>4, <1>5 DEF PlainInv

(* The client acknowledges blockidx' to session t of its port.             *)
LEMMA PlainAck ==
  ASSUME IInv, Plain, PlainInv, UNCHANGED <<world, sessions, lport, current>>, Busy, Busy',
         blockidx' \in Nat \ {0}, NEW t \in Ports, sessions[t].port = lport,
         blockidx' <= sessions[t].sent, blockidx' < size[current] + 1,
         rport' = t, xmit'.op = "ACK",
         NEW a, a = Ack(lport, t, blockidx'), net' \subseteq net \cup {a}, a \in net'
  PROVE  PlainSessions' /\ PlainNet' /\ PlainClient' /\ Hope'
<1>1. /\ a.op = "ACK" /\ a.port = lport /\ a.tid = t /\ a.block = blockidx'
  BY DEF Ack
<1>2. PlainNet'
  <2>1. PlainPacket(a)
    BY <1>1 DEF PlainPacket
  <2> QED BY <1>1, <2>1, PlainNetGrows DEF PlainInv
<1>3. PlainSessions'
  BY DEF PlainInv, PlainSessions, Ports
<1>4. PlainClient'
  <2>1. LastBlock(current, Default)' = size[current] + 1
    <3>1. LastBlock(current, Default) = size[current] + 1
      BY PlainFacts
    <3> QED BY <3>1 DEF world, LastBlock, Default
  <2>2. blockidx' < LastBlock(current, Default)' /\ blockidx' # 0
    BY <2>1
  <2> QED BY <2>2 DEF PlainClient, Busy
<1>5. Live(a)'
  BY <1>1 DEF Live
<1> QED BY <1>2, <1>3, <1>4, <1>5 DEF Hope

LEMMA PlainTimeout ==
  ASSUME IInv, Plain, PlainInv, Timeout
  PROVE  PlainInv'
<1>1. /\ Busy /\ ~AnswerComing /\ retry' = retry + 1
      /\ UNCHANGED <<world, sessions, current, rport, xmit, blockidx, faults>>
  BY DEF Timeout, Busy, Plain, NextRetry
<1>2. ~Hope
  <2>1. \A m \in net : Live(m) => (IF ToClient(m) THEN m.to = lport ELSE m.port = lport)
    BY DEF Live, ToClient
  <2> QED BY <1>1, <2>1 DEF Hope, AnswerComing
<1>3. retry \in Nat /\ faults \in 0..MaxFaults /\ faults >= retry + 1
  BY <1>1, <1>2 DEF PlainInv, LossesCounted
<1>4. ~TooManyRetries
  BY <1>3, PlainFacts DEF TooManyRetries, Plain
<1>5. /\ status' = status /\ lport' = IF blockidx = 0 THEN lport + 1 ELSE lport
      /\ net' = net \cup Transmit(xmit, lport', rport)
  BY <1>4 DEF Timeout, Plain
<1>6. Busy' /\ current \in 1..Len(size)
  BY <1>1, <1>5, PlainFacts DEF Busy
<1>7. PlainSessions' /\ PlainNet' /\ PlainClient' /\ Hope'
  <2>1. CASE blockidx = 0
    <3>1. xmit.op = "RRQ" /\ xmit.file = current
      BY <1>1, <2>1 DEF PlainInv, PlainClient, IInv, ClientInv
    <3>2. net' = net \cup {Rrq(lport + 1, current')} /\ xmit'.op = "RRQ"
      BY <1>1, <1>5, <2>1, <3>1 DEF Transmit
    <3> QED BY <1>1, <1>5, <1>6, <2>1, <3>2, PlainRrq
  <2>2. CASE blockidx # 0
    <3>1. blockidx \in Nat \ {0}
      BY <2>2, PlainFacts
    <3>2. xmit.op = "ACK" /\ rport \in Ports /\ xmit.block = blockidx /\ sessions[rport].port = lport
      BY <1>1, <3>1 DEF PlainInv, PlainClient, IInv, ClientInv
    <3>3. PICK a : a = Ack(lport, rport, blockidx')
      OBVIOUS
    <3>4. net' = net \cup {a} /\ lport' = lport
      BY <1>1, <1>5, <2>2, <3>2, <3>3 DEF Transmit
    <3>5. blockidx' <= sessions[rport].sent /\ blockidx' < size[current] + 1
      BY <1>1, <3>2, NotStuck DEF PlainInv, PlainSessions
    <3>6. rport' = rport /\ blockidx' \in Nat \ {0} /\ xmit'.op = "ACK"
      BY <1>1, <3>1, <3>2
    <3> QED BY <1>1, <1>6, <3>2, <3>3, <3>4, <3>5, <3>6, PlainAck
  <2> QED BY <2>1, <2>2
<1>8. LossesCounted'
  BY <1>1, <1>3, <1>7 DEF PlainInv, LossesCounted
<1> QED BY <1>7, <1>8 DEF PlainInv

LEMMA PlainReceiveData ==
  ASSUME IInv, Plain, PlainInv, NEW m \in net, ReceiveData(m)
  PROVE  PlainInv'
<1>1. /\ Busy /\ Expected(m) /\ await_tftp(m) /\ UNCHANGED <<world, sessions, lport, current>>
      /\ rport' = m.from /\ retry' = 0 /\ blockidx' = (blockidx + 1) % IdxMod
      /\ IF IsEof(m) THEN blksize' = 0 /\ status' = "complete" ELSE UNCHANGED <<blksize, status>>
      /\ xmit' = [op |-> "ACK", block |-> blockidx'] /\ Exchange(m, {Ack(lport, m.from, blockidx')})
  BY DEF ReceiveData, Busy, SendAck
<1>2. PICK a : a = Ack(lport, m.from, blockidx')
  OBVIOUS
<1>3. net' \subseteq net \cup {a} /\ a \in net' /\ faults' = faults
  BY <1>1, <1>2 DEF Exchange, Plain
<1>4. m.op = "DATA" /\ m.to = lport /\ m.block = blockidx + 1
  BY <1>1 DEF Expected, await_tftp
<1>5. /\ m.from \in Ports /\ m.file = current /\ m.block <= size[m.file] + 1
      /\ m.len = IF m.block = size[m.file] + 1 THEN 0 ELSE 1
  BY <1>4, PlainData
<1>6. sessions[m.from].port = lport /\ m.block <= sessions[m.from].sent
  BY <1>4 DEF PlainInv, PlainNet, PlainPacket
<1>7. /\ blockidx \in Nat /\ blockidx + 1 < IdxMod /\ IdxMod \in Nat /\ blksize = 1
      /\ current \in 1..Len(size) /\ size[current] \in Nat
  BY <1>1, NotStuck, PlainFacts DEF PlainInv
<1>8. blockidx' = blockidx + 1 /\ blockidx' \in Nat \ {0}
  BY <1>1, <1>7
<1>9. CASE IsEof(m)
  <2>1. ~Busy' /\ status' # "failed"
    BY <1>1, <1>9 DEF Busy
  <2>2. PlainPacket(a) /\ a.op = "ACK"
    BY <1>2, <1>6 DEF PlainPacket, Ack
  <2>3. PlainNet'
    BY <1>1, <1>3, <2>2, PlainNetGrows DEF PlainInv
  <2>4. PlainSessions' /\ PlainClient'
    BY <1>1, <2>1 DEF PlainInv, PlainSessions, PlainClient, Ports
  <2>5. LossesCounted'
    BY <1>3, <2>1, CountAnew DEF PlainInv
  <2> QED BY <2>3, <2>4, <2>5 DEF PlainInv
<1>10. CASE ~IsEof(m)
  <2>1. Busy'
    BY <1>1, <1>10 DEF Busy
  <2>2. blockidx' < size[current] + 1
    BY <1>4, <1>5, <1>7, <1>8, <1>10 DEF IsEof
  <2>3. blockidx' <= sessions[m.from].sent /\ xmit'.op = "ACK"
    BY <1>1, <1>4, <1>6, <1>8
  <2>4. PlainSessions' /\ PlainNet' /\ PlainClient' /\ Hope'
    BY <1>1, <1>2, <1>3, <1>5, <1>6, <1>8, <2>1, <2>2, <2>3, PlainAck
  <2>5. LossesCounted'
    BY <1>1, <1>3, <2>4, CountAnew DEF PlainInv
  <2> QED BY <2>4, <2>5 DEF PlainInv
<1> QED BY <1>9, <1>10

LEMMA PlainReceiveOther ==
  ASSUME IInv, Plain, PlainInv, NEW m \in net, ReceiveOther(m)
  PROVE  PlainInv'
<1>1. /\ Busy /\ await_tftp(m) /\ ((m.op = "DATA" /\ ~Expected(m)) \/ m.op = "OACK")
      /\ UNCHANGED <<world, sessions, lport, current, status, blockidx>>
      /\ rport' = m.from /\ retry' = 0
      /\ xmit' = [op |-> "ACK", block |-> blockidx] /\ Exchange(m, {Ack(lport, m.from, blockidx)})
  BY DEF ReceiveOther, Busy, SendAck
<1>2. PICK a : a = Ack(lport, m.from, blockidx')
  OBVIOUS
<1>3. net' \subseteq net \cup {a} /\ a \in net' /\ faults' = faults
  BY <1>1, <1>2 DEF Exchange, Plain
<1>4. m.op = "DATA" /\ m.to = lport /\ ~Expected(m) /\ sessions[m.from].port = lport
  BY <1>1 DEF PlainInv, PlainNet, PlainPacket, await_tftp
<1>5. /\ m.from \in Ports /\ m.block \in Nat \ {0} /\ (m.block <= blockidx + 1 \/ Stuck)
      /\ m.len \in {0, 1}
  BY <1>4, PlainData
<1>6. /\ blockidx \in Nat /\ blksize = 1 /\ ~Stuck /\ current \in 1..Len(size)
      /\ blockidx < size[current] + 1
  BY <1>1, NotStuck, PlainFacts DEF PlainInv
<1>7. blockidx' \in Nat \ {0}
  <2>1. m.block # blockidx + 1
    BY <1>4, <1>5, <1>6 DEF Expected
  <2> QED BY <1>1, <1>5, <1>6, <2>1
<1>8. blockidx' <= sessions[m.from].sent
  BY <1>1, <1>4, <1>5 DEF PlainInv, PlainSessions
<1>9. Busy' /\ blockidx' < size[current] + 1 /\ xmit'.op = "ACK"
  BY <1>1, <1>6 DEF Busy
<1>10. PlainSessions' /\ PlainNet' /\ PlainClient' /\ Hope'
  BY <1>1, <1>2, <1>3, <1>4, <1>5, <1>7, <1>8, <1>9, PlainAck
<1>11. LossesCounted'
  BY <1>1, <1>3, <1>10, CountAnew DEF PlainInv
<1> QED BY <1>10, <1>11 DEF PlainInv

(* A step of the server or the network: sessions only move forward, and at *)
(* most one packet of data is added.                                       *)
LEMMA PlainWorld ==
  ASSUME IInv, Plain, PlainInv, UNCHANGED <<world, client>>, Ports' = Ports,
         \A t \in Ports : /\ sessions'[t].port = sessions[t].port
                          /\ sessions'[t].sent \in Nat /\ sessions'[t].sent >= sessions[t].sent,
         NEW new, net' \subseteq net \cup new, \A a \in new : a.op = "DATA" /\ PlainPacket(a)'
  PROVE  PlainSessions' /\ PlainNet' /\ PlainClient'
<1>1. \A t \in Ports : sessions[t].sent \in Nat
  BY DEF IInv, SessionsInv, SessionOK
<1>2. blockidx \in Nat
  BY PlainFacts
<1>3. PlainSessions'
  <2>1. UNCHANGED <<status, blockidx, lport>>
    BY DEF client
  <2> QED BY <1>1, <1>2, <2>1 DEF PlainInv, PlainSessions, Busy
<1>4. PlainNet'
  <2>1. ASSUME NEW k \in net PROVE PlainPacket(k)'
    <3>1. PlainPacket(k)
      BY DEF PlainInv, PlainNet
    <3>2. CASE k.op = "DATA"
      <4>1. k.from \in Ports /\ k.block \in Nat
        BY <3>2, PlainData
      <4> QED BY <1>1, <3>1, <3>2, <4>1 DEF PlainPacket
    <3>3. CASE k.op = "ACK"
      <4>1. k.tid \in Ports
        BY <3>3 DEF IInv, NetInv, MessageOK, DataOK, OackOK, ErrorOK, RrqOK, AckOK
      <4> QED BY <3>1, <3>3, <4>1 DEF PlainPacket
    <3>4. CASE k.op = "RRQ"
      BY <3>1, <3>4 DEF PlainPacket
    <3> QED BY <3>1, <3>2, <3>3, <3>4 DEF PlainPacket
  <2>2. \A m, k \in net' : m.op = "RRQ" /\ k.op = "RRQ" /\ m.port = k.port => m = k
    BY DEF PlainInv, PlainNet
  <2> QED BY <2>1, <2>2 DEF PlainNet
<1>5. PlainClient'
  <2>1. UNCHANGED <<status, blockidx, lport, rport, xmit, current>> /\ UNCHANGED size
    BY DEF client, world
  <2>2. Busy /\ blockidx > 0 => rport \in Ports
    BY DEF PlainInv, PlainClient, IInv, ClientInv
  <2> QED BY <2>1, <2>2 DEF PlainInv, PlainClient, Busy, LastBlock, Default
<1> QED BY <1>3, <1>4, <1>5

LEMMA PlainDiscard ==
  ASSUME IInv, Plain, PlainInv, NEW m \in net, Discard(m)
  PROVE  PlainInv'
<1>1. /\ UNCHANGED <<world, client, sessions>> /\ faults' = faults /\ net' = net \ {m}
      /\ ToClient(m) /\ (~Busy \/ m.to # lport)
  BY DEF Discard, await_tftp, Busy
<1>2. UNCHANGED <<status, lport, blockidx, retry, current, xmit, rport>> /\ UNCHANGED size
  BY <1>1 DEF client, world
<1>3. PlainSessions' /\ PlainNet' /\ PlainClient'
  BY <1>1, <1>2, PlainNetShrinks
     DEF PlainInv, PlainSessions, PlainClient, Ports, Busy, LastBlock, Default
<1>4. Busy /\ Hope => Hope'
  BY <1>1, <1>2 DEF Hope, Live, ToClient
<1>5. LossesCounted'
  BY <1>1, <1>2, <1>4, CountStays DEF PlainInv, Busy, LossesCounted
<1> QED BY <1>3, <1>5 DEF PlainInv

LEMMA PlainLose ==
  ASSUME IInv, Plain, PlainInv, NEW m \in net, Lose(m)
  PROVE  PlainInv'
<1>1. /\ UNCHANGED <<world, client, sessions>> /\ faults < MaxFaults /\ faults' = faults + 1
      /\ net' = net \ {m}
  BY DEF Lose
<1>2. UNCHANGED <<status, lport, blockidx, retry, current, xmit, rport>> /\ UNCHANGED size
  BY <1>1 DEF client, world
<1>3. PlainSessions' /\ PlainNet' /\ PlainClient'
  BY <1>1, <1>2, PlainNetShrinks
     DEF PlainInv, PlainSessions, PlainClient, Ports, Busy, LastBlock, Default
<1>4. faults' <= MaxFaults /\ faults' # faults
  BY <1>1, PlainFacts DEF PlainInv, LossesCounted
<1>5. LossesCounted'
  BY <1>1, <1>2, <1>4, CountStays DEF PlainInv, Busy
<1> QED BY <1>3, <1>5 DEF PlainInv

LEMMA PlainResend ==
  ASSUME IInv, Plain, PlainInv, NEW t \in Ports, Resend(t)
  PROVE  PlainInv'
<1>1. /\ UNCHANGED <<world, client, sessions>> /\ faults < MaxFaults /\ faults' = faults + 1
      /\ net' = net \cup {LastPacket(t)}
  BY DEF Resend
<1>2. PICK a : a = LastPacket(t)
  OBVIOUS
<1>3. a.op = "DATA" /\ PlainPacket(a) /\ net' \subseteq net \cup {a}
  BY <1>1, <1>2, PlainLast DEF PlainInv
<1>4. PlainNet'
  BY <1>1, <1>3, PlainNetGrows DEF PlainInv
<1>5. UNCHANGED <<status, lport, blockidx, retry, current, xmit, rport>> /\ UNCHANGED size
  BY <1>1 DEF client, world
<1>6. PlainSessions' /\ PlainClient'
  BY <1>1, <1>5 DEF PlainInv, PlainSessions, PlainClient, Ports, Busy, LastBlock, Default
<1>7. faults' <= MaxFaults /\ faults' # faults
  BY <1>1, PlainFacts DEF PlainInv, LossesCounted
<1>8. LossesCounted'
  BY <1>1, <1>5, <1>7, CountStays DEF PlainInv, Busy
<1> QED BY <1>4, <1>6, <1>8 DEF PlainInv

(* An RRQ opens a session, the only one of its local port.  Were there     *)
(* blocks received already, there would be one.                            *)
LEMMA PlainServeRrq ==
  ASSUME IInv, Plain, PlainInv, NEW m \in net, ServeRrq(m)
  PROVE  PlainInv'
<1> DEFINE s == [port |-> m.port, file |-> m.file, sent |-> 1]
           t == Len(sessions) + 1
<1>1. /\ m.op = "RRQ" /\ UNCHANGED <<world, client>> /\ faults' = faults
      /\ sessions' = Append(sessions, s)
      /\ net' = (net \ {m}) \cup {Data(m.port, t, m.file, Default, 1)}
  BY DEF ServeRrq, Plain, Exchange, FirstPacket
<1>2. PICK a : a = Data(m.port, t, m.file, Default, 1)
  OBVIOUS
<1>3. UNCHANGED <<status, lport, blockidx, retry, current, xmit, rport>> /\ UNCHANGED size
  BY <1>1 DEF client, world
<1>4. /\ Len(sessions) \in Nat /\ Ports' = Ports \cup {t} /\ t \notin Ports /\ sessions'[t] = s
      /\ \A u \in Ports : sessions'[u] = sessions[u] /\ sessions[u].sent \in Nat
  <2>1. sessions \in Seq([port : Nat, file : 1..Len(size), sent : Nat])
    BY DEF IInv, SessionsInv
  <2>2. m.port \in Nat /\ m.file \in 1..Len(size)
    BY <1>1 DEF IInv, NetInv, MessageOK, DataOK, OackOK, ErrorOK, RrqOK, AckOK
  <2>3. s \in [port : Nat, file : 1..Len(size), sent : Nat]
    BY <2>2
  <2>4. \A u \in Ports : sessions[u].sent \in Nat
    BY DEF IInv, SessionsInv, SessionOK
  <2> HIDE DEF s
  <2>5. Len(sessions) \in Nat /\ Len(sessions') = t /\ sessions'[t] = s
    BY <1>1, <2>1, <2>3
  <2>6. \A u \in Ports : sessions'[u] = sessions[u]
    BY <1>1, <2>1, <2>3 DEF Ports
  <2> QED BY <2>4, <2>5, <2>6 DEF Ports
<1>5. /\ \A u \in Ports : sessions[u].port # m.port
      /\ \A k \in net : k.op = "RRQ" /\ k.port = m.port => k = m
  BY <1>1 DEF PlainInv, PlainNet, PlainPacket
<1>6. a.op = "DATA" /\ a.to = m.port /\ a.from = t /\ a.block = 1
  <2>1. m.file \in 1..Len(size)
    BY <1>1 DEF IInv, NetInv, MessageOK, DataOK, OackOK, ErrorOK, RrqOK, AckOK
  <2>2. size[m.file] + 1 < IdxMod /\ size[m.file] \in Nat /\ IdxMod \in Nat
    BY <2>1, PlainFacts
  <2>3. 1 % IdxMod = 1
    BY <2>2
  <2> QED BY <1>2, <2>3 DEF Data
<1>7. Busy /\ m.port = lport => blockidx = 0
  <2> SUFFICES ASSUME Busy, m.port = lport, blockidx # 0 PROVE FALSE
    OBVIOUS
  <2>1. blockidx > 0
    BY PlainFacts
  <2>2. rport \in Ports /\ sessions[rport].port = lport
    BY <2>1 DEF PlainInv, PlainClient, IInv, ClientInv
  <2> QED BY <1>5, <2>2
<1>8. PlainSessions'
  <2>1. \A u \in Ports' : sessions'[u].sent > 0
    BY <1>4 DEF PlainInv, PlainSessions
  <2>2. \A u, v \in Ports' : sessions'[u].port = sessions'[v].port => u = v
    BY <1>4, <1>5 DEF PlainInv, PlainSessions
  <2>3. \A u \in Ports' : Busy' /\ sessions'[u].port = lport' => blockidx' <= sessions'[u].sent
    BY <1>3, <1>4, <1>7 DEF PlainInv, PlainSessions, Busy
  <2> QED BY <2>1, <2>2, <2>3 DEF PlainSessions
<1>9. PlainNet'
  <2>1. ASSUME NEW k \in net, k # m PROVE PlainPacket(k)'
    <3>1. PlainPacket(k)
      BY DEF PlainInv, PlainNet
    <3>2. CASE k.op = "DATA"
      BY <1>4, <3>1, <3>2, PlainData DEF PlainPacket
    <3>3. CASE k.op = "ACK"
      <4>1. k.tid \in Ports
        BY <3>3 DEF IInv, NetInv, MessageOK, DataOK, OackOK, ErrorOK, RrqOK, AckOK
      <4> QED BY <1>4, <3>1, <3>3, <4>1 DEF PlainPacket
    <3>4. CASE k.op = "RRQ"
      <4>1. k.port # m.port
        BY <1>5, <2>1, <3>4
      <4> QED BY <1>4, <3>1, <3>4, <4>1 DEF PlainPacket
    <3> QED BY <3>1, <3>2, <3>3, <3>4 DEF PlainPacket
  <2>2. PlainPacket(a)'
    BY <1>4, <1>6 DEF PlainPacket
  <2>3. \A k \in net' : PlainPacket(k)'
    BY <1>1, <1>2, <2>1, <2>2
  <2>4. \A k, l \in net' : k.op = "RRQ" /\ l.op = "RRQ" /\ k.port = l.port => k = l
    BY <1>1, <1>2, <1>6 DEF PlainInv, PlainNet
  <2> QED BY <2>3, <2>4 DEF PlainNet
<1>10. PlainClient'
  <2>1. Busy /\ blockidx > 0 => rport \in Ports
    BY DEF PlainInv, PlainClient, IInv, ClientInv
  <2> QED BY <1>3, <1>4, <2>1 DEF PlainInv, PlainClient, Busy, LastBlock, Default
<1>11. LossesCounted'
  <2>1. Hope => Hope'
    <3> SUFFICES ASSUME NEW k \in net, Live(k) PROVE Hope'
      BY DEF Hope
    <3>1. CASE k = m
      BY <1>1, <1>2, <1>3, <1>6, <3>1 DEF Hope, Live
    <3>2. CASE k # m
      BY <1>1, <1>3, <3>2 DEF Hope, Live
    <3> QED BY <3>1, <3>2
  <2> QED BY <1>1, <1>3, <2>1, CountStays DEF PlainInv, Busy, LossesCounted
<1> QED BY <1>8, <1>9, <1>10, <1>11 DEF PlainInv

(* An ACK brings the next block, or the last one again; one that brings    *)
(* nothing is not of the client's last block.                              *)
LEMMA PlainServeAck ==
  ASSUME IInv, Plain, PlainInv, NEW m \in net, ServeAck(m)
  PROVE  PlainInv'
<1> DEFINE s == sessions[m.tid]
<1>1. /\ m.op = "ACK" /\ m.tid \in Ports /\ s.port = m.port /\ m.block \in Nat
      /\ UNCHANGED <<world, client>>
  BY DEF ServeAck, PlainInv, PlainNet, PlainPacket,
         IInv, NetInv, MessageOK, DataOK, OackOK, ErrorOK, RrqOK, AckOK
<1>2. UNCHANGED <<status, lport, blockidx, retry, current, xmit, rport>> /\ UNCHANGED size
  BY <1>1 DEF client, world
<1>3. /\ s.sent \in Nat /\ s.sent > 0 /\ s.file \in 1..Len(size) /\ s.port \in Nat
      /\ s.sent <= LastBlock(s.file, BlkOf)
      /\ s.port = lport => s.file = current /\ Sendable(s.sent)
  BY <1>1 DEF PlainInv, PlainSessions, IInv, SessionsInv, SessionOK
<1>4. /\ BlkOf = Default /\ IdxMod \in Nat /\ LastBlock(s.file, BlkOf) < IdxMod
      /\ LastBlock(s.file, BlkOf) = size[s.file] + 1 /\ size[s.file] \in Nat
  <2>1. BlkOf = Default
    BY PlainFacts DEF Default
  <2>2. PICK f : f = s.file
    OBVIOUS
  <2>3. f \in 1..Len(size)
    BY <1>3, <2>2
  <2>4. /\ LastBlock(f, Default) < IdxMod /\ LastBlock(f, Default) = size[f] + 1
        /\ size[f] \in Nat /\ IdxMod \in Nat
    BY <2>3, PlainFacts
  <2> QED BY <2>1, <2>2, <2>4
<1>5. CASE m.block = s.sent % IdxMod /\ s.sent < LastBlock(s.file, BlkOf)
  <2>1. /\ sessions' = [sessions EXCEPT ![m.tid].sent = @ + 1] /\ faults' = faults
        /\ net' = (net \ {m}) \cup {Data(s.port, m.tid, s.file, BlkOf, s.sent + 1)}
    BY <1>1, <1>5 DEF ServeAck, Plain, Exchange
  <2>2. PICK a : a = Data(s.port, m.tid, s.file, BlkOf, s.sent + 1)
    OBVIOUS
  <2>3. /\ Ports' = Ports /\ sessions'[m.tid].sent = s.sent + 1
        /\ \A t \in Ports : /\ sessions'[t].port = sessions[t].port
                            /\ sessions'[t].sent \in Nat /\ sessions'[t].sent >= sessions[t].sent
    <3>1. sessions \in Seq([port : Nat, file : 1..Len(size), sent : Nat])
      BY DEF IInv, SessionsInv
    <3>2. \A t \in Ports : sessions[t] \in [port : Nat, file : 1..Len(size), sent : Nat]
      BY DEF IInv, SessionsInv, SessionOK
    <3>3. /\ Len(sessions) \in Nat /\ DOMAIN sessions = 1..Len(sessions)
          /\ sessions' \in Seq([port : Nat, file : 1..Len(size), sent : Nat])
          /\ Len(sessions') = Len(sessions)
      <4> DEFINE R == [port : Nat, file : 1..Len(size), sent : Nat]
      <4>1. [sessions[m.tid] EXCEPT !.sent = @ + 1] \in R
        BY <1>1, <3>2
      <4>2. sessions' = [sessions EXCEPT ![m.tid] = [sessions[m.tid] EXCEPT !.sent = @ + 1]]
        BY <2>1
      <4> HIDE DEF R
      <4>3. sessions \in Seq(R) /\ m.tid \in 1..Len(sessions)
        BY <1>1, <3>1 DEF R, Ports
      <4>4. sessions' \in Seq(R) /\ Len(sessions') = Len(sessions)
        BY <4>1, <4>2, <4>3
      <4> QED BY <4>3, <4>4 DEF R
    <3>4. \A t \in Ports :
            sessions'[t] = IF t = m.tid THEN [s EXCEPT !.sent = @ + 1] ELSE sessions[t]
      BY <1>1, <2>1, <3>3 DEF Ports
    <3>5. Ports' = Ports
      BY <3>3 DEF Ports
    <3>6. s \in [port : Nat, file : 1..Len(size), sent : Nat]
      BY <1>1, <3>2
    <3>7. LET n == [s EXCEPT !.sent = @ + 1] IN
          n.port = s.port /\ n.sent = s.sent + 1 /\ n.sent \in Nat
      BY <3>6
    <3>8. sessions'[m.tid].port = s.port /\ sessions'[m.tid].sent = s.sent + 1 /\ s.sent + 1 \in Nat
      BY <1>1, <3>4, <3>6, <3>7
    <3>9. ASSUME NEW t \in Ports
          PROVE  /\ sessions'[t].port = sessions[t].port
                 /\ sessions'[t].sent \in Nat /\ sessions'[t].sent >= sessions[t].sent
      <4>1. CASE t = m.tid
        BY <1>3, <3>8, <4>1
      <4>2. CASE t # m.tid
        <5>1. sessions'[t] = sessions[t] /\ sessions[t].sent \in Nat
          BY <3>2, <3>4, <4>2
        <5> QED BY <5>1
      <4> QED BY <4>1, <4>2
    <3> QED BY <3>5, <3>8, <3>9
  <2>4. a.op = "DATA" /\ a.to = s.port /\ a.from = m.tid /\ a.block = s.sent + 1
    <3>1. s.sent + 1 < IdxMod /\ s.sent + 1 \in Nat
      BY <1>3, <1>4, <1>5, SMTT(30)
    <3>2. (s.sent + 1) % IdxMod = s.sent + 1
      BY <1>4, <3>1
    <3> QED BY <2>2, <3>2 DEF Data
  <2>5. PlainPacket(a)'
    BY <1>1, <2>3, <2>4 DEF PlainPacket
  <2>6. PlainSessions' /\ PlainNet' /\ PlainClient'
    <3> DEFINE new == {a}
    <3>1. net' \subseteq net \cup new
      BY <2>1, <2>2
    <3>2. \A b \in new : b.op = "DATA" /\ PlainPacket(b)'
      <4> SUFFICES ASSUME NEW b \in new PROVE b.op = "DATA" /\ PlainPacket(b)'
        OBVIOUS
      <4>1. b = a
        OBVIOUS
      <4> QED BY <2>4, <2>5, <4>1
    <3> HIDE DEF new
    <3> QED BY <1>1, <2>3, <3>1, <3>2, PlainWorld
  <2>7. Hope => Hope'
    <3> SUFFICES ASSUME NEW k \in net, Live(k) PROVE Hope'
      BY DEF Hope
    <3>1. CASE k = m
      BY <1>1, <1>2, <2>1, <2>2, <2>4, <3>1 DEF Hope, Live
    <3>2. CASE k # m
      BY <1>2, <2>1, <3>2 DEF Hope, Live
    <3> QED BY <3>1, <3>2
  <2>8. LossesCounted'
    BY <1>2, <2>1, <2>7, CountStays DEF PlainInv, Busy, LossesCounted
  <2> QED BY <2>6, <2>8 DEF PlainInv
<1>6. CASE ~(m.block = s.sent % IdxMod /\ s.sent < LastBlock(s.file, BlkOf))
  <2> DEFINE new == IF m.block = (s.sent - 1) % IdxMod THEN {LastPacket(m.tid)} ELSE {}
  <2>1. UNCHANGED sessions /\ faults' = faults /\ net' = (net \ {m}) \cup new
    BY <1>1, <1>3, <1>6 DEF ServeAck, Plain, Exchange
  <2>2. \A a \in new : a.op = "DATA" /\ a.to = s.port /\ PlainPacket(a)
    <3> SUFFICES ASSUME NEW a \in new PROVE a.op = "DATA" /\ a.to = s.port /\ PlainPacket(a)
      OBVIOUS
    <3>1. a = LastPacket(m.tid)
      OBVIOUS
    <3> QED BY <1>1, <3>1, PlainLast DEF PlainInv
  <2>3. PlainSessions' /\ PlainNet' /\ PlainClient'
    <3>1. \A a \in new : a.op = "DATA" /\ PlainPacket(a)'
      BY <2>1, <2>2 DEF PlainPacket, Ports
    <3>2. Ports' = Ports /\ net' \subseteq net \cup new
      BY <2>1 DEF Ports
    <3>3. \A t \in Ports : /\ sessions'[t].port = sessions[t].port
                           /\ sessions'[t].sent \in Nat /\ sessions'[t].sent >= sessions[t].sent
      BY <2>1 DEF IInv, SessionsInv, SessionOK
    <3> HIDE DEF new
    <3> QED BY <1>1, <3>1, <3>2, <3>3, PlainWorld
  <2>4. Busy /\ Hope => Hope'
    <3> SUFFICES ASSUME Busy, NEW k \in net, Live(k) PROVE Hope'
      BY DEF Hope
    <3>1. CASE k = m
      <4>1. m.port = lport /\ m.block = blockidx
        BY <1>1, <3>1 DEF Live
      <4>2. s.file = current /\ blockidx <= s.sent /\ s.sent <= blockidx + 1
        BY <1>1, <1>3, <4>1, NotStuck DEF PlainInv, PlainSessions, Sendable
      <4>3. blockidx < LastBlock(s.file, BlkOf) /\ blockidx < IdxMod /\ blockidx \in Nat
        BY <1>4, <4>2, NotStuck, PlainFacts DEF PlainInv
      <4>4. blockidx % IdxMod = blockidx
        BY <1>4, <4>3
      <4>5. s.sent = blockidx + 1
        BY <1>3, <1>6, <4>1, <4>2, <4>3, <4>4
      <4>6. m.block = (s.sent - 1) % IdxMod
        BY <4>1, <4>3, <4>4, <4>5
      <4>7. PICK a : a = LastPacket(m.tid)
        OBVIOUS
      <4>8. a \in net' /\ a.op = "DATA" /\ a.to = lport
        BY <1>1, <2>1, <2>2, <4>1, <4>6, <4>7
      <4> QED BY <1>2, <4>8 DEF Hope, Live
    <3>2. CASE k # m
      BY <1>2, <2>1, <3>2 DEF Hope, Live
    <3> QED BY <3>1, <3>2
  <2>5. LossesCounted'
    BY <1>2, <2>1, <2>4, CountStays DEF PlainInv, Busy, LossesCounted
  <2> QED BY <2>3, <2>5 DEF PlainInv
<1> QED BY <1>5, <1>6

-----------------------------------------------------------------------------
LEMMA PlainStep ==
  ASSUME IInv, Plain => PlainInv, [Next]_vars
  PROVE  (Plain => PlainInv)'
<1>1. UNCHANGED world
  BY DEF Next, NewRequest, Timeout, Receive, ReceiveData, ReceiveOther, ReceiveOack,
         ReceiveError, Discard, ServeRrq, ServeAck, Resend, Lose, Finished, vars
<1>2. SUFFICES ASSUME Plain PROVE PlainInv'
  BY <1>1 DEF world, Plain, NoWrap, LastBlock, Default
<1>3. CASE NewRequest
  BY <1>2, <1>3, PlainNewRequest
<1>4. CASE Timeout
  BY <1>2, <1>4, PlainTimeout
<1>5. ASSUME NEW m \in net, Receive(m) PROVE PlainInv'
  <2>1. m.op \in {"DATA", "RRQ", "ACK"}
    BY <1>2 DEF PlainInv, PlainNet, PlainPacket
  <2> QED BY <1>2, <1>5, <2>1, PlainReceiveData, PlainReceiveOther
          DEF Receive, ReceiveOack, ReceiveError
<1>6. ASSUME NEW m \in net, Discard(m) PROVE PlainInv'
  BY <1>2, <1>6, PlainDiscard
<1>7. ASSUME NEW m \in net, ServeRrq(m) PROVE PlainInv'
  BY <1>2, <1>7, PlainServeRrq
<1>8. ASSUME NEW m \in net, ServeAck(m) PROVE PlainInv'
  BY <1>2, <1>8, PlainServeAck
<1>9. ASSUME NEW t \in Ports, Resend(t) PROVE PlainInv'
  BY <1>2, <1>9, PlainResend
<1>10. ASSUME NEW m \in net, Lose(m) PROVE PlainInv'
  BY <1>2, <1>10, PlainLose
<1>11. CASE UNCHANGED vars
  BY <1>2, <1>11 DEF vars, client, world, PlainInv, PlainSessions, PlainNet, PlainPacket,
     PlainClient, LossesCounted, Hope, Live, Busy, Ports, LastBlock, Default
<1> QED BY <1>3, <1>4, <1>5, <1>6, <1>7, <1>8, <1>9, <1>10, <1>11
        DEF Next, Finished, Ports

(* A server that ignores options and answers repeated ACKs gets every file *)
(* across: for any files whose block numbers do not wrap, and any number   *)
(* of retries, tftp() fails only after more packets were lost than         *)
(* tftp_block() sends again.                                               *)
THEOREM PlainServerServes == Spec => []PlainServerNeverFails
<1>1. Init => (Plain => PlainInv)
  BY BoundsAssumption DEF Init, PlainInv, PlainSessions, PlainNet, PlainClient, LossesCounted, Ports, Busy
<1>2. IInv /\ (Plain => PlainInv) => PlainServerNeverFails
  BY DEF PlainServerNeverFails, Plain, PlainInv, PlainClient
<1> QED BY <1>1, <1>2, InStep, PlainStep, PTL DEF Spec
=============================================================================
