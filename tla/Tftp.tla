-------------------------------- MODULE Tftp --------------------------------
(***************************************************************************)
(* The TFTP client of main/eb/nic.c (tftp, tftp_block, await_tftp) against *)
(* a network that loses, duplicates, delays and reorders packets.          *)
(*                                                                         *)
(* The files are fetched one after the other, as dhcp_callback()           *)
(* fetches configuration, kernel and ramdisk.  tftp_block() keeps its      *)
(* state in statics, so what one transfer leaves behind, and the late      *)
(* packets of its server session, meet the next one.                       *)
(*                                                                         *)
(* Lengths are in units of TFTP_DEFAULTSIZE_PACKET.  The server (external) *)
(* follows RFC 1350/2347: each RRQ opens a session with a port of its own. *)
(***************************************************************************)
EXTENDS Naturals, Sequences

CONSTANTS
  Sizes,             \* lengths of the files fetched, one sequence for each
                     \* boot considered
  MaxBlksize,        \* block size requested (TFTP_MAX_PACKET), in units
  IdxMod,            \* block numbers are modulo this (2^16 in the code)
  MaxRetries,        \* MAX_TFTP_RETRIES
  ServerBlksizes,    \* block sizes a server may answer; 0: options ignored
  ServerDups,        \* may it answer a repeated ACK by sending again?
  MaxSessions,       \* bound: sessions the server opens, unless healthy
  MaxFaults          \* bound: packets lost, duplicated, or sent again by the
                     \* server's own timeout

ASSUME SizesAssumption ==
  /\ Sizes \subseteq Seq(Nat)
  /\ MaxBlksize \in Nat \ {0} /\ ServerBlksizes \subseteq Nat
  /\ IdxMod \in Nat \ {0} /\ MaxRetries \in Nat
  /\ ServerDups \subseteq BOOLEAN
ASSUME BoundsAssumption ==
  MaxSessions \in Nat /\ MaxFaults \in Nat

VARIABLES
  size,              \* the files: size[f] is the length of file f
  healthy,           \* ARP works, the server has the files, nothing is
                     \* duplicated and no timeout while an answer is coming
  srvblk,            \* block size this server answers with
  srvdup,            \* does it answer a repeated ACK by sending again
  current, status,   \* as in FileTransfer: the caller's view
  got,               \* history: bytes handed to fnc, in units
  intact,            \* history: every block handed over was the next piece
                     \* of the current file
  lport, rport, xmit, blockidx, retry, blksize,  \* tftp_block()'s statics
  net,               \* packets in flight
  sessions,          \* server sessions; the index is the server's port
  faults             \* counter for MaxFaults

client == <<current, status, got, intact, lport, rport, xmit, blockidx, retry,
            blksize>>
world  == <<size, healthy, srvblk, srvdup>>
vars == <<world, client, sessions, net, faults>>

Default == 1         \* TFTP_DEFAULTSIZE_PACKET
NoPort == 0          \* the server's well-known port

(* Block n of a file cut into blocks of b: file, first unit, length.       *)
BlockLen(f, b, n) ==
  IF size[f] < (n - 1) * b THEN 0
  ELSE IF size[f] < n * b THEN size[f] - (n - 1) * b ELSE b
LastBlock(f, b) == size[f] \div b + 1

Data(p, t, f, b, n) ==
  [op |-> "DATA", to |-> p, from |-> t, file |-> f, off |-> (n - 1) * b,
   len |-> BlockLen(f, b, n), block |-> n % IdxMod]
Oack(p, t)  == [op |-> "OACK", to |-> p, from |-> t, blksize |-> srvblk]
Error(p, t) == [op |-> "ERROR", to |-> p, from |-> t]
Rrq(p, f)    == [op |-> "RRQ", port |-> p, file |-> f]
Ack(p, t, n) == [op |-> "ACK", port |-> p, tid |-> t, block |-> n]

ToClient(m) == m.op \in {"DATA", "OACK", "ERROR"}

Init ==
  /\ size \in Sizes /\ healthy \in BOOLEAN
  /\ current = 0 /\ status = "idle" /\ got = 0 /\ intact = TRUE
  /\ lport = 0 /\ rport = NoPort /\ xmit = [op |-> "NONE"]
  /\ blockidx = 0 /\ retry = 0 /\ blksize = 0
  /\ net = {} /\ sessions = <<>> /\ faults = 0
  /\ srvblk \in ServerBlksizes /\ srvdup \in ServerDups

(* m leaves the network, or is duplicated and stays; the packets in new    *)
(* are sent.                                                               *)
Exchange(m, new) ==
  \/ net' = (net \ {m}) \cup new /\ UNCHANGED faults
  \/ ~healthy /\ faults < MaxFaults /\ faults' = faults + 1 /\ net' = net \cup new

-----------------------------------------------------------------------------
(* udp_transmit() of xmit: to the well-known port it is an RRQ, else an    *)
(* ACK or ERROR to the session at rport.                                   *)
Transmit(x, p, t) ==
  CASE x.op = "RRQ" -> {Rrq(p, x.file)}
    [] x.op = "ACK" -> {Ack(p, t, x.block)}
    [] OTHER -> {}

(* tftp_block() with a request: fresh counters, a new local port, an RRQ.  *)
(* udp_transmit() fails when the server does not answer ARP.               *)
NewRequest ==
  /\ status # "busy" /\ current < Len(size)
  /\ current' = current + 1 /\ got' = 0
  /\ xmit' = [op |-> "RRQ", file |-> current + 1]
  /\ blockidx' = 0 /\ retry' = 0 /\ blksize' = Default
  /\ lport' = lport + 1 /\ rport' = NoPort
  /\ \/ status' = "busy" /\ net' = net \cup Transmit(xmit', lport', rport')
     \/ ~healthy /\ status' = "failed" /\ UNCHANGED net
  /\ UNCHANGED <<intact, sessions, world, faults>>

(* Mutant: late packets of an earlier transfer are accepted.               *)
await_tftp_AnyPort(m) == ToClient(m)

(* await_tftp(): only the packets sent to the current local port.          *)
await_tftp(m) == ToClient(m) /\ m.to = lport

Expected(m) == m.op = "DATA" /\ m.block = blockidx + 1 /\ m.len <= blksize

(* The trailing ACK of the last block received, to whoever sent m.         *)
SendAck(m, n) ==
  /\ xmit' = [op |-> "ACK", block |-> n]
  /\ Exchange(m, {Ack(lport, m.from, n)})

IsEof(m) == m.len < blksize

(* The next block: hand it over, acknowledge it.                           *)
ReceiveData(m) ==
  /\ status = "busy" /\ await_tftp(m) /\ Expected(m)
  /\ rport' = m.from /\ retry' = 0
  /\ blockidx' = (blockidx + 1) % IdxMod
  /\ got' = got + m.len
  /\ intact' = (intact /\ m.file = current /\ m.off = got)
  /\ IF IsEof(m)
     THEN blksize' = 0 /\ status' = "complete"
     ELSE UNCHANGED <<blksize, status>>
  /\ SendAck(m, blockidx')
  /\ UNCHANGED <<current, lport, sessions, world>>

(* A block that is not the next one, or is too large, or an OACK after the *)
(* first block: acknowledge the last block again.                          *)
ReceiveOther(m) ==
  /\ status = "busy" /\ await_tftp(m)
  /\ \/ m.op = "DATA" /\ ~Expected(m)
     \/ m.op = "OACK" /\ blockidx # 0
  /\ rport' = m.from /\ retry' = 0
  /\ SendAck(m, blockidx)
  /\ UNCHANGED <<current, status, got, intact, lport, blockidx, blksize, sessions, world>>

(* An OACK before the first block: take its block size, or abort the       *)
(* transfer with an ERROR when it is out of range.                         *)
ReceiveOack(m) ==
  /\ status = "busy" /\ await_tftp(m) /\ m.op = "OACK" /\ blockidx = 0
  /\ rport' = m.from /\ retry' = 0 /\ blksize' = m.blksize
  /\ IF m.blksize < Default \/ m.blksize > MaxBlksize
     THEN /\ status' = "failed" /\ xmit' = [op |-> "ERROR"]
          /\ Exchange(m, {})
     ELSE UNCHANGED status /\ SendAck(m, 0)
  /\ UNCHANGED <<current, got, intact, lport, blockidx, sessions, world>>

ReceiveError(m) ==
  /\ status = "busy" /\ await_tftp(m) /\ m.op = "ERROR"
  /\ rport' = m.from /\ retry' = 0 /\ status' = "failed"
  /\ Exchange(m, {})
  /\ UNCHANGED <<current, got, intact, lport, xmit, blockidx, blksize, sessions, world>>

(* Mutant: one timeout too few.                                            *)
TooManyRetries_Early == retry + 1 > MaxRetries

TooManyRetries == retry > MaxRetries

(* Mutant: the counter is not incremented.                                 *)
NextRetry_Stuck == retry

NextRetry == retry + 1

(* A packet for the client's port is in flight, or one that makes the      *)
(* server answer it.                                                       *)
AnswerComing ==
  \E m \in net : IF ToClient(m) THEN m.to = lport ELSE m.port = lport

(* await_reply() times out: give up, or send the last packet again, from   *)
(* a new local port as long as no block has been received.                 *)
Timeout ==
  /\ status = "busy"
  /\ healthy => ~AnswerComing
  /\ retry' = NextRetry
  /\ IF TooManyRetries
     THEN status' = "failed" /\ UNCHANGED <<lport, net>>
     ELSE /\ lport' = IF blockidx = 0 THEN lport + 1 ELSE lport
          /\ \/ UNCHANGED status /\ net' = net \cup Transmit(xmit, lport', rport)
             \/ ~healthy /\ status' = "failed" /\ UNCHANGED net
  /\ UNCHANGED <<current, got, intact, rport, xmit, blockidx, blksize, sessions, world, faults>>

(* await_reply() drops what await_tftp() refuses; rx_qdrain() drops what   *)
(* waits in the NIC when a transfer starts.                                *)
Discard(m) ==
  /\ ToClient(m) /\ (status # "busy" \/ ~await_tftp(m))
  /\ net' = net \ {m}
  /\ UNCHANGED <<client, sessions, world, faults>>

-----------------------------------------------------------------------------
(* The server.                                                             *)
FirstPacket(p, t, f) == IF srvblk = 0 THEN Data(p, t, f, Default, 1) ELSE Oack(p, t)
BlkOf == IF srvblk = 0 THEN Default ELSE srvblk
LastPacket(t) ==
  LET s == sessions[t] IN
  IF s.sent = 0 THEN Oack(s.port, t) ELSE Data(s.port, t, s.file, BlkOf, s.sent)

ServeRrq(m) ==
  /\ m.op = "RRQ"
  /\ \/ /\ healthy \/ Len(sessions) < MaxSessions
        /\ sessions' = Append(sessions,
             [port |-> m.port, file |-> m.file, sent |-> IF srvblk = 0 THEN 1 ELSE 0])
        /\ Exchange(m, {FirstPacket(m.port, Len(sessions) + 1, m.file)})
     \/ ~healthy /\ Exchange(m, {Error(m.port, NoPort)}) /\ UNCHANGED sessions
  /\ UNCHANGED <<world, client>>

(* An ACK of the last block sent brings the next one; a repeated ACK of    *)
(* the block before may bring the last one again; any other ACK is         *)
(* ignored; one from a port that is not the session's may get an ERROR.    *)
ServeAck(m) ==
  /\ m.op = "ACK"
  /\ IF m.port = sessions[m.tid].port
     THEN LET s == sessions[m.tid] IN
          IF /\ m.block = s.sent % IdxMod
             /\ s.sent < LastBlock(s.file, BlkOf)
          THEN /\ sessions' = [sessions EXCEPT ![m.tid].sent = @ + 1]
               /\ Exchange(m, {Data(s.port, m.tid, s.file, BlkOf, s.sent + 1)})
          ELSE /\ Exchange(m, IF srvdup /\ s.sent > 0 /\ m.block = (s.sent - 1) % IdxMod
                              THEN {LastPacket(m.tid)} ELSE {})
               /\ UNCHANGED sessions
     ELSE /\ UNCHANGED sessions
          /\ \/ Exchange(m, {})
             \/ Exchange(m, {Error(m.port, m.tid)})
  /\ UNCHANGED <<world, client>>

Resend(t) ==
  /\ faults < MaxFaults /\ faults' = faults + 1
  /\ net' = net \cup {LastPacket(t)}
  /\ UNCHANGED <<world, client, sessions>>

Lose(m) ==
  /\ faults < MaxFaults /\ faults' = faults + 1
  /\ net' = net \ {m}
  /\ UNCHANGED <<client, sessions, world>>

Finished == status # "busy" /\ current = Len(size) /\ net = {} /\ UNCHANGED vars

Receive(m) == ReceiveData(m) \/ ReceiveOther(m) \/ ReceiveOack(m) \/ ReceiveError(m)

Next ==
  \/ NewRequest \/ Timeout
  \/ \E m \in net : Receive(m)
  \/ \E m \in net : Discard(m)
  \/ \E m \in net : ServeRrq(m)
  \/ \E m \in net : ServeAck(m)
  \/ \E t \in 1..Len(sessions) : Resend(t)
  \/ \E m \in net : Lose(m)
  \/ Finished

Spec == Init /\ [][Next]_vars

(* The client's loop runs on: it receives, or await_reply() times out.     *)
(* Server and network are bounded by MaxFaults.             *)
FairSpec == Spec /\ WF_vars(Next)

-----------------------------------------------------------------------------
FT == INSTANCE FileTransfer

(* tftp() hands over each file as FileTransfer promises: every block is    *)
(* the next piece of the file asked for, never one of an earlier transfer  *)
(* or of a repeated request, and end of file comes only after the last,    *)
(* whatever the network does and however long the file is: tftp_block()    *)
(* tells packets apart by local port and block number alone.               *)
ImplementsFileTransfer == FT!Spec

NoWrap(b) == \A f \in 1..Len(size) : LastBlock(f, b) < IdxMod

(* A server that ignores options and answers repeated ACKs always gets its *)
(* file across, as long as the network loses no more packets in all than   *)
(* tftp_block() sends again and repeats none: a repeated RRQ opens two     *)
(* sessions, and rport follows the one heard last, even if it is behind.   *)
PlainServerNeverFails ==
  (/\ healthy /\ srvblk = 0 /\ srvdup /\ NoWrap(Default)
   /\ MaxFaults <= MaxRetries + 1) => status # "failed"

(* tftp() always returns: it cannot be kept waiting by lost, repeated or   *)
(* late packets.  When the block numbers of a long file wrap around it     *)
(* gives up, unless the server answers repeated ACKs: then client and      *)
(* server repeat ACK 65535 and block 0 for ever, every packet resetting    *)
(* the retry counter.                                                      *)
Terminates ==
  (NoWrap(BlkOf) \/ ~srvdup) => <>(current = Len(size) /\ status # "busy")
=============================================================================
