----------------------------- MODULE DhcpProofs -----------------------------
(***************************************************************************)
(* Proofs about Dhcp, for any set of servers of any kinds, any number of   *)
(* retries and any number of lost, repeated, delayed and reordered         *)
(* packets.                                                                *)
(***************************************************************************)
EXTENDS Dhcp, TLAPS

NoBootp == \A s \in Servers : kind[s] # "bootp"

(* A DHCPREQUEST as it may be sent: without BOOTP servers it asks a server *)
(* for the address that very server offered.                               *)
PacketOK(p) ==
  \/ p.op = "DISCOVER"
  \/ p.op = "REQUEST" /\ (NoBootp => p.server = p.addr /\ p.server \in offered)

RequestOK(m) == m.op = "BOOTREQUEST" /\ m.to \in Servers /\ PacketOK(m.packet)

(* What a reply in flight says of the server that sent it: an address, if  *)
(* it has one, is that server's; one in an ACK or BOOTP reply to us was    *)
(* granted to us, one in an OFFER to us was offered.                       *)
ReplyOK(m) ==
  /\ m.op \in {"OFFER", "ACK", "NAK", "BOOTP"}
  /\ m.from \in Servers /\ m.yiaddr \in {m.from, None} /\ m.siaddr \in {m.from, None}
  /\ m.mine \in BOOLEAN
  /\ m.op \in {"ACK", "BOOTP"} => m.yiaddr = m.from
  /\ m.op = "NAK" => m.yiaddr = None
  /\ (m.mine /\ m.op \in {"ACK", "BOOTP"}) => m.from \in granted
  /\ (m.mine /\ m.op = "OFFER" /\ m.yiaddr # None) => m.from \in offered
  /\ (m.mine /\ m.op = "ACK" /\ NoBootp) => m.from \in offered
  /\ m.op = "BOOTP" => ~NoBootp

MessageOK(m) == RequestOK(m) \/ ReplyOK(m)

NetInv == \A m \in net : MessageOK(m)

(* Every entry of arptable is from a server heard since it was cleared,    *)
(* and the boot file goes with the client address.                         *)
HeardInv ==
  /\ {client, server, gateway} \ {None} \subseteq heard
  /\ client # None => file \in heard

(* An address without an offer at hand was granted; while an ACK is waited *)
(* for, no earlier message type is left that could be taken for one.       *)
AddressInv ==
  /\ phase = "offers" => client = None \/ dhcp_reply = "OFFER" \/ client \in granted
  /\ phase = "acks" => dhcp_reply = "none"
  /\ phase = "done" => client \in granted
  /\ granted \subseteq Servers

(* dhcp_addr and dhcp_server outlive arptable.                             *)
OfferInv ==
  /\ client # None => dhcp_addr = client
  /\ NoBootp => dhcp_addr = dhcp_server /\ dhcp_addr \in offered \cup {None}
  /\ PacketOK(ip)

IInv == NetInv /\ HeardInv /\ AddressInv /\ OfferInv /\ AckedConfiguration

-----------------------------------------------------------------------------
(* Growing histories keep what is in flight true.                          *)
LEMMA MessageStays ==
  ASSUME NEW m, MessageOK(m), kind' = kind,
         granted \subseteq granted', offered \subseteq offered'
  PROVE  MessageOK(m)'
<1>1. NoBootp' <=> NoBootp
  BY DEF NoBootp
<1>2. CASE RequestOK(m)
  BY <1>1, <1>2 DEF MessageOK, RequestOK, PacketOK
<1>3. CASE ReplyOK(m)
  BY <1>1, <1>3 DEF MessageOK, ReplyOK
<1> QED BY <1>2, <1>3 DEF MessageOK

(* What is in flight after a step: what was, or new packets that are true. *)
LEMMA NetStays ==
  ASSUME NetInv, kind' = kind, granted \subseteq granted', offered \subseteq offered',
         NEW new, net' \subseteq net \cup new, \A m \in new : MessageOK(m)'
  PROVE  NetInv'
<1> SUFFICES ASSUME NEW m \in net' PROVE MessageOK(m)'
  BY DEF NetInv
<1>1. CASE m \in net
  BY <1>1, MessageStays DEF NetInv
<1> QED BY <1>1

LEMMA NetShrinks ==
  ASSUME NetInv, kind' = kind, granted \subseteq granted', offered \subseteq offered',
         net' \subseteq net
  PROVE  NetInv'
  BY MessageStays DEF NetInv

LEMMA ExchangeBounds ==
  ASSUME NEW m, NEW new, Exchange(m, new)
  PROVE  net' \subseteq net \cup new
  BY DEF Exchange

LEMMA PacketStays ==
  ASSUME NEW p, PacketOK(p), kind' = kind, offered \subseteq offered'
  PROVE  PacketOK(p)'
  BY DEF PacketOK, NoBootp

LEMMA BroadcastOK ==
  ASSUME PacketOK(ip), kind' = kind, offered' = offered
  PROVE  \A m \in Broadcast(ip) : MessageOK(m)'
<1>1. PacketOK(ip) => \A m \in Broadcast(ip) : MessageOK(m)
  BY DEF Broadcast, MessageOK, RequestOK
<1>2. \A m \in Broadcast(ip) : RequestOK(m) /\ PacketOK(m.packet)' /\ RequestOK(m)'
  BY PacketStays DEF Broadcast, RequestOK
<1> QED BY <1>2 DEF MessageOK

LEMMA InitEstablishes == Init => IInv
  BY ServersAssumption DEF Init, IInv, NetInv, HeardInv, AddressInv, OfferInv,
     PacketOK, AckedConfiguration

(* A step that leaves the configuration, the packet and the phase alone.   *)
LEMMA NetStep ==
  ASSUME IInv, NEW new, net' \subseteq net \cup new, \A m \in new : MessageOK(m)',
         kind' = kind, granted \subseteq granted', granted' \subseteq Servers,
         offered \subseteq offered',
         UNCHANGED <<phase, ip, conf, how>>
  PROVE  IInv'
<1>1. NetInv'
  BY NetStays DEF IInv
<1>2. HeardInv' /\ AckedConfiguration'
  BY DEF IInv, HeardInv, AckedConfiguration, conf
<1>3. AddressInv'
  BY DEF IInv, AddressInv, conf
<1>4. OfferInv'
  BY PacketStays DEF IInv, OfferInv, conf, NoBootp
<1> QED BY <1>1, <1>2, <1>3, <1>4 DEF IInv

(* The same when nothing new is in flight.                                 *)
LEMMA QuietStep ==
  ASSUME IInv, net' \subseteq net, UNCHANGED <<kind, granted, offered, phase, ip, conf, how>>
  PROVE  IInv'
<1>1. NetInv'
  BY NetShrinks DEF IInv
<1>2. HeardInv' /\ AddressInv' /\ AckedConfiguration'
  BY DEF IInv, HeardInv, AddressInv, AckedConfiguration, conf
<1>3. OfferInv'
  BY PacketStays DEF IInv, OfferInv, conf, NoBootp
<1> QED BY <1>1, <1>2, <1>3 DEF IInv

-----------------------------------------------------------------------------
(* The configuration a reply leaves.                                       *)
LEMMA DecodeKeeps ==
  ASSUME IInv, NEW m \in net, await_bootp(m), Decode(m),
         UNCHANGED <<ip, world, history>>
  PROVE  /\ ReplyOK(m) /\ m.mine /\ m.siaddr = m.from
         /\ HeardInv' /\ OfferInv'
<1>1. ReplyOK(m) /\ m.mine /\ m.siaddr = m.from
  BY DEF IInv, NetInv, MessageOK, RequestOK, await_bootp, ToClient, ReplyOK
<1>2. /\ server' = m.from /\ gateway' \in {gateway, m.from} /\ heard' = heard \cup {m.from}
      /\ \/ m.yiaddr = None /\ UNCHANGED <<client, dhcp_addr, dhcp_server, file>>
         \/ /\ m.yiaddr = m.from /\ m.from # None
            /\ client' = m.from /\ dhcp_addr' = m.from /\ file' = m.from
            /\ dhcp_server' = IF m.op = "BOOTP" THEN dhcp_server ELSE m.from
  BY <1>1, ServersAssumption DEF Decode, ServerOf, DhcpAddr, ReplyOK
<1>3. HeardInv'
  BY <1>2 DEF IInv, HeardInv
<1>4. PacketOK(ip)' /\ (NoBootp' <=> NoBootp) /\ offered' = offered
  BY PacketStays DEF IInv, OfferInv, world, history, NoBootp
<1>5. (m.yiaddr # None /\ NoBootp) => m.op # "BOOTP" /\ m.from \in offered
  BY <1>1 DEF ReplyOK
<1>6. OfferInv'
  BY <1>2, <1>4, <1>5 DEF IInv, OfferInv
<1> QED BY <1>1, <1>3, <1>6

LEMMA CollectKeeps ==
  ASSUME IInv, NEW m \in net, CollectReply(m)
  PROVE  IInv'
<1>1. /\ await_bootp(m) /\ Decode(m) /\ UNCHANGED <<ip, world, history>>
      /\ phase = "offers" /\ phase' = "offers" /\ dhcp_reply' = ReplyType(m)
      /\ Exchange(m, {})
  BY DEF CollectReply
<1>2. ReplyOK(m) /\ m.mine /\ m.siaddr = m.from /\ HeardInv' /\ OfferInv'
  BY <1>1, DecodeKeeps
<1>3. NetInv'
  <2>1. net' \subseteq net
    BY <1>1 DEF Exchange
  <2> QED BY <1>1, <2>1, NetShrinks DEF IInv, world, history
<1>4. AddressInv'
  <2>1. CASE m.yiaddr = None
    BY <1>1, <2>1 DEF IInv, AddressInv, Decode, ReplyType, history
  <2>2. CASE m.yiaddr # None /\ m.op = "OFFER"
    BY <1>1, <2>2 DEF IInv, AddressInv, Decode, ReplyType, history
  <2>3. CASE m.yiaddr # None /\ m.op # "OFFER"
    BY <1>1, <1>2, <2>3 DEF IInv, AddressInv, Decode, ReplyType, history, ReplyOK
  <2> QED BY <2>1, <2>2, <2>3
<1>5. AckedConfiguration'
  BY <1>1 DEF AckedConfiguration
<1> QED BY <1>2, <1>3, <1>4, <1>5 DEF IInv

LEMMA RequestReplyKeeps ==
  ASSUME IInv, NEW m \in net, RequestReply(m)
  PROVE  IInv'
<1>1. /\ await_bootp(m) /\ Decode(m) /\ UNCHANGED <<ip, world, history>>
      /\ phase = "acks" /\ Exchange(m, {})
      /\ IF NotAcked(ReplyType(m))
         THEN phase' = "request" /\ UNCHANGED how
         ELSE phase' = "done" /\ how' = "acked"
  BY DEF RequestReply
<1>2. ReplyOK(m) /\ m.mine /\ m.siaddr = m.from /\ HeardInv' /\ OfferInv'
  BY <1>1, DecodeKeeps
<1>3. NetInv'
  <2>1. net' \subseteq net
    BY <1>1 DEF Exchange
  <2> QED BY <1>1, <2>1, NetShrinks DEF IInv, world, history
<1>4. dhcp_reply = "none"
  BY <1>1 DEF IInv, AddressInv
<1>5. CASE NotAcked(ReplyType(m))
  BY <1>1, <1>2, <1>3, <1>5 DEF IInv, AddressInv, AckedConfiguration, history
<1>6. CASE ~NotAcked(ReplyType(m))
  <2>1. m.yiaddr # None /\ m.op = "ACK"
    BY <1>4, <1>6 DEF NotAcked, ReplyType
  <2>2. client' = m.from /\ server' = m.from /\ file' = m.from /\ m.from \in granted
    BY <1>1, <1>2, <2>1 DEF Decode, ServerOf, ReplyOK
  <2>3. AddressInv' /\ AckedConfiguration'
    BY <1>1, <1>6, <2>2 DEF IInv, AddressInv, AckedConfiguration, history
  <2> QED BY <1>2, <1>3, <2>3 DEF IInv
<1> QED BY <1>5, <1>6

-----------------------------------------------------------------------------
LEMMA SendPacketKeeps == IInv /\ SendPacket => IInv'
<1> SUFFICES ASSUME IInv, SendPacket PROVE IInv'
  OBVIOUS
<1>1. /\ client' = None /\ server' = None /\ gateway' = None /\ heard' = {}
      /\ phase' = "offers" /\ net' \subseteq net \cup Broadcast(ip)
      /\ UNCHANGED <<ip, dhcp_addr, dhcp_server, file, world, history>>
  BY DEF SendPacket, KillArptable
<1>2. \A m \in Broadcast(ip) : MessageOK(m)'
  BY <1>1, BroadcastOK DEF IInv, OfferInv, world, history
<1>3. NetInv'
  BY <1>1, <1>2, NetStays DEF IInv, world, history
<1>4. HeardInv' /\ AddressInv' /\ AckedConfiguration'
  BY <1>1 DEF IInv, HeardInv, AddressInv, AckedConfiguration, history
<1>5. OfferInv'
  BY <1>1, PacketStays DEF IInv, OfferInv, NoBootp, world, history
<1> QED BY <1>3, <1>4, <1>5 DEF IInv

LEMMA OffersTimeoutKeeps == IInv /\ OffersTimeout => IInv'
<1> SUFFICES ASSUME IInv, OffersTimeout PROVE IInv'
  OBVIOUS
<1>1. /\ phase = "offers" /\ phase' \in {"send", "done", "request"}
      /\ UNCHANGED <<client, server, gateway, dhcp_addr, dhcp_server, file, heard,
                     world, net, history>>
  BY DEF OffersTimeout
<1>2. NetInv'
  BY <1>1, NetShrinks DEF IInv, world, history
<1>3. HeardInv'
  BY <1>1 DEF IInv, HeardInv
<1>4. AddressInv' /\ AckedConfiguration'
  BY DEF OffersTimeout, IInv, AddressInv, AckedConfiguration, history
<1>5. PacketOK(ip)'
  <2>1. CASE ip' = ip
    BY <1>1, <2>1, PacketStays DEF IInv, OfferInv, world, history
  <2>2. CASE client # None /\ ip' = Request
    BY <1>1, <2>2 DEF IInv, OfferInv, PacketOK, Request, NoBootp, world, history
  <2> QED BY <2>1, <2>2 DEF OffersTimeout
<1>6. OfferInv'
  BY <1>1, <1>5 DEF IInv, OfferInv, NoBootp, world, history
<1> QED BY <1>2, <1>3, <1>4, <1>6 DEF IInv

LEMMA SendRequestKeeps == IInv /\ SendRequest => IInv'
<1> SUFFICES ASSUME IInv, SendRequest PROVE IInv'
  OBVIOUS
<1>1. /\ phase' = "acks" /\ dhcp_reply' = "none" /\ net' \subseteq net \cup Broadcast(ip)
      /\ UNCHANGED <<ip, client, server, gateway, dhcp_addr, dhcp_server, file, heard,
                     world, history>>
  BY DEF SendRequest
<1>2. \A m \in Broadcast(ip) : MessageOK(m)'
  BY <1>1, BroadcastOK DEF IInv, OfferInv, world, history
<1>3. NetInv'
  BY <1>1, <1>2, NetStays DEF IInv, world, history
<1>4. HeardInv' /\ AddressInv' /\ AckedConfiguration'
  BY <1>1 DEF IInv, HeardInv, AddressInv, AckedConfiguration, history
<1>5. OfferInv'
  BY <1>1, PacketStays DEF IInv, OfferInv, NoBootp, world, history
<1> QED BY <1>3, <1>4, <1>5 DEF IInv

(* Steps of bootp() that change its place only, and not to a wait.         *)
LEMMA PhaseKeeps ==
  ASSUME IInv, phase' \in {"send", "request", "failed"},
         UNCHANGED <<ip, conf, world, net, history, how>>
  PROVE  IInv'
<1>1. NetInv'
  BY NetShrinks DEF IInv, world, history
<1>2. HeardInv' /\ AddressInv' /\ AckedConfiguration'
  BY DEF IInv, HeardInv, AddressInv, AckedConfiguration, conf, history
<1>3. OfferInv'
  BY PacketStays DEF IInv, OfferInv, NoBootp, conf, world, history
<1> QED BY <1>1, <1>2, <1>3 DEF IInv

-----------------------------------------------------------------------------
(* The servers and the network.                                            *)
LEMMA ServeDiscoverKeeps ==
  ASSUME IInv, NEW m \in net, ServeDiscover(m)
  PROVE  IInv'
<1> DEFINE s == m.to
<1>1. s \in Servers
  BY DEF IInv, NetInv, MessageOK, RequestOK, ReplyOK, ServeDiscover
<1>2. /\ UNCHANGED <<phase, ip, conf, how>> /\ kind' = kind
  BY DEF ServeDiscover, world
<1>3. ASSUME NEW new, Exchange(m, new), \A x \in new : MessageOK(x)',
             granted \subseteq granted', granted' \subseteq Servers, offered \subseteq offered'
      PROVE  IInv'
  BY <1>2, <1>3, ExchangeBounds, NetStep
<1>4. granted \subseteq Servers
  BY DEF IInv, AddressInv
<1>5. CASE /\ Exchange(m, {Reply("OFFER", s, s, s)})
           /\ offered' = offered \cup {s} /\ UNCHANGED granted
  <2>1. MessageOK(Reply("OFFER", s, s, s))'
    BY <1>1, <1>5 DEF MessageOK, ReplyOK, Reply
  <2> QED BY <1>3, <1>4, <1>5, <2>1
<1>6. CASE Exchange(m, {Reply("OFFER", s, None, s)}) /\ UNCHANGED history
  <2>1. MessageOK(Reply("OFFER", s, None, s))'
    BY <1>1 DEF MessageOK, ReplyOK, Reply
  <2> QED BY <1>3, <1>4, <1>6, <2>1 DEF history
<1>7. CASE /\ kind[s] = "bootp" /\ Exchange(m, {Reply("BOOTP", s, s, s)})
           /\ granted' = granted \cup {s} /\ UNCHANGED offered
  <2>1. MessageOK(Reply("BOOTP", s, s, s))'
    BY <1>1, <1>2, <1>7 DEF MessageOK, ReplyOK, Reply, NoBootp
  <2> QED BY <1>1, <1>3, <1>4, <1>7, <2>1
<1> QED BY <1>5, <1>6, <1>7 DEF ServeDiscover

LEMMA ServeRequestKeeps ==
  ASSUME IInv, NEW m \in net, ServeRequest(m)
  PROVE  IInv'
<1> DEFINE s == m.to
<1>1. s \in Servers /\ PacketOK(m.packet) /\ m.packet.op = "REQUEST"
  BY DEF IInv, NetInv, MessageOK, RequestOK, ReplyOK, ServeRequest
<1>2. /\ UNCHANGED <<phase, ip, conf, how>> /\ kind' = kind
  BY DEF ServeRequest, world
<1>3. ASSUME NEW new, Exchange(m, new), \A x \in new : MessageOK(x)',
             granted \subseteq granted', granted' \subseteq Servers, offered \subseteq offered'
      PROVE  IInv'
  BY <1>2, <1>3, ExchangeBounds, NetStep
<1>4. granted \subseteq Servers
  BY DEF IInv, AddressInv
<1>5. CASE /\ m.packet.server = s /\ Exchange(m, {Reply("ACK", s, s, s)})
           /\ granted' = granted \cup {s} /\ UNCHANGED offered
  <2>1. NoBootp' => s \in offered'
    BY <1>1, <1>2, <1>5 DEF PacketOK, NoBootp
  <2>2. MessageOK(Reply("ACK", s, s, s))'
    BY <1>1, <1>5, <2>1 DEF MessageOK, ReplyOK, Reply
  <2> QED BY <1>1, <1>3, <1>4, <1>5, <2>2
<1>6. ASSUME NEW t \in {s, None}, Exchange(m, {Reply("NAK", s, None, t)}), UNCHANGED history
      PROVE  IInv'
  <2>1. MessageOK(Reply("NAK", s, None, t))'
    BY <1>1, <1>6 DEF MessageOK, ReplyOK, Reply
  <2> QED BY <1>3, <1>4, <1>6, <2>1 DEF history
<1>7. CASE Exchange(m, {}) /\ UNCHANGED history
  BY <1>3, <1>4, <1>7 DEF history
<1>8. CASE /\ kind[s] = "bootp" /\ Exchange(m, {Reply("BOOTP", s, s, s)})
           /\ granted' = granted \cup {s} /\ UNCHANGED offered
  <2>1. MessageOK(Reply("BOOTP", s, s, s))'
    BY <1>1, <1>2, <1>8 DEF MessageOK, ReplyOK, Reply, NoBootp
  <2> QED BY <1>1, <1>3, <1>4, <1>8, <2>1
<1> QED BY <1>5, <1>6, <1>7, <1>8 DEF ServeRequest

LEMMA NetworkKeeps ==
  ASSUME IInv, \/ \E m \in net : Discard(m) \/ Lose(m)
               \/ \E s \in Servers : OtherClient(s)
  PROVE  IInv'
<1>1. granted \subseteq Servers
  BY DEF IInv, AddressInv
<1>2. ASSUME NEW m \in net, Discard(m) \/ Lose(m)
      PROVE  IInv'
  <2>1. /\ net' \subseteq net
        /\ UNCHANGED <<kind, granted, offered, phase, ip, conf, how>>
    BY <1>2 DEF Discard, Lose, world, history
  <2> QED BY <2>1, QuietStep
<1>3. ASSUME NEW s \in Servers, OtherClient(s)
      PROVE  IInv'
  <2> DEFINE a == [Reply("ACK", s, s, s) EXCEPT !.mine = FALSE]
  <2>1. MessageOK(a)'
    BY <1>3 DEF MessageOK, ReplyOK, Reply
  <2>2. /\ net' \subseteq net \cup {a} /\ kind' = kind /\ granted' = granted
        /\ offered' = offered /\ UNCHANGED <<phase, ip, conf, how>>
    BY <1>3 DEF OtherClient, world, history
  <2> QED BY <1>1, <2>1, <2>2, NetStep
<1> QED BY <1>2, <1>3

-----------------------------------------------------------------------------
LEMMA NextPreserves == IInv /\ [Next]_vars => IInv'
<1> SUFFICES ASSUME IInv, [Next]_vars PROVE IInv'
  OBVIOUS
<1>1. CASE OutOfRetries \/ RequestTimeout \/ RequestsExhausted
  BY <1>1, PhaseKeeps DEF OutOfRetries, RequestTimeout, RequestsExhausted
<1>2. CASE UNCHANGED vars
  <2>1. /\ net' \subseteq net
        /\ UNCHANGED <<kind, granted, offered, phase, ip, conf, how>>
    BY <1>2 DEF vars, world, history
  <2> QED BY <2>1, QuietStep
<1> QED
  BY <1>1, <1>2, SendPacketKeeps, OffersTimeoutKeeps, SendRequestKeeps, CollectKeeps,
     RequestReplyKeeps, ServeDiscoverKeeps, ServeRequestKeeps, NetworkKeeps
     DEF Next, Environment, Done

LEMMA InvImplies == IInv => SoundConfiguration
<1> SUFFICES ASSUME IInv PROVE SoundConfiguration
  OBVIOUS
<1>1. AddressGranted /\ AckedConfiguration
  BY DEF IInv, AddressInv, AddressGranted
<1>2. NoStaleConfiguration
  BY ServersAssumption DEF IInv, AddressInv, HeardInv, NoStaleConfiguration
<1>3. RequestNamesOffer
  BY DEF IInv, OfferInv, PacketOK, NoBootp, RequestNamesOffer
<1> QED BY <1>1, <1>2, <1>3 DEF SoundConfiguration

(* bootp() (nic.c) returns only with an address granted to this client,    *)
(* with the acknowledging server's TFTP server and boot file, with nothing *)
(* left from an earlier attempt, and requests what was offered.            *)
THEOREM ConfigurationSound == Spec => []SoundConfiguration
<1>1. Init => IInv
  BY InitEstablishes
<1>2. IInv /\ [Next]_vars => IInv'
  BY NextPreserves
<1>3. IInv => SoundConfiguration
  BY InvImplies
<1> QED BY <1>1, <1>2, <1>3, PTL DEF Spec

-----------------------------------------------------------------------------
(* Why bootp() does not fail: counting the packets lost, on a healthy      *)
(* network.  A try that ends without an address has lost a packet of every *)
(* server that would have answered.                                        *)
Discovering == ip.op = "DISCOVER"

(* The DHCPREQUEST is one that its server will acknowledge.                *)
Served == ip.op = "REQUEST" /\ ip.server = ip.addr /\ kind[ip.server] = "dhcp"

(* What is in flight belongs to the packet bootp() sends now.              *)
HealthyMessage(m) ==
  IF m.op = "BOOTREQUEST" THEN m.packet = ip
  ELSE /\ m.mine
       /\ m.op # "NAK" => m.siaddr = m.from
       /\ m.op = "OFFER" => Discovering /\ (m.yiaddr # None => kind[m.from] \in {"dhcp", "mute"})
       /\ m.op = "ACK" => ~Discovering
       /\ m.op = "NAK" => ~Discovering /\ ~Served
       /\ m.op = "BOOTP" => kind[m.from] = "bootp"
HealthyNet == \A m \in net : HealthyMessage(m)

HealthyClient ==
  /\ faults \in 0..MaxFaults /\ retry \in Nat /\ reqretry \in Nat
  /\ Discovering => phase \in {"send", "offers", "done", "failed"}
  /\ (phase = "offers" /\ client = None) \/ phase = "acks" => sport = "bootp"
  /\ dhcp_reply = "OFFER" => /\ phase = "offers" /\ Discovering /\ client # None
                             /\ dhcp_server \in Servers /\ kind[dhcp_server] \in {"dhcp", "mute"}
  /\ ip.op = "REQUEST" => ip.server \in Servers /\ kind[ip.server] \in {"dhcp", "mute"}

(* An address from t, or the request for one, is on its way.               *)
Concerns(m, t) ==
  \/ m.op = "BOOTREQUEST" /\ m.to = t
  \/ ToClient(m) /\ m.from = t /\ m.yiaddr # None
Pending(t) == \E m \in net : Concerns(m, t)
Lost(t) == IF Pending(t) THEN 0 ELSE 1

(* The servers that answer the packet with an address.                     *)
Answers(t) ==
  /\ t \in Servers
  /\ \/ Discovering /\ kind[t] # "proxy"
     \/ Served /\ (t = ip.server \/ kind[t] = "bootp")

(* Tries to discover cost a packet each ...                                *)
TriesCounted ==
  Discovering =>
    \A t \in Servers : Answers(t) =>
      /\ phase = "send" => faults >= retry
      /\ phase = "offers" => faults + 1 >= retry
      /\ phase = "offers" /\ client = None => faults + 1 >= retry + Lost(t)

(* ... or two, where a BOOTP server would answer as well.  It may use up   *)
(* the requests, but not the tries that follow.                            *)
PairsCounted ==
  \A d, b \in Servers : (kind[d] = "dhcp" /\ kind[b] = "bootp") =>
    /\ Discovering =>
         /\ phase = "send" => faults >= 2 * retry
         /\ phase = "offers" => faults + 2 >= 2 * retry
         /\ phase = "offers" /\ client = None => faults + 2 >= 2 * retry + Lost(d) + Lost(b)
    /\ Served /\ d = ip.server =>
         /\ phase \in {"send", "request", "acks"} => faults + 2 >= 2 * retry
         /\ phase = "offers" /\ client = None => faults + 4 >= 2 * retry + Lost(d) + Lost(b)

(* Without BOOTP servers each request costs a packet.                      *)
RequestsCounted ==
  (Served /\ NoBootp) =>
    /\ phase \in {"request", "acks", "done"}
    /\ phase = "request" => faults >= reqretry
    /\ phase = "acks" => faults + 1 >= reqretry + Lost(ip.server)

Counts == TriesCounted /\ PairsCounted /\ RequestsCounted

HealthyInv == HealthyNet /\ HealthyClient /\ Counts /\ FailsOnlyIfUnserved

(* No more packets are lost than bootp() has tries.                        *)
Counted == healthy /\ MaxFaults < MaxRetries

LEMMA Sorts ==
  ASSUME IInv, NEW m \in net
  PROVE  \/ m.op = "BOOTREQUEST" /\ m.to \in Servers /\ ~ToClient(m)
         \/ m.op # "BOOTREQUEST" /\ ToClient(m) /\ ReplyOK(m)
  BY DEF IInv, NetInv, MessageOK, RequestOK, ReplyOK, ToClient

LEMMA NothingComing ==
  ASSUME IInv, ~AnswerComing
  PROVE  net = {}
  BY Sorts DEF AnswerComing

LEMMA LostIs ==
  ASSUME NEW t
  PROVE  /\ Lost(t) \in {0, 1} /\ (Pending(t) => Lost(t) = 0) /\ (~Pending(t) => Lost(t) = 1)
         /\ Lost(t)' \in {0, 1} /\ (Pending(t)' => Lost(t)' = 0) /\ (~Pending(t)' => Lost(t)' = 1)
  BY DEF Lost

LEMMA CountTypes ==
  ASSUME HealthyClient
  PROVE  /\ faults \in Nat /\ retry \in Nat /\ reqretry \in Nat /\ faults <= MaxFaults
         /\ MaxFaults \in Nat /\ MaxRetries \in Nat /\ MaxRetries >= 2
  BY BoundsAssumption, RetriesAssumption DEF HealthyClient

(* Where an address is waited for that has not come yet.                   *)
Awaiting == (phase = "offers" /\ client = None) \/ phase = "acks"

(* The counts after a step of servers or network by which nothing that is  *)
(* waited for is lost, and after the loss of a packet that concerns u.     *)
LEMMA CountsStay ==
  ASSUME Counts, HealthyClient, UNCHANGED <<phase, retry, reqretry, ip, client, kind, faults>>,
         \A t \in Servers : Awaiting /\ Answers(t) /\ Pending(t) => Pending(t)'
  PROVE  Counts'
<1>1. faults \in Nat /\ retry \in Nat /\ reqretry \in Nat
  BY CountTypes
<1>2. \A t \in Servers : Awaiting /\ Answers(t) => Lost(t)' <= Lost(t)
  BY LostIs
<1>3. (Discovering' <=> Discovering) /\ (Served' <=> Served) /\ (NoBootp' <=> NoBootp)
  BY DEF Discovering, Served, NoBootp
<1>4. \A t \in Servers : (Answers(t)' <=> Answers(t)) /\ Lost(t) \in {0, 1} /\ Lost(t)' \in {0, 1}
  BY <1>3, LostIs DEF Answers
<1>5. TriesCounted'
  BY <1>1, <1>2, <1>3, <1>4 DEF Counts, TriesCounted, Awaiting
<1>6. PairsCounted'
  <2> SUFFICES ASSUME NEW d \in Servers, NEW b \in Servers, kind[d] = "dhcp", kind[b] = "bootp"
      PROVE  /\ Discovering =>
                  /\ phase = "send" => faults >= 2 * retry
                  /\ phase = "offers" => faults + 2 >= 2 * retry
                  /\ phase = "offers" /\ client = None => faults + 2 >= 2 * retry + Lost(d)' + Lost(b)'
             /\ Served /\ d = ip.server =>
                  /\ phase \in {"send", "request", "acks"} => faults + 2 >= 2 * retry
                  /\ phase = "offers" /\ client = None => faults + 4 >= 2 * retry + Lost(d)' + Lost(b)'
    BY <1>3 DEF PairsCounted
  <2>1. (Discovering \/ (Served /\ d = ip.server)) => Answers(d) /\ Answers(b)
    BY DEF Answers
  <2>2. (phase = "offers" /\ client = None /\ (Discovering \/ (Served /\ d = ip.server)))
          => Lost(d)' <= Lost(d) /\ Lost(b)' <= Lost(b)
    BY <1>2, <2>1 DEF Awaiting
  <2>3. /\ Discovering =>
             /\ phase = "send" => faults >= 2 * retry
             /\ phase = "offers" => faults + 2 >= 2 * retry
             /\ phase = "offers" /\ client = None => faults + 2 >= 2 * retry + Lost(d) + Lost(b)
        /\ Served /\ d = ip.server =>
             /\ phase \in {"send", "request", "acks"} => faults + 2 >= 2 * retry
             /\ phase = "offers" /\ client = None => faults + 4 >= 2 * retry + Lost(d) + Lost(b)
    BY DEF Counts, PairsCounted
  <2> QED BY <1>1, <1>4, <2>2, <2>3
<1>7. RequestsCounted'
  <2> SUFFICES ASSUME Served, NoBootp
      PROVE  /\ phase \in {"request", "acks", "done"}
             /\ phase = "request" => faults >= reqretry
             /\ phase = "acks" => faults + 1 >= reqretry + Lost(ip.server)'
    BY <1>3 DEF RequestsCounted
  <2>1. ip.server \in Servers /\ Answers(ip.server)
    BY DEF HealthyClient, Served, Answers
  <2> QED BY <1>1, <1>2, <1>4, <2>1 DEF Counts, RequestsCounted, Awaiting
<1> QED BY <1>5, <1>6, <1>7 DEF Counts

LEMMA CountsLose ==
  ASSUME Counts, HealthyClient, UNCHANGED <<phase, retry, reqretry, ip, client, kind>>,
         faults' = faults + 1, NEW u, \A t \in Servers : t # u /\ Pending(t) => Pending(t)'
  PROVE  Counts'
<1>1. faults \in Nat /\ retry \in Nat /\ reqretry \in Nat
  BY CountTypes
<1>2. (Discovering' <=> Discovering) /\ (Served' <=> Served) /\ (NoBootp' <=> NoBootp)
  BY DEF Discovering, Served, NoBootp
<1>3. \A t \in Servers : /\ Lost(t) \in {0, 1} /\ Lost(t)' \in {0, 1} /\ (t # u => Lost(t)' <= Lost(t))
                         /\ (Answers(t)' <=> Answers(t))
  BY <1>2, LostIs DEF Answers
<1>4. TriesCounted'
  BY <1>1, <1>2, <1>3 DEF Counts, TriesCounted
<1>5. PairsCounted'
  <2> SUFFICES ASSUME NEW d \in Servers, NEW b \in Servers, kind[d] = "dhcp", kind[b] = "bootp"
      PROVE  /\ Discovering =>
                  /\ phase = "send" => faults + 1 >= 2 * retry
                  /\ phase = "offers" => faults + 3 >= 2 * retry
                  /\ phase = "offers" /\ client = None => faults + 3 >= 2 * retry + Lost(d)' + Lost(b)'
             /\ Served /\ d = ip.server =>
                  /\ phase \in {"send", "request", "acks"} => faults + 3 >= 2 * retry
                  /\ phase = "offers" /\ client = None => faults + 5 >= 2 * retry + Lost(d)' + Lost(b)'
    BY <1>1, <1>2 DEF PairsCounted
  <2>1. Lost(d)' + Lost(b)' <= Lost(d) + Lost(b) + 1
    <3>1. d # b
      OBVIOUS
    <3> QED BY <1>3, <3>1
  <2>2. /\ Discovering =>
             /\ phase = "send" => faults >= 2 * retry
             /\ phase = "offers" => faults + 2 >= 2 * retry
             /\ phase = "offers" /\ client = None => faults + 2 >= 2 * retry + Lost(d) + Lost(b)
        /\ Served /\ d = ip.server =>
             /\ phase \in {"send", "request", "acks"} => faults + 2 >= 2 * retry
             /\ phase = "offers" /\ client = None => faults + 4 >= 2 * retry + Lost(d) + Lost(b)
    BY DEF Counts, PairsCounted
  <2> QED BY <1>1, <1>3, <2>1, <2>2
<1>6. RequestsCounted'
  <2>1. Served => ip.server \in Servers
    BY DEF HealthyClient, Served
  <2> QED BY <1>1, <1>2, <1>3, <2>1 DEF Counts, RequestsCounted
<1> QED BY <1>4, <1>5, <1>6 DEF Counts

(* Steps of servers and network leave the rest alone.                      *)
LEMMA OutsideStep ==
  ASSUME HealthyInv, UNCHANGED <<phase, retry, reqretry, ip, sport, conf, world, how>>,
         faults' \in 0..MaxFaults, HealthyNet', Counts'
  PROVE  HealthyInv'
<1>1. HealthyClient'
  BY DEF HealthyInv, HealthyClient, conf, world, Discovering
<1>2. FailsOnlyIfUnserved'
  BY DEF HealthyInv, FailsOnlyIfUnserved, world
<1> QED BY <1>1, <1>2 DEF HealthyInv

(* What is in flight stays as it should be while the packet is the same.   *)
LEMMA HealthyMessageStays ==
  ASSUME NEW m, HealthyMessage(m), UNCHANGED <<ip, kind>>
  PROVE  HealthyMessage(m)'
  BY DEF HealthyMessage, Discovering, Served

LEMMA HealthyServeDiscover ==
  ASSUME IInv, Counted, HealthyInv, NEW m \in net, ServeDiscover(m)
  PROVE  HealthyInv'
<1> DEFINE s == m.to
<1>1. /\ UNCHANGED <<phase, retry, reqretry, ip, sport, conf, world, how>> /\ faults' = faults
      /\ UNCHANGED <<kind, client>>
  BY DEF ServeDiscover, Exchange, Counted, world, conf
<1>2. m.op = "BOOTREQUEST" /\ s \in Servers /\ m.packet = ip /\ Discovering
  BY Sorts DEF ServeDiscover, HealthyInv, HealthyNet, HealthyMessage, Discovering
<1>3. PICK a : /\ net' = (net \ {m}) \cup {a}
               /\ \/ kind[s] \in {"dhcp", "mute"} /\ a = Reply("OFFER", s, s, s)
                  \/ kind[s] = "proxy" /\ a = Reply("OFFER", s, None, s)
                  \/ kind[s] = "bootp" /\ a = Reply("BOOTP", s, s, s)
  BY DEF ServeDiscover, Exchange, Counted
<1>4. HealthyMessage(a)
  BY <1>2, <1>3 DEF HealthyMessage, Reply
<1>5. HealthyNet'
  BY <1>1, <1>3, <1>4, HealthyMessageStays DEF HealthyInv, HealthyNet
<1>6. ASSUME NEW t \in Servers, Answers(t), Pending(t) PROVE Pending(t)'
  <2>1. PICK k \in net : Concerns(k, t)
    BY <1>6 DEF Pending
  <2>2. CASE k # m
    BY <1>3, <2>1, <2>2 DEF Pending
  <2>3. CASE k = m
    <3>1. t = s
      BY <1>2, <2>1, <2>3 DEF Concerns, ToClient
    <3>2. kind[s] # "proxy"
      BY <1>2, <1>6, <3>1 DEF Answers, Discovering, Served
    <3>3. Concerns(a, t)
      BY <1>2, <1>3, <3>1, <3>2, ServersAssumption DEF Concerns, Reply, ToClient
    <3> QED BY <1>3, <3>3 DEF Pending
  <2> QED BY <2>2, <2>3
<1>7. Counts'
  BY <1>1, <1>6, CountsStay DEF HealthyInv
<1>8. faults' \in 0..MaxFaults
  BY <1>1 DEF HealthyInv, HealthyClient
<1> QED BY <1>1, <1>5, <1>7, <1>8, OutsideStep

LEMMA HealthyServeRequest ==
  ASSUME IInv, Counted, HealthyInv, NEW m \in net, ServeRequest(m)
  PROVE  HealthyInv'
<1> DEFINE s == m.to
<1>1. /\ UNCHANGED <<phase, retry, reqretry, ip, sport, conf, world, how>> /\ faults' = faults
      /\ UNCHANGED <<kind, client>>
  BY DEF ServeRequest, Exchange, Counted, world, conf
<1>2. m.op = "BOOTREQUEST" /\ s \in Servers /\ m.packet = ip /\ ip.op = "REQUEST" /\ ~Discovering
  BY Sorts DEF ServeRequest, HealthyInv, HealthyNet, HealthyMessage, Discovering
<1>3. PICK new :
        /\ net' = (net \ {m}) \cup new
        /\ \/ kind[s] = "dhcp" /\ ip.server = s /\ new = {Reply("ACK", s, s, s)}
           \/ /\ kind[s] = "dhcp" /\ ip.server = s /\ ip.addr # s
              /\ \E t \in {s, None} : new = {Reply("NAK", s, None, t)}
           \/ kind[s] # "bootp" /\ (ip.server # s \/ kind[s] # "dhcp") /\ new = {}
           \/ kind[s] = "bootp" /\ new = {Reply("BOOTP", s, s, s)}
  BY <1>2 DEF ServeRequest, Exchange, Counted
<1>4. \A a \in new : HealthyMessage(a)
  BY <1>2, <1>3 DEF HealthyMessage, Reply, Served
<1>5. HealthyNet'
  BY <1>1, <1>3, <1>4, HealthyMessageStays DEF HealthyInv, HealthyNet
<1>6. ASSUME NEW t \in Servers, Answers(t), Pending(t) PROVE Pending(t)'
  <2>1. PICK k \in net : Concerns(k, t)
    BY <1>6 DEF Pending
  <2>2. CASE k # m
    BY <1>3, <2>1, <2>2 DEF Pending
  <2>3. CASE k = m
    <3>1. t = s
      BY <1>2, <2>1, <2>3 DEF Concerns, ToClient
    <3>2. Served /\ (s = ip.server \/ kind[s] = "bootp")
      BY <1>2, <1>6, <3>1 DEF Answers
    <3>3. PICK a \in new : a \in {Reply("ACK", s, s, s), Reply("BOOTP", s, s, s)}
      BY <1>3, <3>2 DEF Served
    <3>4. s # None /\ Concerns(a, t)
      BY <1>2, <3>1, <3>3, ServersAssumption DEF Concerns, Reply, ToClient
    <3> QED BY <1>3, <3>3, <3>4 DEF Pending
  <2> QED BY <2>2, <2>3
<1>7. Counts'
  BY <1>1, <1>6, CountsStay DEF HealthyInv
<1>8. faults' \in 0..MaxFaults
  BY <1>1 DEF HealthyInv, HealthyClient
<1> QED BY <1>1, <1>5, <1>7, <1>8, OutsideStep

LEMMA HealthyLose ==
  ASSUME IInv, Counted, HealthyInv, NEW m \in net, Lose(m)
  PROVE  HealthyInv'
<1>1. /\ UNCHANGED <<phase, retry, reqretry, ip, sport, conf, world, how>>
      /\ UNCHANGED <<kind, client>> /\ faults < MaxFaults /\ faults' = faults + 1 /\ net' = net \ {m}
  BY DEF Lose, world, conf
<1>2. HealthyNet'
  BY <1>1, HealthyMessageStays DEF HealthyInv, HealthyNet
<1>3. PICK u : u = IF m.op = "BOOTREQUEST" THEN m.to ELSE m.from
  OBVIOUS
<1>4. \A t \in Servers : t # u /\ Pending(t) => Pending(t)'
  BY <1>1, <1>3 DEF Pending, Concerns, ToClient
<1>5. Counts'
  BY <1>1, <1>4, CountsLose DEF HealthyInv
<1>6. faults' \in 0..MaxFaults
  BY <1>1, BoundsAssumption DEF HealthyInv, HealthyClient
<1> QED BY <1>1, <1>2, <1>5, <1>6, OutsideStep

(* await_bootp() refuses only what does not help, or when an address has   *)
(* come already.                                                           *)
LEMMA HealthyDiscard ==
  ASSUME IInv, Counted, HealthyInv, NEW m \in net, Discard(m)
  PROVE  HealthyInv'
<1>1. /\ UNCHANGED <<phase, retry, reqretry, ip, sport, conf, world, how>> /\ faults' = faults
      /\ UNCHANGED <<kind, client>> /\ net' = net \ {m} /\ ToClient(m)
      /\ phase \in {"offers", "acks"} /\ ~await_bootp(m)
  BY DEF Discard, world, conf, Counted
<1>2. HealthyNet'
  BY <1>1, HealthyMessageStays DEF HealthyInv, HealthyNet
<1>3. ASSUME Awaiting, NEW t \in Servers, Pending(t) PROVE Pending(t)'
  <2>1. PICK k \in net : Concerns(k, t)
    BY <1>3 DEF Pending
  <2>2. sport = "bootp"
    BY <1>3 DEF Awaiting, HealthyInv, HealthyClient
  <2>3. m.op # "BOOTREQUEST" /\ ReplyOK(m) /\ HealthyMessage(m)
    BY <1>1, Sorts DEF ToClient, HealthyInv, HealthyNet
  <2>4. k # m
    BY <1>1, <2>1, <2>2, <2>3, ServersAssumption
       DEF Concerns, await_bootp, ReplyOK, HealthyMessage
  <2> QED BY <1>1, <2>1, <2>4 DEF Pending
<1>4. Counts'
  BY <1>1, <1>3, CountsStay DEF HealthyInv
<1>5. faults' \in 0..MaxFaults
  BY <1>1 DEF HealthyInv, HealthyClient
<1> QED BY <1>1, <1>2, <1>4, <1>5, OutsideStep

-----------------------------------------------------------------------------
(* bootp() sends: an answer of every server is on its way.                 *)
LEMMA AllPending ==
  ASSUME net' = net \cup Broadcast(ip), ip' = ip, kind' = kind, HealthyNet
  PROVE  HealthyNet' /\ \A t \in Servers : Lost(t)' = 0
<1>1. \A m \in Broadcast(ip) : HealthyMessage(m)
  BY DEF Broadcast, HealthyMessage
<1>2. HealthyNet'
  BY <1>1, HealthyMessageStays DEF HealthyNet
<1>3. ASSUME NEW t \in Servers PROVE Pending(t)'
  <2> DEFINE m == [op |-> "BOOTREQUEST", to |-> t, packet |-> ip]
  <2>1. m \in Broadcast(ip)
    BY DEF Broadcast
  <2>2. m \in net'
    BY <2>1
  <2>3. m.op = "BOOTREQUEST" /\ m.to = t
    OBVIOUS
  <2> HIDE DEF m
  <2> QED BY <2>2, <2>3 DEF Pending, Concerns
<1> QED BY <1>2, <1>3, LostIs

LEMMA HealthySendPacket == ASSUME IInv, Counted, HealthyInv, SendPacket PROVE HealthyInv'
<1>1. /\ phase = "send" /\ phase' = "offers" /\ client' = None /\ sport' = "bootp"
      /\ retry' = retry + 1 /\ net' = net \cup Broadcast(ip)
      /\ UNCHANGED <<reqretry, ip, kind, faults, dhcp_reply, dhcp_server>>
  BY DEF SendPacket, Counted, KillArptable, NextTry, world
<1>2. HealthyNet' /\ \A t \in Servers : Lost(t)' = 0
  BY <1>1, AllPending DEF HealthyInv
<1>3. faults \in Nat /\ retry \in Nat
  BY CountTypes DEF HealthyInv
<1>4. (Discovering' <=> Discovering) /\ (Served' <=> Served) /\ (NoBootp' <=> NoBootp)
  BY <1>1 DEF Discovering, Served, NoBootp
<1>5. \A t \in Servers : Answers(t)' <=> Answers(t)
  BY <1>1, <1>4 DEF Answers
<1>6. HealthyClient'
  BY <1>1, <1>4 DEF HealthyInv, HealthyClient
<1>7. TriesCounted'
  BY <1>1, <1>2, <1>3, <1>4, <1>5 DEF HealthyInv, Counts, TriesCounted
<1>8. PairsCounted'
  <2> SUFFICES ASSUME NEW d \in Servers, NEW b \in Servers, kind[d] = "dhcp", kind[b] = "bootp"
      PROVE  /\ Discovering => faults + 2 >= 2 * (retry + 1)
             /\ Served /\ d = ip.server => faults + 4 >= 2 * (retry + 1)
    BY <1>1, <1>2, <1>3, <1>4 DEF PairsCounted
  <2>1. /\ Discovering => faults >= 2 * retry
        /\ Served /\ d = ip.server => faults + 2 >= 2 * retry
    BY <1>1 DEF HealthyInv, Counts, PairsCounted
  <2> QED BY <1>3, <2>1
<1>9. RequestsCounted'
  BY <1>1, <1>4 DEF HealthyInv, Counts, RequestsCounted
<1>10. FailsOnlyIfUnserved'
  BY <1>1 DEF FailsOnlyIfUnserved
<1> QED BY <1>2, <1>6, <1>7, <1>8, <1>9, <1>10 DEF HealthyInv, Counts

(* The tries are used up: more packets would have been lost than there     *)
(* are faults, were there a server to answer.                              *)
LEMMA HealthyOutOfRetries == ASSUME IInv, Counted, HealthyInv, OutOfRetries PROVE HealthyInv'
<1>1. /\ phase = "send" /\ phase' = "failed" /\ ~(retry < MaxRetries)
      /\ UNCHANGED <<retry, reqretry, ip, sport, conf, world, net, faults>>
  BY DEF OutOfRetries, MoreTries
<1>2. UNCHANGED <<client, kind, dhcp_reply, dhcp_server, healthy>>
  BY <1>1 DEF conf, world
<1>3. /\ faults \in Nat /\ retry \in Nat /\ faults <= MaxFaults /\ MaxFaults \in Nat
      /\ MaxRetries \in Nat /\ MaxRetries >= 2 /\ MaxFaults < MaxRetries
  BY CountTypes DEF HealthyInv, Counted
<1>4. (Discovering' <=> Discovering) /\ (Served' <=> Served) /\ (NoBootp' <=> NoBootp)
  BY <1>1, <1>2 DEF Discovering, Served, NoBootp
<1>5. ~Served
  <2> SUFFICES ASSUME Served PROVE FALSE
    OBVIOUS
  <2>1. PICK b \in Servers : kind[b] = "bootp"
    BY <1>1 DEF HealthyInv, Counts, RequestsCounted, NoBootp
  <2>2. ip.server \in Servers /\ kind[ip.server] = "dhcp"
    BY DEF HealthyInv, HealthyClient, Served
  <2>3. faults + 2 >= 2 * retry
    BY <1>1, <2>1, <2>2 DEF HealthyInv, Counts, PairsCounted
  <2> QED BY <1>1, <1>3, <2>3
<1>6. Discovering => \A t \in Servers : kind[t] = "proxy"
  <2> SUFFICES ASSUME Discovering, NEW t \in Servers, kind[t] # "proxy" PROVE FALSE
    OBVIOUS
  <2>1. faults >= retry
    BY <1>1 DEF HealthyInv, Counts, TriesCounted, Answers
  <2> QED BY <1>1, <1>3, <2>1
<1>7. FailsOnlyIfUnserved'
  <2>1. Discovering \/ ip.op = "REQUEST"
    BY DEF IInv, OfferInv, PacketOK, Discovering
  <2> QED BY <1>1, <1>2, <1>5, <1>6, <2>1
          DEF FailsOnlyIfUnserved, HealthyInv, HealthyClient, Served
<1>8. HealthyNet'
  BY <1>1, <1>2, HealthyMessageStays DEF HealthyInv, HealthyNet
<1>9. HealthyClient'
  BY <1>1, <1>2, <1>4 DEF HealthyInv, HealthyClient
<1>10. Counts'
  BY <1>1, <1>4, <1>5 DEF Counts, TriesCounted, PairsCounted, RequestsCounted
<1> QED BY <1>7, <1>8, <1>9, <1>10 DEF HealthyInv

LEMMA HealthyOffersTimeout == ASSUME IInv, Counted, HealthyInv, OffersTimeout PROVE HealthyInv'
<1>1. /\ phase = "offers" /\ UNCHANGED <<retry, sport, client, dhcp_server, kind, net, faults>>
  BY DEF OffersTimeout, world
<1>2. net = {}
  BY NothingComing DEF OffersTimeout, Counted
<1>3. \A t \in Servers : Lost(t) = 1
  BY <1>2, LostIs DEF Pending
<1>4. faults \in Nat /\ retry \in Nat
  BY CountTypes DEF HealthyInv
<1>5. HealthyNet'
  BY <1>1, <1>2 DEF HealthyNet
<1>6. CASE client = None /\ phase' = "send" /\ UNCHANGED <<reqretry, ip, dhcp_reply>>
  <2>1. (Discovering' <=> Discovering) /\ (Served' <=> Served) /\ (NoBootp' <=> NoBootp)
    BY <1>1, <1>6 DEF Discovering, Served, NoBootp
  <2>2. \A t \in Servers : Answers(t)' <=> Answers(t)
    BY <1>1, <1>6, <2>1 DEF Answers
  <2>3. HealthyClient'
    BY <1>1, <1>6, <2>1 DEF HealthyInv, HealthyClient
  <2>4. TriesCounted'
    BY <1>1, <1>3, <1>4, <1>6, <2>1, <2>2 DEF HealthyInv, Counts, TriesCounted
  <2>5. PairsCounted'
    <3> SUFFICES ASSUME NEW d \in Servers, NEW b \in Servers, kind[d] = "dhcp", kind[b] = "bootp"
        PROVE  /\ Discovering => faults >= 2 * retry
               /\ Served /\ d = ip.server => faults + 2 >= 2 * retry
      BY <1>1, <1>6, <2>1 DEF PairsCounted
    <3>1. /\ Discovering => faults + 2 >= 2 * retry + 1 + 1
          /\ Served /\ d = ip.server => faults + 4 >= 2 * retry + 1 + 1
      BY <1>1, <1>3, <1>6 DEF HealthyInv, Counts, PairsCounted
    <3> QED BY <1>4, <3>1
  <2>6. RequestsCounted'
    BY <1>1, <2>1 DEF HealthyInv, Counts, RequestsCounted
  <2>7. FailsOnlyIfUnserved'
    BY <1>6 DEF FailsOnlyIfUnserved
  <2> QED BY <1>5, <2>3, <2>4, <2>5, <2>6, <2>7 DEF HealthyInv, Counts
<1>7. CASE dhcp_reply # "OFFER" /\ phase' = "done" /\ UNCHANGED <<reqretry, ip, dhcp_reply>>
  <2>1. HealthyClient'
    BY <1>1, <1>7 DEF HealthyInv, HealthyClient, Discovering
  <2>2. Counts' /\ FailsOnlyIfUnserved'
    BY <1>7 DEF Counts, TriesCounted, PairsCounted, RequestsCounted, FailsOnlyIfUnserved
  <2> QED BY <1>5, <2>1, <2>2 DEF HealthyInv
<1>8. CASE /\ client # None /\ dhcp_reply = "OFFER"
           /\ dhcp_reply' = "none" /\ ip' = Request /\ phase' = "request" /\ reqretry' = 0
  <2>1. /\ Discovering /\ dhcp_server \in Servers /\ kind[dhcp_server] \in {"dhcp", "mute"}
        /\ ip'.op = "REQUEST" /\ ip'.server = dhcp_server /\ ~Discovering'
    BY <1>8 DEF HealthyInv, HealthyClient, Request, Discovering
  <2>2. HealthyClient'
    BY <1>1, <1>8, <2>1 DEF HealthyInv, HealthyClient
  <2>3. TriesCounted'
    BY <2>1 DEF TriesCounted
  <2>4. PairsCounted'
    <3> SUFFICES ASSUME NEW d \in Servers, NEW b \in Servers, kind[d] = "dhcp", kind[b] = "bootp"
        PROVE  faults + 2 >= 2 * retry
      BY <1>1, <1>8, <2>1 DEF PairsCounted
    <3> QED BY <1>1, <2>1 DEF HealthyInv, Counts, PairsCounted
  <2>5. RequestsCounted' /\ FailsOnlyIfUnserved'
    BY <1>1, <1>4, <1>8 DEF RequestsCounted, FailsOnlyIfUnserved
  <2> QED BY <1>5, <2>2, <2>3, <2>4, <2>5 DEF HealthyInv, Counts
<1> QED BY <1>6, <1>7, <1>8 DEF OffersTimeout

LEMMA HealthySendRequest == ASSUME IInv, Counted, HealthyInv, SendRequest PROVE HealthyInv'
<1>1. /\ phase = "request" /\ phase' = "acks" /\ sport' = "bootp" /\ dhcp_reply' = "none"
      /\ reqretry' = reqretry + 1 /\ net' = net \cup Broadcast(ip)
      /\ UNCHANGED <<retry, ip, kind, client, faults, dhcp_server>>
  BY DEF SendRequest, NextTry, world
<1>2. HealthyNet' /\ \A t \in Servers : Lost(t)' = 0
  BY <1>1, AllPending DEF HealthyInv
<1>3. faults \in Nat /\ retry \in Nat /\ reqretry \in Nat
  BY CountTypes DEF HealthyInv
<1>4. ~Discovering /\ ~Discovering' /\ (Served' <=> Served) /\ (NoBootp' <=> NoBootp)
  BY <1>1 DEF HealthyInv, HealthyClient, Discovering, Served, NoBootp
<1>5. HealthyClient'
  BY <1>1, <1>4 DEF HealthyInv, HealthyClient
<1>6. TriesCounted' /\ PairsCounted'
  BY <1>1, <1>4 DEF HealthyInv, Counts, TriesCounted, PairsCounted
<1>7. RequestsCounted'
  <2>1. Served => ip.server \in Servers
    BY DEF HealthyInv, HealthyClient, Served
  <2> QED BY <1>1, <1>2, <1>3, <1>4, <2>1 DEF HealthyInv, Counts, RequestsCounted
<1>8. FailsOnlyIfUnserved'
  BY <1>1 DEF FailsOnlyIfUnserved
<1> QED BY <1>2, <1>5, <1>6, <1>7, <1>8 DEF HealthyInv, Counts

LEMMA HealthyRequestReply ==
  ASSUME IInv, Counted, HealthyInv, NEW m \in net, RequestReply(m)
  PROVE  HealthyInv'
<1>1. /\ phase = "acks" /\ await_bootp(m) /\ phase' \in {"request", "done"}
      /\ phase' = "request" => NotAcked(ReplyType(m)) /\ dhcp_reply' = ReplyType(m)
      /\ phase' = "done" => dhcp_reply' = "none"
      /\ UNCHANGED <<retry, reqretry, ip, kind, faults>> /\ net' \subseteq net
  BY DEF RequestReply, Exchange, Counted, world
<1>2. ~Discovering /\ dhcp_reply = "none"
  BY <1>1 DEF HealthyInv, HealthyClient, IInv, AddressInv
<1>3. m.op # "BOOTREQUEST" /\ ReplyOK(m) /\ HealthyMessage(m)
  BY <1>1, Sorts DEF await_bootp, ToClient, HealthyInv, HealthyNet
<1>4. m.op \in {"ACK", "NAK", "BOOTP"} /\ (m.op = "NAK" => ~Served) /\ (m.op = "BOOTP" => ~NoBootp)
  BY <1>2, <1>3 DEF ReplyOK, HealthyMessage, NoBootp
<1>5. phase' = "request" => m.op # "ACK" /\ dhcp_reply' = "none"
  BY <1>1, <1>2, <1>3, <1>4, ServersAssumption DEF NotAcked, ReplyType, ReplyOK
<1>6. HealthyNet'
  BY <1>1, HealthyMessageStays DEF HealthyInv, HealthyNet
<1>7. ~Discovering' /\ (Served' <=> Served) /\ (NoBootp' <=> NoBootp)
  BY <1>1, <1>2 DEF Discovering, Served, NoBootp
<1>8. HealthyClient'
  BY <1>1, <1>5, <1>7 DEF HealthyInv, HealthyClient
<1>9. TriesCounted' /\ PairsCounted'
  BY <1>1, <1>7 DEF HealthyInv, Counts, TriesCounted, PairsCounted
<1>10. RequestsCounted' /\ FailsOnlyIfUnserved'
  BY <1>1, <1>4, <1>5, <1>7 DEF RequestsCounted, FailsOnlyIfUnserved
<1> QED BY <1>6, <1>8, <1>9, <1>10 DEF HealthyInv, Counts

LEMMA HealthyRequestTimeout == ASSUME IInv, Counted, HealthyInv, RequestTimeout PROVE HealthyInv'
<1>1. /\ phase = "acks" /\ phase' = "request" /\ UNCHANGED <<retry, reqretry, ip, net, faults>>
      /\ UNCHANGED <<kind, client, dhcp_reply, dhcp_server>>
  BY DEF RequestTimeout, conf, world
<1>2. net = {}
  BY NothingComing DEF RequestTimeout, Counted
<1>3. faults \in Nat /\ retry \in Nat /\ reqretry \in Nat
  BY CountTypes DEF HealthyInv
<1>4. ~Discovering' /\ (Served' <=> Served) /\ (NoBootp' <=> NoBootp)
  BY <1>1 DEF HealthyInv, HealthyClient, Discovering, Served, NoBootp
<1>5. HealthyNet'
  BY <1>1, <1>2 DEF HealthyNet
<1>6. HealthyClient'
  BY <1>1, <1>4 DEF HealthyInv, HealthyClient
<1>7. TriesCounted' /\ PairsCounted'
  BY <1>1, <1>4 DEF HealthyInv, Counts, TriesCounted, PairsCounted
<1>8. RequestsCounted'
  <2>1. Lost(ip.server) = 1
    BY <1>2, LostIs DEF Pending
  <2> QED BY <1>1, <1>3, <1>4, <2>1 DEF HealthyInv, Counts, RequestsCounted
<1>9. FailsOnlyIfUnserved'
  BY <1>1 DEF FailsOnlyIfUnserved
<1> QED BY <1>5, <1>6, <1>7, <1>8, <1>9 DEF HealthyInv, Counts

LEMMA HealthyRequestsExhausted ==
  ASSUME IInv, Counted, HealthyInv, RequestsExhausted
  PROVE  HealthyInv'
<1>1. /\ phase = "request" /\ phase' = "send" /\ ~(reqretry < MaxRetries)
      /\ UNCHANGED <<retry, reqretry, ip, net, faults>>
      /\ UNCHANGED <<kind, client, dhcp_reply, dhcp_server>>
  BY DEF RequestsExhausted, MoreTries, conf, world
<1>2. /\ faults \in Nat /\ retry \in Nat /\ reqretry \in Nat /\ faults <= MaxFaults
      /\ MaxFaults \in Nat /\ MaxRetries \in Nat /\ MaxFaults < MaxRetries
  BY CountTypes DEF HealthyInv, Counted
<1>3. ~Discovering' /\ (Served' <=> Served) /\ (NoBootp' <=> NoBootp)
  BY <1>1 DEF HealthyInv, HealthyClient, Discovering, Served, NoBootp
<1>4. ~(Served /\ NoBootp)
  BY <1>1, <1>2 DEF HealthyInv, Counts, RequestsCounted
<1>5. HealthyNet'
  BY <1>1, HealthyMessageStays DEF HealthyInv, HealthyNet
<1>6. HealthyClient'
  BY <1>1, <1>3 DEF HealthyInv, HealthyClient
<1>7. TriesCounted' /\ PairsCounted'
  BY <1>1, <1>3 DEF HealthyInv, Counts, TriesCounted, PairsCounted
<1>8. RequestsCounted' /\ FailsOnlyIfUnserved'
  BY <1>1, <1>3, <1>4 DEF RequestsCounted, FailsOnlyIfUnserved
<1> QED BY <1>5, <1>6, <1>7, <1>8 DEF HealthyInv, Counts

LEMMA HealthyCollectReply ==
  ASSUME IInv, Counted, HealthyInv, NEW m \in net, CollectReply(m)
  PROVE  HealthyInv'
<1>1. /\ phase = "offers" /\ phase' = "offers" /\ await_bootp(m) /\ Decode(m)
      /\ dhcp_reply' = ReplyType(m) /\ UNCHANGED <<retry, reqretry, ip, kind, faults>>
      /\ net' = net \ {m}
  BY DEF CollectReply, Exchange, Counted, world
<1>2. m.op # "BOOTREQUEST" /\ ReplyOK(m) /\ HealthyMessage(m)
  BY <1>1, Sorts DEF await_bootp, ToClient, HealthyInv, HealthyNet
<1>3. HealthyNet'
  BY <1>1, HealthyMessageStays DEF HealthyInv, HealthyNet
<1>4. (Discovering' <=> Discovering) /\ (Served' <=> Served) /\ (NoBootp' <=> NoBootp)
  BY <1>1 DEF Discovering, Served, NoBootp
<1>5. FailsOnlyIfUnserved'
  BY <1>1 DEF FailsOnlyIfUnserved
<1>6. CASE m.yiaddr = None
  <2>1. UNCHANGED <<client, dhcp_server, sport, dhcp_reply>>
    BY <1>1, <1>6 DEF Decode, ReplyType
  <2>2. HealthyClient'
    BY <1>1, <1>4, <2>1 DEF HealthyInv, HealthyClient
  <2>3. \A t \in Servers : Pending(t) => Pending(t)'
    BY <1>1, <1>2, <1>6 DEF Pending, Concerns
  <2>4. Counts'
    BY <1>1, <2>1, <2>3, CountsStay DEF HealthyInv
  <2> QED BY <1>3, <1>5, <2>2, <2>4 DEF HealthyInv
<1>7. CASE m.yiaddr # None
  <2>1. client' = m.yiaddr /\ client' # None
        /\ dhcp_server' = IF m.op = "BOOTP" THEN dhcp_server ELSE m.from
    BY <1>1, <1>7 DEF Decode
  <2>2. dhcp_reply' = IF m.op = "BOOTP" THEN dhcp_reply ELSE m.op
    BY <1>1, <1>7 DEF ReplyType
  <2>3. dhcp_reply' = "OFFER" => /\ Discovering /\ dhcp_server' \in Servers
                                 /\ kind[dhcp_server'] \in {"dhcp", "mute"}
    BY <1>2, <1>7, <2>1, <2>2 DEF HealthyMessage, ReplyOK, HealthyInv, HealthyClient
  <2>4. HealthyClient'
    BY <1>1, <1>4, <2>1, <2>3 DEF HealthyInv, HealthyClient
  <2>5. \A t \in Servers : Answers(t)' <=> Answers(t)
    BY <1>1, <1>4 DEF Answers
  <2>6. TriesCounted' /\ PairsCounted' /\ RequestsCounted'
    BY <1>1, <1>4, <2>1, <2>5 DEF HealthyInv, Counts, TriesCounted, PairsCounted, RequestsCounted
  <2> QED BY <1>3, <1>5, <2>4, <2>6 DEF HealthyInv, Counts
<1> QED BY <1>6, <1>7

-----------------------------------------------------------------------------
LEMMA HealthyStep ==
  ASSUME IInv, Counted => HealthyInv, [Next]_vars
  PROVE  (Counted => HealthyInv)'
<1>1. healthy' = healthy
  BY DEF Next, SendPacket, OutOfRetries, OffersTimeout, SendRequest, RequestTimeout,
         RequestsExhausted, CollectReply, RequestReply, Environment, Discard, ServeDiscover,
         ServeRequest, Lose, OtherClient, Done, vars, world
<1>2. SUFFICES ASSUME Counted PROVE HealthyInv'
  BY <1>1 DEF Counted
<1>3. HealthyInv
  BY <1>2
<1>4. CASE UNCHANGED vars
  <2>1. /\ UNCHANGED <<phase, retry, reqretry, ip, sport, conf, world, how>>
        /\ UNCHANGED <<client, kind, net, faults>>
    BY <1>4 DEF vars, conf, world
  <2>2. HealthyNet'
    BY <1>3, <2>1, HealthyMessageStays DEF HealthyInv, HealthyNet
  <2>3. Counts'
    BY <1>3, <2>1, CountsStay DEF HealthyInv, Pending
  <2> QED BY <1>3, <2>1, <2>2, <2>3, OutsideStep DEF HealthyInv, HealthyClient
<1>5. CASE Environment
  BY <1>2, <1>3, <1>5, HealthyDiscard, HealthyServeDiscover, HealthyServeRequest, HealthyLose
     DEF Environment, OtherClient, Counted
<1>6. CASE \E m \in net : CollectReply(m) \/ RequestReply(m)
  BY <1>2, <1>3, <1>6, HealthyCollectReply, HealthyRequestReply
<1> QED
  BY <1>2, <1>3, <1>4, <1>5, <1>6, HealthySendPacket, HealthyOutOfRetries, HealthyOffersTimeout,
     HealthySendRequest, HealthyRequestTimeout, HealthyRequestsExhausted
     DEF Next, Done

(* bootp() (nic.c) fails with fewer losses than tries only if no server    *)
(* has an address for it, or if it has committed itself to one that will   *)
(* not acknowledge: for any servers, whatever order their answers come in. *)
THEOREM ServedUnlessCommitted == Spec => []FailsOnlyIfUnserved
<1>1. Init => (Counted => HealthyInv)
  BY BoundsAssumption DEF Init, HealthyInv, HealthyNet, HealthyClient, Counts, TriesCounted,
     PairsCounted, RequestsCounted, Discovering, Served, FailsOnlyIfUnserved
<1>2. (Counted => HealthyInv) => FailsOnlyIfUnserved
  BY DEF Counted, HealthyInv, FailsOnlyIfUnserved
<1> QED BY <1>1, <1>2, InitEstablishes, NextPreserves, HealthyStep, PTL DEF Spec
=============================================================================
