-------------------------------- MODULE Dhcp --------------------------------
(***************************************************************************)
(* bootp() of main/eb/nic.c: find an address, a TFTP server and a boot     *)
(* file with DHCP, or from a plain BOOTP server, over a network that       *)
(* loses, duplicates, delays and reorders packets.                         *)
(*                                                                         *)
(* Servers (external) have disjoint address pools, so an address, a TFTP   *)
(* server, a gateway and a boot file are all named by the server that      *)
(* sent them; None is the zero address.  The kinds of server are           *)
(*   "dhcp"   answers DISCOVER with an OFFER and the REQUEST that names it *)
(*            with an ACK or a NAK,                                        *)
(*   "mute"   offers, but never answers a REQUEST,                         *)
(*   "bootp"  answers every request with a reply without a message type,   *)
(*   "proxy"  answers every DISCOVER with an OFFER without an address.     *)
(***************************************************************************)
EXTENDS Naturals, FiniteSets

CONSTANTS
  Servers, None,
  Kinds,               \* the kinds of server considered
  GwServers,           \* servers that also send a gateway
  ExtServers,          \* servers that name a BOOTP extension file
  MaxRetries,          \* MAX_BOOTP_RETRIES
  MaxFaults            \* bound: packets lost, duplicated or of another client

ASSUME ServersAssumption ==
  None \notin Servers /\ GwServers \subseteq Servers /\ ExtServers \subseteq Servers
ASSUME KindsAssumption == Kinds \subseteq {"dhcp", "mute", "bootp", "proxy"}
ASSUME BoundsAssumption ==
  MaxRetries \in Nat /\ MaxFaults \in Nat
(* MAX_BOOTP_RETRIES is 4.  A single try may be used up by the reply of a  *)
(* BOOTP server to the DHCPREQUEST of another.                             *)
ASSUME RetriesAssumption == MaxRetries >= 2

VARIABLES
  phase,               \* where bootp() is: "send" and "offers" in the outer
                       \* loop, "request" and "acks" in the inner one, "done"
  retry, reqretry,
  ip,                  \* the packet bootp() sends
  sport,               \* source port of the last udp_transmit()
  client, server, gateway,             \* arptable[].ipaddr
  dhcp_addr, dhcp_server, dhcp_reply,
  file,                \* bootp_data with the boot file, and the netmask
  kind,                \* the kind of each server
  healthy,             \* no packet is duplicated, servers do not NAK and no
                       \* timeout happens while an answer is coming
  net,                 \* packets in flight
  faults,
  granted, offered,    \* history: servers that granted, offered an address
  heard,               \* history: servers whose replies were accepted since
                       \* arptable was cleared
  how                  \* history: which return(1) was taken

conf    == <<client, server, gateway, dhcp_addr, dhcp_server, dhcp_reply, file,
             heard>>
history == <<granted, offered>>
world   == <<kind, healthy>>
vars == <<phase, retry, reqretry, ip, sport, conf, world, net, faults, history, how>>

Address == Servers \cup {None}

Init ==
  /\ phase = "send" /\ retry = 0 /\ reqretry = 0
  /\ ip = [op |-> "DISCOVER"] /\ sport = "none"
  /\ client = None /\ server = None /\ gateway = None
  /\ dhcp_addr = None /\ dhcp_server = None /\ dhcp_reply = "none"
  /\ file = None
  /\ kind \in [Servers -> Kinds] /\ healthy \in BOOLEAN
  /\ net = {} /\ faults = 0
  /\ granted = {} /\ offered = {} /\ heard = {} /\ how = "none"

ToClient(m) == m.op \in {"OFFER", "ACK", "NAK", "BOOTP"}
Broadcast(p) == { [op |-> "BOOTREQUEST", to |-> s, packet |-> p] : s \in Servers }

-----------------------------------------------------------------------------
(* Mutant: arptable keeps the entries of the attempt before.               *)
KillArptable_Dropped == UNCHANGED <<client, server, gateway>>

KillArptable == client' = None /\ server' = None /\ gateway' = None

(* Mutant: no second try.                                                  *)
MoreTries_Once(n) == n < 1

MoreTries(n) == n < MaxRetries

(* Mutant: the loop counter is not incremented.                            *)
NextTry_Stuck(n) == n

NextTry(n) == n + 1

(* The outer loop: drain the queue, clear arptable, send the packet.       *)
(* After a failed request phase the packet is still the DHCPREQUEST.       *)
SendPacket ==
  /\ phase = "send" /\ MoreTries(retry)
  /\ KillArptable
  /\ \E waiting \in SUBSET { m \in net : ToClient(m) } :
       /\ healthy => waiting = {}
       /\ net' = (net \ waiting) \cup Broadcast(ip)
  /\ sport' = "bootp" /\ retry' = NextTry(retry) /\ phase' = "offers" /\ heard' = {}
  /\ UNCHANGED <<reqretry, ip, dhcp_addr, dhcp_server, dhcp_reply, file, 
                 world, faults, history, how>>

OutOfRetries ==
  /\ phase = "send" /\ ~MoreTries(retry)
  /\ phase' = "failed"
  /\ UNCHANGED <<retry, reqretry, ip, sport, conf, world, net, faults, history, how>>

(* The checks of await_bootp(): port, transaction and a server address.    *)
await_bootp(m) == ToClient(m) /\ sport = "bootp" /\ m.mine /\ m.siaddr # None

ServerOf(m) == m.siaddr

DhcpAddr(m) == m.yiaddr

(* dhcp_reply after decoding m.                                            *)
ReplyType(m) == IF m.yiaddr = None \/ m.op = "BOOTP" THEN dhcp_reply ELSE m.op

(* The rest of await_bootp() and decode_rfc1533(): a reply with an address *)
(* replaces the configuration; a message type and a server identifier are  *)
(* options a BOOTP reply does not have.  Loading an extension file moves   *)
(* sport to the port of that transfer.                                     *)
Decode(m) ==
  /\ server' = ServerOf(m)
  /\ gateway' = IF m.from \in GwServers THEN m.from ELSE gateway
  /\ heard' = heard \cup {m.from}
  /\ IF m.yiaddr = None
     THEN UNCHANGED <<client, dhcp_addr, dhcp_server, file, sport>>
     ELSE /\ client' = m.yiaddr /\ dhcp_addr' = DhcpAddr(m) /\ file' = m.from
          /\ dhcp_server' = IF m.op = "BOOTP" THEN dhcp_server ELSE m.from
          /\ sport' = IF m.from \in ExtServers THEN "tftp" ELSE sport

(* m leaves the network, or is duplicated and stays; new is sent.          *)
Exchange(m, new) ==
  \/ net' = (net \ {m}) \cup new /\ UNCHANGED faults
  \/ ~healthy /\ faults < MaxFaults /\ faults' = faults + 1 /\ net' = net \cup new

(* A reply while the outer loop collects offers.                           *)
CollectReply(m) ==
  /\ phase = "offers" /\ await_bootp(m)
  /\ Decode(m) /\ dhcp_reply' = ReplyType(m) /\ Exchange(m, {})
  /\ UNCHANGED <<phase, retry, reqretry, ip, world, history, how>>

AnswerComing == \E m \in net : ToClient(m) \/ m.op = "BOOTREQUEST"

Request == [op |-> "REQUEST", server |-> dhcp_server, addr |-> dhcp_addr]

(* stop_time is reached: no address, a reply that is not an offer, or an   *)
(* offer to request.                                                       *)
OffersTimeout ==
  /\ phase = "offers" /\ (healthy => ~AnswerComing)
  /\ \/ /\ client = None
        /\ phase' = "send" /\ UNCHANGED <<reqretry, ip, dhcp_reply, how>>
     \/ /\ client # None /\ dhcp_reply # "OFFER"
        /\ phase' = "done" /\ how' = "notOffer"
        /\ UNCHANGED <<reqretry, ip, dhcp_reply>>
     \/ /\ client # None /\ dhcp_reply = "OFFER"
        /\ dhcp_reply' = "none" /\ ip' = Request
        /\ phase' = "request" /\ reqretry' = 0 /\ UNCHANGED how
  /\ UNCHANGED <<retry, sport, client, server, gateway, dhcp_addr, dhcp_server,
                 file, heard, world, net, faults, history>>

SendRequest ==
  /\ phase = "request" /\ MoreTries(reqretry)
  /\ net' = net \cup Broadcast(ip)
  /\ sport' = "bootp" /\ dhcp_reply' = "none" /\ reqretry' = NextTry(reqretry)
  /\ phase' = "acks"
  /\ UNCHANGED <<retry, ip, client, server, gateway, dhcp_addr, dhcp_server,
                 file, heard, world, faults, history, how>>

NotAcked(r) == r # "ACK"

(* The first reply accepted ends the wait: an ACK ends bootp(), anything   *)
(* else sends the request again.                                           *)
RequestReply(m) ==
  /\ phase = "acks" /\ await_bootp(m)
  /\ IF NotAcked(ReplyType(m))
     THEN phase' = "request" /\ dhcp_reply' = ReplyType(m) /\ UNCHANGED how
     ELSE phase' = "done" /\ dhcp_reply' = "none" /\ how' = "acked"
  /\ Decode(m) /\ Exchange(m, {})
  /\ UNCHANGED <<retry, reqretry, ip, world, history>>

RequestTimeout ==
  /\ phase = "acks" /\ (healthy => ~AnswerComing)
  /\ phase' = "request"
  /\ UNCHANGED <<retry, reqretry, ip, sport, conf, world, net, faults, history, how>>

(* The inner loop ends; ip keeps the DHCPREQUEST.                          *)
RequestsExhausted ==
  /\ phase = "request" /\ ~MoreTries(reqretry)
  /\ phase' = "send"
  /\ UNCHANGED <<retry, reqretry, ip, sport, conf, world, net, faults, history, how>>

(* await_reply() drops what await_bootp() refuses.                         *)
Discard(m) ==
  /\ ToClient(m) /\ (phase \notin {"offers", "acks"} \/ ~await_bootp(m))
  /\ healthy => phase \in {"offers", "acks"}
  /\ net' = net \ {m}
  /\ UNCHANGED <<phase, retry, reqretry, ip, sport, conf, world, faults, history, how>>

-----------------------------------------------------------------------------
(* The servers.                                                            *)
Reply(op, s, a, t) ==
  [op |-> op, from |-> s, yiaddr |-> a, siaddr |-> t, mine |-> TRUE]

ServeDiscover(m) ==
  /\ m.op = "BOOTREQUEST" /\ m.packet.op = "DISCOVER"
  /\ LET s == m.to IN
     \/ /\ kind[s] \in {"dhcp", "mute"}
        /\ Exchange(m, {Reply("OFFER", s, s, s)})
        /\ offered' = offered \cup {s} /\ UNCHANGED granted
     \/ /\ kind[s] = "proxy"
        /\ Exchange(m, {Reply("OFFER", s, None, s)}) /\ UNCHANGED history
     \/ /\ kind[s] = "bootp"
        /\ Exchange(m, {Reply("BOOTP", s, s, s)})
        /\ granted' = granted \cup {s} /\ UNCHANGED offered
  /\ UNCHANGED <<phase, retry, reqretry, ip, sport, conf, world, how>>

(* A NAK has no server address, though some servers send theirs.           *)
ServeRequest(m) ==
  /\ m.op = "BOOTREQUEST" /\ m.packet.op = "REQUEST"
  /\ LET s == m.to IN
     \/ /\ kind[s] = "dhcp" /\ m.packet.server = s /\ m.packet.addr = s
        /\ Exchange(m, {Reply("ACK", s, s, s)})
        /\ granted' = granted \cup {s} /\ UNCHANGED offered
     \/ /\ kind[s] = "dhcp" /\ m.packet.server = s
        /\ healthy => m.packet.addr # s
        /\ \E t \in {s, None} : Exchange(m, {Reply("NAK", s, None, t)})
        /\ UNCHANGED history
     \/ /\ kind[s] # "bootp" /\ (m.packet.server # s \/ kind[s] # "dhcp")
        /\ Exchange(m, {}) /\ UNCHANGED history
     \/ /\ kind[s] = "bootp"
        /\ Exchange(m, {Reply("BOOTP", s, s, s)})
        /\ granted' = granted \cup {s} /\ UNCHANGED offered
  /\ UNCHANGED <<phase, retry, reqretry, ip, sport, conf, world, how>>

(* A server answers another client, with an address it grants to it.       *)
OtherClient(s) ==
  /\ kind[s] = "dhcp" /\ ~healthy
  /\ faults < MaxFaults /\ faults' = faults + 1
  /\ net' = net \cup {[Reply("ACK", s, s, s) EXCEPT !.mine = FALSE]}
  /\ UNCHANGED <<phase, retry, reqretry, ip, sport, conf, world, history, how>>

Lose(m) ==
  /\ faults < MaxFaults /\ faults' = faults + 1
  /\ net' = net \ {m}
  /\ UNCHANGED <<phase, retry, reqretry, ip, sport, conf, world, history, how>>

(* What is in flight when bootp() has returned concerns nobody any more.   *)
Returned == phase \in {"done", "failed"}
Done == Returned /\ UNCHANGED vars

Environment ==
  \/ \E m \in net : Discard(m)
  \/ \E m \in net : ServeDiscover(m)
  \/ \E m \in net : ServeRequest(m)
  \/ \E m \in net : Lose(m)
  \/ \E s \in Servers : OtherClient(s)

Next ==
  \/ SendPacket \/ OutOfRetries \/ OffersTimeout \/ SendRequest \/ RequestTimeout
  \/ RequestsExhausted
  \/ \E m \in net : CollectReply(m)
  \/ \E m \in net : RequestReply(m)
  \/ ~Returned /\ Environment
  \/ Done

Spec == Init /\ [][Next]_vars

(* bootp() runs on: a reply arrives or the time is up.                     *)
FairSpec == Spec /\ WF_vars(Next)

-----------------------------------------------------------------------------
(* The address bootp() returns with was granted to this client: by an ACK, *)
(* or by the reply of a BOOTP server.  Late offers, NAKs, duplicates and   *)
(* the replies other clients get do not end it with an address that is     *)
(* only offered.                                                           *)
AddressGranted == phase = "done" => client \in granted

(* When an ACK ends bootp(), address, TFTP server and boot file are the    *)
(* acknowledging server's, whatever offers arrived in between.             *)
AckedConfiguration ==
  (phase = "done" /\ how = "acked") => client = server /\ client = file

(* Nothing the client boots with is left from an attempt before: TFTP      *)
(* server, gateway and boot file come from servers heard since arptable    *)
(* was cleared, although bootp_data, dhcp_addr and dhcp_reply are not.     *)
NoStaleConfiguration ==
  phase = "done" => {client, server, gateway, file} \ {None} \subseteq heard

(* Unless BOOTP servers are about, a DHCPREQUEST names a server together   *)
(* with the address this very server offered.  (The reply of a BOOTP       *)
(* server after an offer changes dhcp_addr but not dhcp_server.)           *)
RequestNamesOffer ==
  (ip.op = "REQUEST" /\ \A s \in Servers : kind[s] # "bootp") =>
    ip.server = ip.addr /\ ip.server \in offered

(* What bootp() asks for and returns with: see the four parts.             *)
SoundConfiguration ==
  AddressGranted /\ AckedConfiguration /\ NoStaleConfiguration /\ RequestNamesOffer

(* bootp() finds a server, or returns, after finitely many packets.        *)
Returns == <>Returned

(* With fewer losses than retries bootp() fails only if no server offers   *)
(* an address, or if it committed itself to a server that offers but does  *)
(* not acknowledge, or to a server and a BOOTP server's address: the       *)
(* packet sent again stays the DHCPREQUEST for it.                         *)
FailsOnlyIfUnserved ==
  (healthy /\ MaxFaults < MaxRetries /\ phase = "failed") =>
    \/ \A s \in Servers : kind[s] = "proxy"
    \/ ip.op = "REQUEST" /\ (kind[ip.server] = "mute" \/ ip.server # ip.addr)
=============================================================================
