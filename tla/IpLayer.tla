------------------------------ MODULE IpLayer ------------------------------
(***************************************************************************)
(* The IP layer of main/eb/nic.c: udp_transmit() and ip_transmit(), which  *)
(* resolves the next hop by ARP, and the loop of await_reply(), which      *)
(* drives the LACP timers, offers every frame to whoever waits, and        *)
(* answers ARP requests, LACP PDUs and markers by itself.                  *)
(*                                                                         *)
(* Above it is a protocol like TFTP: it sends request req to the server,   *)
(* waits for the answer, and sends it again when the wait times out.       *)
(* Around it are an Ethernet that loses, repeats, delays and reorders      *)
(* frames, stations that answer ARP, a server, and a switch that speaks    *)
(* LACP.  An IP address is the sequence of its bytes; left counts the      *)
(* ticks to the end of a wait like the timers of module Lacp.              *)
(***************************************************************************)
EXTENDS Lacp, Sequences, FiniteSets

CONSTANTS
    MAX_ARP_RETRIES, TIMEOUT,
    UpperTimeout,      \* ticks the protocol above waits for an answer
    Station,           \* IP address -> hardware address of the station that has it
    SwitchStates,      \* LACP states the switch reports of itself
    Scenarios,         \* what happens: replies, the bootp replies in turn,
                       \*   requests, how many are made, broadcast, whether to
                       \*   everyone, and strays, the frames that come unasked
    MaxRx              \* bound: frames waiting in the card

ARP_CLIENT == 0
ARP_SERVER == 1
ARP_GATEWAY == 2
MAX_ARP == 3
ZeroIP == <<0, 0, 0, 0>>
IP_BROADCAST == <<255, 255, 255, 255>>
NoNode == "none"
Broadcast == "broadcast"
SlowDest == "slow"

IP == [1 .. 4 -> 0 .. 255]
\* Options of RFC 1533, ZeroIP and 0 for one that is not there.
Options == [gateway : IP, netmask : 0 .. 4]
\* A reply is the first of an attempt of bootp() or comes later in it.  The file that
\* extpath names holds the options of extension.  await_bootp() drops a reply without
\* siaddr.
Reply == [first : BOOLEAN, yiaddr : IP, siaddr : IP \ {ZeroIP}, giaddr : IP, options : Options,
          extpath : BOOLEAN, extension : Options]

Replies(s) == {s.replies[k] : k \in 1 .. Len(s.replies)}
Lent(s) == {c.yiaddr : c \in Replies(s)} \ {ZeroIP}
Named(s) == UNION {{c.siaddr, c.giaddr, c.options.gateway, c.extension.gateway} : c \in Replies(s)}

ASSUME IpLayerAssumption ==
    /\ MAX_ARP_RETRIES \in Nat \ {0} /\ TIMEOUT \in Nat \ {0} /\ MaxRx \in Nat \ {0}
    /\ UpperTimeout \in Nat
ASSUME StationAssumption ==
    ZeroIP \notin DOMAIN Station /\ \A ip \in DOMAIN Station : Station[ip] # NoNode
\* No address lent to us is a server's or a gateway's own, for which ip_transmit()
\* would find the client's entry.
ASSUME ScenariosAssumption ==
    \A s \in Scenarios :
        s.replies \in Seq(Reply) /\ s.requests \in Nat /\ Lent(s) \cap Named(s) = {}

VARIABLES
    arptable,     \* ARP_CLIENT, ARP_SERVER and ARP_GATEWAY: ipaddr and node
    netmask,      \* number of bytes of the network part
    pc,           \* "idle", "drain", "bootp" (bootp waits for replies), "arp"
                  \*   (ip_transmit waits), "wait" (above waits), "failed"
    entry, retry, left,
    round,        \* number of replies so far
    loading,      \* the extension file of the last reply: "none", "begun", "going"
    req,          \* number of the request
    rx,           \* frames received and not yet polled
    air,          \* answers on their way, which may come late, again or never
    lacp, switch, \* switch: what the switch last heard of us
    out,          \* frames sent in the last step
    scen,         \* scenario
    learnt,       \* address the gateway's node was resolved for, ZeroIP: none
    dropped,      \* requests whose answers were polled and discarded by ip_transmit
    silence,      \* ticks since the last PDU was processed, -1: none yet
    looped        \* no tick has passed since await_reply() last looked at its timers
waiting == <<pc, entry, retry, left>>
config == <<arptable, netmask, learnt>>
bootp == <<round, loading>>
vars == <<config, bootp, waiting, req, rx, air, lacp, switch, out, scen, dropped, silence, looped>>

-----------------------------------------------------------------------------
(* The ARP table and its configuration by bootp().                          *)

default_netmask(ip) == IF ip[1] <= 127 THEN 1 ELSE IF ip[1] < 192 THEN 2 ELSE 3
Net(ip, n) == SubSeq(ip, 1, n)

\* A mutant: a new bootp() keeps the old table.
KillArp_Kept(t) == t

\* bootp(): only the client's own hardware address survives.
KillArp(t) == [e \in 0 .. MAX_ARP - 1 |->
                 [ipaddr |-> ZeroIP, node |-> IF e = ARP_CLIENT THEN t[e].node ELSE NoNode]]

\* decode_rfc1533(): the gateway's address, but not its node, and the mask.
Decode(t, o) == IF o.gateway = ZeroIP THEN t ELSE [t EXCEPT ![ARP_GATEWAY].ipaddr = o.gateway]
Masked(mask, o) == IF o.netmask = 0 THEN mask ELSE o.netmask

\* await_bootp(): with an address of ours the options are decoded, too.
Addresses(t, c) ==
    [e \in DOMAIN t |->
        CASE e = ARP_CLIENT -> IF c.yiaddr = ZeroIP THEN t[e] ELSE [t[e] EXCEPT !.ipaddr = c.yiaddr]
          [] e = ARP_SERVER -> [ipaddr |-> c.siaddr, node |-> NoNode]
          [] e = ARP_GATEWAY -> IF c.giaddr = ZeroIP THEN t[e]
                                ELSE [ipaddr |-> c.giaddr, node |-> NoNode]]
Learn(t, c) == IF c.yiaddr = ZeroIP THEN Addresses(t, c) ELSE Decode(Addresses(t, c), c.options)

\* An attempt of bootp() (module Dhcp has its exchange): rx_qdrain() is await_reply()
\* with no time to wait; then the table is killed.
Drain ==
    /\ pc \in {"idle", "failed"} /\ loading = "none"
    /\ round < Len(scen.replies) /\ scen.replies[round + 1].first
    /\ pc' = "drain" /\ out' = {}
    /\ UNCHANGED <<config, bootp, entry, retry, left, req, rx, air, lacp, switch, scen, dropped,
                   silence, looped>>
BeginAttempt(e) ==
    /\ arptable' = KillArp(arptable) /\ learnt' = ZeroIP
    /\ pc' = "bootp" /\ out' = e
    /\ UNCHANGED <<netmask, bootp, entry, retry, left, air>>

\* What becomes of bootp() after n replies: it waits for more, or comes to its end.
AfterReplies(n) == IF n < Len(scen.replies) /\ ~scen.replies[n + 1].first THEN "bootp" ELSE "idle"

\* The extension file is there: its last block has its options decoded.  Or it has
\* not come, and the reply counts without it.
ExtensionEnds ==
    /\ \/ /\ pc = "idle" /\ loading = "going"
          /\ arptable' = Decode(arptable, scen.replies[round].extension)
          /\ netmask' = Masked(netmask, scen.replies[round].extension)
       \/ pc = "failed" /\ loading # "none" /\ UNCHANGED <<arptable, netmask>>
    /\ loading' = "none" /\ pc' = AfterReplies(round) /\ out' = {}
    /\ UNCHANGED <<learnt, round, entry, retry, left, req, rx, air, lacp, switch, scen, dropped,
                   silence, looped>>

-----------------------------------------------------------------------------
(* Transmission.                                                            *)

NextHop(ip) ==
    IF /\ Net(ip, netmask) # Net(arptable[ARP_CLIENT].ipaddr, netmask)
       /\ arptable[ARP_GATEWAY].ipaddr # ZeroIP
    THEN arptable[ARP_GATEWAY].ipaddr ELSE ip
Entries(ip) == {e \in DOMAIN arptable : arptable[e].ipaddr = ip}
First(S) == CHOOSE e \in S : \A x \in S : e <= x

\* (base << exp) and up to a second more.
rfc2131_sleep_interval(base, exp) == {base * 2 ^ exp, base * 2 ^ exp + 1}

Dest == IF scen.broadcast THEN IP_BROADCAST ELSE arptable[ARP_SERVER].ipaddr

\* A mutant: the address is resolved again for every datagram.
NeedsArp_Always(e) == TRUE
NeedsArp(e) == arptable[e].node = NoNode

\* eth_transmit() of an IP datagram; the server, if the frame gets there, answers.
IpFrame(node, n) == [kind |-> "ip", to |-> node, hop |-> NextHop(Dest), n |-> n]
Arrived(f) == f.to = Broadcast \/ f.to = Station[f.hop]
AnswersTo(f) == IF Arrived(f) THEN {[kind |-> "udp", n |-> f.n]} ELSE {}
Sent(f, e) ==
    /\ out' = {f} \cup e
    /\ air' = air \cup AnswersTo(f)
    /\ pc' = "wait" /\ left' = UpperTimeout
    /\ UNCHANGED <<entry, retry>>

\* A mutant: the retries are not counted.
NextRetry_Stuck(n) == n
NextRetry(n) == n + 1

\* The ARP request; whoever has the address may answer.
AskArp(ent, n, e) ==
    LET ip == arptable[ent].ipaddr
    IN  /\ out' = {[kind |-> "arp", to |-> Broadcast, ip |-> ip]} \cup e
        /\ air' = air \cup (IF ip \in DOMAIN Station
                            THEN {[kind |-> "arpreply", ip |-> ip, node |-> Station[ip]]} ELSE {})
        /\ pc' = "arp" /\ entry' = ent /\ retry' = n
        /\ left' \in rfc2131_sleep_interval(TIMEOUT, n)

Failed(e) == pc' = "failed" /\ out' = e /\ UNCHANGED <<entry, retry, left, air>>

\* udp_transmit() of request n, with the frames e sent before in the same step.
ip_transmit(n, e) ==
    LET found == Entries(NextHop(Dest))
        ent == First(found)
    IN  IF Dest = IP_BROADCAST THEN Sent(IpFrame(Broadcast, n), e)
        ELSE IF found = {} THEN Failed(e)
        ELSE IF NeedsArp(ent) THEN AskArp(ent, 1, e)
        ELSE Sent(IpFrame(arptable[ent].node, n), e)

\* A request of the protocol above; bootp() makes them too, for the extension file.
Request ==
    /\ pc = "idle" /\ arptable[ARP_CLIENT].ipaddr # ZeroIP /\ req < scen.requests
    /\ req' = req + 1
    /\ ip_transmit(req + 1, {})
    /\ loading' = IF loading = "begun" THEN "going" ELSE loading
    /\ UNCHANGED <<config, round, rx, lacp, switch, scen, dropped, silence, looped>>

-----------------------------------------------------------------------------
(* The loop of await_reply().                                               *)

Pdu(l) == [kind |-> "lacp", to |-> SlowDest, state |-> l.actor]
PduOf(r) == IF r.sent THEN {Pdu(r.l)} ELSE {}
\* The switch hears the PDU or not.
SwitchHears(r) ==
    switch' \in {switch} \cup (IF r.sent THEN {[id |-> NodeAddr, state |-> r.l.actor]} ELSE {})

Looping == pc \in {"arp", "wait", "drain", "bootp"}

\* No frame: the timeout is looked at.  The protocol above sends again or gives up.
PollEmpty ==
    \E r \in {send_lacp_reports(lacp, FALSE)} :
        /\ Looping /\ rx = <<>>
        /\ lacp' = r.l /\ SwitchHears(r) /\ looped' = TRUE
        /\ \/ pc = "drain" /\ BeginAttempt(PduOf(r))
           \/ /\ pc = "bootp" \/ (pc # "drain" /\ left # Passed)
              /\ out' = PduOf(r) /\ UNCHANGED <<config, bootp, waiting, air>>
           \/ /\ pc = "arp" /\ left = Passed /\ UNCHANGED <<config, bootp>>
              /\ IF NextRetry(retry) <= MAX_ARP_RETRIES
                 THEN AskArp(entry, NextRetry(retry), PduOf(r)) ELSE Failed(PduOf(r))
           \/ /\ pc = "wait" /\ left = Passed /\ UNCHANGED <<config, bootp>>
              /\ ip_transmit(req, PduOf(r)) \/ Failed(PduOf(r))
        /\ UNCHANGED <<req, rx, scen, dropped, silence>>

\* A reply to bootp(): await_bootp() takes it, and calls tftp() for the extension file.
PollReply ==
    LET r == send_lacp_reports(lacp, FALSE)
        c == scen.replies[round + 1]
        load == c.yiaddr # ZeroIP /\ c.extpath
    IN  /\ pc = "bootp" /\ round < Len(scen.replies)
        /\ lacp' = r.l /\ SwitchHears(r) /\ looped' = TRUE /\ out' = PduOf(r)
        /\ arptable' = Learn(arptable, c)
        /\ netmask' = IF c.yiaddr = ZeroIP THEN netmask
                      ELSE Masked(default_netmask(c.yiaddr), c.options)
        /\ learnt' = IF c.giaddr = ZeroIP THEN learnt ELSE ZeroIP
        /\ round' = round + 1
        /\ loading' = IF load THEN "begun" ELSE "none"
        /\ pc' = IF load THEN "idle" ELSE AfterReplies(round + 1)
        /\ UNCHANGED <<entry, retry, left, req, rx, air, scen, dropped, silence>>

\* The default actions: an ARP request for our address, LACP and markers.
ArpAnswer(f) ==
    IF f.kind = "arprequest" /\ f.ip = arptable[ARP_CLIENT].ipaddr
    THEN {[kind |-> "arpanswer", to |-> f.node, ip |-> f.ip]} ELSE {}
MarkerAnswer(f) == IF f.kind = "marker" THEN {[kind |-> "marker", to |-> SlowDest]} ELSE {}

\* The frame passes the checks of the IP and UDP headers, or has none.
Verified(f) == f.kind # "damaged"
await_arp(f) == f.kind = "arpreply" /\ f.ip = arptable[entry].ipaddr
AwaitedUdp(f) == f.kind = "udp" /\ f.n = req

ProcessSlow(l, f) == IF f.kind = "lacp" THEN ProcessPdu(l, f.pdu) ELSE [l |-> l, sent |-> FALSE]

\* The frame is offered to whoever waits; e is what has been sent in this step.
Offer(f, e) ==
    /\ dropped' = IF pc = "arp" /\ f.kind = "udp" THEN dropped \cup {f.n} ELSE dropped
    /\ \/ /\ Verified(f) /\ pc = "arp" /\ await_arp(f)
          /\ arptable' = [arptable EXCEPT ![entry].node = f.node]
          /\ learnt' = IF entry = ARP_GATEWAY THEN f.ip ELSE learnt
          /\ Sent(IpFrame(f.node, req), e)
          /\ UNCHANGED netmask
       \/ /\ Verified(f) /\ pc = "wait" /\ AwaitedUdp(f)
          /\ pc' = "idle" /\ out' = e
          /\ UNCHANGED <<config, entry, retry, left, air>>
       \/ /\ ~(pc = "arp" /\ await_arp(f)) /\ ~(pc = "wait" /\ AwaitedUdp(f))
          /\ out' = e
          /\ UNCHANGED <<config, waiting, air>>

PollFrame ==
    /\ Looping /\ rx # <<>> /\ rx' = Tail(rx)
    /\ \E f \in {Head(rx)} : \E r0 \in {send_lacp_reports(lacp, FALSE)} :
       \E r1 \in {ProcessSlow(r0.l, f)} :
        /\ lacp' = r1.l /\ SwitchHears([r1 EXCEPT !.sent = @ \/ r0.sent]) /\ looped' = TRUE
        /\ silence' = IF f.kind = "lacp" THEN 0 ELSE silence
        /\ Offer(f, PduOf(r0) \cup PduOf(r1) \cup ArpAnswer(f) \cup MarkerAnswer(f))
    /\ UNCHANGED <<bootp, req, scen>>

Iterate == PollEmpty \/ PollFrame

-----------------------------------------------------------------------------
(* The surroundings.                                                        *)

SwitchPdus == {[kind |-> "lacp", pdu |-> [actor |-> [id |-> "switch", state |-> s],
                                          partner |-> switch]] : s \in SwitchStates}
Unasked ==
    {[kind |-> k, ip |-> arptable[ARP_CLIENT].ipaddr, node |-> "peer"] :
        k \in scen.strays \cap {"arprequest", "damaged", "marker"}}
    \cup (IF "lacp" \in scen.strays THEN SwitchPdus ELSE {})
Arrive ==
    /\ Len(rx) < MaxRx
    /\ \E f \in air \cup Unasked : rx' = Append(rx, f)
    /\ out' = {}
    /\ UNCHANGED <<config, bootp, waiting, req, air, lacp, switch, scen, dropped, silence, looped>>

\* A frame on its way is lost for good.
Lose ==
    /\ \E f \in air : air' = air \ {f}
    /\ out' = {}
    /\ UNCHANGED <<config, bootp, waiting, req, rx, lacp, switch, scen, dropped, silence, looped>>

Forgotten == LONG_TIMEOUT_TIME + SHORT_TIMEOUT_TIME + 1
Tick ==
    /\ left' = Counted(left)
    /\ lacp' = Counting(lacp)
    /\ silence' = IF silence = -1 \/ silence = Forgotten THEN silence ELSE silence + 1
    /\ looped' = FALSE /\ out' = {}
    /\ UNCHANGED <<config, bootp, pc, entry, retry, req, rx, air, switch, scen, dropped>>

Init ==
    /\ arptable = [e \in 0 .. MAX_ARP - 1 |->
                     [ipaddr |-> ZeroIP, node |-> IF e = ARP_CLIENT THEN NodeAddr ELSE NoNode]]
    /\ netmask = 1 /\ learnt = ZeroIP /\ round = 0 /\ loading = "none"
    /\ pc = "idle" /\ entry = 0 /\ retry = 0 /\ left = Passed
    /\ req = 0 /\ rx = <<>> /\ air = {}
    /\ lacp = ZeroLacp /\ switch = [id |-> "none", state |-> {}]
    /\ out = {} /\ dropped = {} /\ silence = -1 /\ looped = FALSE
    /\ scen \in Scenarios

Next == Drain \/ ExtensionEnds \/ Request \/ PollReply \/ Iterate \/ Arrive \/ Lose \/ Tick
\* The clock runs, the loop runs, and it sometimes finds the card empty: frames do
\* not come faster than they are polled (the comment at nic.c:1627).
Spec == Init /\ [][Next]_vars /\ WF_vars(Tick) /\ WF_vars(Iterate) /\ SF_vars(PollEmpty)

-----------------------------------------------------------------------------
(* Properties.                                                              *)

\* The gateway has been resolved, and an option has given its entry another address
\* since: nothing clears the node until the next attempt of bootp() (nic.c:1924).
Renamed == learnt \notin {ZeroIP, arptable[ARP_GATEWAY].ipaddr}

\* Every datagram ip_transmit() sends goes to the station that has the address of
\* the next hop (nic.c:533-567): an entry filled in an earlier attempt of bootp(), or
\* for the server or relay of an earlier reply, is never used for another address.  The
\* one exception is the gateway's entry while it is Renamed.
RightStation ==
    \A f \in out : f.kind = "ip" =>
        Arrived(f) \/ (Renamed /\ f.hop = arptable[ARP_GATEWAY].ipaddr)

\* Without the exception: "Kill arptable to avoid keeping stale entries" (nic.c:1100)
\* has avoided them.  Not so: the gateway resolved while the extension file was loaded
\* stays in the table under the address an option of the file, or of a later reply,
\* gives the gateway, and datagrams for the new gateway go to the old one.
NoStaleEntries == \A f \in out : f.kind = "ip" => Arrived(f)

\* While ip_transmit() waits for ARP, await_reply() throws datagrams away
\* (nic.c:1723).  The answers it throws away are to earlier requests: no answer to
\* the request being waited for is lost that way, however often it is sent again.
OwnAnswerKept == req \notin dropped

\* ip_transmit() comes back: it has sent the datagram or gives up after
\* MAX_ARP_RETRIES, whatever frames keep arriving.
TransmitReturns == pc = "arp" ~> pc # "arp"

\* What the switch said is trusted for LONG_TIMEOUT_TIME, then marked expired (out of
\* sync, and asked to report fast), and forgotten only after SHORT_TIMEOUT_TIME more
\* of silence (proto_eth_slow.c:320-331).
PartnerFresh ==
    LET known == lacp.partner.id = "switch"
        expired == "EXPIRED" \in lacp.actor
    IN  /\ silence # -1 /\ ~known => silence > LONG_TIMEOUT_TIME + SHORT_TIMEOUT_TIME
        /\ looped /\ known /\ ~expired => silence <= LONG_TIMEOUT_TIME
        /\ looped /\ expired => silence > LONG_TIMEOUT_TIME
        /\ expired => /\ "TIMEOUT" \in lacp.partner.state
                      /\ "SYNCHRONIZATION" \notin lacp.partner.state
=============================================================================
