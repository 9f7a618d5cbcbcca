--------------------------- MODULE IpLayerProofs ----------------------------
(***************************************************************************)
(* Proofs about IpLayer: datagrams go to the right station, ARP never      *)
(* costs the answer waited for, and what the switch said is trusted and    *)
(* forgotten in time, for any addresses, configurations and timeouts, and  *)
(* whatever frames are lost, repeated, delayed or come unasked.            *)
(***************************************************************************)
EXTENDS IpLayer, SequenceTheorems, TLAPS

LONG == LONG_TIMEOUT_TIME
SHORT == SHORT_TIMEOUT_TIME

LacpFields(l) ==
  /\ l = [system |-> l.system, actor |-> l.actor, partner |-> l.partner,
          current_while_timer |-> l.current_while_timer, periodic_timer |-> l.periodic_timer]
  /\ l.partner = [id |-> l.partner.id, state |-> l.partner.state]
LacpState(l) ==
  /\ LacpFields(l)
  /\ l.current_while_timer \in Int /\ l.periodic_timer \in Int

(* What the timer of l says of the silence s, and what else is known when  *)
(* what the switch said has expired.  "TIMEOUT" of the actor is never set. *)
Timing(l, s) ==
  LET t == l.current_while_timer IN
  /\ LacpState(l) /\ s \in (-1)..Forgotten /\ "TIMEOUT" \notin l.actor
  /\ l.partner.id # "switch" =>
       t = Off /\ "EXPIRED" \notin l.actor /\ s \in {-1, Forgotten}
  /\ l.partner.id = "switch" => l.system = NodeAddr /\ s # -1 /\ t \in (-1)..LONG
  /\ l.partner.id = "switch" /\ "EXPIRED" \notin l.actor =>
       /\ t # Passed => s = LONG - t
       /\ t = Passed => s > LONG
  /\ l.partner.id = "switch" /\ "EXPIRED" \in l.actor =>
       /\ s > LONG /\ t <= SHORT /\ (s = Forgotten \/ s >= LONG + 1 + SHORT - t)
       /\ "TIMEOUT" \in l.partner.state /\ "SYNCHRONIZATION" \notin l.partner.state

LacpInv == Timing(lacp, silence) /\ (looped => lacp.current_while_timer # Passed)

LEMMA Times ==
  /\ LONG \in Nat /\ SHORT \in Nat /\ SHORT > 0 /\ SHORT < LONG
  /\ Forgotten = LONG + SHORT + 1 /\ Passed = -1 /\ Off = -2
  BY LacpAssumption DEF LONG, SHORT, LONG_TIMEOUT_TIME, SHORT_TIMEOUT_TIME, Forgotten, Passed, Off

(* Starting the periodic timer does not touch what Timing is about.        *)
LEMMA PeriodicHarmless ==
  ASSUME NEW l, NEW s, Timing(l, s), NEW k, k = lacp_start_periodic_timer(l)
  PROVE  Timing(k, s) /\ k.current_while_timer = l.current_while_timer
<1>1. LacpState(l)
  BY DEF Timing
<1>2. FAST_PERIODIC_TIME \in Int /\ SLOW_PERIODIC_TIME \in Int
  BY LacpAssumption
<1>3. /\ LacpState(k) /\ k.system = l.system /\ k.actor = l.actor /\ k.partner = l.partner
      /\ k.current_while_timer = l.current_while_timer
  BY <1>1, <1>2 DEF lacp_start_periodic_timer, LacpState, LacpFields
<1> QED BY <1>3 DEF Timing

LEMMA InitStateTiming ==
  ASSUME NEW s \in {-1, Forgotten}, NEW k, k = lacp_init_state(NodeAddr)
  PROVE  Timing(k, s) /\ k.current_while_timer = Off /\ k.system = NodeAddr
<1>1. /\ k.system = NodeAddr /\ k.actor = InSync \cup {"DEFAULTED"} /\ k.partner.id = "default"
      /\ k.current_while_timer = Off /\ k.partner = [id |-> "default", state |-> InSync \cup {"ACTIVITY", "DEFAULTED"}]
      /\ k.periodic_timer = Off
  BY DEF lacp_init_state
<1>2. LacpState(k)
  BY Times DEF LacpState, LacpFields, lacp_init_state
<1>3. "TIMEOUT" \notin k.actor /\ "EXPIRED" \notin k.actor
  BY <1>1 DEF InSync
<1> QED BY <1>1, <1>2, <1>3, Times DEF Timing

LEMMA SetUpTiming ==
  ASSUME NEW l, NEW s, Timing(l, s), NEW k, k = SetUp(l)
  PROVE  Timing(k, s) /\ k.system = NodeAddr
<1>1. CASE l.system = NodeAddr
  BY <1>1 DEF SetUp
<1>2. CASE l.system # NodeAddr
  <2>1. s \in {-1, Forgotten} /\ k = lacp_init_state(NodeAddr)
    BY <1>2 DEF Timing, SetUp
  <2> QED BY <2>1, InitStateTiming
<1> QED BY <1>1, <1>2

LEMMA ExpireTiming ==
  ASSUME NEW l, NEW s, Timing(l, s), l.current_while_timer = Passed, NEW k, k = Expire(l)
  PROVE  Timing(k, s) /\ k.current_while_timer # Passed
<1>1. /\ LacpState(l) /\ l.partner.id = "switch" /\ l.system = NodeAddr /\ s \in (-1)..Forgotten
      /\ "TIMEOUT" \notin l.actor
  BY Times DEF Timing
<1>2. CASE "EXPIRED" \in l.actor
  <2>1. s = Forgotten
    BY <1>1, <1>2, Times DEF Timing
  <2>2. k = lacp_init_state(NodeAddr)
    BY <1>2 DEF Expire
  <2> QED BY <2>1, <2>2, InitStateTiming, Times
<1>3. CASE "EXPIRED" \notin l.actor
  <2>1. s > LONG
    BY <1>1, <1>3 DEF Timing
  <2>2. k = [l EXCEPT !.partner.state = (@ \ {"SYNCHRONIZATION"}) \cup {"TIMEOUT"},
                      !.actor = @ \cup {"EXPIRED"}, !.current_while_timer = SHORT]
    BY <1>3 DEF Expire, SHORT
  <2>3. /\ k.system = NodeAddr /\ k.actor = l.actor \cup {"EXPIRED"} /\ k.partner.id = "switch"
        /\ k.partner.state = (l.partner.state \ {"SYNCHRONIZATION"}) \cup {"TIMEOUT"}
        /\ k.current_while_timer = SHORT
    BY <1>1, <2>2 DEF LacpState, LacpFields
  <2>4. LacpFields(k) /\ k.periodic_timer = l.periodic_timer
    BY <1>1, <2>2 DEF LacpState, LacpFields
  <2>5. LacpState(k)
    BY <1>1, <2>3, <2>4, Times DEF LacpState, LacpFields
  <2>6. "TIMEOUT" \notin k.actor /\ "EXPIRED" \in k.actor
    BY <1>1, <2>3
  <2>7. "TIMEOUT" \in k.partner.state /\ "SYNCHRONIZATION" \notin k.partner.state
    BY <2>3
  <2>8. /\ k.current_while_timer \in (-1)..LONG /\ k.current_while_timer <= SHORT /\ s # -1
        /\ s >= LONG + 1 + SHORT - k.current_while_timer /\ k.current_while_timer # Passed
    BY <1>1, <2>1, <2>3, Times
  <2> QED BY <1>1, <2>1, <2>3, <2>5, <2>6, <2>7, <2>8 DEF Timing
<1> QED BY <1>2, <1>3

(* send_lacp_reports() leaves no timer that has run out.                   *)
LEMMA ReportsTiming ==
  ASSUME NEW l, NEW s, Timing(l, s), NEW ntt, NEW r, r = send_lacp_reports(l, ntt)
  PROVE  Timing(r.l, s) /\ r.l.current_while_timer # Passed
<1>1. PICK l1 : l1 = SetUp(l)
  OBVIOUS
<1>2. PICK l2 : l2 = IF l1.current_while_timer = Passed THEN Expire(l1) ELSE l1
  OBVIOUS
<1>3. Timing(l2, s) /\ l2.current_while_timer # Passed
  <2>1. Timing(l1, s)
    BY <1>1, SetUpTiming
  <2>2. CASE l1.current_while_timer = Passed
    BY <1>2, <2>1, <2>2, ExpireTiming
  <2>3. CASE l1.current_while_timer # Passed
    BY <1>2, <2>1, <2>3
  <2> QED BY <2>2, <2>3
<1>4. PICK l3 : l3 = lacp_start_periodic_timer(l2)
  OBVIOUS
<1>5. r.l \in {l2, l3}
  BY <1>1, <1>2, <1>4 DEF send_lacp_reports, lacp_timer_expired
<1>6. Timing(l3, s) /\ l3.current_while_timer # Passed
  BY <1>3, <1>4, PeriodicHarmless
<1> QED BY <1>3, <1>5, <1>6

(* A PDU of the switch starts the count anew.                              *)
LEMMA PduTiming ==
  ASSUME NEW l, NEW s, Timing(l, s), NEW p, p.actor.id = "switch",
         NEW r, r = ProcessPdu(l, p)
  PROVE  Timing(r.l, 0) /\ r.l.current_while_timer # Passed
<1>1. PICK l1 : l1 = SetUp(l)
  OBVIOUS
<1>2. LacpState(l1) /\ l1.system = NodeAddr /\ "TIMEOUT" \notin l1.actor
  BY <1>1, SetUpTiming DEF Timing
<1>3. PICK l2 : l2 = lacp_record_pdu(l1, p)
  OBVIOUS
<1>4. PICK told : told = l2.partner.state
  OBVIOUS
<1>5. l2 = [l1 EXCEPT !.actor = @ \ {"DEFAULTED"}, !.partner = [id |-> "switch", state |-> told]]
  <2>1. PICK st : st = IF (\/ /\ p.partner.id = l1.system
                              /\ "AGGREGATION" \in p.partner.state <=> "AGGREGATION" \in l1.actor
                           \/ "AGGREGATION" \notin p.actor.state)
                       THEN (p.actor.state \ {"SYNCHRONIZATION"}) \cup {"SYNCHRONIZATION"}
                       ELSE p.actor.state \ {"SYNCHRONIZATION"}
    OBVIOUS
  <2>2. l2 = [l1 EXCEPT !.actor = @ \ {"DEFAULTED"}, !.partner = [id |-> "switch", state |-> st]]
    BY <1>3, <2>1 DEF lacp_record_pdu
  <2>3. told = st
    BY <1>2, <1>4, <2>2 DEF LacpState, LacpFields
  <2> QED BY <2>2, <2>3
<1>6. /\ l2.system = NodeAddr /\ l2.actor = l1.actor \ {"DEFAULTED"}
      /\ l2.partner = [id |-> "switch", state |-> told]
  BY <1>2, <1>5 DEF LacpState, LacpFields
<1>7. LacpState(l2)
  BY <1>2, <1>5 DEF LacpState, LacpFields
<1>8. PICK l3 : l3 = lacp_start_current_while_timer(l2)
  OBVIOUS
<1>9. l3 = [l2 EXCEPT !.current_while_timer = LONG, !.actor = @ \ {"EXPIRED"}]
  BY <1>2, <1>6, <1>8 DEF lacp_start_current_while_timer, LONG
<1>10. /\ l3.system = NodeAddr /\ l3.actor = l2.actor \ {"EXPIRED"} /\ l3.current_while_timer = LONG
       /\ l3.partner = l2.partner
  BY <1>6, <1>7, <1>9 DEF LacpState, LacpFields
<1>11. LacpState(l3)
  <2>1. LacpFields(l3) /\ l3.periodic_timer = l2.periodic_timer
    BY <1>7, <1>9 DEF LacpState, LacpFields
  <2> QED BY <1>7, <1>10, <2>1, Times DEF LacpState, LacpFields
<1>12. "TIMEOUT" \notin l3.actor /\ "EXPIRED" \notin l3.actor /\ l3.partner.id = "switch"
  BY <1>2, <1>6, <1>10
<1>13. Timing(l3, 0)
  BY <1>10, <1>11, <1>12, Times DEF Timing
<1>14. PICK ntt : ntt = lacp_update_ntt(l1, p)
  OBVIOUS
<1>15. r = send_lacp_reports(l3, ntt)
  BY <1>1, <1>3, <1>8, <1>14 DEF ProcessPdu
<1> QED BY <1>13, <1>15, ReportsTiming

LEMMA TickTiming ==
  ASSUME NEW l, NEW s, Timing(l, s), NEW k, k = Counting(l),
         NEW z, z = IF s = -1 \/ s = Forgotten THEN s ELSE s + 1
  PROVE  Timing(k, z)
<1>1. LacpState(l) /\ s \in (-1)..Forgotten
  BY DEF Timing
<1>2. PICK t : t = l.current_while_timer
  OBVIOUS
<1>3. PICK u : u = Counted(t)
  OBVIOUS
<1>4. t \in Int /\ u \in Int /\ (t < 0 => u = t) /\ (t >= 0 => u = t - 1)
  BY <1>1, <1>2, <1>3 DEF LacpState, Counted
<1>5. k.system = l.system /\ k.actor = l.actor /\ k.partner = l.partner /\ k.current_while_timer = u
  BY <1>1, <1>2, <1>3 DEF Counting, LacpState
<1>6. LacpState(k)
  <2>1. Counted(l.periodic_timer) \in Int /\ Counted(l.current_while_timer) \in Int
    BY <1>1 DEF LacpState, Counted
  <2>2. /\ LacpFields(k) /\ k.periodic_timer = Counted(l.periodic_timer)
        /\ k.current_while_timer = Counted(l.current_while_timer)
    BY <1>1 DEF LacpState, LacpFields, Counting
  <2> QED BY <2>1, <2>2 DEF LacpState, LacpFields
<1>7. z \in (-1)..Forgotten /\ (s # -1 => z # -1) /\ z >= s /\ (s \in {-1, Forgotten} => z = s)
      /\ (s \notin {-1, Forgotten} => z = s + 1)
  BY <1>1, Times
<1>8. CASE l.partner.id # "switch"
  <2>1. t = Off /\ u = Off /\ z = s
    BY <1>2, <1>4, <1>7, <1>8, Times DEF Timing
  <2> QED BY <1>5, <1>6, <1>8, <2>1 DEF Timing
<1>9. CASE l.partner.id = "switch" /\ "EXPIRED" \notin l.actor
  <2>1. /\ t \in (-1)..LONG /\ s # -1 /\ (t # Passed => s = LONG - t) /\ (t = Passed => s > LONG)
    BY <1>2, <1>9 DEF Timing
  <2>2. u \in (-1)..LONG /\ z # -1 /\ (u # Passed => z = LONG - u) /\ (u = Passed => z > LONG)
    BY <1>1, <1>4, <1>7, <2>1, Times
  <2> QED BY <1>5, <1>6, <1>7, <1>9, <2>2 DEF Timing
<1>10. CASE l.partner.id = "switch" /\ "EXPIRED" \in l.actor
  <2>1. /\ t \in (-1)..LONG /\ s # -1 /\ s > LONG /\ t <= SHORT
        /\ (s = Forgotten \/ s >= LONG + 1 + SHORT - t)
    BY <1>2, <1>10 DEF Timing
  <2>2. /\ u \in (-1)..LONG /\ z # -1 /\ z > LONG /\ u <= SHORT
        /\ (z = Forgotten \/ z >= LONG + 1 + SHORT - u)
    BY <1>1, <1>4, <1>7, <2>1, Times
  <2> QED BY <1>5, <1>6, <1>7, <1>10, <2>2 DEF Timing
<1> QED BY <1>8, <1>9, <1>10

-----------------------------------------------------------------------------
Hop == NextHop(Dest)
Ent == First(Entries(Hop))

Addressed == arptable[ARP_CLIENT].ipaddr # ZeroIP

(* The entry of the server is empty or holds the right station, that of    *)
(* the gateway the station it was resolved for; and neither has the        *)
(* client's address.                                                       *)
TableInv ==
  /\ arptable = [e \in 0..2 |-> arptable[e]]
  /\ \A e \in 0..2 : arptable[e] = [ipaddr |-> arptable[e].ipaddr, node |-> arptable[e].node]
  /\ arptable[1].node # NoNode =>
       arptable[1].ipaddr \in DOMAIN Station /\ arptable[1].node = Station[arptable[1].ipaddr]
  /\ arptable[2].node # NoNode => learnt \in DOMAIN Station /\ arptable[2].node = Station[learnt]
  /\ scen \in Scenarios
  /\ arptable[0].ipaddr \in Lent(scen) \cup {ZeroIP}
  /\ \A e \in {1, 2} : arptable[e].ipaddr \in Named(scen) \cup {ZeroIP}
  /\ pc \in {"arp", "wait"} => Addressed

(* ip_transmit() waits for the entry it will use; once a request is sent   *)
(* that entry stays filled.                                                *)
WaitInv ==
  /\ req \in Nat /\ \A n \in dropped : n \in Nat /\ n < req
  /\ pc = "arp" => Dest # IP_BROADCAST /\ entry = Ent
  /\ pc = "wait" => Dest = IP_BROADCAST \/ arptable[Ent].node # NoNode

(* A frame on its way: while ip_transmit() waits, none answers the request *)
(* it has yet to send.                                                     *)
FrameOK(f) ==
  /\ f.kind = "arpreply" => f.ip \in DOMAIN Station /\ f.node = Station[f.ip]
  /\ f.kind = "udp" => f.n \in Nat /\ f.n <= req /\ (pc = "arp" => f.n # req)
  /\ f.kind = "lacp" => f.pdu.actor.id = "switch"
RxInv == \E S : rx \in Seq(S) /\ \A f \in S : FrameOK(f)
FlightInv == RxInv /\ \A f \in air : FrameOK(f)

(* An extension file is that of a reply that has come.                     *)
LoadInv == round \in Nat /\ (loading # "none" => round \in 1..Len(scen.replies))

IInv == TableInv /\ WaitInv /\ FlightInv /\ RightStation /\ LoadInv /\ LacpInv

LEMMA FirstIs ==
  ASSUME NEW S \in SUBSET (0..2), S # {}
  PROVE  First(S) \in S
<1>1. \E e \in S : \A x \in S : e <= x
  <2>1. CASE 0 \in S
    BY <2>1
  <2>2. CASE 0 \notin S /\ 1 \in S
    BY <2>2
  <2>3. CASE 0 \notin S /\ 1 \notin S
    <3>1. \A x \in S : x = 2
      BY <2>3
    <3>2. PICK x \in S : TRUE
      OBVIOUS
    <3>3. 2 \in S
      BY <3>1, <3>2
    <3> QED BY <3>1, <3>3
  <2> QED BY <2>1, <2>2, <2>3
<1> QED BY <1>1 DEF First

(* The entry ip_transmit() finds is the server's or the gateway's.         *)
LEMMA EntFacts ==
  ASSUME TableInv, Addressed, Dest # IP_BROADCAST
  PROVE  Entries(Hop) # {} /\ Ent \in {1, 2} /\ arptable[Ent].ipaddr = Hop
<1>1. DOMAIN arptable = 0..2
  BY DEF TableInv
<1>2. Hop \in {arptable[1].ipaddr, arptable[2].ipaddr}
  BY DEF Hop, NextHop, Dest, ARP_SERVER, ARP_GATEWAY
<1>3. Entries(Hop) \in SUBSET (0..2) /\ Entries(Hop) # {} /\ 0 \notin Entries(Hop)
  <2>1. Lent(scen) \cap Named(scen) = {}
    BY ScenariosAssumption DEF TableInv
  <2>2. arptable[0].ipaddr # ZeroIP /\ arptable[0].ipaddr \in Lent(scen)
    BY DEF TableInv, Addressed, ARP_CLIENT
  <2>3. arptable[0].ipaddr # Hop
    BY <1>2, <2>1, <2>2 DEF TableInv
  <2> QED BY <1>1, <1>2, <2>3 DEF Entries
<1>4. Ent \in Entries(Hop)
  BY <1>3, FirstIs DEF Ent
<1> QED BY <1>3, <1>4 DEF Entries

(* They depend on the addresses of the table alone.                        *)
LEMMA EntStays ==
  ASSUME TableInv, DOMAIN arptable' = DOMAIN arptable, UNCHANGED <<netmask, scen>>,
         \A e \in 0..2 : arptable'[e].ipaddr = arptable[e].ipaddr
  PROVE  Dest' = Dest /\ Hop' = Hop /\ Ent' = Ent
<1>1. DOMAIN arptable = 0..2 /\ 0 \in 0..2 /\ 1 \in 0..2 /\ 2 \in 0..2
  BY DEF TableInv
<1>2. Dest' = Dest
  BY <1>1 DEF Dest, ARP_SERVER
<1>3. Hop' = Hop
  BY <1>1, <1>2 DEF Hop, NextHop, ARP_CLIENT, ARP_GATEWAY
<1>4. Entries(Hop)' = Entries(Hop)
  BY <1>1, <1>3 DEF Entries
<1> QED BY <1>2, <1>3, <1>4 DEF Ent, First

LEMMA FrameStays ==
  ASSUME NEW f, FrameOK(f), req \in Nat, req' \in {req, req + 1},
         pc' = "arp" => pc = "arp" \/ req' = req + 1
  PROVE  FrameOK(f)'
  BY DEF FrameOK

(* What a step may add to the air: answers to request n, which was sent,   *)
(* and right ARP replies.                                                  *)
Answers(n) ==
  \A f \in air' \ air :
    \/ f.kind = "udp" /\ f.n = n /\ pc' = "wait"
    \/ f.kind = "arpreply" /\ f.ip \in DOMAIN Station /\ f.node = Station[f.ip]

LEMMA FlightStays ==
  ASSUME FlightInv, req \in Nat, req' \in {req, req + 1},
         pc' = "arp" => pc = "arp" \/ req' = req + 1,
         Answers(req'), rx' = rx \/ (rx # <<>> /\ rx' = Tail(rx))
  PROVE  FlightInv'
<1>1. PICK S : rx \in Seq(S) /\ \A f \in S : FrameOK(f)
  BY DEF FlightInv, RxInv
<1>2. rx' \in Seq(S)
  BY <1>1, HeadTailProperties
<1>3. \A f \in S : FrameOK(f)'
  BY <1>1, FrameStays
<1>4. RxInv'
  BY <1>2, <1>3 DEF RxInv
<1>5. ASSUME NEW f \in air' PROVE FrameOK(f)'
  <2>1. CASE f \in air
    BY <2>1, FrameStays DEF FlightInv
  <2>2. CASE f \notin air
    <3>1. req' \in Nat
      OBVIOUS
    <3>2. \/ f.kind = "udp" /\ f.n = req' /\ pc' = "wait"
          \/ f.kind = "arpreply" /\ f.ip \in DOMAIN Station /\ f.node = Station[f.ip]
      BY <2>2 DEF Answers
    <3> QED BY <3>1, <3>2 DEF FrameOK
  <2> QED BY <2>1, <2>2
<1> QED BY <1>4, <1>5 DEF FlightInv

(* Frames that are no datagrams.                                           *)
Other(e) == \A f \in e : f.kind # "ip"

(* The gateway's entry, under the address it was given after it was        *)
(* resolved: the exception RightStation makes.                             *)
Excused == Renamed /\ Hop = arptable[ARP_GATEWAY].ipaddr

LEMMA SentRight ==
  ASSUME NEW node, NEW n, NEW e, Other(e), Sent(IpFrame(node, n), e),
         \/ node = Broadcast \/ node = Station[Hop]
         \/ Excused /\ UNCHANGED config
  PROVE  RightStation' /\ Answers(n) /\ pc' = "wait"
<1>1. PICK g : g = IpFrame(node, n)
  OBVIOUS
<1>2. g.kind = "ip" /\ g.to = node /\ g.hop = Hop /\ g.n = n
  BY <1>1 DEF IpFrame, Hop
<1>3. Arrived(g) \/ (Excused /\ UNCHANGED config)
  BY <1>2 DEF Arrived
<1>4. /\ out' = {g} \cup e /\ pc' = "wait"
      /\ \A f \in air' \ air : f = [kind |-> "udp", n |-> n]
  BY <1>1, <1>2 DEF Sent, AnswersTo
<1>5. RightStation'
  <2> SUFFICES ASSUME NEW f \in out', f.kind = "ip"
               PROVE  Arrived(f) \/ (Renamed' /\ f.hop = arptable'[ARP_GATEWAY].ipaddr)
    BY DEF RightStation, Arrived
  <2>1. f = g
    BY <1>4 DEF Other
  <2>2. CASE Arrived(g)
    BY <2>1, <2>2
  <2>3. CASE Excused /\ UNCHANGED config
    BY <1>2, <2>1, <2>3 DEF Excused, Renamed, config
  <2> QED BY <1>3, <2>2, <2>3
<1>6. Answers(n)
  BY <1>4 DEF Answers
<1> QED BY <1>4, <1>5, <1>6

LEMMA AskedRight ==
  ASSUME NEW ent, NEW n, NEW e, Other(e), AskArp(ent, n, e), NEW k
  PROVE  RightStation' /\ Answers(k) /\ pc' = "arp" /\ entry' = ent
<1>1. PICK ip : ip = arptable[ent].ipaddr
  OBVIOUS
<1>2. PICK g : g = [kind |-> "arp", to |-> Broadcast, ip |-> ip]
  OBVIOUS
<1>3. g.kind = "arp" /\ out' = {g} \cup e /\ pc' = "arp" /\ entry' = ent
  BY <1>1, <1>2 DEF AskArp
<1>4. \A f \in air' \ air : f = [kind |-> "arpreply", ip |-> ip, node |-> Station[ip]] /\ ip \in DOMAIN Station
  BY <1>1 DEF AskArp
<1>5. RightStation'
  BY <1>3 DEF RightStation, Other
<1>6. Answers(k)
  BY <1>4 DEF Answers
<1> QED BY <1>3, <1>5, <1>6

LEMMA TransmitStep ==
  ASSUME TableInv, Addressed, UNCHANGED config, NEW n, NEW e, Other(e), ip_transmit(n, e)
  PROVE  /\ RightStation' /\ Answers(n) /\ pc' \in {"arp", "wait"}
         /\ pc' = "arp" => Dest # IP_BROADCAST /\ entry' = Ent /\ arptable[Ent].node = NoNode
         /\ pc' = "wait" => Dest = IP_BROADCAST \/ arptable[Ent].node # NoNode
<1>1. CASE Dest = IP_BROADCAST
  <2>1. Sent(IpFrame(Broadcast, n), e)
    BY <1>1 DEF ip_transmit
  <2>2. RightStation' /\ Answers(n) /\ pc' = "wait"
    BY <2>1, SentRight
  <2> QED BY <1>1, <2>2
<1>2. CASE Dest # IP_BROADCAST
  <2>1. Entries(Hop) # {} /\ Ent \in {1, 2} /\ arptable[Ent].ipaddr = Hop
    BY <1>2, EntFacts
  <2>2. IF NeedsArp(Ent) THEN AskArp(Ent, 1, e) ELSE Sent(IpFrame(arptable[Ent].node, n), e)
    BY <1>2, <2>1 DEF ip_transmit, Hop, Ent
  <2>3. CASE NeedsArp(Ent)
    <3>1. RightStation' /\ Answers(n) /\ pc' = "arp" /\ entry' = Ent
      BY <2>2, <2>3, AskedRight
    <3> QED BY <1>2, <2>3, <3>1 DEF NeedsArp
  <2>4. CASE ~NeedsArp(Ent)
    <3>1. PICK node : node = arptable[Ent].node
      OBVIOUS
    <3>2. node # NoNode /\ (node = Station[Hop] \/ Excused)
      <4>1. node # NoNode
        BY <2>4, <3>1 DEF NeedsArp
      <4>2. CASE Ent = 1
        BY <2>1, <3>1, <4>1, <4>2 DEF TableInv
      <4>3. CASE Ent = 2
        <5>1. learnt \in DOMAIN Station /\ node = Station[learnt] /\ Hop = arptable[2].ipaddr
          BY <2>1, <3>1, <4>1, <4>3 DEF TableInv
        <5>2. learnt # ZeroIP
          BY <5>1, StationAssumption
        <5> QED BY <4>1, <5>1, <5>2 DEF Excused, Renamed, ARP_GATEWAY
      <4> QED BY <2>1, <4>2, <4>3
    <3>3. RightStation' /\ Answers(n) /\ pc' = "wait"
      BY <2>2, <2>4, <3>1, <3>2, SentRight
    <3> QED BY <3>1, <3>2, <3>3
  <2> QED BY <2>3, <2>4
<1> QED BY <1>1, <1>2

-----------------------------------------------------------------------------
(* A step that leaves the table alone, with what has become of pc.         *)
LEMMA TableStays ==
  ASSUME TableInv, UNCHANGED <<config, scen>>, pc' \in {"arp", "wait"} => Addressed
  PROVE  TableInv' /\ Dest' = Dest /\ Ent' = Ent
<1>1. TableInv'
  BY DEF TableInv, config, Addressed, Lent, Named, Replies
<1>2. Dest' = Dest /\ Ent' = Ent
  BY EntStays DEF config, TableInv
<1> QED BY <1>1, <1>2

(* A step of which the IP layer sees at most that a wait is over.          *)
LEMMA QuietStep ==
  ASSUME TableInv, WaitInv, FlightInv, UNCHANGED <<config, scen, req, entry>>,
         \A n \in dropped' : n \in Nat /\ n < req, pc' \in {pc, "idle", "drain", "failed"},
         air' \subseteq air,
         rx' = rx \/ (rx # <<>> /\ rx' = Tail(rx)), Other(out')
  PROVE  TableInv' /\ WaitInv' /\ FlightInv' /\ RightStation'
<1>1. TableInv' /\ Dest' = Dest /\ Ent' = Ent
  <2>1. pc' \in {"arp", "wait"} => Addressed
    BY DEF TableInv
  <2> QED BY <2>1, TableStays
<1>2. WaitInv'
  BY <1>1 DEF WaitInv, config
<1>3. Answers(req')
  BY DEF Answers
<1>4. FlightInv'
  BY <1>3, FlightStays DEF WaitInv
<1>5. RightStation'
  BY DEF RightStation, Other
<1> QED BY <1>1, <1>2, <1>4, <1>5

(* A transmission: of a new request, or of the one that was waited for.    *)
LEMMA TransmissionStep ==
  ASSUME TableInv, WaitInv, FlightInv, UNCHANGED <<config, scen, rx, dropped>>,
         req' = req + 1 \/ (req' = req /\ pc = "wait"), Addressed,
         NEW n, n = req', NEW e, Other(e), ip_transmit(n, e)
  PROVE  TableInv' /\ WaitInv' /\ FlightInv' /\ RightStation'
<1>1. /\ RightStation' /\ Answers(n) /\ pc' \in {"arp", "wait"}
      /\ pc' = "arp" => Dest # IP_BROADCAST /\ entry' = Ent /\ arptable[Ent].node = NoNode
      /\ pc' = "wait" => Dest = IP_BROADCAST \/ arptable[Ent].node # NoNode
  BY TransmitStep
<1>2. TableInv' /\ Dest' = Dest /\ Ent' = Ent
  BY TableStays
<1>3. req \in Nat /\ req' \in Nat /\ req' \in {req, req + 1} /\ req' >= req
  BY DEF WaitInv
<1>4. WaitInv'
  <2>1. \A n1 \in dropped' : n1 \in Nat /\ n1 < req'
    BY <1>3 DEF WaitInv
  <2> QED BY <1>1, <1>2, <1>3, <2>1 DEF WaitInv, config
<1>5. pc' = "arp" => pc = "arp" \/ req' = req + 1
  BY <1>1 DEF WaitInv
<1>6. FlightInv'
  BY <1>1, <1>3, <1>5, FlightStays
<1> QED BY <1>1, <1>2, <1>4, <1>6

LEMMA RequestKeeps ==
  ASSUME IInv, Request
  PROVE  TableInv' /\ WaitInv' /\ FlightInv' /\ RightStation'
<1>1. Other({})
  BY DEF Other
<1>2. /\ req' = req + 1 /\ Addressed /\ ip_transmit(req + 1, {})
      /\ UNCHANGED <<config, rx, scen, dropped>>
  BY DEF Request, Addressed
<1>3. PICK n : n = req + 1
  OBVIOUS
<1>4. n = req' /\ ip_transmit(n, {})
  BY <1>2, <1>3
<1> QED BY <1>1, <1>2, <1>4, TransmissionStep DEF IInv

-----------------------------------------------------------------------------
(* What bootp() does to the table.                                         *)

(* Of a step that changes the table while nobody waits for an answer, the  *)
(* table alone needs looking at.                                           *)
LEMMA TableStep ==
  ASSUME IInv, TableInv', UNCHANGED <<req, rx, dropped, air>>, pc' \notin {"arp", "wait"},
         Other(out')
  PROVE  TableInv' /\ WaitInv' /\ FlightInv' /\ RightStation'
<1>1. WaitInv'
  BY DEF IInv, WaitInv
<1>2. Answers(req')
  BY DEF Answers
<1>3. FlightInv'
  BY <1>2, FlightStays DEF IInv, WaitInv
<1>4. RightStation'
  BY DEF RightStation, Other
<1> QED BY <1>1, <1>3, <1>4

(* The addresses of a reply are those of its scenario.                     *)
LEMMA ReplyAddresses ==
  ASSUME TableInv, NEW k \in 1..Len(scen.replies), NEW c, c = scen.replies[k]
  PROVE  /\ c.yiaddr \in Lent(scen) \cup {ZeroIP} /\ c.siaddr \in Named(scen)
         /\ c.giaddr \in Named(scen) /\ c.options.gateway \in Named(scen)
         /\ c.extension.gateway \in Named(scen)
<1>1. c \in Replies(scen)
  BY DEF Replies
<1>2. c.yiaddr \in {x.yiaddr : x \in Replies(scen)}
  BY <1>1
<1>3. PICK S : S = {c.siaddr, c.giaddr, c.options.gateway, c.extension.gateway}
  OBVIOUS
<1>4. S \in {{x.siaddr, x.giaddr, x.options.gateway, x.extension.gateway} : x \in Replies(scen)}
  BY <1>1, <1>3
<1>5. S \subseteq Named(scen)
  BY <1>4 DEF Named
<1> QED BY <1>2, <1>3, <1>5 DEF Lent

(* A table, but for what pc has to say.                                    *)
TableOK(t, l) ==
  /\ t = [e \in 0..2 |-> t[e]]
  /\ \A e \in 0..2 : t[e] = [ipaddr |-> t[e].ipaddr, node |-> t[e].node]
  /\ t[1].node # NoNode => t[1].ipaddr \in DOMAIN Station /\ t[1].node = Station[t[1].ipaddr]
  /\ t[2].node # NoNode => l \in DOMAIN Station /\ t[2].node = Station[l]
  /\ t[0].ipaddr \in Lent(scen) \cup {ZeroIP}
  /\ \A e \in {1, 2} : t[e].ipaddr \in Named(scen) \cup {ZeroIP}

LEMMA TableIsOK ==
  ASSUME TableInv
  PROVE  TableOK(arptable, learnt) /\ scen \in Scenarios
  BY DEF TableInv, TableOK

LEMMA OKIsTable ==
  ASSUME TableInv, NEW t, NEW l, TableOK(t, l), arptable' = t, learnt' = l, scen' = scen,
         pc' \notin {"arp", "wait"}
  PROVE  TableInv'
<1>1. Lent(scen') = Lent(scen) /\ Named(scen') = Named(scen) /\ scen' \in Scenarios
  BY DEF TableInv
<1>2. TableOK(arptable', learnt')
  OBVIOUS
<1> QED BY <1>1, <1>2 DEF TableInv, TableOK

LEMMA DecodeKeeps ==
  ASSUME NEW t, NEW l, TableOK(t, l), NEW o, o.gateway \in Named(scen)
  PROVE  TableOK(Decode(t, o), l)
<1>1. CASE o.gateway = ZeroIP
  BY <1>1 DEF Decode
<1>2. CASE o.gateway # ZeroIP
  <2>1. PICK u : u = [t EXCEPT ![2].ipaddr = o.gateway]
    OBVIOUS
  <2>2. Decode(t, o) = u
    BY <1>2, <2>1 DEF Decode, ARP_GATEWAY
  <2>3. t = [e \in 0..2 |-> t[e]] /\ t[2] = [ipaddr |-> t[2].ipaddr, node |-> t[2].node]
    BY DEF TableOK
  <2>4. PICK v : v = [t[2] EXCEPT !.ipaddr = o.gateway]
    OBVIOUS
  <2>5. u = [t EXCEPT ![2] = v] /\ DOMAIN t = 0..2 /\ 0 \in 0..2 /\ 1 \in 0..2 /\ 2 \in 0..2
    BY <2>1, <2>3, <2>4
  <2>6. u = [e \in 0..2 |-> IF e = 2 THEN v ELSE t[e]]
    BY <2>5
  <2>7. u = [e \in 0..2 |-> u[e]] /\ u[0] = t[0] /\ u[1] = t[1] /\ u[2] = v
    BY <2>6
  <2>8. u[2] = [t[2] EXCEPT !.ipaddr = o.gateway]
    BY <2>7, <2>4
  <2>9. u[2] = [ipaddr |-> o.gateway, node |-> t[2].node]
    BY <2>3, <2>8
  <2>10. u[2].ipaddr = o.gateway /\ u[2].node = t[2].node
    BY <2>9
  <2>11. \A e \in 0..2 : e = 0 \/ e = 1 \/ e = 2
    OBVIOUS
  <2>12. \A e \in 0..2 : u[e] = [ipaddr |-> u[e].ipaddr, node |-> u[e].node]
    BY <2>7, <2>9, <2>11 DEF TableOK
  <2>13. TableOK(u, l)
    BY <2>7, <2>10, <2>12 DEF TableOK
  <2> QED BY <2>2, <2>13
<1> QED BY <1>1, <1>2

LEMMA AddressesKeep ==
  ASSUME TableInv, NEW c, c.yiaddr \in Lent(scen) \cup {ZeroIP}, c.siaddr \in Named(scen),
         c.giaddr \in Named(scen), NEW l, l = IF c.giaddr = ZeroIP THEN learnt ELSE ZeroIP
  PROVE  TableOK(Addresses(arptable, c), l)
<1>1. PICK t : t = arptable
  OBVIOUS
<1>2. /\ t = [e \in 0..2 |-> t[e]] /\ DOMAIN t = 0..2
      /\ t[0] = [ipaddr |-> t[0].ipaddr, node |-> t[0].node]
      /\ t[2] = [ipaddr |-> t[2].ipaddr, node |-> t[2].node]
  BY <1>1 DEF TableInv
<1>3. PICK u : u = Addresses(t, c)
  OBVIOUS
<1>4. DOMAIN u = 0..2 /\ u = [e \in 0..2 |-> u[e]]
  <2> DEFINE At(e) ==
        CASE e = ARP_CLIENT -> IF c.yiaddr = ZeroIP THEN t[e] ELSE [t[e] EXCEPT !.ipaddr = c.yiaddr]
          [] e = ARP_SERVER -> [ipaddr |-> c.siaddr, node |-> NoNode]
          [] e = ARP_GATEWAY -> IF c.giaddr = ZeroIP THEN t[e]
                                ELSE [ipaddr |-> c.giaddr, node |-> NoNode]
  <2>1. Addresses(t, c) = [e \in DOMAIN t |-> At(e)]
    BY Zenon DEF Addresses
  <2> HIDE DEF At
  <2> QED BY <1>2, <1>3, <2>1
<1>5. 0 \in DOMAIN t /\ 1 \in DOMAIN t /\ 2 \in DOMAIN t /\ 0 # 1 /\ 0 # 2 /\ 1 # 2
  BY <1>2
<1>6. u[0] = IF c.yiaddr = ZeroIP THEN t[0] ELSE [t[0] EXCEPT !.ipaddr = c.yiaddr]
  BY <1>3, <1>5 DEF Addresses, ARP_CLIENT, ARP_SERVER, ARP_GATEWAY
<1>7. u[1] = [ipaddr |-> c.siaddr, node |-> NoNode]
  BY <1>3, <1>5 DEF Addresses, ARP_CLIENT, ARP_SERVER, ARP_GATEWAY
<1>8. u[2] = IF c.giaddr = ZeroIP THEN t[2] ELSE [ipaddr |-> c.giaddr, node |-> NoNode]
  BY <1>3, <1>5 DEF Addresses, ARP_CLIENT, ARP_SERVER, ARP_GATEWAY
<1>9. /\ u[0] = [ipaddr |-> u[0].ipaddr, node |-> u[0].node]
      /\ u[0].ipaddr \in Lent(scen) \cup {ZeroIP}
  <2>1. CASE c.yiaddr = ZeroIP
    BY <1>1, <1>2, <1>6, <2>1 DEF TableInv
  <2>2. CASE c.yiaddr # ZeroIP
    <3>1. u[0] = [ipaddr |-> c.yiaddr, node |-> t[0].node]
      BY <1>2, <1>6, <2>2
    <3> QED BY <3>1
  <2> QED BY <2>1, <2>2
<1>10. /\ u[1] = [ipaddr |-> u[1].ipaddr, node |-> u[1].node]
       /\ u[1].ipaddr \in Named(scen) /\ u[1].node = NoNode
  BY <1>7
<1>11. /\ u[2] = [ipaddr |-> u[2].ipaddr, node |-> u[2].node]
       /\ u[2].ipaddr \in Named(scen) \cup {ZeroIP}
       /\ u[2].node # NoNode => l \in DOMAIN Station /\ u[2].node = Station[l]
  <2>1. CASE c.giaddr = ZeroIP
    BY <1>1, <1>2, <1>8, <2>1 DEF TableInv
  <2>2. CASE c.giaddr # ZeroIP
    <3>1. u[2] = [ipaddr |-> c.giaddr, node |-> NoNode]
      BY <1>8, <2>2
    <3> QED BY <3>1
  <2> QED BY <2>1, <2>2
<1>12. \A e \in 0..2 : e = 0 \/ e = 1 \/ e = 2
  OBVIOUS
<1>13. \A e \in 0..2 : u[e] = [ipaddr |-> u[e].ipaddr, node |-> u[e].node]
  BY <1>9, <1>10, <1>11, <1>12
<1>14. TableOK(u, l)
  BY <1>4, <1>9, <1>10, <1>11, <1>13 DEF TableOK
<1> QED BY <1>1, <1>3, <1>14

(* An attempt begins with an empty table.                                  *)
LEMMA AttemptKeeps ==
  ASSUME IInv, NEW e, Other(e), BeginAttempt(e), UNCHANGED <<req, rx, scen, dropped>>
  PROVE  TableInv' /\ WaitInv' /\ FlightInv' /\ RightStation'
<1>1. PICK t : t = KillArp(arptable)
  OBVIOUS
<1>2. /\ arptable' = t /\ learnt' = ZeroIP /\ pc' = "bootp" /\ out' = e /\ air' = air
  BY <1>1 DEF BeginAttempt
<1>3. /\ t = [k \in 0..2 |-> t[k]] /\ t[0] = [ipaddr |-> ZeroIP, node |-> arptable[0].node]
      /\ t[1] = [ipaddr |-> ZeroIP, node |-> NoNode] /\ t[2] = [ipaddr |-> ZeroIP, node |-> NoNode]
  BY <1>1 DEF KillArp, MAX_ARP, ARP_CLIENT
<1>4. \A k \in 0..2 : k = 0 \/ k = 1 \/ k = 2
  OBVIOUS
<1>5. TableOK(t, ZeroIP)
  <2>1. \A k \in 0..2 : t[k] = [ipaddr |-> t[k].ipaddr, node |-> t[k].node]
    BY <1>3, <1>4
  <2> QED BY <1>3, <2>1 DEF TableOK
<1>6. TableInv'
  BY <1>2, <1>5, OKIsTable DEF IInv
<1> QED BY <1>2, <1>6, TableStep

LEMMA PollReplyKeeps ==
  ASSUME IInv, PollReply
  PROVE  TableInv' /\ WaitInv' /\ FlightInv' /\ RightStation'
<1>1. PICK c : c = scen.replies[round + 1]
  OBVIOUS
<1>2. PICK r : r = send_lacp_reports(lacp, FALSE)
  OBVIOUS
<1>3. PICK l : l = IF c.giaddr = ZeroIP THEN learnt ELSE ZeroIP
  OBVIOUS
<1>4. /\ arptable' = Learn(arptable, c) /\ learnt' = l /\ out' = PduOf(r)
      /\ round < Len(scen.replies) /\ UNCHANGED <<req, rx, scen, dropped, air>>
      /\ pc' \in {"idle", "bootp"}
  BY <1>1, <1>2, <1>3 DEF PollReply, AfterReplies
<1>5. round + 1 \in 1..Len(scen.replies)
  <2>1. scen.replies \in Seq(Reply)
    BY ScenariosAssumption DEF IInv, TableInv
  <2>2. Len(scen.replies) \in Nat
    BY <2>1
  <2> QED BY <1>4, <2>2 DEF IInv, LoadInv
<1>6. /\ c.yiaddr \in Lent(scen) \cup {ZeroIP} /\ c.siaddr \in Named(scen)
      /\ c.giaddr \in Named(scen) /\ c.options.gateway \in Named(scen)
  BY <1>1, <1>5, ReplyAddresses DEF IInv
<1>7. PICK t : t = Addresses(arptable, c)
  OBVIOUS
<1>8. TableOK(t, l)
  BY <1>3, <1>6, <1>7, AddressesKeep DEF IInv
<1>9. PICK u : u = Learn(arptable, c)
  OBVIOUS
<1>10. TableOK(u, l)
  <2>1. PICK o : o = c.options
    OBVIOUS
  <2>2. TableOK(Decode(t, o), l)
    BY <1>6, <1>8, <2>1, DecodeKeeps
  <2> QED BY <1>7, <1>8, <1>9, <2>1, <2>2 DEF Learn
<1>11. TableInv'
  BY <1>4, <1>9, <1>10, OKIsTable DEF IInv
<1>12. Other(out')
  BY <1>4 DEF Other, PduOf, Pdu
<1> QED BY <1>4, <1>11, <1>12, TableStep

LEMMA ExtensionKeeps ==
  ASSUME IInv, ExtensionEnds
  PROVE  TableInv' /\ WaitInv' /\ FlightInv' /\ RightStation'
<1>1. PICK c : c = scen.replies[round]
  OBVIOUS
<1>2. /\ out' = {} /\ UNCHANGED <<learnt, req, rx, scen, dropped, air>> /\ pc' \in {"idle", "bootp"}
      /\ loading # "none" /\ (arptable' = arptable \/ arptable' = Decode(arptable, c.extension))
  BY <1>1 DEF ExtensionEnds, AfterReplies
<1>3. PICK o : o = c.extension
  OBVIOUS
<1>4. o.gateway \in Named(scen)
  <2>1. round \in 1..Len(scen.replies)
    BY <1>2 DEF IInv, LoadInv
  <2> QED BY <1>1, <1>3, <2>1, ReplyAddresses DEF IInv
<1>5. PICK l : l = learnt
  OBVIOUS
<1>6. TableOK(arptable, l)
  BY <1>5, TableIsOK DEF IInv
<1>7. PICK t : t = arptable'
  OBVIOUS
<1>8. TableOK(t, l)
  <2>1. PICK s : s = arptable
    OBVIOUS
  <2>2. TableOK(s, l)
    BY <1>6, <2>1
  <2>3. TableOK(Decode(s, o), l)
    BY <1>4, <2>2, DecodeKeeps
  <2> QED BY <1>2, <1>3, <1>7, <2>1, <2>2, <2>3
<1>9. TableInv'
  BY <1>2, <1>5, <1>7, <1>8, OKIsTable DEF IInv
<1>10. Other(out')
  BY <1>2 DEF Other
<1> QED BY <1>2, <1>9, <1>10, TableStep

-----------------------------------------------------------------------------
LEMMA OtherFrames ==
  ASSUME NEW r, NEW f
  PROVE  Other(PduOf(r)) /\ Other(ArpAnswer(f)) /\ Other(MarkerAnswer(f))
  BY DEF Other, PduOf, Pdu, ArpAnswer, MarkerAnswer

LEMMA PollEmptyKeeps ==
  ASSUME IInv, PollEmpty
  PROVE  TableInv' /\ WaitInv' /\ FlightInv' /\ RightStation'
<1>1. PICK r : r = send_lacp_reports(lacp, FALSE)
  OBVIOUS
<1>2. PICK e : e = PduOf(r)
  OBVIOUS
<1>3. Other(e)
  BY <1>2, OtherFrames
<1>4. /\ Looping /\ UNCHANGED <<req, rx, scen, dropped>>
      /\ \/ BeginAttempt(e)
         \/ out' = e /\ UNCHANGED <<config, waiting, air>>
         \/ UNCHANGED config /\ Failed(e)
         \/ pc = "arp" /\ UNCHANGED config /\ AskArp(entry, NextRetry(retry), e)
         \/ pc = "wait" /\ ip_transmit(req, e) /\ UNCHANGED config
  BY <1>1, <1>2 DEF PollEmpty
<1>5. \A n \in dropped' : n \in Nat /\ n < req
  BY <1>4 DEF IInv, WaitInv
<1>6. CASE BeginAttempt(e)
  BY <1>3, <1>4, <1>6, AttemptKeeps
<1>7. CASE out' = e /\ UNCHANGED <<config, waiting, air>>
  <2>1. Other(out') /\ pc' = pc /\ entry' = entry
    BY <1>3, <1>7 DEF waiting
  <2> QED BY <1>4, <1>5, <1>7, <2>1, QuietStep DEF IInv
<1>8. CASE UNCHANGED config /\ Failed(e)
  <2>1. Other(out') /\ pc' = "failed" /\ entry' = entry /\ air' = air
    BY <1>3, <1>8 DEF Failed
  <2> QED BY <1>4, <1>5, <1>8, <2>1, QuietStep DEF IInv
<1>9. CASE pc = "arp" /\ UNCHANGED config /\ AskArp(entry, NextRetry(retry), e)
  <2>1. RightStation' /\ Answers(req') /\ pc' = "arp" /\ entry' = entry
    BY <1>3, <1>9, AskedRight
  <2>2. TableInv' /\ Dest' = Dest /\ Ent' = Ent
    BY <1>4, <1>9, TableStays DEF IInv, TableInv
  <2>3. WaitInv'
    BY <1>4, <1>5, <1>9, <2>1, <2>2 DEF IInv, WaitInv
  <2>4. FlightInv'
    BY <1>4, <1>9, <2>1, FlightStays DEF IInv, WaitInv
  <2> QED BY <2>1, <2>2, <2>3, <2>4
<1>10. CASE pc = "wait" /\ ip_transmit(req, e) /\ UNCHANGED config
  <2>1. Addressed
    BY <1>10 DEF IInv, TableInv
  <2>2. PICK n : n = req
    OBVIOUS
  <2>3. n = req' /\ ip_transmit(n, e)
    BY <1>4, <1>10, <2>2
  <2> QED BY <1>3, <1>4, <1>10, <2>1, <2>3, TransmissionStep DEF IInv
<1> QED BY <1>4, <1>6, <1>7, <1>8, <1>9, <1>10

(* The reply ip_transmit() waited for: the datagram goes to its sender.    *)
LEMMA ResolvedKeeps ==
  ASSUME IInv, NEW f, FrameOK(f), f.kind = "arpreply", f.ip = arptable[entry].ipaddr,
         NEW e, Other(e), pc = "arp", Sent(IpFrame(f.node, req), e),
         arptable' = [arptable EXCEPT ![entry].node = f.node],
         learnt' = IF entry = ARP_GATEWAY THEN f.ip ELSE learnt,
         UNCHANGED <<netmask, req, scen, dropped>>, rx # <<>>, rx' = Tail(rx)
  PROVE  TableInv' /\ WaitInv' /\ FlightInv' /\ RightStation'
<1>1. Addressed /\ Dest # IP_BROADCAST /\ entry = Ent
  BY DEF IInv, TableInv, WaitInv
<1>2. Ent \in {1, 2} /\ arptable[Ent].ipaddr = Hop
  BY <1>1, EntFacts DEF IInv
<1>3. Hop \in DOMAIN Station /\ f.node = Station[Hop] /\ f.node # NoNode
  BY <1>1, <1>2, StationAssumption DEF FrameOK
<1>4. PICK n : n = req
  OBVIOUS
<1>5. RightStation' /\ Answers(n) /\ pc' = "wait"
  <2>1. PICK node : node = f.node
    OBVIOUS
  <2>2. Sent(IpFrame(node, n), e) /\ node = Station[Hop]
    BY <1>3, <1>4, <2>1
  <2> QED BY <2>2, SentRight
<1>6. PICK x : x = Ent
  OBVIOUS
<1>7. /\ x \in {1, 2} /\ arptable' = [arptable EXCEPT ![x].node = f.node]
      /\ arptable[x].ipaddr = Hop
  BY <1>1, <1>2, <1>6
<1>8. /\ DOMAIN arptable = 0..2 /\ arptable' = [k \in 0..2 |-> arptable'[k]]
      /\ \A k \in 0..2 : k # x => arptable'[k] = arptable[k]
      /\ arptable'[x] = [ipaddr |-> Hop, node |-> f.node]
  <2>1. arptable = [k \in 0..2 |-> arptable[k]] /\ x \in 0..2
    BY <1>7 DEF IInv, TableInv
  <2>2. arptable[x] = [ipaddr |-> Hop, node |-> arptable[x].node]
    BY <1>7, <2>1 DEF IInv, TableInv
  <2>3. arptable'[x] = [arptable[x] EXCEPT !.node = f.node]
    BY <1>7, <2>1
  <2>4. arptable'[x] = [ipaddr |-> Hop, node |-> f.node]
    BY <2>2, <2>3
  <2> QED BY <1>7, <2>1, <2>4
<1>9. \A k \in 0..2 : arptable'[k].ipaddr = arptable[k].ipaddr
  BY <1>7, <1>8
<1>10. Dest' = Dest /\ Hop' = Hop /\ Ent' = Ent
  <2>1. DOMAIN arptable' = DOMAIN arptable
    BY <1>8
  <2> QED BY <1>9, <2>1, EntStays DEF IInv
<1>11. TableInv'
  <2>1. 1 \in 0..2 /\ 2 \in 0..2 /\ 0 \in 0..2
    OBVIOUS
  <2>2. \A k \in 0..2 : arptable'[k] = [ipaddr |-> arptable'[k].ipaddr, node |-> arptable'[k].node]
    BY <1>8 DEF IInv, TableInv
  <2>3. arptable'[1].node # NoNode =>
          arptable'[1].ipaddr \in DOMAIN Station /\ arptable'[1].node = Station[arptable'[1].ipaddr]
    <3>1. CASE x = 1
      BY <1>3, <1>8, <3>1
    <3>2. CASE x = 2
      <4>1. arptable'[1] = arptable[1]
        BY <1>8, <2>1, <3>2
      <4> QED BY <4>1 DEF IInv, TableInv
    <3> QED BY <1>7, <3>1, <3>2
  <2>4. arptable'[2].node # NoNode => learnt' \in DOMAIN Station /\ arptable'[2].node = Station[learnt']
    <3>1. CASE x = 2
      <4>1. learnt' = Hop
        BY <1>1, <1>2, <1>6, <3>1 DEF ARP_GATEWAY
      <4> QED BY <1>3, <1>8, <3>1, <4>1
    <3>2. CASE x = 1
      <4>1. learnt' = learnt /\ arptable'[2] = arptable[2]
        BY <1>1, <1>6, <1>8, <2>1, <3>2 DEF ARP_GATEWAY
      <4> QED BY <4>1 DEF IInv, TableInv
    <3> QED BY <1>7, <3>1, <3>2
  <2>5. /\ scen' \in Scenarios /\ arptable'[0].ipaddr \in Lent(scen') \cup {ZeroIP}
        /\ \A k \in {1, 2} : arptable'[k].ipaddr \in Named(scen') \cup {ZeroIP}
    BY <1>9, <2>1 DEF IInv, TableInv
  <2>6. Addressed'
    BY <1>1, <1>9, <2>1 DEF Addressed, ARP_CLIENT
  <2> QED BY <1>8, <2>2, <2>3, <2>4, <2>5, <2>6 DEF TableInv
<1>12. arptable'[Ent'].node # NoNode
  BY <1>3, <1>6, <1>8, <1>10
<1>13. WaitInv'
  BY <1>5, <1>12 DEF IInv, WaitInv
<1>14. FlightInv'
  BY <1>4, <1>5, FlightStays DEF IInv, WaitInv
<1> QED BY <1>5, <1>11, <1>13, <1>14

LEMMA HeadOK ==
  ASSUME FlightInv, rx # <<>>
  PROVE  FrameOK(Head(rx))
<1>1. PICK S : rx \in Seq(S) /\ \A f \in S : FrameOK(f)
  BY DEF FlightInv, RxInv
<1> QED BY <1>1, HeadTailProperties

LEMMA PollFrameKeeps ==
  ASSUME IInv, PollFrame
  PROVE  TableInv' /\ WaitInv' /\ FlightInv' /\ RightStation'
<1>1. PICK f, r0, r1 :
        f = Head(rx) /\ Offer(f, PduOf(r0) \cup PduOf(r1) \cup ArpAnswer(f) \cup MarkerAnswer(f))
  BY Zenon DEF PollFrame
<1>2. PICK e : e = PduOf(r0) \cup PduOf(r1) \cup ArpAnswer(f) \cup MarkerAnswer(f)
  OBVIOUS
<1>3. /\ f = Head(rx)
      /\ dropped' = IF pc = "arp" /\ f.kind = "udp" THEN dropped \cup {f.n} ELSE dropped
      /\ \/ /\ pc = "arp" /\ await_arp(f)
            /\ arptable' = [arptable EXCEPT ![entry].node = f.node]
            /\ learnt' = IF entry = ARP_GATEWAY THEN f.ip ELSE learnt
            /\ Sent(IpFrame(f.node, req), e) /\ UNCHANGED netmask
         \/ pc' = "idle" /\ out' = e /\ UNCHANGED <<config, entry, retry, left, air>>
         \/ out' = e /\ UNCHANGED <<config, waiting, air>>
  <2>1. Offer(f, e)
    BY <1>1, <1>2
  <2> QED BY <1>1, <2>1 DEF Offer
<1>4. Other(e)
  <2>1. Other(PduOf(r0)) /\ Other(PduOf(r1)) /\ Other(ArpAnswer(f)) /\ Other(MarkerAnswer(f))
    BY OtherFrames
  <2> QED BY <1>2, <2>1 DEF Other
<1>5. rx # <<>> /\ rx' = Tail(rx) /\ UNCHANGED <<req, scen>>
  BY DEF PollFrame
<1>6. FrameOK(f)
  BY <1>3, <1>5, HeadOK DEF IInv
<1>7. \A n \in dropped' : n \in Nat /\ n < req
  <2>1. req \in Nat /\ \A n \in dropped : n \in Nat /\ n < req
    BY DEF IInv, WaitInv
  <2>2. pc = "arp" /\ f.kind = "udp" => f.n \in Nat /\ f.n < req
    BY <1>6, <2>1 DEF FrameOK
  <2> QED BY <1>3, <2>1, <2>2
<1>8. CASE /\ pc = "arp" /\ await_arp(f)
           /\ arptable' = [arptable EXCEPT ![entry].node = f.node]
           /\ learnt' = IF entry = ARP_GATEWAY THEN f.ip ELSE learnt
           /\ Sent(IpFrame(f.node, req), e) /\ UNCHANGED netmask
  <2>1. f.kind = "arpreply" /\ f.ip = arptable[entry].ipaddr /\ dropped' = dropped
    BY <1>3, <1>8 DEF await_arp
  <2> QED BY <1>4, <1>5, <1>6, <1>8, <2>1, ResolvedKeeps
<1>9. CASE pc' = "idle" /\ out' = e /\ UNCHANGED <<config, entry, retry, left, air>>
  BY <1>4, <1>5, <1>7, <1>9, QuietStep DEF IInv
<1>10. CASE out' = e /\ UNCHANGED <<config, waiting, air>>
  <2>1. pc' = pc /\ entry' = entry
    BY <1>10 DEF waiting
  <2> QED BY <1>4, <1>5, <1>7, <1>10, <2>1, QuietStep DEF IInv
<1> QED BY <1>3, <1>8, <1>9, <1>10

LEMMA ArriveKeeps ==
  ASSUME IInv, Arrive
  PROVE  TableInv' /\ WaitInv' /\ FlightInv' /\ RightStation'
<1>1. PICK f \in air \cup Unasked : rx' = Append(rx, f)
  BY DEF Arrive
<1>2. /\ UNCHANGED <<config, req, air, scen, dropped>> /\ out' = {}
      /\ pc' = pc /\ entry' = entry
  BY DEF Arrive, waiting
<1>3. FrameOK(f)
  <2>1. CASE f \in air
    BY <2>1 DEF IInv, FlightInv
  <2>2. CASE f \in SwitchPdus
    BY <2>2 DEF SwitchPdus, FrameOK
  <2>3. CASE f \in {[kind |-> k, ip |-> arptable[ARP_CLIENT].ipaddr, node |-> "peer"] :
                     k \in scen.strays \cap {"arprequest", "damaged", "marker"}}
    BY <2>3 DEF FrameOK
  <2> QED BY <1>1, <2>1, <2>2, <2>3 DEF Unasked
<1>4. TableInv' /\ Dest' = Dest /\ Ent' = Ent
  BY <1>2, TableStays DEF IInv, TableInv
<1>5. WaitInv'
  BY <1>2, <1>4 DEF IInv, WaitInv, config
<1>6. RxInv'
  <2>1. PICK S : rx \in Seq(S) /\ \A g \in S : FrameOK(g)
    BY DEF IInv, FlightInv, RxInv
  <2>2. PICK T : T = S \cup {f}
    OBVIOUS
  <2>3. rx \in Seq(T)
    BY <2>1, <2>2, SeqMonotonic
  <2>4. rx' \in Seq(T)
    BY <1>1, <2>2, <2>3, AppendProperties
  <2>5. \A g \in T : FrameOK(g)'
    BY <1>2, <1>3, <2>1, <2>2 DEF FrameOK
  <2> QED BY <2>4, <2>5 DEF RxInv
<1>7. \A g \in air' : FrameOK(g)'
  BY <1>2 DEF IInv, FlightInv, FrameOK
<1>8. RightStation'
  BY <1>2 DEF RightStation
<1> QED BY <1>4, <1>5, <1>6, <1>7, <1>8 DEF FlightInv

LEMMA SurroundingsKeep ==
  ASSUME IInv, Drain \/ Lose \/ Tick
  PROVE  TableInv' /\ WaitInv' /\ FlightInv' /\ RightStation'
<1>1. /\ UNCHANGED <<config, scen, req, entry, dropped, rx>> /\ air' \subseteq air
      /\ pc' \in {pc, "drain"} /\ out' = {}
  BY DEF Drain, Lose, Tick, waiting
<1>2. \A n \in dropped' : n \in Nat /\ n < req
  BY <1>1 DEF IInv, WaitInv
<1>3. Other(out')
  BY <1>1 DEF Other
<1> QED BY <1>1, <1>2, <1>3, QuietStep DEF IInv

-----------------------------------------------------------------------------
LEMMA LacpKeeps ==
  ASSUME IInv, Next
  PROVE  LacpInv'
<1> USE DEF LacpInv
<1>1. Timing(lacp, silence) /\ (looped => lacp.current_while_timer # Passed)
  BY DEF IInv
<1>2. CASE Drain \/ ExtensionEnds \/ Request \/ Arrive \/ Lose
  <2>1. UNCHANGED <<lacp, silence, looped>>
    BY <1>2 DEF Drain, ExtensionEnds, Request, Arrive, Lose
  <2> QED BY <1>1, <2>1
<1>3. CASE PollEmpty \/ PollReply
  <2>1. PICK r : r = send_lacp_reports(lacp, FALSE)
    OBVIOUS
  <2>2. lacp' = r.l /\ silence' = silence
    BY <1>3, <2>1 DEF PollEmpty, PollReply
  <2>3. Timing(r.l, silence) /\ r.l.current_while_timer # Passed
    BY <1>1, <2>1, ReportsTiming
  <2> QED BY <2>2, <2>3
<1>4. CASE PollFrame
  <2>1. PICK f : f = Head(rx)
    OBVIOUS
  <2>2. PICK r0 : r0 = send_lacp_reports(lacp, FALSE)
    OBVIOUS
  <2>3. Timing(r0.l, silence) /\ r0.l.current_while_timer # Passed
    BY <1>1, <2>2, ReportsTiming
  <2>4. FrameOK(f)
    BY <1>4, <2>1, HeadOK DEF IInv, PollFrame
  <2>5. PICK r1 : r1 = ProcessSlow(r0.l, f)
    OBVIOUS
  <2>6. lacp' = r1.l /\ silence' = IF f.kind = "lacp" THEN 0 ELSE silence
    BY <1>4, <2>1, <2>2, <2>5, Zenon DEF PollFrame
  <2>7. CASE f.kind = "lacp"
    <3>1. r1 = ProcessPdu(r0.l, f.pdu) /\ silence' = 0
      BY <2>7, <2>5, <2>6 DEF ProcessSlow
    <3>2. f.pdu.actor.id = "switch"
      BY <2>4, <2>7 DEF FrameOK
    <3>3. Timing(r1.l, 0) /\ r1.l.current_while_timer # Passed
      BY <2>3, <3>1, <3>2, PduTiming
    <3> QED BY <2>6, <3>1, <3>3
  <2>8. CASE f.kind # "lacp"
    <3>1. r1.l = r0.l /\ silence' = silence
      BY <2>8, <2>5, <2>6 DEF ProcessSlow
    <3> QED BY <2>3, <2>6, <3>1
  <2> QED BY <2>7, <2>8
<1>5. CASE Tick
  <2>1. PICK k : k = Counting(lacp)
    OBVIOUS
  <2>2. PICK z : z = IF silence = -1 \/ silence = Forgotten THEN silence ELSE silence + 1
    OBVIOUS
  <2>3. lacp' = k /\ silence' = z /\ looped' = FALSE
    BY <1>5, <2>1, <2>2 DEF Tick
  <2>4. Timing(k, z)
    BY <1>1, <2>1, <2>2, TickTiming
  <2> QED BY <2>3, <2>4
<1> QED BY <1>2, <1>3, <1>4, <1>5 DEF Next, Iterate

LEMMA LoadKeeps ==
  ASSUME IInv, Next
  PROVE  LoadInv'
<1>1. round \in Nat /\ (loading # "none" => round \in 1..Len(scen.replies))
  BY DEF IInv, LoadInv
<1>2. CASE PollReply
  <2>1. round' = round + 1 /\ round < Len(scen.replies) /\ scen' = scen
    BY <1>2 DEF PollReply
  <2>2. Len(scen.replies) \in Nat
    <3>1. scen.replies \in Seq(Reply)
      BY ScenariosAssumption DEF IInv, TableInv
    <3> QED BY <3>1
  <2> QED BY <1>1, <2>1, <2>2 DEF LoadInv
<1>3. CASE Request
  <2>1. round' = round /\ scen' = scen /\ (loading = "none" => loading' = "none")
    BY <1>3 DEF Request
  <2> QED BY <1>1, <2>1 DEF LoadInv
<1>4. CASE ExtensionEnds
  BY <1>1, <1>4 DEF ExtensionEnds, LoadInv
<1>5. CASE Drain \/ Iterate \/ Arrive \/ Lose \/ Tick
  <2>1. UNCHANGED <<round, loading, scen>>
    BY <1>5 DEF Drain, Iterate, PollEmpty, PollFrame, BeginAttempt, Arrive, Lose, Tick, bootp
  <2> QED BY <1>1, <2>1 DEF LoadInv
<1> QED BY <1>2, <1>3, <1>4, <1>5 DEF Next

LEMMA Starts == Init => IInv
<1> SUFFICES ASSUME Init PROVE IInv
  OBVIOUS
<1>1. TableInv
  <2>1. arptable = [k \in 0..2 |-> [ipaddr |-> ZeroIP, node |-> IF k = 0 THEN NodeAddr ELSE NoNode]]
    BY DEF Init, MAX_ARP, ARP_CLIENT
  <2>2. scen \in Scenarios /\ pc = "idle"
    BY DEF Init
  <2>3. \A k \in 0..2 : arptable[k] = [ipaddr |-> arptable[k].ipaddr, node |-> arptable[k].node]
    BY <2>1
  <2>4. /\ arptable[0].ipaddr = ZeroIP
        /\ \A k \in {1, 2} : arptable[k].node = NoNode /\ arptable[k].ipaddr = ZeroIP
    BY <2>1
  <2> QED BY <2>1, <2>2, <2>3, <2>4 DEF TableInv
<1>2. WaitInv /\ LoadInv /\ RightStation
  BY DEF Init, WaitInv, LoadInv, RightStation
<1>3. FlightInv
  <2>1. rx \in Seq({}) /\ air = {}
    BY DEF Init
  <2> QED BY <2>1 DEF FlightInv, RxInv
<1>4. LacpInv
  <2>1. lacp = ZeroLacp /\ silence = -1 /\ looped = FALSE
    BY DEF Init
  <2>2. LacpState(ZeroLacp)
    BY DEF LacpState, LacpFields, ZeroLacp, Off
  <2>3. /\ ZeroLacp.partner.id = "none" /\ ZeroLacp.actor = {} /\ ZeroLacp.current_while_timer = Off
    BY DEF ZeroLacp
  <2>4. "none" # "switch"
    OBVIOUS
  <2> QED BY <2>1, <2>2, <2>3, <2>4, Times DEF LacpInv, Timing
<1> QED BY <1>1, <1>2, <1>3, <1>4 DEF IInv

LEMMA Preserved == IInv /\ [Next]_vars => IInv'
<1>1. ASSUME IInv, Next PROVE TableInv' /\ WaitInv' /\ FlightInv' /\ RightStation'
  BY <1>1, RequestKeeps, PollEmptyKeeps, PollReplyKeeps, ExtensionKeeps, PollFrameKeeps,
     ArriveKeeps, SurroundingsKeep DEF Next, Iterate
<1>2. ASSUME IInv, Next PROVE IInv'
  BY <1>1, <1>2, LacpKeeps, LoadKeeps DEF IInv
<1>3. ASSUME IInv, UNCHANGED vars PROVE IInv'
  <2>1. UNCHANGED <<config, round, loading, scen, req, entry, dropped, rx, air, pc, out, lacp, silence,
                    looped>>
    BY <1>3 DEF vars, waiting, bootp
  <2>2. TableInv' /\ Dest' = Dest /\ Ent' = Ent
    BY <1>3, <2>1, TableStays DEF IInv, TableInv
  <2>3. WaitInv' /\ LoadInv'
    BY <1>3, <2>1, <2>2 DEF IInv, WaitInv, LoadInv, config
  <2>4. FlightInv' /\ RightStation'
    BY <1>3, <2>1 DEF IInv, FlightInv, RxInv, FrameOK, RightStation, Arrived, Renamed, config
  <2>5. LacpInv'
    BY <1>3, <2>1 DEF IInv, LacpInv
  <2> QED BY <2>2, <2>3, <2>4, <2>5 DEF IInv
<1> QED BY <1>2, <1>3

-----------------------------------------------------------------------------
(* The invariant of the loop holds of every behaviour.                     *)
THEOREM InStep == Spec => []IInv
<1>1. Init => IInv
  BY Starts
<1>2. IInv /\ [Next]_vars => IInv'
  BY Preserved
<1> QED BY <1>1, <1>2, PTL DEF Spec

(* Every datagram goes to the station that has the address of the next     *)
(* hop, under any sequence of attempts, replies and extension files, but   *)
(* for the gateway an option has given another address since it was        *)
(* resolved in the same attempt.                                           *)
THEOREM DatagramsArrive == Spec => []RightStation
<1>1. IInv => RightStation
  BY DEF IInv
<1> QED BY <1>1, InStep, PTL

(* What await_reply() throws away while ip_transmit() waits for ARP is     *)
(* never the answer to the present request.                                *)
THEOREM AnswersKept == Spec => []OwnAnswerKept
<1>1. IInv => OwnAnswerKept
  BY DEF IInv, WaitInv, OwnAnswerKept
<1> QED BY <1>1, InStep, PTL

(* What the switch said is trusted, marked expired and forgotten in time.  *)
THEOREM SwitchTrustedInTime == Spec => []PartnerFresh
<1>1. IInv => PartnerFresh
  <2> SUFFICES ASSUME Timing(lacp, silence), looped => lacp.current_while_timer # Passed
               PROVE  PartnerFresh
    BY DEF IInv, LacpInv
  <2>1. silence \in (-1)..Forgotten
    BY DEF Timing
  <2>2. CASE lacp.partner.id # "switch"
    <3>1. "EXPIRED" \notin lacp.actor /\ silence \in {-1, Forgotten}
      BY <2>2 DEF Timing
    <3> QED BY <2>2, <3>1, Times DEF PartnerFresh, LONG, SHORT
  <2>3. CASE lacp.partner.id = "switch" /\ "EXPIRED" \notin lacp.actor
    <3>1. looped => silence <= LONG
      BY <2>1, <2>3, Times DEF Timing
    <3> QED BY <2>3, <3>1 DEF PartnerFresh, LONG
  <2>4. CASE lacp.partner.id = "switch" /\ "EXPIRED" \in lacp.actor
    BY <2>4 DEF Timing, PartnerFresh, LONG
  <2> QED BY <2>2, <2>3, <2>4
<1> QED BY <1>1, InStep, PTL
=============================================================================
