-------------------------------- MODULE Lacp --------------------------------
(***************************************************************************)
(* The LACP state of main/eb/proto_eth_slow.c (compiled with PROTO_LACP):  *)
(* operators on the record l that stands for the static variable lacp.     *)
(* A state byte is the set of its flags; the fields that identify a system *)
(* (LACP_CMP_LEN bytes) are one value.  A timer counts the ticks to the    *)
(* time it is set to: Off is the value 0 of the code, Passed that the time *)
(* lies in the past.                                                       *)
(***************************************************************************)
EXTENDS Integers

CONSTANTS FAST_PERIODIC_TIME, SLOW_PERIODIC_TIME, NodeAddr

ASSUME LacpAssumption ==
    /\ FAST_PERIODIC_TIME \in Nat \ {0} /\ SLOW_PERIODIC_TIME \in Nat
    /\ FAST_PERIODIC_TIME < SLOW_PERIODIC_TIME

SHORT_TIMEOUT_TIME == 3 * FAST_PERIODIC_TIME
LONG_TIMEOUT_TIME == 3 * SLOW_PERIODIC_TIME
LACP_NTT_MASK == {"ACTIVITY", "TIMEOUT", "SYNCHRONIZATION", "AGGREGATION"}

Off == -2
Passed == -1
Counted(t) == IF t < 0 THEN t ELSE t - 1
lacp_timer_expired(t) == t = Passed

ZeroLacp == [system |-> "none", actor |-> {}, partner |-> [id |-> "none", state |-> {}],
             current_while_timer |-> Off, periodic_timer |-> Off]

InSync == {"SYNCHRONIZATION", "COLLECTING", "DISTRIBUTING"}
lacp_init_state(mac) ==
    [system |-> mac, actor |-> InSync \cup {"DEFAULTED"},
     partner |-> [id |-> "default", state |-> InSync \cup {"ACTIVITY", "DEFAULTED"}],
     current_while_timer |-> Off, periodic_timer |-> Off]

\* What the other side says of us is not what we are.
lacp_update_ntt(l, pkt) ==
    \/ pkt.partner.id # l.system
    \/ pkt.partner.state \cap LACP_NTT_MASK # l.actor \cap LACP_NTT_MASK

lacp_record_pdu(l, pkt) ==
    LET agrees == /\ pkt.partner.id = l.system
                  /\ "AGGREGATION" \in pkt.partner.state <=> "AGGREGATION" \in l.actor
        insync == agrees \/ "AGGREGATION" \notin pkt.actor.state
        told == pkt.actor.state \ {"SYNCHRONIZATION"}
    IN  [l EXCEPT !.actor = @ \ {"DEFAULTED"},
                  !.partner = [id |-> pkt.actor.id,
                               state |-> IF insync THEN told \cup {"SYNCHRONIZATION"} ELSE told]]

lacp_start_periodic_timer(l) ==
    IF "ACTIVITY" \in l.partner.state \cup l.actor
    THEN [l EXCEPT !.periodic_timer = IF "TIMEOUT" \in l.partner.state
                                      THEN FAST_PERIODIC_TIME ELSE SLOW_PERIODIC_TIME]
    ELSE l

\* A mutant: the flag of an earlier expiry stays.
lacp_start_current_while_timer_Expired(l) ==
    [l EXCEPT !.current_while_timer = LONG_TIMEOUT_TIME]

lacp_start_current_while_timer(l) ==
    [l EXCEPT !.current_while_timer = IF "TIMEOUT" \in l.actor THEN SHORT_TIMEOUT_TIME
                                      ELSE LONG_TIMEOUT_TIME,
              !.actor = @ \ {"EXPIRED"}]

\* memcmp(nic.node_addr, lacp.pkt.actor.system): the state is set up on first use.
SetUp(l) == IF l.system = NodeAddr THEN l ELSE lacp_init_state(NodeAddr)

\* What the partner told last has expired: ask it to hurry, then forget it.
Expire(l) ==
    IF "EXPIRED" \in l.actor THEN lacp_init_state(NodeAddr)
    ELSE [l EXCEPT !.partner.state = (@ \ {"SYNCHRONIZATION"}) \cup {"TIMEOUT"},
                   !.actor = @ \cup {"EXPIRED"},
                   !.current_while_timer = SHORT_TIMEOUT_TIME]

\* l is the state afterwards, sent whether a PDU (with the contents of l) was sent.
send_lacp_reports(l0, ntt) ==
    LET l1 == SetUp(l0)
        late == lacp_timer_expired(l1.current_while_timer)
        l2 == IF late THEN Expire(l1) ELSE l1
        need == \/ ntt
                \/ late /\ "EXPIRED" \notin l1.actor
                \/ lacp_timer_expired(l2.periodic_timer)
    IN  [l |-> IF need THEN lacp_start_periodic_timer(l2) ELSE l2, sent |-> need]

\* process_eth_slow(), for a LACP PDU.
ProcessPdu(l0, pkt) ==
    LET l1 == SetUp(l0)
    IN  send_lacp_reports(lacp_start_current_while_timer(lacp_record_pdu(l1, pkt)),
                          lacp_update_ntt(l1, pkt))

Counting(l) == [l EXCEPT !.current_while_timer = Counted(@), !.periodic_timer = Counted(@)]
=============================================================================
