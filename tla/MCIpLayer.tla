----------------------------- MODULE MCIpLayer ------------------------------
(* The server on our network, then behind one gateway and then another; a   *)
(* reply whose extension file changes the gateway it was loaded through; and *)
(* a client that broadcasts while a switch speaks LACP to it.                *)
EXTENDS IpLayer

Me == <<10, 0, 0, 2>>
Near == <<10, 0, 0, 1>>
Far == <<192, 168, 1, 1>>
Gate1 == <<10, 0, 0, 8>>
Gate2 == <<10, 0, 0, 9>>
MCStation == [ip \in {Near, Gate1, Gate2} |->
                CASE ip = Near -> "server" [] ip = Gate1 -> "gate1" [] ip = Gate2 -> "gate2"]
NoOptions == [gateway |-> ZeroIP, netmask |-> 0]
Lease(siaddr, gateway) ==
    [first |-> TRUE, yiaddr |-> Me, siaddr |-> siaddr, giaddr |-> ZeroIP,
     options |-> [NoOptions EXCEPT !.gateway = gateway], extpath |-> FALSE, extension |-> NoOptions]
\* The second server lends us an address of a class C network, and a mask that
\* takes in the whole network.
Wide == [Lease(Far, ZeroIP) EXCEPT !.yiaddr = <<192, 168, 7, 7>>, !.giaddr = Gate2,
                                   !.options.netmask = 2]
\* Options that change the gateway, in a file that is loaded through the old one.
Extended == [Lease(Far, Gate1) EXCEPT !.extpath = TRUE, !.extension.gateway = Gate2]
\* An offer without an address, later in the same attempt.
Proxy == [Lease(Far, Gate1) EXCEPT !.first = FALSE, !.yiaddr = ZeroIP]

Resolving == [replies |-> <<Lease(Near, ZeroIP), Lease(Far, Gate1), Lease(Far, Gate2)>>,
              requests |-> 3, broadcast |-> FALSE, strays |-> {}]
Extending == [replies |-> <<Extended, Proxy, Lease(Far, Gate2)>>, requests |-> 2,
              broadcast |-> FALSE, strays |-> {}]
Answering == [replies |-> <<Lease(Near, Gate1), Wide>>, requests |-> 2, broadcast |-> FALSE,
              strays |-> {"arprequest", "damaged"}]
Aggregating == [replies |-> <<Lease(Near, ZeroIP)>>, requests |-> 1, broadcast |-> TRUE,
                strays |-> {"lacp", "marker"}]
MCScenarios == {Resolving, Extending, Answering, Aggregating}
MCSwitchStates == {{"ACTIVITY"}, {"ACTIVITY", "TIMEOUT", "AGGREGATION"}}
=============================================================================
