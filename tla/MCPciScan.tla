----------------------------- MODULE MCPciScan -----------------------------
(* Two buses with two slots of three functions, and the two drivers of     *)
(* main/eb-pci_drivers.c: network cards are known by their number, disk    *)
(* controllers by their number or their class.                             *)
EXTENDS PciScan, TLC

MCTypes == {"NIC_DRIVER", "DISK_DRIVER"}
MCDrivers ==
  << [type |-> "NIC_DRIVER", ids |-> {"8139"}, class |-> 0, many |-> FALSE],
     [type |-> "DISK_DRIVER", ids |-> {"82801CA"}, class |-> 1, many |-> TRUE] >>

Nic(a)  == [id |-> "8139", class |-> 4, io |-> <<a>>]
Ide(a)  == [id |-> "ide", class |-> 3, io |-> a]
Piix    == [id |-> "82801CA", class |-> 2, io |-> <<>>]
Other   == [id |-> "other", class |-> 0, io |-> <<1>>]

Of(m, f) == [multi |-> m, fn |-> f @@ [g \in 0..2 |-> Nothing]]
MCDevices ==
  { Of(TRUE, 0 :> Nothing), Of(FALSE, 0 :> Nothing),
    Of(FALSE, 0 :> Nic(2) @@ 1 :> Nic(2) @@ 2 :> Nic(2)), Of(FALSE, 0 :> Ide(<<3, 4>>)),
    Of(TRUE, 0 :> Nic(5) @@ 1 :> Ide(<<>>) @@ 2 :> Nic(6)),
    Of(TRUE, 0 :> Other @@ 1 :> Piix @@ 2 :> Ide(<<7>>)) }
=============================================================================
