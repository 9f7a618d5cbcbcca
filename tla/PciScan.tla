------------------------------ MODULE PciScan ------------------------------
(***************************************************************************)
(* Finding the disk controller or the network card: probe() of             *)
(* main/eb-probe.c, pci_probe() of main/eb/pci_probe.c, and the bus scan   *)
(* of main/eb/pci.c, which starts again behind the device found last       *)
(* whenever that device's driver refuses it.                               *)
(*                                                                         *)
(* A slot of a bus holds a device: what its functions say when their       *)
(* configuration is read, and the multi-function bit of the header type.   *)
(* A device with one function may answer for all of them; an empty slot    *)
(* answers with all ones or all zeros.                                     *)
(*                                                                         *)
(* find_pci() is not part of the sources; it is taken to be                *)
(* scan_pci_bus().                                                         *)
(***************************************************************************)
EXTENDS Integers, Sequences, FiniteSetsExt

CONSTANTS
  Buses,          \* number of buses (256)
  Slots, Funcs,   \* devices of a bus (32), functions of a device (8)
  ProgIf,         \* a class holds this many programming interfaces (256)
  Drivers,        \* pci_drivers_p[]: records [type, ids, class, many]
  Types,          \* NIC_DRIVER, DISK_DRIVER
  Devices         \* what a slot may hold: records [multi, fn], where
                  \* fn[f] is Nothing or a record [id, class, io]

Nothing == [id |-> "nothing", class |-> 0, io |-> <<>>]
NoDriver == 0

OfType(t) == { d \in 1..Len(Drivers) : Drivers[d].type = t }
ById(t, k) == { d \in OfType(t) : k.id \in Drivers[d].ids }
ByClass(t, k) == { d \in OfType(t) : k.class # 0 /\ k.class \div ProgIf = Drivers[d].class }

BusSizes == {Buses, Slots, Funcs, ProgIf} \subseteq Nat \ {0} /\ Len(Drivers) \in Nat
(* The comment in scan_drivers(): "Assume there is only one match of the   *)
(* correct type".                                                          *)
OneMatch ==
  \A t \in Types, dev \in Devices, f \in 0..(Funcs - 1) :
    \A d, e \in ById(t, dev.fn[f]) \cup ByClass(t, dev.fn[f]) : d = e
(* A device has a function 0, and answers alike for those it has not.      *)
Answers ==
  \A dev \in Devices :
    /\ dev.multi \in BOOLEAN /\ \A f \in 0..(Funcs - 1) : dev.fn[f].io \in Seq(Nat)
    /\ dev.fn[0] = Nothing => \A f \in 0..(Funcs - 1) : dev.fn[f] = Nothing
    /\ ~dev.multi => \A f \in 0..(Funcs - 1) : dev.fn[f] \in {dev.fn[0], Nothing}

ASSUME SizesAssumption == BusSizes
ASSUME OneMatchAssumption == OneMatch
ASSUME DevicesAssumption == Answers

VARIABLES
  config, type,             \* the slots; dev->type
  driver, at, ioaddr,       \* state->dev: driver, bus and devfn, ioaddr
  advance,                  \* state->advance
  first_driver, bus, devfn, multi,      \* locals of scan_pci_bus()
  scan_pc,
  how_probe,                \* "none" before the first call, "first"
                            \* (and failed), "next" (and worked)
  from, offered             \* history: where the scan resumed; the functions
                            \* that were given to a driver since PROBE_FIRST

state == <<driver, at, ioaddr>>
scan  == <<first_driver, bus, devfn, multi>>
scan_vars == <<config, type, state, advance, scan, scan_pc, how_probe, from, offered>>

LastDevfn == Slots * Funcs - 1
Position == (0..(Buses - 1)) \X (0..LastDevfn)
Nowhere == <<-1, 0>>
Before(p, q) == p[1] < q[1] \/ (p[1] = q[1] /\ p[2] < q[2])

DeviceAt(p) == config[p[1]][p[2] \div Funcs]
FunctionAt(p) == DeviceAt(p).fn[p[2] % Funcs]

NoProbeYet ==
  /\ driver = NoDriver /\ at = <<0, 0>> /\ ioaddr = 0 /\ advance = FALSE
  /\ first_driver = NoDriver /\ bus = 0 /\ devfn = 0 /\ multi = FALSE
  /\ scan_pc = "idle" /\ how_probe = "none" /\ from = Nowhere /\ offered = {}
ScanInit ==
  config \in [0..(Buses - 1) -> [0..(Slots - 1) -> Devices]] /\ type \in Types /\ NoProbeYet

-----------------------------------------------------------------------------
(* Mutant: the scan goes on where the one before ended.                    *)
ClearState_Dropped == UNCHANGED state

(* memset() of dev->state, and the reset in pci_probe().                   *)
ClearState == driver' = NoDriver /\ at' = <<0, 0>> /\ ioaddr' = 0

(* probe() with PROBE_FIRST; disk_open() calls it at any time.             *)
ProbeFirst ==
  /\ scan_pc = "idle"
  /\ ClearState /\ advance' = TRUE /\ how_probe' = "first" /\ scan_pc' = "loop"
  /\ from' = Nowhere /\ offered' = {}
  /\ UNCHANGED <<config, type, scan>>

(* probe() with PROBE_NEXT, the result of a probe that worked.             *)
ProbeNext ==
  /\ scan_pc = "idle" /\ how_probe = "next"
  /\ scan_pc' = "loop"
  /\ UNCHANGED <<config, type, state, advance, scan, how_probe, from, offered>>

(* The header type of the device the scan resumes at.                      *)
RestartMulti == driver # NoDriver /\ DeviceAt(at).multi

(* pci_probe() looks for a device, or stays with the one it has.           *)
FindPci ==
  /\ scan_pc = "loop" /\ advance
  /\ first_driver' = driver /\ bus' = at[1] /\ devfn' = at[2] /\ multi' = RestartMulti
  /\ from' = IF driver = NoDriver THEN Nowhere ELSE at
  /\ driver' = NoDriver /\ at' = <<0, 0>>
  /\ scan_pc' = "scan"
  /\ UNCHANGED <<config, type, ioaddr, advance, how_probe, offered>>

SameDevice ==
  /\ scan_pc = "loop" /\ ~advance
  /\ scan_pc' = "found"
  /\ UNCHANGED <<config, type, state, advance, scan, how_probe, from, offered>>

-----------------------------------------------------------------------------
(* Mutant: the last driver tried is tried again.                           *)
ScanDrivers_Again(k, last) ==
  LET all == ById(type, k) \cup ByClass(type, k) IN IF all # {} THEN Min(all) ELSE NoDriver

(* scan_drivers(): a driver that knows the device, else one for its class; *)
(* up to the last driver tried, or that one itself, they are skipped.      *)
ScanDrivers(k, last) ==
  LET byId    == { d \in ById(type, k) : d > last }
      byClass == ByClass(type, k) \ {last}
  IN  IF byId # {} THEN Min(byId) ELSE IF byClass # {} THEN Min(byClass) ELSE NoDriver

(* The multi-function bit as the scan knows it at <<bus, devfn>>.          *)
Multi == IF devfn % Funcs = 0 THEN DeviceAt(<<bus, devfn>>).multi ELSE multi

MoreDevfn == devfn < LastDevfn

FoundDriver ==
  LET p == <<bus, devfn>> IN
  IF (devfn % Funcs # 0 /\ ~Multi) \/ FunctionAt(p) = Nothing THEN NoDriver
  ELSE ScanDrivers(FunctionAt(p), first_driver)

(* Nothing to drive here.                                                  *)
ScanOn ==
  /\ scan_pc = "scan" /\ bus < Buses /\ MoreDevfn /\ FoundDriver = NoDriver
  /\ multi' = Multi /\ devfn' = devfn + 1 /\ first_driver' = NoDriver
  /\ UNCHANGED <<config, type, state, advance, bus, scan_pc, how_probe, from, offered>>

(* The address the driver will use: the last of the I/O addresses.         *)
IoAddr(k) == IF k.io = <<>> THEN ioaddr ELSE k.io[Len(k.io)]

ScanFound ==
  /\ scan_pc = "scan" /\ bus < Buses /\ MoreDevfn /\ FoundDriver # NoDriver
  /\ multi' = Multi
  /\ driver' = FoundDriver /\ at' = <<bus, devfn>> /\ ioaddr' = IoAddr(FunctionAt(at'))
  /\ scan_pc' = "found"
  /\ UNCHANGED <<config, type, advance, first_driver, bus, devfn, how_probe, from, offered>>

NextBus ==
  /\ scan_pc = "scan" /\ bus < Buses /\ ~MoreDevfn
  /\ bus' = bus + 1 /\ devfn' = 0
  /\ UNCHANGED <<config, type, state, advance, first_driver, multi, scan_pc, how_probe, from,
                 offered>>

ScanEnd ==
  /\ scan_pc = "scan" /\ bus = Buses
  /\ scan_pc' = "found"
  /\ UNCHANGED <<config, type, state, advance, scan, how_probe, from, offered>>

-----------------------------------------------------------------------------
(* PROBE_FAILED, which is PROBE_FIRST.                                     *)
ProbeFailed ==
  /\ scan_pc = "found" /\ driver = NoDriver
  /\ advance' = TRUE /\ how_probe' = "first" /\ scan_pc' = "idle"
  /\ UNCHANGED <<config, type, state, scan, from, offered>>

(* The driver takes the device.  One with several drives leaves dev->index *)
(* at the one it opened, and is asked again by the next probe.             *)
DriverAccepts ==
  /\ scan_pc = "found" /\ driver # NoDriver
  /\ advance' = ~Drivers[driver].many /\ how_probe' = "next" /\ scan_pc' = "idle"
  /\ offered' = offered \cup {at}
  /\ UNCHANGED <<config, type, state, scan, from>>

(* The driver's probe() fails: no link, no drive, or no further one.       *)
DriverRefuses ==
  /\ scan_pc = "found" /\ driver # NoDriver
  /\ advance' = TRUE /\ scan_pc' = "loop" /\ offered' = offered \cup {at}
  /\ UNCHANGED <<config, type, state, scan, how_probe, from>>

Calls == ProbeFirst \/ ProbeNext
Steps ==
  \/ FindPci \/ SameDevice \/ ScanOn \/ ScanFound \/ NextBus \/ ScanEnd
  \/ ProbeFailed \/ DriverAccepts \/ DriverRefuses
ScanNext == Calls \/ Steps

(* The processor goes on with a call it has begun; nothing makes anyone    *)
(* call.                                                                   *)
ScanSpec == ScanInit /\ [][ScanNext]_scan_vars /\ WF_scan_vars(Steps)

-----------------------------------------------------------------------------
(* The functions there are, as opposed to those that only answer.          *)
Real(p) == FunctionAt(p) # Nothing /\ (p[2] % Funcs = 0 \/ DeviceAt(p).multi)

(* Those with a driver.  The scan does not reach the last function of the  *)
(* last slot of a bus.                                                     *)
Wanted ==
  { p \in Position : Real(p) /\ p[2] # LastDevfn /\
                     ById(type, FunctionAt(p)) \cup ByClass(type, FunctionAt(p)) # {} }

(* A scan finds the next function that has a driver: none twice, none      *)
(* passed over behind a restart in the middle of a device, none that is    *)
(* only the echo of another; and it is given an I/O address of its own, if *)
(* it has one.                                                             *)
FindsNextMatch ==
  scan_pc = "found" =>
    LET rest == { p \in Wanted : Before(from, p) } IN
    IF driver = NoDriver THEN rest = {}
    ELSE /\ at \in rest /\ \A p \in rest : ~Before(p, at)
         /\ FunctionAt(at).io # <<>> => \E i \in DOMAIN FunctionAt(at).io : ioaddr = FunctionAt(at).io[i]

(* Whenever probe() returns it has offered every function up to the one it *)
(* returns with, or all of them if it failed, to its driver, counted from  *)
(* the last PROBE_FIRST.                                                   *)
NoneLeftOut ==
  scan_pc = "idle" =>
    /\ how_probe = "first" => offered = Wanted
    /\ how_probe = "next"  => offered = { p \in Wanted : ~Before(at, p) }

(* Each function with a driver is offered to it once and in order, scan by *)
(* scan and over a series of probes: see the two parts.                    *)
OffersEachOnce == FindsNextMatch /\ NoneLeftOut

-----------------------------------------------------------------------------
(* The inductive invariant behind OffersEachOnce.                          *)
Between(p, q) == { r \in Wanted : Before(p, r) /\ Before(r, q) }
UpTo(p) == { r \in Wanted : ~Before(p, r) }
DriversAt(p) == ById(type, FunctionAt(p)) \cup ByClass(type, FunctionAt(p))

(* The function found is the next one behind where the scan resumed.       *)
NextFound ==
  /\ at \in Wanted /\ driver \in DriversAt(at) /\ Before(from, at) /\ Between(from, at) = {}
  /\ FunctionAt(at).io # <<>> => \E i \in DOMAIN FunctionAt(at).io : ioaddr = FunctionAt(at).io[i]

(* The scan has passed over nothing, still has the driver it resumes with  *)
(* at the function it resumes at only, and knows the multi-function bit of *)
(* the device it is in.                                                    *)
Scanning ==
  LET here == <<bus, devfn>> IN
    /\ driver = NoDriver /\ at = <<0, 0>>
    /\ bus \in 0..Buses /\ devfn \in 0..LastDevfn /\ (bus = Buses => devfn = 0)
    /\ Between(from, here) = {} /\ offered = UpTo(from)
    /\ IF first_driver = NoDriver THEN Before(from, here)
       ELSE from = here /\ here \in Wanted /\ first_driver \in DriversAt(here)
    /\ bus < Buses /\ devfn % Funcs # 0 => multi = DeviceAt(here).multi

ScanInv ==
  /\ config \in [0..(Buses - 1) -> [0..(Slots - 1) -> Devices]] /\ type \in Types
  /\ scan_pc \in {"idle", "loop", "scan", "found"} /\ from \in Position \cup {Nowhere}
  /\ scan_pc = "idle" => /\ how_probe = "first" => offered = Wanted
                         /\ how_probe = "next" => NextFound /\ offered = UpTo(at)
  /\ scan_pc = "loop" => IF driver = NoDriver THEN advance /\ at = <<0, 0>> /\ offered = {}
                         ELSE NextFound /\ offered = UpTo(at)
  /\ scan_pc = "scan" => Scanning
  /\ scan_pc = "found" => IF driver = NoDriver THEN offered = UpTo(from) /\ UpTo(from) = Wanted
                          ELSE NextFound /\ offered \in {UpTo(from), UpTo(at)}

(* Every probe() returns, also if driver after driver refuses.             *)
ProbeReturns == scan_pc # "idle" ~> scan_pc = "idle"
=============================================================================
