-------------------------------- MODULE Gpt --------------------------------
(***************************************************************************)
(* Finding the partitions: main/efi.c (efi_find_partitions, find_valid_gpt,*)
(* is_gpt_valid and what they call), on a disk whose reads may fail and    *)
(* with an abort key that may be pressed during any of them; the call that *)
(* flail() then leads to works on the same static headers and entries.     *)
(*                                                                         *)
(* An entry array is counted in gpt_entry structures ("slots"), and so is  *)
(* sizeof_partition_entry.  A CRC is right if what it is computed over is  *)
(* what it was made from: header.crc says so of the header itself,         *)
(* header.array is what partition_entry_array_crc32 was made from.         *)
(*                                                                         *)
(* compare_gpts() only prints, so whether the alternate table is valid     *)
(* makes no difference to what is found.                                   *)
(***************************************************************************)
EXTENDS Integers, Sequences

CONSTANTS
  LastLba,        \* disk_last_sector()
  Modulus,        \* 2^64: numbers of sectors
  CountModulus,   \* 2^32 over sizeof(gpt_entry): lengths of arrays, in slots
  MaxPtes,        \* MAX_PTES
  PerSector,      \* slots in a sector
  Images,         \* the disks: [pmbr, header, entries]
  BehindTable,    \* what may lie behind an array of MAX_PTES slots
  MaxTableAborts  \* bound

Unused == [used |-> FALSE, start |-> 0, end |-> 0]
PteSlots == 1..MaxPtes
Copies == {"primary", "alternate"}

TableSizes ==
  /\ LastLba \in Nat /\ Modulus \in Nat /\ 2 * (LastLba + 1) < Modulus
  /\ CountModulus \in Nat \ {0} /\ MaxPtes \in Nat \ {0} /\ PerSector \in Nat \ {0}
  /\ MaxPtes < CountModulus /\ MaxTableAborts \in Nat
ASSUME TableSizesAssumption == TableSizes
ASSUME BehindAssumption == Unused \in BehindTable

(* What is on a disk, be it a GPT or not: any numbers.  A sequence of      *)
(* entries may be shorter than its header says; see OnDisk.                *)
GptEntry == [used : BOOLEAN, start : Nat, end : Nat]
GptHeader == [sig : BOOLEAN, crc : BOOLEAN, my_lba : Nat, alternate_lba : Nat, first : Nat,
              last : Nat, entry_lba : Nat, num : Nat, size : Nat, array : Seq(GptEntry)]
Disks ==
  \A d \in Images :
    /\ d.pmbr \in BOOLEAN
    /\ DOMAIN d.header = 0..LastLba /\ \A l \in 0..LastLba : d.header[l] \in GptHeader
ASSUME DisksAssumption == Disks

VARIABLES
  image,          \* the world: what is on the disk
  table_pc,       \* "idle", "mbr", "header", "entries", "scan"
  copy,           \* the copy is_gpt_valid() looks at; later the one used
  lba,            \* ... and where it looks for its header
  header, ptes,   \* the static headers and entry arrays of find_valid_gpt()
  good,           \* the copies found valid
  entry, partitions,   \* i and partitions, locals of efi_find_partitions()
  found,          \* what efi_find_partitions() has returned, or "none"
  ioerr,          \* history: a read failed during this call
  table_aborts

tables == <<header, ptes>>
gpt_vars == <<image, table_pc, copy, lba, tables, good, entry, partitions, found, ioerr,
              table_aborts>>

(* What memset() leaves.                                                   *)
ZeroHeader == [sig |-> FALSE, crc |-> FALSE, my_lba |-> 0, alternate_lba |-> 0,
               first |-> 0, last |-> 0, entry_lba |-> 0, num |-> 0, size |-> 0,
               array |-> <<>>]

NoTableYet ==
  /\ table_pc = "idle" /\ copy = "primary" /\ lba = 0 /\ good = {}
  /\ header = [c \in Copies |-> ZeroHeader]
  /\ ptes = [c \in Copies |-> [s \in PteSlots |-> Unused]]
  /\ entry = 0 /\ partitions = <<>> /\ found = "none" /\ ioerr = FALSE /\ table_aborts = 0
GptInit == image \in Images /\ NoTableYet

-----------------------------------------------------------------------------
(* efi_find_partitions(), called by try_disk_boot().                       *)
FindPartitions ==
  /\ table_pc = "idle" /\ found = "none"
  /\ table_pc' = "mbr" /\ partitions' = <<>> /\ entry' = 0 /\ good' = {} /\ ioerr' = FALSE
  /\ UNCHANGED <<image, copy, lba, tables, found, table_aborts>>

Return(r) == table_pc' = "idle" /\ found' = r

(* is_gpt_valid() starts on a copy.                                        *)
Examine(c, l) == table_pc' = "header" /\ copy' = c /\ lba' = l /\ UNCHANGED found

(* is_pmbr_valid(): without a protective MBR there is no GPT.  A read that *)
(* fails leaves zeros.                                                     *)
ReadMbr ==
  /\ table_pc = "mbr"
  /\ \E ok \in BOOLEAN :
       /\ ioerr' = ~ok
       /\ IF ok /\ image.pmbr
          THEN Examine("primary", 1)
          ELSE Return("fail") /\ UNCHANGED <<copy, lba>>
  /\ UNCHANGED <<image, tables, good, entry, partitions, table_aborts>>

(* The end of find_valid_gpt(): a good primary table is used.              *)
Use(c) == table_pc' = "scan" /\ copy' = c /\ UNCHANGED <<lba, found>>

(* is_gpt_valid() returns to find_valid_gpt(): the alternate is looked at  *)
(* only behind a good primary, because force_gpt is 0.                     *)
Verdict(valid) ==
  /\ good' = IF valid THEN good \cup {copy} ELSE good
  /\ CASE copy = "primary" /\ valid -> Examine("alternate", header["primary"].alternate_lba)
       [] copy = "alternate" /\ "primary" \in good -> Use("primary")
       [] OTHER -> Return("fail") /\ UNCHANGED <<copy, lba>>

(* Mutant: the bounds exclude the last sector.                             *)
InDisk_OffByOne(h) == h.first < LastLba /\ h.last < LastLba

InDisk(h) == h.first <= LastLba /\ h.last <= LastLba

HeaderValid(h) == h.sig /\ h.crc /\ h.my_lba = lba /\ InDisk(h)

(* read_gpt_header(): nothing behind the last sector is read.              *)
ReadHeader ==
  /\ table_pc = "header"
  /\ \E ok \in BOOLEAN :
       LET h == IF ok /\ lba <= LastLba THEN image.header[lba] ELSE ZeroHeader IN
         /\ ioerr' = (ioerr \/ ~ok)
         /\ header' = [header EXCEPT ![copy] = h]
         /\ IF HeaderValid(h)
            THEN table_pc' = "entries" /\ UNCHANGED <<copy, lba, good, found>>
            ELSE Verdict(FALSE)
  /\ UNCHANGED <<image, ptes, entry, partitions, table_aborts>>

Count(h) == (h.num * h.size) % CountModulus

Capped(n) == IF n > MaxPtes THEN MaxPtes ELSE n

(* The array lies on the disk.                                             *)
Readable(h, n) == h.entry_lba + (n + PerSector - 1) \div PerSector <= LastLba + 1

OnDisk(l, s) == IF s <= Len(image.entries[l]) THEN image.entries[l][s] ELSE Unused

(* read_gpt_entries(): clears n slots and fills the first got of them.     *)
Filled(h, n, got) ==
  [s \in PteSlots \cup 1..n |->
     IF s <= got THEN OnDisk(h.entry_lba, s)
     ELSE IF s <= n THEN Unused ELSE ptes[copy][s]]

(* Mutant: the CRC of the entries is not looked at.                        *)
CrcMatches_Ignored(h, array) == {TRUE}

(* The CRC is taken over the whole length; what lies behind the buffer is  *)
(* not known.                                                              *)
CrcMatches(h, array) ==
  IF Count(h) <= MaxPtes THEN {[s \in 1..Count(h) |-> array[s]] = h.array} ELSE BOOLEAN

ReadEntries ==
  /\ table_pc = "entries"
  /\ LET h == header[copy]
         n == Capped(Count(h)) IN
       \/ /\ n # 0 /\ Readable(h, n)
          /\ ptes' = [ptes EXCEPT ![copy] = Filled(h, n, n)]
          /\ \E match \in CrcMatches(h, ptes'[copy]) : Verdict(match)
          /\ UNCHANGED <<header, ioerr>>
       \/ /\ n = 0
          /\ Verdict(FALSE) /\ UNCHANGED <<tables, ioerr>>
       \/ /\ n # 0
          /\ \E got \in {0} \cup { g \in 1..(n - 1) : Readable(h, g) } :
               ptes' = [ptes EXCEPT ![copy] = Filled(h, n, got)]
          /\ ioerr' = (ioerr \/ Readable(h, n))
          /\ Verdict(FALSE) /\ UNCHANGED header
  /\ UNCHANGED <<image, entry, partitions, table_aborts>>

-----------------------------------------------------------------------------
is_pte_valid(e) == e.used /\ e.start <= LastLba /\ e.end <= LastLba

PartitionOf(e) == [start |-> e.start, size |-> (e.end - e.start + 1) % Modulus]

(* The loop over the entries.  Its limit is num_partition_entries, not the *)
(* size of the array, and each entry is taken to be one slot long.  The    *)
(* test "!n == *num" at its end is never true, since n is not 0.           *)
Scan ==
  /\ table_pc = "scan" /\ entry < header[copy].num
  /\ \E e \in IF entry + 1 \in PteSlots THEN {ptes[copy][entry + 1]} ELSE BehindTable :
       partitions' = IF is_pte_valid(e) THEN Append(partitions, PartitionOf(e))
                     ELSE partitions
  /\ entry' = entry + 1
  /\ UNCHANGED <<image, table_pc, copy, lba, tables, good, found, ioerr, table_aborts>>

ScanDone ==
  /\ table_pc = "scan" /\ entry = header[copy].num
  /\ Return("ok")
  /\ UNCHANGED <<image, copy, lba, tables, good, entry, partitions, ioerr, table_aborts>>

(* await_ide() finds an abort key: try_disk_boot() starts again.           *)
AbortTable ==
  /\ table_pc \in {"mbr", "header", "entries"} /\ table_aborts < MaxTableAborts
  /\ table_aborts' = table_aborts + 1 /\ table_pc' = "idle"
  /\ UNCHANGED <<image, copy, lba, tables, good, entry, partitions, found, ioerr>>

Finished == found # "none" /\ UNCHANGED gpt_vars

GptNext ==
  \/ FindPartitions \/ ReadMbr \/ ReadHeader \/ ReadEntries \/ Scan \/ ScanDone
  \/ AbortTable \/ Finished

GptSpec == GptInit /\ [][GptNext]_gpt_vars

-----------------------------------------------------------------------------
(* A table the code has room for, with entries of the size it expects.     *)
Ordinary(h) == h.size = 1 /\ h.num <= MaxPtes

(* The header at l is that of a table that is whole.                       *)
WellFormed(l) ==
  /\ l <= LastLba
  /\ LET h == image.header[l] IN
       /\ h.sig /\ h.crc /\ h.my_lba = l /\ {h.first, h.last} \subseteq 0..LastLba
       /\ Ordinary(h) /\ h.num > 0 /\ Readable(h, h.num)
       /\ [s \in 1..h.num |-> OnDisk(h.entry_lba, s)] = h.array

(* The entries among the first n of an array that are partitions of the    *)
(* disk.                                                                   *)
ValidEntries(array, n) ==
  { k \in 1..n : array[k].used /\ {array[k].start, array[k].end} \subseteq 0..LastLba }

(* The list is that of the partitions among the first n entries, in their  *)
(* order: its k-th is that of entry f[k].                                  *)
Lists(list, array, n) ==
  \E f \in [1..Len(list) -> ValidEntries(array, n)] :
    /\ \A k, l \in 1..Len(list) : k < l => f[k] < f[l]
    /\ \A v \in ValidEntries(array, n) : \E k \in 1..Len(list) : f[k] = v
    /\ \A k \in 1..Len(list) : list[k] = PartitionOf(array[f[k]])

(* The partitions reported are those of the array the primary header's CRC *)
(* vouches for, all of them and in its order, whatever was read or left    *)
(* half-read in the static buffers before.  No read goes past these.       *)
ReportsTheTable ==
  LET h == image.header[1] IN
    /\ (found = "ok" /\ Ordinary(h)) => Lists(partitions, h.array, Len(h.array))
    /\ \A c \in Copies : DOMAIN ptes[c] = PteSlots

(* efi_find_partitions() fails only if a read failed, or the disk has no   *)
(* protective MBR, or its primary table is damaged.                        *)
FailsOnlyForCause == (found = "fail" /\ ~ioerr) => ~(image.pmbr /\ WellFormed(1))

-----------------------------------------------------------------------------
(* The inductive invariant the two rest on.                                *)
GptTypes ==
  /\ image \in Images /\ table_pc \in {"idle", "mbr", "header", "entries", "scan"}
  /\ copy \in Copies /\ good \subseteq Copies /\ lba \in Nat
  /\ header \in [Copies -> GptHeader] /\ DOMAIN ptes = Copies
  /\ \A c \in Copies : DOMAIN ptes[c] = PteSlots
  /\ table_pc # "idle" => found = "none"
  /\ table_pc \in {"mbr", "header", "entries"} => entry = 0 /\ partitions = <<>>

(* The alternate is looked at behind a good primary only.                  *)
OrderInv ==
  /\ table_pc = "mbr" => good = {}
  /\ table_pc \in {"header", "entries"} => IF copy = "primary" THEN lba = 1 /\ good = {}
                                     ELSE "primary" \in good
  /\ table_pc = "scan" => copy = "primary" /\ "primary" \in good

(* What was found good has stayed what the header's CRC vouches for.       *)
VouchedInv ==
  LET h == image.header[1] IN
    /\ table_pc = "entries" /\ copy = "primary" => 1 <= LastLba /\ header["primary"] = h
    /\ table_pc \in {"header", "entries", "scan"} /\ "primary" \in good =>
         /\ 1 <= LastLba /\ header["primary"] = h
         /\ Ordinary(h) => [s \in 1..h.num |-> ptes["primary"][s]] = h.array

Listed == [start : Nat, size : Int]

(* The loop has listed the partitions of the entries it has passed.        *)
ListInv ==
  LET h == image.header[1] IN
    Ordinary(h) =>
      /\ table_pc = "scan" => entry \in 0..h.num /\ partitions \in Seq(Listed)
                     /\ Lists(partitions, h.array, entry)
      /\ found = "ok" => Lists(partitions, h.array, Len(h.array))

GptInv == GptTypes /\ OrderInv /\ VouchedInv /\ ListInv /\ FailsOnlyForCause
=============================================================================
