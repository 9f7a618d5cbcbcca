------------------------------ MODULE Rtl8139 ------------------------------
(***************************************************************************)
(* The RTL8139 driver of main/eb/rtl8139.c, with the chip as a second      *)
(* process: it writes frames into the receive ring and finishes            *)
(* transmissions between any two register accesses of the driver.          *)
(*                                                                         *)
(* A frame lies in the ring as a header word, its bytes, and a checksum    *)
(* word, rounded up to whole words; it may wrap around the end.  A cell of *)
(* the ring is <<f, 0>> for the header of frame f, <<f, k>> for its k-th   *)
(* byte, or Junk.                                                          *)
(*                                                                         *)
(* Of the chip (external) the model takes what the driver says of it: it   *)
(* stops receiving at an overflow until that is acknowledged, and when an  *)
(* overflow is acknowledged before the ring was given room it writes the   *)
(* contents of its FIFO over the next frame.                               *)
(***************************************************************************)
EXTENDS Integers, Sequences

CONSTANTS
  RingLen,        \* RX_BUF_LEN, in bytes
  Word,           \* bytes of a word: header, checksum and alignment (4)
  Gap,            \* RxBufPtr is this much behind the driver's position (16)
  CapMod,         \* RxBufPtr is a 16-bit register
  IntMod,         \* cur_rx is an unsigned int
  Sizes,          \* lengths of the frames considered
  NumTx,          \* NUM_TX_DESC
  MaxFrames       \* bound: frames the chip stores

Frame == [id : 0..(MaxFrames - 1), size : Sizes, good : BOOLEAN]
RoundUp(n) == ((n + Word - 1) \div Word) * Word
Stored(n)  == RoundUp(n + 2 * Word)

ASSUME WidthsAssumption ==
  /\ Word \in Nat \ {0} /\ RingLen \in Nat \ {0} /\ RingLen % Word = 0
  /\ CapMod \in Nat \ {0} /\ CapMod % RingLen = 0 /\ Gap \in 0..(RingLen - 1)
  /\ IntMod \in Nat \ {0} /\ IntMod % CapMod = 0
(* The ring has room for two frames of the largest size.                   *)
ASSUME SizesAssumption ==
  Sizes \subseteq Nat \ {0} /\ \A n \in Sizes : 2 * Stored(n) + Word <= RingLen
ASSUME NumbersAssumption == NumTx \in Nat \ {0} /\ MaxFrames \in Nat

VARIABLES
  ring,           \* rx_ring[]
  cbr,            \* the chip's position in it
  RxBufPtr,       \* the driver's position, as the chip is told
  overflow,       \* RxOverflow of IntrStatus: "none", "raised", and "moved"
                  \* when RxBufPtr has been written since
  txdesc,         \* the descriptor the chip sends next
  txreq,          \* the descriptor handed to the chip, or NoTx
  TxOK, TxErr,    \* bits of IntrStatus
  cur_rx, cur_tx,
  pc, status,     \* where the driver is; RxOverflow as rtl_poll() read it
  packet,         \* nic->packet
  queue, nextid   \* history: frames stored since the last reset and not yet
                  \* handed over; number of the next frame

chip   == <<ring, cbr, RxBufPtr, overflow>>
tx     == <<txdesc, txreq, TxOK, TxErr>>
driver == <<cur_rx, cur_tx, pc, status, packet>>
vars   == <<chip, tx, driver, queue, nextid>>

NoTx == -1
Junk == <<"junk">>

(* rtl8139_probe() has reset the card.                                     *)
Init ==
  /\ ring = [i \in 0..(RingLen - 1) |-> Junk]
  /\ cbr = 0 /\ RxBufPtr = (-Gap) % CapMod /\ overflow = "none"
  /\ txdesc = 0 /\ txreq = NoTx /\ TxOK = FALSE /\ TxErr = FALSE
  /\ cur_rx = 0 /\ cur_tx = 0 /\ pc = "idle" /\ status = FALSE
  /\ packet = <<>> /\ queue = <<>> /\ nextid = 0

-----------------------------------------------------------------------------
(* The chip.                                                               *)
ReadPos == (RxBufPtr + Gap) % RingLen
RxBufEmpty == ReadPos = cbr
Used == (cbr - ReadPos) % RingLen
Fits(f) == Used + Stored(f.size) <= RingLen - Word

CellsOf(f) ==
  [i \in 0..(RingLen - 1) |->
     LET d == (i - cbr) % RingLen IN
     IF d >= Stored(f.size) THEN ring[i]
     ELSE IF d = 0 THEN <<f, 0>>
     ELSE IF d \in Word..(Word + f.size - 1) THEN <<f, d - Word + 1>> ELSE Junk]

(* A frame arrives; there is room for it.                                  *)
Receive(f) ==
  /\ pc # "off" /\ overflow = "none" /\ f.id = nextid /\ Fits(f)
  /\ ring' = CellsOf(f) /\ cbr' = (cbr + Stored(f.size)) % RingLen
  /\ queue' = Append(queue, f) /\ nextid' = nextid + 1
  /\ UNCHANGED <<RxBufPtr, overflow, tx, driver>>

(* There is none: the frame is lost.                                       *)
Overflow ==
  /\ pc # "off" /\ overflow = "none" /\ \E n \in Sizes : ~Fits([size |-> n])
  /\ overflow' = "raised"
  /\ UNCHANGED <<ring, cbr, RxBufPtr, tx, driver, queue, nextid>>

(* The chip sends what is in its next descriptor, or fails to.             *)
Transmitted ==
  /\ txreq = txdesc
  /\ txreq' = NoTx
  /\ \/ TxOK' = TRUE /\ txdesc' = (txdesc + 1) % NumTx /\ UNCHANGED TxErr
     \/ TxErr' = TRUE /\ UNCHANGED <<TxOK, txdesc>>
  /\ UNCHANGED <<chip, driver, queue, nextid>>

(* IntrStatus is written with RxOverflow set.                              *)
AckOverflow ==
  /\ overflow' = "none"
  /\ ring' = IF overflow = "raised" THEN [ring EXCEPT ![ReadPos] = Junk] ELSE ring

-----------------------------------------------------------------------------
(* Mutant: cur_tx is kept.                                                 *)
ResetPositions_TxKept == cur_rx' = 0 /\ UNCHANGED cur_tx

ResetPositions == cur_rx' = 0 /\ cur_tx' = 0

(* rtl_reset(): everything the chip holds is gone.                         *)
rtl_reset ==
  /\ ResetPositions
  /\ cbr' = 0 /\ RxBufPtr' = (-Gap) % CapMod /\ overflow' = "none"
  /\ txdesc' = 0 /\ txreq' = NoTx /\ TxOK' = FALSE /\ TxErr' = FALSE
  /\ queue' = <<>>
  /\ UNCHANGED <<ring, status, packet, nextid>>

(* rtl_poll() finds a frame, reads IntrStatus and acknowledges all of it   *)
(* but the receive bits.                                                   *)
PollStatus ==
  /\ pc = "idle" /\ ~RxBufEmpty
  /\ status' = (overflow # "none") /\ TxOK' = FALSE /\ TxErr' = FALSE
  /\ pc' = "poll"
  /\ UNCHANGED <<chip, txdesc, txreq, cur_rx, cur_tx, packet, queue, nextid>>

ring_offs == cur_rx % RingLen
Header == ring[ring_offs]
GoodHeader == Header # Junk /\ Header[2] = 0 /\ Header[1].good

PollBadFrame ==
  /\ pc = "poll" /\ ~GoodHeader
  /\ rtl_reset /\ pc' = "idle"

(* A byte of rx_ring; there are a few more behind RX_BUF_LEN.              *)
At(i) == IF i < RingLen THEN ring[i] ELSE Junk

(* The copy out of the ring, in two parts if the frame wraps around.       *)
Copied(n) ==
  LET semi_count == RingLen - ring_offs - Word IN
  IF ring_offs + Word + n > RingLen
  THEN [k \in 1..n |-> IF k <= semi_count THEN At(ring_offs + Word + k - 1)
                       ELSE At(k - semi_count - 1)]
  ELSE [k \in 1..n |-> At(ring_offs + Word + k - 1)]

PollCopy ==
  /\ pc = "poll" /\ GoodHeader
  /\ packet' = Copied(Header[1].size)
  /\ queue' = IF queue = <<>> THEN <<>> ELSE Tail(queue)
  /\ pc' = "copied"
  /\ UNCHANGED <<chip, tx, cur_rx, cur_tx, status, nextid>>

NextRx(n) == RoundUp(cur_rx + (n + Word) + Word) % IntMod

PollMove ==
  /\ pc = "copied"
  /\ cur_rx' = NextRx(Len(packet)) /\ RxBufPtr' = (cur_rx' - Gap) % CapMod
  /\ overflow' = IF overflow = "raised" THEN "moved" ELSE overflow
  /\ pc' = "moved"
  /\ UNCHANGED <<ring, cbr, tx, cur_tx, status, packet, queue, nextid>>

(* Mutant: the receive bits are never acknowledged.                        *)
AckReceive_Dropped == UNCHANGED <<ring, overflow>>

(* The bits rtl_poll() has seen are acknowledged.                          *)
AckReceive == IF status THEN AckOverflow ELSE UNCHANGED <<ring, overflow>>

PollAck ==
  /\ pc = "moved" /\ AckReceive
  /\ pc' = "idle"
  /\ UNCHANGED <<cbr, RxBufPtr, tx, cur_rx, cur_tx, status, packet, queue, nextid>>

-----------------------------------------------------------------------------
(* rtl_transmit(): the frame is in tx_buffer; the descriptor is started.   *)
Transmit ==
  /\ pc = "idle" /\ pc' = "transmit" /\ txreq' = cur_tx
  /\ UNCHANGED <<chip, txdesc, TxOK, TxErr, cur_rx, cur_tx, status, packet, queue, nextid>>

(* Mutant: every pending interrupt is acknowledged.                        *)
AckTransmit_All == IF overflow # "none" THEN AckOverflow ELSE UNCHANGED <<ring, overflow>>

(* Only the transmit bits are acknowledged.                                *)
AckTransmit == UNCHANGED <<ring, overflow>>

TransmitDone ==
  /\ pc = "transmit" /\ TxOK
  /\ TxOK' = FALSE /\ TxErr' = FALSE /\ AckTransmit
  /\ cur_tx' = (cur_tx + 1) % NumTx /\ pc' = "idle"
  /\ UNCHANGED <<cbr, RxBufPtr, txdesc, txreq, cur_rx, status, packet, queue, nextid>>

(* An error, or the time is up: IntrStatus was read without TxOK.          *)
TransmitFails == pc = "transmit" /\ rtl_reset /\ pc' = "idle"

(* rtl_disable(), when the network is shut down.                           *)
Disable == pc = "idle" /\ rtl_reset /\ pc' = "off"

Off == pc = "off" /\ UNCHANGED vars

Next ==
  \/ \E f \in Frame : Receive(f)
  \/ Overflow \/ Transmitted
  \/ PollStatus \/ PollBadFrame \/ PollCopy \/ PollMove \/ PollAck
  \/ Transmit \/ TransmitDone \/ TransmitFails \/ Disable \/ Off

Spec == Init /\ [][Next]_vars

-----------------------------------------------------------------------------
N == INSTANCE Nic WITH on <- (pc # "off"), sending <- (pc = "transmit")

(* The driver hands over frames as Nic promises: whole, in order, and none *)
(* twice, although the chip writes while the driver reads, frames wrap     *)
(* around the end of the ring, RxBufPtr is cut to 16 bits, and a reset can *)
(* come at any frame and any transmission.                                 *)
ImplementsNic == N!Spec

(* Reception never stops for good: an overflow that rtl_poll() has not     *)
(* seen is always pending beside a frame, so that the next rtl_poll() gets *)
(* past "RxBufEmpty" and acknowledges it.                                  *)
NeverDeaf == (overflow # "none" /\ RxBufEmpty) => pc = "moved" /\ status

(* Chip and driver agree on the next descriptor whenever nothing is being  *)
(* sent, and no TxOK is left over to be taken for the next transmission's. *)
TxInStep == pc \notin {"transmit", "off"} => txdesc = cur_tx /\ txreq = NoTx /\ ~TxOK
=============================================================================
