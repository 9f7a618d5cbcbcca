-------------------------------- MODULE Nic --------------------------------
(***************************************************************************)
(* What eth_poll() and eth_transmit() of main/eb/nic.c rely on: frames are *)
(* handed over whole and in the order they were received.  Frames may be   *)
(* missed; all that wait are lost when a damaged one comes up, or when a   *)
(* transmission fails, because the driver then resets the card.            *)
(***************************************************************************)
EXTENDS Naturals, Sequences

CONSTANT Frame     \* records with the fields id, size and good

VARIABLES
  on,              \* the card is in use
  sending,         \* a transmission is under way
  queue,           \* frames received and not yet handed over
  packet           \* the frame handed over last

vars == <<on, sending, queue, packet>>

Payload(f) == [k \in 1..f.size |-> <<f, k>>]

Init == on = TRUE /\ sending = FALSE /\ queue = <<>> /\ packet = <<>>

Receive ==
  /\ on /\ \E f \in Frame : queue' = Append(queue, f)
  /\ UNCHANGED <<on, sending, packet>>

Poll ==
  /\ on /\ ~sending /\ queue # <<>> /\ Head(queue).good
  /\ packet' = Payload(Head(queue)) /\ queue' = Tail(queue)
  /\ UNCHANGED <<on, sending>>

Damaged ==
  /\ on /\ ~sending /\ queue # <<>> /\ ~Head(queue).good
  /\ queue' = <<>>
  /\ UNCHANGED <<on, sending, packet>>

Transmit == on /\ ~sending /\ sending' = TRUE /\ UNCHANGED <<on, queue, packet>>

Sent ==
  /\ sending /\ sending' = FALSE
  /\ queue' \in {queue, <<>>}
  /\ UNCHANGED <<on, packet>>

Disable ==
  /\ on /\ ~sending /\ on' = FALSE /\ queue' = <<>>
  /\ UNCHANGED <<sending, packet>>

Next == Receive \/ Poll \/ Damaged \/ Transmit \/ Sent \/ Disable
Spec == Init /\ [][Next]_vars
=============================================================================
