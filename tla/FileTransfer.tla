---------------------------- MODULE FileTransfer ----------------------------
(***************************************************************************)
(* What the callers of tftp() rely on: the files are fetched one after     *)
(* the other; of each file the bytes arrive in order, without a gap and    *)
(* without a byte of another file, and "complete" is reported only with    *)
(* the whole file.  A transfer may fail at any time.                       *)
(***************************************************************************)
EXTENDS Naturals, Sequences

VARIABLES
  size,            \* the lengths of the files, in the order they are fetched
  current,         \* the file being fetched, 0 before the first
  status,          \* "idle", "busy", "complete", "failed"
  got,             \* bytes of it handed over so far
  intact           \* every piece handed over was the next one of the file

vars == <<size, current, status, got, intact>>

Init == /\ size \in Seq(Nat) /\ current = 0 /\ status = "idle" /\ got = 0
        /\ intact = TRUE

Request ==
  /\ status # "busy" /\ current < Len(size)
  /\ current' = current + 1 /\ got' = 0
  /\ status' \in {"busy", "failed"}
  /\ UNCHANGED <<size, intact>>

(* The next bytes of the file; the last ones complete the transfer.        *)
Chunk ==
  /\ status = "busy"
  /\ \E n \in 0..size[current] :
       /\ got + n <= size[current]
       /\ got' = got + n
  /\ status' \in {"busy"} \cup
       (IF got' = size[current] THEN {"complete"} ELSE {})
  /\ UNCHANGED <<size, current, intact>>

Fail ==
  /\ status = "busy"
  /\ status' = "failed" /\ UNCHANGED <<size, current, got, intact>>

Next == Request \/ Chunk \/ Fail
Spec == Init /\ [][Next]_vars
=============================================================================
