----------------------------- MODULE CaptureSpec -----------------------------
(***************************************************************************)
(* What nfpcapd promises of a capture, whatever its threads do: packets   *)
(* of flows are captured while the capture runs, the packets of each flow *)
(* are written out in records of one or more packets, never more than     *)
(* were captured, and the process exits only after the capture stopped    *)
(* and every captured packet has been written.                            *)
(***************************************************************************)
EXTENDS Naturals, FiniteSetsExt

CONSTANTS
  Keys,        \* flow keys
  MaxPackets   \* packets captured in one behaviour

VARIABLES
  capturing,   \* packets may still be captured
  captured,    \* captured[k]: packets of flow k captured so far
  written,     \* written[k]: packets of flow k written in flow records
  exited       \* the process has exited

vars == <<capturing, captured, written, exited>>

Total(f) == MapThenSumSet(LAMBDA k : f[k], Keys)

Init ==
  /\ capturing = TRUE
  /\ captured = [k \in Keys |-> 0]
  /\ written = [k \in Keys |-> 0]
  /\ exited = FALSE

Capture(k) ==
  /\ capturing /\ Total(captured) < MaxPackets
  /\ captured' = [captured EXCEPT ![k] = @ + 1]
  /\ UNCHANGED <<capturing, written, exited>>

\* a record of n packets of flow k
Write(k, n) ==
  /\ n \in 1 .. captured[k] - written[k]
  /\ written' = [written EXCEPT ![k] = @ + n]
  /\ UNCHANGED <<capturing, captured, exited>>

StopCapture ==
  /\ capturing
  /\ capturing' = FALSE
  /\ UNCHANGED <<captured, written, exited>>

Exit ==
  /\ ~capturing /\ ~exited /\ written = captured
  /\ exited' = TRUE
  /\ UNCHANGED <<capturing, captured, written>>

Next ==
  \/ \E k \in Keys : Capture(k) \/ \E n \in 1 .. MaxPackets : Write(k, n)
  \/ StopCapture
  \/ Exit

Spec == Init /\ [][Next]_vars
=============================================================================
