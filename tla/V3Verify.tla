------------------------------ MODULE V3Verify ------------------------------
(***************************************************************************)
(* VerifyV3Record (nfxV3.c) step by step over a record read from a data   *)
(* block: the record header, and the 4-byte words that follow it, each of  *)
(* which the walk may take for an element header {type, length}.  The     *)
(* words after header.size belong to whatever follows the record in the   *)
(* block.  Element lengths are multiples of 4, so the words are disjoint  *)
(* and any word may hold any header.  SpecVerify is the verifier of spec  *)
(* section 4.D, as a recursive walk over the same memory.                 *)
(***************************************************************************)
EXTENDS Integers

CONSTANTS
  V3Record,        \* the record type VerifyV3Record accepts
  MaxExtensions,   \* MAXEXTENSIONS
  Headers,         \* the record headers [type, size, numElements] to verify
  Words,           \* the element headers [type, length] a word may hold
  MaxWords         \* how many words after the record header are modelled

RecordHeaderSize == 12
ElementHeaderSize == 4

Offsets == { RecordHeaderSize + ElementHeaderSize * k : k \in 0 .. MaxWords - 1 }

VARIABLES
  hdr,      \* *recordHeader
  mem,      \* offset -> the element header the bytes there decode to
  pc,       \* "type", "size", "loop", "done"
  i,        \* the loop index
  rlen,     \* int32_t rlen: bytes of the record not yet walked
  cnt,      \* elements counted
  at,       \* offset of elementHeader
  result    \* the return value, -1 before the return

vars == <<hdr, mem, pc, i, rlen, cnt, at, result>>

Init ==
  /\ hdr \in Headers
  /\ mem \in [Offsets -> Words]
  /\ pc = "type" /\ i = 0 /\ rlen = 0 /\ cnt = 0 /\ at = RecordHeaderSize
  /\ result = -1

Return(r) ==
  /\ pc' = "done" /\ result' = r
  /\ UNCHANGED <<hdr, mem, i, rlen, cnt, at>>

\* not a V3 record
CheckType ==
  /\ pc = "type"
  /\ IF hdr.type # V3Record THEN Return(0)
     ELSE pc' = "size" /\ UNCHANGED <<hdr, mem, i, rlen, cnt, at, result>>

\* shorter than its header; otherwise rlen is the length of all elements
CheckSize ==
  /\ pc = "size"
  /\ IF hdr.size < RecordHeaderSize THEN Return(0)
     ELSE /\ rlen' = hdr.size - RecordHeaderSize
          /\ at' = RecordHeaderSize /\ i' = 0 /\ cnt' = 0 /\ pc' = "loop"
          /\ UNCHANGED <<hdr, mem, result>>

Element == mem[at]

\* an element longer than what is left of the record
ElementTooLong ==
  /\ pc = "loop" /\ i < hdr.numElements
  /\ Element.length > rlen
  /\ Return(0)

\* an element type at or above MAXEXTENSIONS
ElementBadType ==
  /\ pc = "loop" /\ i < hdr.numElements
  /\ Element.length <= rlen /\ Element.type >= MaxExtensions
  /\ Return(0)

\* count the element and step to the next header by its length
ElementNext ==
  /\ pc = "loop" /\ i < hdr.numElements
  /\ Element.length <= rlen /\ Element.type < MaxExtensions
  /\ rlen' = rlen - Element.length
  /\ cnt' = cnt + 1
  /\ at' = at + Element.length
  /\ i' = i + 1
  /\ UNCHANGED <<hdr, mem, pc, result>>

\* after numElements headers: nothing may be left, and the count must match
LoopEnd ==
  /\ pc = "loop" /\ i >= hdr.numElements
  /\ Return(IF rlen = 0 /\ cnt = hdr.numElements THEN 1 ELSE 0)

Done == pc = "done" /\ UNCHANGED vars

Next ==
  \/ CheckType \/ CheckSize
  \/ ElementTooLong \/ ElementBadType \/ ElementNext \/ LoopEnd
  \/ Done

Spec == Init /\ [][Next]_vars
-----------------------------------------------------------------------------
(***************************************************************************)
(* The verifier of spec section 4.D: type and size checks, then each      *)
(* element must have length > 0, a type below MAXEXTENSIONS, and fit what *)
(* is left; at the end nothing is left and numElements were walked.       *)
(***************************************************************************)
RECURSIVE SpecWalk(_, _, _, _)
SpecWalk(m, off, left, k) ==
  IF k = 0 THEN left
  ELSE LET e == m[off]
       IN IF e.length = 0 \/ e.length > left \/ e.type >= MaxExtensions
          THEN -1
          ELSE SpecWalk(m, off + e.length, left - e.length, k - 1)

SpecVerify(h, m) ==
  /\ h.type = V3Record
  /\ h.size >= RecordHeaderSize
  /\ SpecWalk(m, RecordHeaderSize, h.size - RecordHeaderSize, h.numElements) = 0

(* Spec section 4.D: VerifyV3Record returns true exactly for the records
   its verifier accepts; in particular an element of length 0 is refused,
   so a walk never stands still on one header or reads a header that lies
   past the end of the record. *)
VerifiesAsSpec ==
  pc = "done" => ((result = 1) <=> SpecVerify(hdr, mem))
=============================================================================
