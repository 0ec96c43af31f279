----------------------------- MODULE MCV3Verify -----------------------------
(***************************************************************************)
(* Records of up to three elements and 24 bytes, with a header size that  *)
(* is too short, exact, or one element short or long; words holding an   *)
(* empty element (length 0), a header-only element, an 8-byte element,   *)
(* and one of a type at MAXEXTENSIONS.                                   *)
(***************************************************************************)
EXTENDS V3Verify

MCHeaders ==
  [type : {11, 10}, size : {8, 12, 16, 20, 24}, numElements : 0 .. 3]

MCWords ==
  { [type |-> 1, length |-> 0], [type |-> 1, length |-> 4],
    [type |-> 2, length |-> 8], [type |-> 4, length |-> 4] }

\* every header a walk reads lies in the modelled words
ASSUME RecordHeaderSize + 2 * 8 \in Offsets
=============================================================================
