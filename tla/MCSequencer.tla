---------------------------- MODULE MCSequencer ----------------------------
(***************************************************************************)
(* A small exporter for Sequencer: five templates chained in one sibling  *)
(* ring, as an IPFIX exporter with sub-template lists announces them.     *)
(*   256  a variable-length field into ext 2 (payload = the field), a     *)
(*        2-byte field into ext 1, two 1-byte skipped fields (compacted)  *)
(*   257  a 1-byte field into ext 1 at offset 2, a stack-only field, and  *)
(*        a subTemplateList                                               *)
(*   258  a subTemplateMultiList                                          *)
(*   265  a 1-byte field into ext 3 (used as a sub template)              *)
(*   260  a subTemplateList, then a 1-byte field into ext 1: short        *)
(*        records nest it to the limit, and a record of 11 bytes runs it  *)
(*        in itself once, so the outer run copies its field through the   *)
(*        offsetCache the inner run left                                  *)
(***************************************************************************)
EXTENDS Sequencer

Step(type, len, ext, out, off, stack) ==
  [inputType |-> type, inputLength |-> len, extensionID |-> ext,
   outputLength |-> out, offsetRel |-> off, stackID |-> stack,
   copyMode |-> "ValueCopy"]

MCExtTableSize == (0 :> 0) @@ (1 :> 8) @@ (2 :> 4) @@ (3 :> 8)

MCTemplates ==
  (256 :> << Step(10, VARLENGTH, 2, VARLENGTH, 0, 0), Step(11, 2, 1, 2, 0, 0),
             Step(0, 1, 0, 0, 0, 0), Step(0, 1, 0, 0, 0, 0) >>)
  @@ (257 :> << Step(12, 1, 1, 2, 2, 0), Step(13, 1, 0, 0, 0, 1),
                Step(subTemplateListType, VARLENGTH, 0, 0, 0, 0) >>)
  @@ (258 :> << Step(subTemplateMultiListType, VARLENGTH, 0, 0, 0, 0) >>)
  @@ (265 :> << Step(14, 1, 3, 4, 0, 0) >>)
  @@ (260 :> << Step(subTemplateListType, VARLENGTH, 0, 0, 0, 0),
                Step(15, 1, 1, 1, 3, 0) >>)

MCNextSibling ==
  (256 :> 257) @@ (257 :> 258) @@ (258 :> 265) @@ (265 :> 260) @@ (260 :> 256)

(* MaxOutLength: a multilist entry of size 0 never advances (see the
   Termination run) and adds the sub sequencer's outLength to the parent's
   on every turn; the search stops once that sum passes this bound. *)
MaxOutLength == 32
OutLengthBound == \A t \in TIDs : seqr[t].outLength <= MaxOutLength
=============================================================================
