----------------------------- MODULE MCCompact -----------------------------
(***************************************************************************)
(* CompactSequencer checked against a reference definition over every     *)
(* table of at most MaxSteps steps drawn from StepSet.  The reference     *)
(* folds the table left to right, opening a gap at a fixed-length         *)
(* inputType-0 step and widening it by every such step that follows, with *)
(* unbounded arithmetic; the code merges in place, shifts the rest of the *)
(* table down and keeps the merged length in a uint16_t.                  *)
(***************************************************************************)
EXTENDS SequencerSetup

CONSTANTS StepSet, MaxSteps

VARIABLE tbl

IsGap(s) == s.inputType = 0 /\ s.inputLength # VARLENGTH

CompactRef(t) ==
  FoldLeft(LAMBDA acc, s :
             IF IsGap(s) /\ acc # <<>> /\ IsGap(acc[Len(acc)].first)
             THEN [acc EXCEPT ![Len(acc)].len = @ + s.inputLength]
             ELSE Append(acc, [first |-> s, len |-> s.inputLength]),
           <<>>, t)

RefTable(t) ==
  LET r == CompactRef(t)
  IN [k \in DOMAIN r |-> [r[k].first EXCEPT !.inputLength = r[k].len]]

VarSteps(t) == Cardinality({ k \in DOMAIN t : IsVarIn(t[k]) })

Init == tbl \in BoundedSeq(StepSet, MaxSteps)

Next == UNCHANGED tbl

(* CompactSequencer leaves the wire layout of a template unchanged: it
   yields the reference table (same steps, same byte lengths), and a run of
   fixed-length skips never turns into a variable-length field. *)
CompactionKeepsLayout ==
  /\ CompactSequencer(tbl) = RefTable(tbl)
  /\ VarSteps(CompactSequencer(tbl)) = VarSteps(tbl)

Step(type, len, ext) ==
  [inputType |-> type, inputLength |-> len, extensionID |-> ext,
   outputLength |-> 0, offsetRel |-> 0, stackID |-> 0, copyMode |-> "ValueCopy"]

MCExtTableSize == (0 :> 0) @@ (1 :> 8)

\* skips of 1 and 2 bytes, a variable-length skip, a copy into ext 1
MCStepSet == { Step(0, 1, 0), Step(0, 2, 0), Step(0, VARLENGTH, 0), Step(5, 2, 1) }

\* skips whose sum reaches 0xFFFF or wraps past it
MCWideStepSet == { Step(0, 1, 0), Step(0, 2, 0), Step(0, 65534, 0) }
=============================================================================
