--------------------------- MODULE SequencerSetup ---------------------------
(***************************************************************************)
(* Template compilation of the v3 sequencer, src/libnffile/nfxV3.c:       *)
(* CompactSequencer and SetupSequencer as pure operators over a sequence  *)
(* table.  A sequence is one transcoding step of a template:              *)
(*   [inputType, inputLength, extensionID, outputLength, offsetRel,        *)
(*    stackID, copyMode]                                                   *)
(* inputLength = VARLENGTH marks a variable-length wire field,            *)
(* extensionID = EXnull a step that writes no extension.  Tables are      *)
(* 1-indexed here where the C array is 0-indexed.                          *)
(***************************************************************************)
EXTENDS Naturals, Sequences, SequencesExt

CONSTANTS
  ExtTableSize,   \* extensionTable[id].size: packed size of an extension,
                  \* element header included; ExtTableSize[EXnull] = 0
  MaxExtensions   \* MAXEXTENSIONS: extension ids are 0 .. MaxExtensions-1

ExtIDs == 0 .. MaxExtensions - 1

ASSUME ExtTableSize \in [ExtIDs -> Nat] /\ ExtTableSize[0] = 0

VARLENGTH == 65535                 \* 0xFFFF on the wire and in the table
subTemplateListType == 292
subTemplateMultiListType == 293
EXnull == 0
ElementHeaderSize == 4             \* sizeof(elementHeader_t)
RecordHeaderSize == 12             \* sizeof(recordHeaderV3_t)
U16 == 65536                       \* uint16_t fields wrap at 2^16

IsVarIn(s) == s.inputLength = VARLENGTH

(***************************************************************************)
(* CompactSequencer: a step with inputType 0 and a fixed length swallows  *)
(* the run of inputType-0 fixed-length steps that follows it (their       *)
(* lengths added to its uint16_t inputLength); the rest of the table is   *)
(* shifted down and numSequences reduced.                                 *)
(***************************************************************************)
\* mutant: the VARLENGTH test dropped
MergeableAnyLength(s) == s.inputType = 0

Mergeable(s) == s.inputType = 0 /\ ~IsVarIn(s)

RECURSIVE CompactFrom(_, _)
CompactFrom(t, i) ==
  IF i > Len(t) THEN t
  ELSE IF ~Mergeable(t[i]) THEN CompactFrom(t, i + 1)
  ELSE LET run  == { j \in i + 1 .. Len(t) :
                       \A k \in i + 1 .. j : Mergeable(t[k]) }
           last == IF run = {} THEN i ELSE Max(run)
           len  == FoldLeft(LAMBDA a, s : a + s.inputLength, 0,
                            SubSeq(t, i, last)) % U16
           head == [t[i] EXCEPT !.inputLength = len]
       IN  CompactFrom(SubSeq(t, 1, i - 1) \o <<head>>
                         \o SubSeq(t, last + 1, Len(t)), i + 1)

CompactSequencer(t) == CompactFrom(t, 1)

(***************************************************************************)
(* SetupSequencer, after compaction:                                     *)
(*  - a fixed input feeding a VARLENGTH output gets outputLength :=       *)
(*    inputLength;                                                        *)
(*  - ExtSize[e] is set by every step into e, the last one winning:       *)
(*    inputLength + size for such a rewritten step, size otherwise;       *)
(*  - inLength is the sum of the fixed input lengths, 0 if any is         *)
(*    variable; outLength the sum of ExtSize over e >= 1, 0 if a step is  *)
(*    variable on both sides; numElements the number of e >= 1 with       *)
(*    ExtSize[e] # 0.                                                     *)
(***************************************************************************)
SetupStep(s) ==
  IF s.outputLength = VARLENGTH /\ ~IsVarIn(s)
  THEN [s EXCEPT !.outputLength = s.inputLength]
  ELSE s

StepExtSize(s) ==
  IF s.outputLength = VARLENGTH /\ ~IsVarIn(s)
  THEN s.inputLength + ExtTableSize[s.extensionID]
  ELSE ExtTableSize[s.extensionID]

SetupSequencer(raw) ==
  LET t      == CompactSequencer(raw)
      writes(e) == { i \in DOMAIN t : t[i].extensionID = e }
      extSize == [e \in ExtIDs |->
                    IF writes(e) = {} THEN 0
                    ELSE StepExtSize(t[Max(writes(e))])]
      used   == { e \in ExtIDs \ {0} : extSize[e] # 0 }
      varIn  == \E i \in DOMAIN t : IsVarIn(t[i])
      varOut == \E i \in DOMAIN t : t[i].outputLength = VARLENGTH /\ IsVarIn(t[i])
      fixIn  == FoldLeft(LAMBDA a, s : a + s.inputLength, 0, t)
  IN [ table       |-> [i \in DOMAIN t |-> SetupStep(t[i])],
       ExtSize     |-> extSize,
       inLength    |-> IF varIn THEN 0 ELSE fixIn,
       outLength   |-> IF varOut THEN 0
                       ELSE FoldLeft(LAMBDA a, e : a + extSize[e], 0,
                                     SetToSortSeq(used, <)),
       numElements |-> Cardinality(used),
       extensionList |-> SetToSortSeq(used, <) ]

(***************************************************************************)
(* CalcOutRecordSize: 1024 when outLength is 0, else outLength.           *)
(***************************************************************************)
CalcOutRecordSize(outLength) == IF outLength = 0 THEN 1024 ELSE outLength

=============================================================================
