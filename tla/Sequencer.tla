------------------------------ MODULE Sequencer ------------------------------
(***************************************************************************)
(* SequencerRun and ProcessSubTemplate of src/libnffile/nfxV3.c: the      *)
(* table-driven transcoder that turns one wire record into one v3 record. *)
(*                                                                         *)
(* The recursion SequencerRun -> ProcessSubTemplate -> SequencerRun is a  *)
(* call stack of frames.  A "run" frame is one activation of SequencerRun *)
(* (its loop index i, totalInLength, totalOutLength); a "multi" or "list" *)
(* frame one activation of ProcessSubTemplate.  Input bytes are chosen    *)
(* the first time they are read (mem), which covers every input buffer    *)
(* without enumerating the bytes nobody branches on.  Field values that   *)
(* are only copied are not tracked: the output is the chain of element    *)
(* headers that SequencerRun appends behind the shared v3 record header.  *)
(*                                                                         *)
(* The decoder (ipfix/netflow_v9, not part of src/) sits around this: it  *)
(* writes the v3 header, calls SequencerRun for one record with           *)
(* CalcOutRecordSize reserved, and reads sequencer->inLength to advance.  *)
(***************************************************************************)
EXTENDS SequencerSetup, TLC

CONSTANTS
  Templates,    \* template id -> raw sequence table (as the decoder built it)
  NextSibling,  \* sequencer->next: the circular list of sibling sequencers
  TopIDs,       \* templates whose records arrive in data flowsets
  InSizes,      \* inSize of a record handed to SequencerRun
  OutSize,      \* outSize: room in the output buffer, v3 header included
  ByteVals,     \* the byte values an input byte may take
  NestLimit     \* the nestLevel limit of SequencerRun (16 in the code)

TIDs == DOMAIN Templates

ASSUME /\ NextSibling \in [TIDs -> TIDs]
       /\ TopIDs \subseteq TIDs
       /\ ByteVals \subseteq 0 .. 255

SEQ_OK == "SEQ_OK"
SEQ_ERROR == "SEQ_ERROR"
SEQ_MEM_ERR == "SEQ_MEM_ERR"
NoResult == "none"
NoSeq == 0

\* sequencer_t after SetupSequencer, one per template
Compiled == [t \in TIDs |-> SetupSequencer(Templates[t])]
NoCache == [e \in ExtIDs |-> 0]

VARIABLES
  seqr,       \* per sequencer: the compiled table and ExtSize (fixed after
              \* SetupSequencer), outLength, offsetCache (element index).
              \* inLength is left out: SequencerRun writes it for the decoder
              \* and nothing modelled here reads it back
  frames,     \* the call stack, innermost frame last
  ret,        \* result handed back by the frame that just returned
  nestLevel,  \* static int nestLevel of SequencerRun
  hdr,        \* recordHeaderV3_t: size, numElements
  elems,      \* element headers appended so far: type, length, offset
  mem,        \* input bytes read so far: position -> byte
  topSize,    \* inSize of the record being decoded
  reserved,   \* CalcOutRecordSize taken before the record was decoded
  overread,   \* some read fell at or beyond topSize
  badWrite    \* some copy wrote outside its element

vars == <<seqr, frames, ret, nestLevel, hdr, elems, mem, topSize, reserved,
          overread, badWrite>>

-----------------------------------------------------------------------------
(* Input bytes *)

\* all ways to extend mem so that positions ps are known
Fill(m, ps) ==
  { [p \in DOMAIN m \cup ps |-> IF p \in DOMAIN m THEN m[p] ELSE g[p]] :
      g \in [ps \ DOMAIN m -> ByteVals] }

Get16(m, p) == m[p] * 256 + m[p + 1]

\* a variable-length field: one length byte, or 255 and a uint16_t length
PrefixFills(m, p) ==
  { x \in Fill(m, {p}) : x[p] < 255 }
  \cup UNION { Fill(x, {p + 1, p + 2}) : x \in { y \in Fill(m, {p}) : y[p] = 255 } }
VarLen(m, p) == IF m[p] < 255 THEN m[p] ELSE Get16(m, p + 1)
VarAdv(m, p) == IF m[p] < 255 THEN 1 ELSE 3
PrefixPos(m, p) == IF m[p] < 255 THEN {p} ELSE {p, p + 1, p + 2}

Note(ps) == overread' = (overread \/ \E q \in ps : q >= topSize)

-----------------------------------------------------------------------------
(* Frames *)

RunFrame(sq, base, size) ==
  [kind |-> "run", sq |-> sq, base |-> base, size |-> size, i |-> 1,
   totalIn |-> 0, totalOut |-> 0, wait |-> FALSE, pend |-> 0]

SubFrame(kind, sq, pos, left) ==
  [kind |-> kind, sq |-> sq, pos |-> pos, left |-> left, wait |-> FALSE,
   pendSize |-> 0, pendSub |-> NoSeq]

Top == frames[Len(frames)]
SetTop(f) == [frames EXCEPT ![Len(frames)] = f]

\* mutant: the limit tested before the increment (off by one)
NestTooDeepLate(level) == level > NestLimit

\* nestLevel > 16 after nestLevel++
NestTooDeep(level) == level + 1 > NestLimit

(***************************************************************************)
(* SequencerRun entry, seen from the caller that pushed callerFrames:     *)
(* nestLevel++, an empty input returns SEQ_OK, nestLevel > limit returns  *)
(* SEQ_ERROR (both undo the increment), otherwise offsetCache is cleared  *)
(* and the loop starts.                                                   *)
(***************************************************************************)
Call(callerFrames, sq, base, size) ==
  \/ /\ size = 0
     /\ frames' = callerFrames /\ ret' = SEQ_OK
     /\ UNCHANGED <<seqr, nestLevel>>
  \/ /\ size # 0 /\ NestTooDeep(nestLevel)
     /\ frames' = callerFrames /\ ret' = SEQ_ERROR
     /\ UNCHANGED <<seqr, nestLevel>>
  \/ /\ size # 0 /\ ~NestTooDeep(nestLevel)
     /\ frames' = Append(callerFrames, RunFrame(sq, base, size))
     /\ nestLevel' = nestLevel + 1
     /\ seqr' = [seqr EXCEPT ![sq].cache = NoCache]
     /\ ret' = NoResult

\* mutant: the SEQ_MEM_ERR return forgets nestLevel--
RunReturnLeak(r) ==
  /\ frames' = Front(frames) /\ ret' = r
  /\ nestLevel' = IF r = SEQ_MEM_ERR THEN nestLevel ELSE nestLevel - 1

\* a run frame returns: nestLevel--, pop
RunReturn(r) ==
  /\ frames' = Front(frames) /\ ret' = r /\ nestLevel' = nestLevel - 1

\* a ProcessSubTemplate frame returns
SubReturn(r) == frames' = Front(frames) /\ ret' = r /\ UNCHANGED nestLevel

(***************************************************************************)
(* GetSubTemplateSequencer: walk sequencer->next from sq until the id      *)
(* matches or the walk is back at sq.                                     *)
(***************************************************************************)
RECURSIVE Walk(_, _, _)
Walk(s, self, id) ==
  IF s = id THEN s
  ELSE IF NextSibling[s] = self THEN NoSeq
  ELSE Walk(NextSibling[s], self, id)

GetSubTemplateSequencer(sq, id) == Walk(sq, sq, id)

-----------------------------------------------------------------------------
(* One iteration of the SequencerRun loop on sequence i of the top frame *)

NumSeq(sq) == Len(seqr[sq].table)
Cur(f) == seqr[f.sq].table[f.i]
Pos(f) == f.base + f.totalIn
Reads(f) == IF IsVarIn(Cur(f)) THEN PrefixFills(mem, Pos(f)) ELSE {mem}
InLen(f, m) == IF IsVarIn(Cur(f)) THEN VarLen(m, Pos(f)) ELSE Cur(f).inputLength
Adv(f, m) == IF IsVarIn(Cur(f)) THEN VarAdv(m, Pos(f)) ELSE 0
ReadPos(f, m) == IF IsVarIn(Cur(f)) THEN PrefixPos(m, Pos(f)) ELSE {}
DataPos(f, m) == LET p == Pos(f) + Adv(f, m) IN p .. p + InLen(f, m) - 1
InBounds(f, m) == f.totalIn + Adv(f, m) + InLen(f, m) <= f.size
IsSkip(s) == s.extensionID = EXnull /\ s.stackID = 0
IsSubTemplate(s) == s.inputType \in {subTemplateListType, subTemplateMultiListType}

RunReady == frames # <<>> /\ Top.kind = "run" /\ ~Top.wait /\ Top.i <= NumSeq(Top.sq)

\* reading beyond the record: SEQ_ERROR
RunBoundsError ==
  /\ RunReady
  /\ \E m \in Reads(Top) :
       /\ ~InBounds(Top, m)
       /\ mem' = m /\ Note(ReadPos(Top, m))
       /\ RunReturn(SEQ_ERROR)
  /\ UNCHANGED <<seqr, hdr, elems, topSize, reserved, badWrite>>

\* skip sequence: advance over the field
RunSkip ==
  /\ RunReady /\ IsSkip(Cur(Top)) /\ ~IsSubTemplate(Cur(Top))
  /\ \E m \in Reads(Top) :
       /\ InBounds(Top, m)
       /\ mem' = m /\ Note(ReadPos(Top, m))
       /\ frames' = SetTop([Top EXCEPT !.totalIn = @ + Adv(Top, m) + InLen(Top, m),
                                       !.i = @ + 1])
  /\ UNCHANGED <<seqr, ret, nestLevel, hdr, elems, topSize, reserved,
                 badWrite>>

\* subTemplateList / subTemplateMultiList: ProcessSubTemplate, which
\* returns SEQ_ERROR at once for an empty field and else skips the
\* semantic byte
RunSubTemplate ==
  /\ RunReady /\ IsSkip(Cur(Top)) /\ IsSubTemplate(Cur(Top))
  /\ \E m \in Reads(Top) :
       LET inL == InLen(Top, m)
           caller == SetTop([Top EXCEPT !.totalIn = @ + Adv(Top, m),
                                        !.wait = TRUE, !.pend = inL])
           kind == IF Cur(Top).inputType = subTemplateMultiListType
                   THEN "multi" ELSE "list"
       IN /\ InBounds(Top, m)
          /\ mem' = m /\ Note(ReadPos(Top, m))
          /\ \/ /\ inL < 1
                /\ frames' = caller /\ ret' = SEQ_ERROR
             \/ /\ inL >= 1
                /\ frames' = Append(caller, SubFrame(kind, Top.sq,
                                  Pos(Top) + Adv(Top, m) + 1, inL - 1))
                /\ ret' = NoResult
  /\ UNCHANGED <<seqr, nestLevel, hdr, elems, topSize, reserved,
                 badWrite>>

\* first sequence into extension e of this run carves out an element
NeedsElement(f) ==
  Cur(f).extensionID # EXnull /\ seqr[f.sq].cache[Cur(f).extensionID] = 0

\* mutant: the element sized without the variable payload
ElementSizeFixed(f, inL) == seqr[f.sq].ExtSize[Cur(f).extensionID]

ElementSize(f, inL) ==
  seqr[f.sq].ExtSize[Cur(f).extensionID]
    + (IF Cur(f).outputLength = VARLENGTH THEN inL ELSE 0)

\* no room for the element: SEQ_MEM_ERR
RunMemError ==
  /\ RunReady /\ ~IsSkip(Cur(Top)) /\ NeedsElement(Top)
  /\ \E m \in Reads(Top) :
       /\ InBounds(Top, m)
       /\ hdr.size + ElementSize(Top, InLen(Top, m)) > OutSize
       /\ mem' = m /\ Note(ReadPos(Top, m))
       /\ RunReturn(SEQ_MEM_ERR)
  /\ UNCHANGED <<seqr, hdr, elems, topSize, reserved, badWrite>>

(***************************************************************************)
(* Copy: allocate the element if needed (zeroed, header written, record   *)
(* header size and numElements bumped, offsetCache set), then copy the    *)
(* field: memcpy of min(inLength, outLength) bytes for variable, ByteCopy *)
(* or longer-than-16 fields, an integer store of outLength bytes          *)
(* otherwise.  A zero-length field is a placeholder and writes nothing.   *)
(***************************************************************************)
\* mutant: numElements not bumped with the size
AddElementHeaderNoCount(h, esz) == [h EXCEPT !.size = (@ + esz) % U16]

\* recordHeaderV3->size += elementSize; recordHeaderV3->numElements++
AddElementHeader(h, esz) ==
  [size |-> (h.size + esz) % U16, numElements |-> (h.numElements + 1) % U16]

WriteLen(s, inL, outL) ==
  IF inL = 0 THEN 0
  ELSE IF IsVarIn(s) \/ s.copyMode = "ByteCopy" \/ inL > 16 THEN Min({inL, outL})
  ELSE IF outL \in {0, 1, 2, 4, 8, 16} THEN outL
  ELSE Min({inL, outL})

\* a copy of the field writes outside its element (or through a NULL slot)
CopyOutside(f, idx, body, inL, outL) ==
  LET w == WriteLen(Cur(f), inL, outL)
  IN w > 0 /\ (idx = 0 \/ Cur(f).offsetRel + w > body)

\* the field's prefix and data are read from the input
FieldRead(f, m) ==
  /\ mem' = m
  /\ Note(ReadPos(f, m) \cup (IF InLen(f, m) = 0 THEN {} ELSE DataPos(f, m)))

\* inBuff += inLength; totalInLength += inLength; next sequence
Advance(f, m, out) ==
  frames' = SetTop([f EXCEPT !.totalIn = @ + Adv(f, m) + InLen(f, m),
                             !.totalOut = @ + out, !.i = @ + 1])

\* first sequence into its extension: carve out the element, then copy
RunAllocCopy ==
  /\ RunReady /\ ~IsSkip(Cur(Top)) /\ NeedsElement(Top)
  /\ \E m \in Reads(Top) :
       LET inL  == InLen(Top, m)
           esz  == ElementSize(Top, inL)
           e    == Cur(Top).extensionID
           outL == IF Cur(Top).outputLength = VARLENGTH THEN inL
                   ELSE Cur(Top).outputLength
       IN /\ InBounds(Top, m)
          /\ hdr.size + esz <= OutSize
          /\ FieldRead(Top, m)
          /\ elems' = Append(elems, [type |-> e, len |-> esz % U16, at |-> hdr.size])
          /\ hdr' = AddElementHeader(hdr, esz)
          /\ seqr' = [seqr EXCEPT ![Top.sq].cache[e] = Len(elems) + 1]
          /\ badWrite' = (badWrite \/ CopyOutside(Top, Len(elems) + 1,
                                                  esz - ElementHeaderSize, inL, outL))
          /\ Advance(Top, m, esz)
  /\ UNCHANGED <<ret, nestLevel, topSize, reserved>>

\* element already carved out in this run (or extension 0 with a stack
\* slot, whose offsetCache slot stays NULL): copy only
RunCopy ==
  /\ RunReady /\ ~IsSkip(Cur(Top)) /\ ~NeedsElement(Top)
  /\ \E m \in Reads(Top) :
       LET idx  == seqr[Top.sq].cache[Cur(Top).extensionID]
           body == IF idx = 0 THEN 0 ELSE elems[idx].len - ElementHeaderSize
       IN /\ InBounds(Top, m)
          /\ FieldRead(Top, m)
          /\ badWrite' = (badWrite \/ CopyOutside(Top, idx, body, InLen(Top, m),
                                                  Cur(Top).outputLength))
          /\ Advance(Top, m, 0)
  /\ UNCHANGED <<seqr, ret, nestLevel, hdr, elems, topSize, reserved>>

\* end of the loop: publish outLength of this run, SEQ_OK
RunEnd ==
  /\ frames # <<>> /\ Top.kind = "run" /\ ~Top.wait /\ Top.i > NumSeq(Top.sq)
  /\ seqr' = [seqr EXCEPT ![Top.sq].outLength = Top.totalOut]
  /\ RunReturn(SEQ_OK)
  /\ UNCHANGED <<hdr, elems, mem, topSize, reserved, overread, badWrite>>

\* back from ProcessSubTemplate: propagate an error, else step over the field
RunResume ==
  /\ frames # <<>> /\ Top.kind = "run" /\ Top.wait /\ ret # NoResult
  /\ IF ret # SEQ_OK
     THEN RunReturn(ret)
     ELSE /\ frames' = SetTop([Top EXCEPT !.totalIn = @ + Top.pend, !.i = @ + 1,
                                          !.wait = FALSE])
          /\ ret' = NoResult /\ UNCHANGED nestLevel
  /\ UNCHANGED <<seqr, hdr, elems, mem, topSize, reserved,
                 overread, badWrite>>

-----------------------------------------------------------------------------
(* ProcessSubTemplate *)

SubReady(kind) == frames # <<>> /\ Top.kind = kind /\ ~Top.wait

(***************************************************************************)
(* subTemplateMultiList: while more than 4 bytes are left, read           *)
(* (subTemplateID, subTemplateSize); a size beyond what is left is        *)
(* SEQ_ERROR; a known sub template is run over subTemplateSize bytes      *)
(* after the 4-byte entry header; then advance by subTemplateSize.        *)
(***************************************************************************)
MultiStep ==
  /\ SubReady("multi")
  /\ \/ /\ Top.left <= 4
        /\ SubReturn(SEQ_OK)
        /\ UNCHANGED <<seqr, mem, overread>>
     \/ /\ Top.left > 4
        /\ \E m \in Fill(mem, Top.pos .. Top.pos + 3) :
             LET f   == Top
                 id  == Get16(m, f.pos)
                 sz  == Get16(m, f.pos + 2)
                 sub == GetSubTemplateSequencer(f.sq, id)
             IN /\ mem' = m /\ Note(f.pos .. f.pos + 3)
                /\ \/ /\ sz > f.left
                      /\ SubReturn(SEQ_ERROR) /\ UNCHANGED seqr
                   \/ /\ sz <= f.left /\ sub = NoSeq
                      /\ frames' = SetTop([f EXCEPT !.pos = @ + sz, !.left = @ - sz])
                      /\ UNCHANGED <<seqr, ret, nestLevel>>
                   \/ /\ sz <= f.left /\ sub # NoSeq
                      /\ Call(SetTop([f EXCEPT !.wait = TRUE, !.pendSize = sz,
                                               !.pendSub = sub]),
                              sub, f.pos + 4, sz)
  /\ UNCHANGED <<hdr, elems, topSize, reserved, badWrite>>

\* back from the sub sequencer: outLength += sub outLength, then the result
MultiResume ==
  /\ frames # <<>> /\ Top.kind = "multi" /\ Top.wait /\ ret # NoResult
  /\ seqr' = [seqr EXCEPT ![Top.sq].outLength = @ + seqr[Top.pendSub].outLength]
  /\ IF ret # SEQ_OK
     THEN SubReturn(ret)
     ELSE /\ frames' = SetTop([Top EXCEPT !.pos = @ + Top.pendSize,
                                          !.left = @ - Top.pendSize,
                                          !.wait = FALSE])
          /\ ret' = NoResult /\ UNCHANGED nestLevel
  /\ UNCHANGED <<hdr, elems, mem, topSize, reserved, overread, badWrite>>

(***************************************************************************)
(* subTemplateList: fewer than 2 bytes is SEQ_ERROR; read the id and run  *)
(* a known sub template once over the rest.                               *)
(***************************************************************************)
ListStep ==
  /\ SubReady("list")
  /\ \/ /\ Top.left < 2
        /\ SubReturn(SEQ_ERROR)
        /\ UNCHANGED <<seqr, mem, overread>>
     \/ /\ Top.left >= 2
        /\ \E m \in Fill(mem, {Top.pos, Top.pos + 1}) :
             LET f   == Top
                 sub == GetSubTemplateSequencer(f.sq, Get16(m, f.pos))
             IN /\ mem' = m /\ Note({f.pos, f.pos + 1})
                /\ \/ /\ sub = NoSeq
                      /\ SubReturn(SEQ_OK) /\ UNCHANGED seqr
                   \/ /\ sub # NoSeq
                      /\ Call(SetTop([f EXCEPT !.wait = TRUE, !.pendSub = sub]),
                              sub, f.pos + 2, f.left - 2)
  /\ UNCHANGED <<hdr, elems, topSize, reserved, badWrite>>

ListResume ==
  /\ frames # <<>> /\ Top.kind = "list" /\ Top.wait /\ ret # NoResult
  /\ SubReturn(ret)
  /\ UNCHANGED <<seqr, hdr, elems, mem, topSize, reserved,
                 overread, badWrite>>

-----------------------------------------------------------------------------
(***************************************************************************)
(* VerifyV3Record over the element headers: walk numElements headers      *)
(* from offset 12; each length must fit what is left and each type be     *)
(* below MAXEXTENSIONS; at the end nothing may be left.  A walk that lands *)
(* where no header was written reads garbage and is taken as failing.    *)
(***************************************************************************)
RECURSIVE V3Walk(_, _, _, _)
V3Walk(es, off, rlen, k) ==
  IF k = 0 THEN rlen
  ELSE LET at == { j \in DOMAIN es : es[j].at = off }
       IN IF at = {} THEN -1
          ELSE LET el == es[CHOOSE j \in at : TRUE]
               IN IF el.len > rlen \/ el.type >= MaxExtensions THEN -1
                  ELSE V3Walk(es, off + el.len, rlen - el.len, k - 1)

VerifyV3Record(h, es) ==
  /\ h.size >= RecordHeaderSize
  /\ V3Walk(es, RecordHeaderSize, h.size - RecordHeaderSize, h.numElements) = 0

-----------------------------------------------------------------------------
(* The decoder around it *)

\* AddV3Header, reserve CalcOutRecordSize, SequencerRun on one record
StartRecord ==
  /\ frames = <<>> /\ ret = NoResult
  /\ \E t \in TopIDs, n \in InSizes :
       /\ topSize' = n
       /\ reserved' = CalcOutRecordSize(seqr[t].outLength)
       /\ hdr' = [size |-> RecordHeaderSize, numElements |-> 0]
       /\ elems' = <<>>
       /\ mem' = <<>>
       /\ Call(<<>>, t, 0, n)
  /\ UNCHANGED <<overread, badWrite>>

(***************************************************************************)
(* SequencerRun has returned to the decoder, which takes the result and   *)
(* moves on to the next record in a fresh part of the buffer.  What only  *)
(* this record used is dropped: the input bytes, the output elements, and *)
(* the offsetCache slots, which every run clears before it reads them.    *)
(***************************************************************************)
RecordDone ==
  /\ frames = <<>> /\ ret # NoResult
  /\ ret' = NoResult
  /\ seqr' = [t \in TIDs |-> [seqr[t] EXCEPT !.cache = NoCache]]
  /\ hdr' = [size |-> RecordHeaderSize, numElements |-> 0]
  /\ elems' = <<>> /\ mem' = <<>> /\ topSize' = 0 /\ reserved' = 0
  /\ UNCHANGED <<frames, nestLevel, overread, badWrite>>

Init ==
  /\ seqr = [t \in TIDs |-> [table     |-> Compiled[t].table,
                             ExtSize   |-> Compiled[t].ExtSize,
                             outLength |-> Compiled[t].outLength,
                             cache     |-> NoCache]]
  /\ frames = <<>> /\ ret = NoResult /\ nestLevel = 0
  /\ hdr = [size |-> RecordHeaderSize, numElements |-> 0]
  /\ elems = <<>> /\ mem = <<>>
  /\ topSize = 0 /\ reserved = 0
  /\ overread = FALSE /\ badWrite = FALSE

Next ==
  \/ StartRecord \/ RecordDone
  \/ RunBoundsError \/ RunSkip \/ RunSubTemplate \/ RunMemError \/ RunAllocCopy
  \/ RunCopy
  \/ RunEnd \/ RunResume
  \/ MultiStep \/ MultiResume \/ ListStep \/ ListResume

Spec == Init /\ [][Next]_vars /\ WF_vars(Next)

-----------------------------------------------------------------------------
(* Properties *)

RunFrames == [kind : {"run"}, sq : TIDs, base : Nat, size : Nat, i : Nat,
              totalIn : Nat, totalOut : Nat, wait : BOOLEAN, pend : Nat]
SubFrames == [kind : {"multi", "list"}, sq : TIDs, pos : Nat, left : Nat,
              wait : BOOLEAN, pendSize : Nat, pendSub : TIDs \cup {NoSeq}]
Results == {SEQ_OK, SEQ_ERROR, SEQ_MEM_ERR}

TypeOK ==
  /\ \A t \in TIDs : /\ seqr[t].outLength \in Nat
                     /\ seqr[t].cache \in [ExtIDs -> Nat]
  /\ \A k \in DOMAIN frames : frames[k] \in RunFrames \cup SubFrames
  /\ ret \in Results \cup {NoResult}
  /\ nestLevel \in 0 .. NestLimit
  /\ hdr \in [size : 0 .. U16 - 1, numElements : 0 .. U16 - 1]
  /\ \A k \in DOMAIN elems : elems[k] \in [type : ExtIDs, len : 0 .. U16 - 1, at : Nat]
  /\ \A p \in DOMAIN mem : mem[p] \in ByteVals
  /\ overread \in BOOLEAN /\ badWrite \in BOOLEAN

\* SequencerRun has just returned to the decoder with ret
Returned == frames = <<>> /\ ret # NoResult

(* The static nestLevel counts exactly the SequencerRun activations on the
   stack, through every early return (empty input, nesting limit, bounds
   error, SEQ_MEM_ERR, a failed sub template): a leaked increment would
   survive into every later record and eventually refuse all of them. *)
NestBalanced ==
  nestLevel = Cardinality({ k \in DOMAIN frames : frames[k].kind = "run" })

(* Every record that SequencerRun and its nested sub-template runs report
   SEQ_OK passes VerifyV3Record: the element headers appended by all the
   nested runs lie back to back behind the v3 header, the header's size
   and numElements account for all of them, and every element has a type
   in 1 .. MAXEXTENSIONS-1 and at least its extension's packed size. *)
RecordVerifies ==
  (Returned /\ ret = SEQ_OK) =>
    /\ VerifyV3Record(hdr, elems)
    /\ \A k \in DOMAIN elems : /\ elems[k].type # EXnull
                               /\ elems[k].len >= ExtTableSize[elems[k].type]

(* No copy of SequencerRun writes outside the element it targets: the
   offsetRel and length of every copy stay inside the element carved out
   for its extension (and no copy goes through an unset offsetCache slot). *)
NoWriteBeyondElement == ~badWrite

(* SequencerRun stays within both buffers of a record: it never reads at
   or beyond inSize of the record it was given (neither a length prefix nor
   a field nor a sub-template header), and the elements it appends fit in
   the reserve CalcOutRecordSize computed before the record was run. *)
RunWithinBuffers ==
  /\ ~overread
  /\ (Returned /\ ret = SEQ_OK) => hdr.size - RecordHeaderSize <= reserved

(* ProcessSubTemplate decodes the whole of a sub-template field and
   returns: a subTemplateList carries a list of records of one sub template,
   so when the sub template run under it finishes it has decoded every
   record of the list, i.e. consumed all the bytes it was given; and every
   SequencerRun call, with the sub runs of its multilists, returns to the
   decoder. *)
SubTemplatesProcessed ==
  /\ [][ (/\ Len(frames) >= 2 /\ frames[Len(frames) - 1].kind = "list"
          /\ RunEnd)
         => Top.totalIn = Top.size ]_vars
  /\ (frames # <<>>) ~> (frames = <<>>)


(* What spec section 4.C promises of a SequencerRun call: it stays within
   the record and the output buffer it was given (RunWithinBuffers), and
   its sub-template fields are decoded whole and every call returns
   (SubTemplatesProcessed). *)
SequencerAsSpec == [][RunWithinBuffers']_vars /\ SubTemplatesProcessed

=============================================================================
