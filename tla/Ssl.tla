-------------------------------- MODULE Ssl --------------------------------
(***************************************************************************)
(* sslProcess of src/libnfdump/ssl/ssl.c, which parses one TLS record     *)
(* carrying a ClientHello or ServerHello, and ja3Process of               *)
(* src/libnfdump/ja3/ja3.c, which renders the parsed record as the JA3    *)
(* string.  The record bytes are `data'; the parser reads them through a  *)
(* bounds-checked byte stream `strm'.  sslProcess and the handshake       *)
(* prefix are one step, each iteration of an extension loop is one step,  *)
(* and the JA3 rendering of an accepted record is the last step.          *)
(***************************************************************************)
EXTENDS Integers, Sequences, SequencesExt

CONSTANTS
  Hellos,      \* the handshake records handed to sslProcess, as
               \* descriptions that Encode turns into bytes
  ProbeBytes   \* the bytes of the u16 values the GREASE test is checked on

VARIABLES
  hello,    \* the description data was encoded from (it never changes)
  data,     \* the record bytes, data[1] is the record type
  strm,     \* the byte stream: [pos |-> bytes consumed, err |-> error flag]
  stage,    \* where sslProcess is
  ssl,      \* the ssl_t being filled
  extLeft,  \* extensionLength (client) or sizeLeft (server) of the loop
  ja3       \* the JA3 string of an accepted record

vars == <<hello, data, strm, stage, ssl, extLeft, ja3>>

CLIENTssl == 1
SERVERssl == 2

-----------------------------------------------------------------------------
(* The byte stream of stream.h (spec section 4.A): a read of n bytes that  *)
(* are not available sets the sticky error flag, yields 0 and leaves the   *)
(* cursor; every read is big-endian.                                       *)

Avail(s) == Len(data) - s.pos

BigEndian(bytes) == FoldLeft(LAMBDA v, b : v * 256 + b, 0, bytes)

Failed(s) == [s EXCEPT !.err = TRUE]

GetX(s, n) ==
  IF Avail(s) >= n
  THEN [v |-> SubSeq(data, s.pos + 1, s.pos + n), s |-> [s EXCEPT !.pos = @ + n]]
  ELSE [v |-> <<>>, s |-> Failed(s)]

Get(s, n) == LET x == GetX(s, n) IN [v |-> BigEndian(x.v), s |-> x.s]

\* mutant: the cursor moves on even when the bytes are not there
SkipUnchecked(s, n) ==
  IF Avail(s) >= n THEN GetX(s, n).s ELSE [Failed(s) EXCEPT !.pos = @ + n]

Skip(s, n) == GetX(s, n).s

-----------------------------------------------------------------------------
\* mutant: the mask test alone, without the equal-bytes test
GreaseMaskOnly(val) == val % 16 = 10 /\ (val \div 256) % 16 = 10

\* checkGREASE: (val & 0x0f0f) == 0x0a0a and both bytes equal
checkGREASE(val) ==
  /\ val % 16 = 10 /\ (val \div 256) % 16 = 10
  /\ val % 256 = val \div 256

\* mutant: the GREASE values kept
NotGreaseNone(vals) == vals

\* the checkGREASE(cipher) == 0 test of the cipher loop
NotGrease(vals) == SelectSeq(vals, LAMBDA v : ~checkGREASE(v))

\* k values of w bytes each, as the for loops of the list parsers read them
RECURSIVE ReadList(_, _, _)
ReadList(s, k, w) ==
  IF k = 0 THEN [v |-> <<>>, s |-> s]
  ELSE LET x    == Get(s, w)
           rest == ReadList(x.s, k - 1, w)
       IN [v |-> <<x.v>> \o rest.v, s |-> rest.s]

\* the result of an extension parser: its return value, stream and ssl_t
Result(ok, s, r) == [ok |-> ok, s |-> s, ssl |-> r]

\* ProcessExtSNI: list length, name type, name length, name, and the rest
\* of the list skipped
ProcessExtSNI(r, s) ==
  LET list == Get(s, 2)
      len  == Get(Skip(list.s, 1), 2)
      name == GetX(len.s, len.v)
      rest == IF len.v + 3 < list.v THEN Skip(name.s, list.v - len.v - 3)
              ELSE name.s
  IN IF len.v > Avail(len.s) \/ len.v > 255 THEN Result(FALSE, len.s, r)
     ELSE Result(TRUE, rest, [r EXCEPT !.sni = name.v])

\* ProcessExtElCurves and ProcessSignatures: a u16 length, then
\* length >> 1 u16 values appended to the list
ProcessU16List(r, s, field) ==
  LET len  == Get(s, 2)
      vals == ReadList(len.s, len.v \div 2, 2)
  IN IF len.v > Avail(len.s) THEN Result(FALSE, len.s, r)
     ELSE Result(TRUE, vals.s, [r EXCEPT ![field] = @ \o vals.v])

\* ProcessExtElCurvesPoints: a u8 count, then that many u8 values
ProcessExtElCurvesPoints(r, s) ==
  LET len  == Get(s, 1)
      vals == ReadList(len.s, len.v, 1)
  IN IF len.v > Avail(len.s) THEN Result(FALSE, len.s, r)
     ELSE Result(TRUE, vals.s, [r EXCEPT !.curvesPF = @ \o vals.v])

\* the do ... while of ProcessExtALPN: the first name is copied, the others
\* skipped, until alpnCnt reaches alpnLength or the stream fails
RECURSIVE AlpnLoop(_, _, _, _)
AlpnLoop(s, cnt, name, alpnLength) ==
  LET len  == Get(s, 1)
      x    == GetX(len.s, len.v)
      next == IF cnt = 0 THEN x.s ELSE Skip(len.s, len.v)
      nm   == IF cnt = 0 THEN x.v ELSE name
      cnt2 == cnt + len.v + 1
  IN IF cnt2 < alpnLength /\ ~next.err THEN AlpnLoop(next, cnt2, nm, alpnLength)
     ELSE [s |-> next, name |-> nm]

ProcessExtALPN(r, s) ==
  LET len  == Get(s, 2)
      loop == AlpnLoop(len.s, 0, <<>>, len.v)
  IN IF len.v > Avail(len.s) THEN Result(FALSE, len.s, r)
     ELSE Result(~loop.s.err, loop.s, [r EXCEPT !.alpn = loop.name])

\* the switch (exType) of sslParseExtensions
ParseExtension(r, s, exType, exLength) ==
  CASE exType = 0  -> ProcessExtSNI(r, s)
    [] exType = 10 -> ProcessU16List(r, s, "curves")
    [] exType = 11 -> ProcessExtElCurvesPoints(r, s)
    [] exType = 13 -> ProcessU16List(r, s, "signatures")
    [] exType = 16 -> ProcessExtALPN(r, s)
    [] OTHER       -> Result(TRUE, IF exLength # 0 THEN Skip(s, exLength) ELSE s, r)

-----------------------------------------------------------------------------
\* the tlsCharVersion tables of the two handshake parsers
ClientCharVersion == (2 :> "s2") @@ (768 :> "s3") @@ (769 :> "10")
                       @@ (770 :> "11") @@ (771 :> "12") @@ (772 :> "13")
ServerCharVersion == (2 :> "s2") @@ (768 :> "s3") @@ (769 :> "10")
                       @@ (770 :> "12") @@ (771 :> "13")

\* the record versions sslProcess accepts
RecordVersions == {2, 768, 769, 770, 771}

\* a calloc()ed ssl_t
NoSsl == [tlsVersion |-> 0, charVersion |-> "", protocolVersion |-> 0,
          type |-> 0, ciphers |-> <<>>, extensions |-> <<>>, curves |-> <<>>,
          curvesPF |-> <<>>, signatures |-> <<>>, alpn |-> <<>>, sni |-> <<>>]

\* sslProcess up to the switch (messageType): the record type, version,
\* content length and message length checks
RecordHeader ==
  LET ver == Get(Skip([pos |-> 0, err |-> FALSE], 1), 2)
      cl  == Get(ver.s, 2)
      mt  == Get(cl.s, 1)
      ml  == Get(mt.s, 3)
  IN [ok   |-> /\ Len(data) >= 9 /\ data[1] = 22
               /\ ver.v \in RecordVersions
               /\ cl.v <= Avail(cl.s)
               /\ ml.v <= Avail(ml.s),
      tls  |-> ver.v, type |-> mt.v, s |-> ml.s]

NoHello(s) == [ok |-> FALSE, s |-> s, ssl |-> NoSsl, extLen |-> 0]

\* sslParseClientHandshake up to its call of sslParseExtensions, and the
\* length == 0 check that call starts with
ClientHandshake(s0, tls) ==
  LET ver == Get(s0, 2)
      sid == Get(Skip(ver.s, 32), 1)
      cl  == Get(IF sid.v # 0 THEN Skip(sid.s, sid.v) ELSE sid.s, 2)
      cs  == ReadList(cl.s, cl.v \div 2, 2)
      cm  == Get(cs.s, 1)
      el  == Get(IF cm.v # 0 THEN Skip(cm.s, cm.v) ELSE cm.s, 2)
  IN IF /\ Avail(s0) >= 35
        /\ ver.v \in DOMAIN ClientCharVersion
        /\ Avail(sid.s) >= sid.v + 2
        /\ Avail(cl.s) >= cl.v + 1
        /\ cl.v \div 2 # 0
        /\ Avail(cm.s) >= cm.v + 2
        /\ Avail(el.s) >= el.v
        /\ el.v # 0
     THEN [ok |-> TRUE, s |-> el.s, extLen |-> el.v,
           ssl |-> [NoSsl EXCEPT !.tlsVersion = tls, !.type = CLIENTssl,
                      !.protocolVersion = ver.v,
                      !.charVersion = ClientCharVersion[ver.v],
                      !.ciphers = NotGrease(cs.v)]]
     ELSE NoHello(s0)

\* sslParseServerHandshake up to its extension loop
ServerHandshake(s0, tls) ==
  LET ver == Get(s0, 2)
      sid == Get(Skip(ver.s, 32), 1)
      cs  == Get(IF sid.v # 0 THEN Skip(sid.s, sid.v) ELSE sid.s, 2)
      el  == Get(Skip(cs.s, 1), 2)
  IN IF /\ Avail(s0) >= 35
        /\ ver.v \in DOMAIN ServerCharVersion
        /\ Avail(sid.s) >= sid.v + 5
        /\ Avail(el.s) >= el.v
     THEN [ok |-> TRUE, s |-> el.s, extLen |-> el.v,
           ssl |-> [NoSsl EXCEPT !.tlsVersion = tls, !.type = SERVERssl,
                      !.protocolVersion = ver.v,
                      !.charVersion = ServerCharVersion[ver.v],
                      !.ciphers = <<cs.v>>]]
     ELSE NoHello(s0)

Handshake(h) ==
  IF h.type = 1 THEN ClientHandshake(h.s, h.tls) ELSE ServerHandshake(h.s, h.tls)

-----------------------------------------------------------------------------
(* The wire format of a TLS record carrying a hello (spec sections 4.I   *)
(* and 6), from a description: the fields, the extensions as type and    *)
(* body, and deltas that make a length field disagree with what follows.  *)

U16(v) == <<v \div 256, v % 256>>
U24(v) == <<v \div 65536, (v \div 256) % 256, v % 256>>
Zeros(n) == [i \in 1..n |-> 0]
Concat(chunks) == FlattenSeq(chunks)

EncodeExt(e) == U16(e.type) \o U16(Len(e.body) + e.dlen) \o e.body

ExtBlock(h) == Concat([i \in 1..Len(h.exts) |-> EncodeExt(h.exts[i])])

HelloBody(h) ==
  U16(h.pver) \o Zeros(32) \o <<h.sid>> \o Zeros(h.sid)
  \o (IF h.side = "client"
      THEN U16(2 * Len(h.ciphers)) \o Concat([i \in 1..Len(h.ciphers) |-> U16(h.ciphers[i])])
           \o <<h.comp>> \o Zeros(h.comp)
      ELSE U16(h.ciphers[1]) \o <<0>>)
  \o U16(Len(ExtBlock(h)) + h.dext) \o ExtBlock(h)

Message(h) == <<h.mtype>> \o U24(Len(HelloBody(h)) + h.dmsg) \o HelloBody(h)

Encode(h) == <<h.rtype>> \o U16(h.rver) \o U16(Len(Message(h)) + h.drec)
             \o Message(h) \o h.trail

-----------------------------------------------------------------------------
Init ==
  /\ hello \in Hellos
  /\ data = Encode(hello)
  /\ strm = [pos |-> 0, err |-> FALSE]
  /\ stage = "start"
  /\ ssl = NoSsl
  /\ extLeft = 0
  /\ ja3 = ""

\* sslProcess returns NULL: a bad record header, a message other than
\* ClientHello or ServerHello, or a handshake parser that returns 0
Reject ==
  /\ stage = "start"
  /\ \/ ~RecordHeader.ok
     \/ RecordHeader.type \notin {1, 2}
     \/ RecordHeader.type \in {1, 2} /\ ~Handshake(RecordHeader).ok
  /\ stage' = "rejected"
  /\ UNCHANGED <<hello, data, strm, ssl, extLeft, ja3>>

\* sslProcess dispatches a ClientHello (1) or ServerHello (2) whose fixed
\* part parses; the extension loop follows
Hello ==
  /\ stage = "start"
  /\ RecordHeader.ok /\ RecordHeader.type \in {1, 2}
  /\ LET h == Handshake(RecordHeader)
     IN /\ h.ok
        /\ strm' = h.s /\ ssl' = h.ssl /\ extLeft' = h.extLen
        /\ stage' = IF RecordHeader.type = 1 THEN "cext" ELSE "sext"
  /\ UNCHANGED <<hello, data, ja3>>

\* the next extension header
ExType == Get(strm, 2)
ExLength == Get(ExType.s, 2)
SkipBody == IF ExLength.v # 0 THEN Skip(ExLength.s, ExLength.v) ELSE ExLength.s

\* a GREASE extension: both loops skip it and count it off
GreaseExtension ==
  /\ stage \in {"cext", "sext"} /\ extLeft >= 4
  /\ checkGREASE(ExType.v)
  /\ extLeft' = extLeft - (4 + ExLength.v)
  /\ strm' = SkipBody
  /\ UNCHANGED <<hello, data, stage, ssl, ja3>>

ClientParse == ParseExtension([ssl EXCEPT !.extensions = Append(@, ExType.v)],
                              ExLength.s, ExType.v, ExLength.v)

\* sslParseExtensions: an extension longer than the stream, or one whose
\* parser returns 0, fails the ClientHello
ClientExtensionError ==
  /\ stage = "cext" /\ extLeft >= 4 /\ ~checkGREASE(ExType.v)
  /\ ExLength.v > Avail(ExLength.s) \/ ~ClientParse.ok
  /\ stage' = "rejected"
  /\ UNCHANGED <<hello, data, strm, ssl, extLeft, ja3>>

\* sslParseExtensions: the type is recorded and its parser run
ClientExtension ==
  /\ stage = "cext" /\ extLeft >= 4 /\ ~checkGREASE(ExType.v)
  /\ ExLength.v <= Avail(ExLength.s) /\ ClientParse.ok
  /\ strm' = ClientParse.s
  /\ ssl' = ClientParse.ssl
  /\ extLeft' = extLeft - (4 + ExLength.v)
  /\ UNCHANGED <<hello, data, stage, ja3>>

\* sslParseServerHandshake: the type is recorded and the body skipped
ServerExtension ==
  /\ stage = "sext" /\ extLeft >= 4 /\ ~checkGREASE(ExType.v)
  /\ extLeft' = extLeft - (4 + ExLength.v)
  /\ ssl' = [ssl EXCEPT !.extensions = Append(@, ExType.v)]
  /\ strm' = SkipBody
  /\ UNCHANGED <<hello, data, stage, ja3>>

\* both loops end once fewer than 4 bytes are left, and sslProcess
\* returns the ssl_t
HelloDone ==
  /\ stage \in {"cext", "sext"} /\ extLeft < 4
  /\ stage' = "accepted"
  /\ UNCHANGED <<hello, data, strm, ssl, extLeft, ja3>>

-----------------------------------------------------------------------------
(* ja3Process                                                             *)

Digits == <<"0", "1", "2", "3", "4", "5", "6", "7", "8", "9">>

\* "%u"
RECURSIVE Decimal(_)
Decimal(n) == IF n < 10 THEN Digits[n + 1]
              ELSE Decimal(n \div 10) \o Digits[(n % 10) + 1]

\* mutant: the trailing '-' kept
AppendListDash(str, vals) ==
  FoldLeft(LAMBDA acc, v : acc \o Decimal(v) \o "-", str, vals)

\* snprintf(s, sLen, "%u-", v) for each value, then --s over the last '-'
AppendList(str, vals) ==
  LET w == FoldLeft(LAMBDA acc, v : acc \o Decimal(v) \o "-", str, vals)
  IN IF vals # <<>> THEN SubSeq(w, 1, Len(w) - 1) ELSE w

\* the string ja3Process hashes: version, ciphers and extensions, and for
\* a client the curves and point formats
Ja3String(r) ==
  LET ce == AppendList(AppendList(Decimal(r.protocolVersion) \o ",", r.ciphers) \o ",",
                       r.extensions)
  IN IF r.type = CLIENTssl
     THEN AppendList(AppendList(ce \o ",", r.curves) \o ",", r.curvesPF)
     ELSE ce

\* the characters CheckStringSize counts off for a list
ListChars(vals) == FoldLeft(LAMBDA n, v : n + Len(Decimal(v)) + 1, 0, vals)

\* sLen after the last CheckStringSize: the buffer of 6 characters per
\* value and per field, less the version, its comma and every "%u-"
Ja3Left(r) ==
  LET size == 6 * (6 + Len(r.ciphers) + Len(r.extensions) + Len(r.curves)
                   + Len(r.curvesPF)) + 1
      lists == ListChars(r.ciphers) + ListChars(r.extensions)
               + IF r.type = CLIENTssl THEN ListChars(r.curves) + ListChars(r.curvesPF)
                 ELSE 0
  IN size - 1 - Len(Decimal(r.protocolVersion) \o ",") - lists

\* ja3Process of the accepted record: abort() once sLen would underflow,
\* NULL once it is 0, else the JA3 string (whose MD5 is the fingerprint)
Ja3 ==
  /\ stage = "accepted"
  /\ stage' = IF Ja3Left(ssl) < 0 THEN "aborted" ELSE "done"
  /\ ja3' = IF Ja3Left(ssl) > 0 THEN Ja3String(ssl) ELSE "NULL"
  /\ UNCHANGED <<hello, data, strm, ssl, extLeft>>

Next ==
  \/ Reject \/ Hello
  \/ GreaseExtension \/ ClientExtensionError \/ ClientExtension
  \/ ServerExtension \/ HelloDone
  \/ Ja3

Spec == Init /\ [][Next]_vars /\ WF_vars(Next)

-----------------------------------------------------------------------------
(* What the spec says of the parse (section 4.I) and of the GREASE filter *)
(* (section 8 item 6).                                                    *)

\* the 16 GREASE values 0x0a0a, 0x1a1a, .., 0xfafa
GreaseValues == {x * 4096 + 2560 + x * 16 + 10 : x \in 0..15}

SpecNoGrease(vals) == SelectSeq(vals, LAMBDA v : v \notin GreaseValues)

ExtTypes(h) == [i \in 1..Len(h.exts) |-> h.exts[i].type]

\* what the extensions of type t carry, in order
ItemsOf(h, t) ==
  Concat([i \in 1..Len(h.exts) |-> IF h.exts[i].type = t THEN h.exts[i].items ELSE <<>>])

\* a hello whose record, message and extension-block lengths and every
\* extension length agree with what follows them
WellFramed(h) ==
  /\ h.rtype = 22 /\ h.rver \in RecordVersions
  /\ h.drec = 0 /\ h.dmsg = 0 /\ h.dext = 0
  /\ \A i \in 1..Len(h.exts) : h.exts[i].dlen = 0
  /\ Len(h.ciphers) > 0
  /\ \/ h.side = "client" /\ h.mtype = 1 /\ h.pver \in DOMAIN ClientCharVersion
        /\ Len(h.exts) > 0
     \/ h.side = "server" /\ h.mtype = 2 /\ h.pver \in DOMAIN ServerCharVersion

\* ... and whose extension bodies are well formed as well
WellFormed(h) == WellFramed(h) /\ \A i \in 1..Len(h.exts) : h.exts[i].wf

\* the JA3 string of spec section 4.I: decimal lists joined by '-', fields
\* by ','
Hyphens(vals) ==
  IF vals = <<>> THEN ""
  ELSE FoldLeft(LAMBDA acc, v : acc \o "-" \o Decimal(v), Decimal(Head(vals)), Tail(vals))

SpecJa3(r) ==
  LET fields == <<Decimal(r.protocolVersion), Hyphens(r.ciphers), Hyphens(r.extensions)>>
                \o (IF r.type = CLIENTssl THEN <<Hyphens(r.curves), Hyphens(r.curvesPF)>>
                    ELSE <<>>)
  IN FoldLeft(LAMBDA acc, f : acc \o "," \o f, Head(fields), Tail(fields))

Terminal == stage \in {"rejected", "done", "aborted"}
Accepted == stage \in {"accepted", "done", "aborted"}

-----------------------------------------------------------------------------
U16Seq(q) == \A i \in 1..Len(q) : q[i] \in 0..65535

TypeOK ==
  /\ data = Encode(hello)
  /\ stage \in {"start", "cext", "sext", "accepted", "rejected", "done", "aborted"}
  /\ strm.pos \in 0..Len(data) /\ strm.err \in BOOLEAN
  /\ extLeft \in -65539..65535
  /\ U16Seq(ssl.ciphers) /\ U16Seq(ssl.extensions) /\ U16Seq(ssl.curves)
  /\ U16Seq(ssl.signatures) /\ U16Seq(ssl.curvesPF)
  /\ Len(ssl.sni) <= 255 /\ Len(ssl.alpn) <= 255
  /\ ja3 \in STRING

\* checkGREASE, which the cipher and extension loops filter with, holds of
\* exactly the 16 GREASE values (spec section 8 item 6), on every u16 made
\* of two bytes that are probe bytes or bytes of the record being parsed.
GreaseFilterExact ==
  \A hi, lo \in ProbeBytes \cup ToSet(data) : checkGREASE(hi * 256 + lo) <=> hi * 256 + lo \in GreaseValues

\* A well-formed ClientHello or ServerHello is accepted, and sslProcess
\* records the version, the non-GREASE cipher suites and extension types,
\* and for a client the non-GREASE curves, the point formats, signatures,
\* SNI name and first ALPN name that the extension bodies carry.
HelloParsedAsSpec ==
  Terminal /\ WellFormed(hello) =>
    /\ stage = "done"
    /\ ssl.protocolVersion = hello.pver
    /\ ssl.ciphers = SpecNoGrease(hello.ciphers)
    /\ ssl.extensions = SpecNoGrease(ExtTypes(hello))
    /\ hello.side = "client" =>
         /\ ssl.curves = SpecNoGrease(ItemsOf(hello, 10))
         /\ ssl.curvesPF = ItemsOf(hello, 11)
         /\ ssl.signatures = ItemsOf(hello, 13)
         /\ ssl.sni = ItemsOf(hello, 0)
         /\ ssl.alpn = ItemsOf(hello, 16)

\* sslProcess only returns an ssl_t whose every field was read from the
\* record, and whose extension list is the non-GREASE types of the
\* extensions the record frames, whatever their bodies hold: no read of the
\* byte stream runs past the record's end (spec sections 4.A and 7: a
\* truncated record is skipped), and the loops of sslParseExtensions and of
\* the ServerHello step from one extension to the next by its length.
AcceptedWithinRecord ==
  Accepted =>
    /\ ~strm.err
    /\ WellFramed(hello) => ssl.extensions = SpecNoGrease(ExtTypes(hello))

\* ja3Process renders every record sslProcess accepts, never aborting or
\* returning NULL, as the JA3 string of spec section 4.I: the trailing '-'
\* of every list is dropped and a ServerHello stops after its extensions.
Ja3MatchesSpec == Terminal /\ Accepted => stage = "done" /\ ja3 = SpecJa3(ssl)
\* What sslProcess returns is what spec section 4.I says the record holds:
\* a well-formed hello is parsed as the spec parses it, GREASE values of
\* every list removed, and no accepted record was read past its end or
\* lost an extension it frames.
SslProcessAsSpec == HelloParsedAsSpec /\ AcceptedWithinRecord
=============================================================================
