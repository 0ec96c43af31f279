------------------------------- MODULE MCSsl -------------------------------
(***************************************************************************)
(* Ssl for TLC.  ClientHellos carry one or two extensions of distinct     *)
(* types, chosen from well-formed SNI, curve, point-format, signature,    *)
(* ALPN, unparsed and GREASE extensions and from malformed bodies: a      *)
(* curve list shorter than its extension or of odd length, an SNI list    *)
(* longer than its name, an empty ALPN list.  Single changes of a base    *)
(* ClientHello reach every early return of sslProcess and the handshake   *)
(* parsers, and ServerHellos carry up to two extensions.                  *)
(***************************************************************************)
EXTENDS Ssl

Ext(t, body, items) == [type |-> t, body |-> body, dlen |-> 0, wf |-> TRUE, items |-> items]
Malformed(t, body) == [Ext(t, body, <<>>) EXCEPT !.wf = FALSE]
U16s(vals) == Concat([i \in 1..Len(vals) |-> U16(vals[i])])

Sni(name)     == Ext(0, U16(Len(name) + 3) \o <<0>> \o U16(Len(name)) \o name, name)
Curves(vals)  == Ext(10, U16(2 * Len(vals)) \o U16s(vals), vals)
Points(vals)  == Ext(11, <<Len(vals)>> \o vals, vals)
Sigs(vals)    == Ext(13, U16(2 * Len(vals)) \o U16s(vals), vals)
Alpn(name)    == Ext(16, U16(Len(name) + 1) \o <<Len(name)>> \o name, name)
Unparsed(t)   == Ext(t, <<0>>, <<>>)
Grease        == Ext(2570, <<>>, <<>>)

WellFormedExts ==
  {Sni(<<104>>), Curves(<<29, 23>>), Points(<<0>>), Sigs(<<1027>>),
   Alpn(<<104, 50>>), Unparsed(65281), Grease}

MalformedExts ==
  {Malformed(10, U16(2) \o U16(29) \o <<0, 0>>),   \* list shorter than body
   Malformed(10, U16(3) \o <<0, 29, 0>>),          \* odd list length
   Malformed(0, U16(9) \o <<0>> \o U16(1) \o <<104>>),  \* list past its name
   Malformed(16, U16(0))}                          \* empty ALPN list

ExtPairs(exts) ==
  {<<e>> : e \in exts} \cup {<<e, f>> \in exts \X exts : e.type # f.type}

BaseClient ==
  [side |-> "client", rtype |-> 22, rver |-> 769, drec |-> 0, mtype |-> 1,
   dmsg |-> 0, pver |-> 771, sid |-> 0, ciphers |-> <<4865, 2570>>, comp |-> 1,
   exts |-> <<Sni(<<104>>)>>, dext |-> 0, trail |-> <<>>]

BaseServer == [BaseClient EXCEPT !.side = "server", !.mtype = 2,
                                 !.ciphers = <<4865>>, !.exts = <<>>]

\* one change each of the base ClientHello
ClientVariants ==
  {[BaseClient EXCEPT !.rtype = 23], [BaseClient EXCEPT !.rver = 772],
   [BaseClient EXCEPT !.drec = 1], [BaseClient EXCEPT !.dmsg = 1],
   [BaseClient EXCEPT !.mtype = 0], [BaseClient EXCEPT !.mtype = 11],
   [BaseClient EXCEPT !.pver = 772], [BaseClient EXCEPT !.pver = 773],
   [BaseClient EXCEPT !.sid = 32], [BaseClient EXCEPT !.ciphers = <<>>],
   [BaseClient EXCEPT !.exts = <<>>], [BaseClient EXCEPT !.dext = 1],
   [BaseClient EXCEPT !.dext = -1, !.trail = <<0>>],
   [BaseClient EXCEPT !.exts = <<[Unparsed(23) EXCEPT !.dlen = 2]>>],
   [BaseClient EXCEPT !.exts = <<[Unparsed(23) EXCEPT !.dlen = -1]>>],
   [BaseClient EXCEPT !.trail = <<22, 3>>]}

ServerHellos ==
  {[BaseServer EXCEPT !.exts = x] : x \in {<<>>} \cup ExtPairs({Unparsed(23), Grease, Alpn(<<104>>)})}
  \cup {[BaseServer EXCEPT !.exts = <<[Unparsed(23) EXCEPT !.dlen = 3]>>],
        [BaseServer EXCEPT !.pver = 772]}

MCHellos ==
  {[BaseClient EXCEPT !.exts = x] : x \in ExtPairs(WellFormedExts \cup MalformedExts)}
  \cup ClientVariants \cup ServerHellos

\* the same, with a GREASE value in a curve list
MCHellosGreaseCurve ==
  MCHellos \cup {[BaseClient EXCEPT !.exts = <<Curves(<<2570, 29>>)>>]}

MCProbeBytes == {0, 10, 11, 26, 170, 171, 250}
=============================================================================
