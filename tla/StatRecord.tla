----------------------------- MODULE StatRecord -----------------------------
(***************************************************************************)
(* The stat record updaters of src/inline/nfdump_inline.c.               *)
(* UpdateStatRecord takes a record's genericFlow and cntFlow extensions  *)
(* (either may be missing: NULL); UpdateRawStat takes the two extension  *)
(* pointers directly.  Both add a record's flows, packets and bytes to   *)
(* one protocol bucket and to the totals, and widen the firstseen ..     *)
(* lastseen window.  The state machine applies any sequence of records   *)
(* with either updater to one stat record.                               *)
(***************************************************************************)
EXTENDS Naturals

CONSTANTS
  NULL,          \* a missing extension
  GenericFlows,  \* genericFlow extensions: [proto, inPackets, inBytes,
                 \*                          msecFirst, msecLast]
  CntFlows,      \* cntFlow extensions: [outPackets, outBytes, flows]
  NeverSeen      \* firstseen of a fresh stat record, above every msecFirst

IPPROTO_ICMP == 1
IPPROTO_TCP == 6
IPPROTO_UDP == 17
IPPROTO_ICMPV6 == 58

Buckets == {"icmp", "tcp", "udp", "other"}

\* mutant: ICMPv6 counted as "other"
BucketNoV6(proto) ==
  CASE proto = IPPROTO_ICMP -> "icmp"
    [] proto = IPPROTO_TCP  -> "tcp"
    [] proto = IPPROTO_UDP  -> "udp"
    [] OTHER                -> "other"

\* the switch (genericFlow->proto) of both updaters
Bucket(proto) ==
  CASE proto \in {IPPROTO_ICMP, IPPROTO_ICMPV6} -> "icmp"
    [] proto = IPPROTO_TCP                      -> "tcp"
    [] proto = IPPROTO_UDP                      -> "udp"
    [] OTHER                                    -> "other"

NoCounts == [flows |-> 0, packets |-> 0, bytes |-> 0]

\* a fresh stat_record_t
EmptyStat == [bucket    |-> [b \in Buckets |-> NoCounts],
              total     |-> NoCounts,
              firstseen |-> NeverSeen,
              lastseen  |-> 0]

\* numflows_x += flows; numpackets_x += in + out; numbytes_x += in + out
AddCounts(c, flows, packets, bytes) ==
  [flows |-> c.flows + flows, packets |-> c.packets + packets,
   bytes |-> c.bytes + bytes]

\* mutant: firstseen overwritten without the comparison
WidenAlways(s, first, last) ==
  [s EXCEPT !.firstseen = first,
            !.lastseen  = IF last > @ THEN last ELSE @]

\* if (msecFirst < firstseen) firstseen = msecFirst; likewise lastseen
Widen(s, first, last) ==
  [s EXCEPT !.firstseen = IF first < @ THEN first ELSE @,
            !.lastseen  = IF last > @ THEN last ELSE @]

\* the bucket, the totals and the window, as both updaters end
Account(s, proto, flows, packets, bytes, first, last) ==
  Widen([s EXCEPT !.bucket[Bucket(proto)] = AddCounts(@, flows, packets, bytes),
                  !.total = AddCounts(@, flows, packets, bytes)],
        first, last)

\* UpdateStatRecord: nothing without genericFlow; flows is cntFlow->flows,
\* and 1 where that is 0 or cntFlow is missing
UpdateStatRecord(s, g, c) ==
  IF g = NULL THEN s
  ELSE LET out   == IF c = NULL THEN [outPackets |-> 0, outBytes |-> 0, flows |-> 0]
                    ELSE c
           flows == IF out.flows # 0 THEN out.flows ELSE 1
       IN Account(s, g.proto, flows, g.inPackets + out.outPackets,
                  g.inBytes + out.outBytes, g.msecFirst, g.msecLast)

\* UpdateRawStat: a missing genericFlow counts as proto 0 with zero
\* counters and times; a missing cntFlow as one flow; cntFlow->flows as is
UpdateRawStat(s, g, c) ==
  LET in  == IF g = NULL
             THEN [proto |-> 0, inPackets |-> 0, inBytes |-> 0,
                   msecFirst |-> 0, msecLast |-> 0]
             ELSE g
      out == IF c = NULL THEN [outPackets |-> 0, outBytes |-> 0, flows |-> 1]
             ELSE c
  IN Account(s, in.proto, out.flows, in.inPackets + out.outPackets,
             in.inBytes + out.outBytes, in.msecFirst, in.msecLast)

VARIABLE stat

GenericOrNull == GenericFlows \cup {NULL}
CntOrNull == CntFlows \cup {NULL}

Init == stat = EmptyStat

\* a reader (nfdump) accounts a v3 record
StatUpdate(g, c) == stat' = UpdateStatRecord(stat, g, c)

\* a writer accounts a flow from its extension pointers
RawUpdate(g, c) == stat' = UpdateRawStat(stat, g, c)

Next ==
  \E g \in GenericOrNull, c \in CntOrNull : StatUpdate(g, c) \/ RawUpdate(g, c)

-----------------------------------------------------------------------------
(* The updater of spec section 4.J, for a record with a genericFlow.      *)
SpecBucket(proto) ==
  IF proto \in {1, 58} THEN "icmp"
  ELSE IF proto = 6 THEN "tcp" ELSE IF proto = 17 THEN "udp" ELSE "other"

SpecUpdate(s, g, c) ==
  LET flows   == IF c # NULL /\ c.flows # 0 THEN c.flows ELSE 1
      packets == g.inPackets + (IF c = NULL THEN 0 ELSE c.outPackets)
      bytes   == g.inBytes + (IF c = NULL THEN 0 ELSE c.outBytes)
      add(x)  == [flows |-> x.flows + flows, packets |-> x.packets + packets,
                  bytes |-> x.bytes + bytes]
  IN [bucket    |-> [s.bucket EXCEPT ![SpecBucket(g.proto)] = add(@)],
      total     |-> add(s.total),
      firstseen |-> IF g.msecFirst < s.firstseen THEN g.msecFirst ELSE s.firstseen,
      lastseen  |-> IF g.msecLast > s.lastseen THEN g.msecLast ELSE s.lastseen]

\* Spec section 8 item 5: from any stat record the updaters reach, applying
\* two records in either order gives the same stat record, with either
\* updater (the counters add, firstseen and lastseen are a min and a max).
UpdateOrderIndependent ==
  \A g1, g2 \in GenericOrNull, c1, c2 \in CntOrNull :
    /\ UpdateStatRecord(UpdateStatRecord(stat, g1, c1), g2, c2)
         = UpdateStatRecord(UpdateStatRecord(stat, g2, c2), g1, c1)
    /\ UpdateRawStat(UpdateRawStat(stat, g1, c1), g2, c2)
         = UpdateRawStat(UpdateRawStat(stat, g2, c2), g1, c1)

\* UpdateStatRecord is the updater of spec section 4.J on every record with
\* a genericFlow (protocol bucket, flows ? flows : 1, in + out counters,
\* min/max window), and ignores a record without one.
StatMatchesSpec ==
  \A g \in GenericOrNull, c \in CntOrNull :
    UpdateStatRecord(stat, g, c) = IF g = NULL THEN stat ELSE SpecUpdate(stat, g, c)

\* UpdateRawStat is the same updater of spec section 4.J on every record
\* with a genericFlow, cntFlow->flows = 0 included, and accounting a flow
\* without a genericFlow leaves the firstseen .. lastseen window of the
\* stat record as it was, as UpdateStatRecord does by skipping such a
\* record.
RawMatchesSpec ==
  /\ \A g \in GenericFlows, c \in CntOrNull :
       UpdateRawStat(stat, g, c) = SpecUpdate(stat, g, c)
  /\ \A c \in CntOrNull :
       LET s == UpdateRawStat(stat, NULL, c)
       IN s.firstseen = stat.firstseen /\ s.lastseen = stat.lastseen
=============================================================================
