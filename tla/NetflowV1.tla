------------------------------ MODULE NetflowV1 ------------------------------
(***************************************************************************)
(* The NetFlow v1 decoder, src/netflow/netflow_v1.c: Process_v1 walking  *)
(* the v1 packets of one received datagram, getExporter, and the data    *)
(* block it fills.  Wire bytes are chosen when the code reads them: a    *)
(* header's count and clock fields, then each record's protocol, the     *)
(* presence of flowMisc / ipNextHopV4 and its First/Last.  The exporter  *)
(* clock is given as a ghost (boot time, uptime at export) so that the   *)
(* reconstructed flow times can be compared with the true ones.          *)
(***************************************************************************)
EXTENDS Naturals, FiniteSetsExt

CONSTANTS
  Sources,          \* exporter addresses (fs->ip)
  Family,           \* fs->sa_family of each: "inet" or "inet6"
  RecordHeaderSize, EXgenericFlowSize, EXipv4FlowSize, EXflowMiscSize,
  EXipNextHopV4Size, EXipReceivedV4Size, EXipReceivedV6Size,
  BlockCap,         \* bytes a data block holds for records
  UptimeWrap,       \* 2^32: SysUptime, First and Last are uint32 msec counters
  InSizes,          \* in_buff_cnt of a received datagram
  Counts,           \* values of a header's count field
  Uptimes,          \* ghost: exporter uptime in msec at export time
  Boots             \* ghost: exporter boot time in unix msec

NETFLOW_V1_HEADER_LENGTH == 16
NETFLOW_V1_RECORD_LENGTH == 48
NETFLOW_V1_MAX_RECORDS == 24
Protos == {"icmp", "tcp", "udp", "other"}

\* Init_v1: the largest record without the router-IP extension
baseRecordSize ==
  RecordHeaderSize + EXgenericFlowSize + EXipv4FlowSize + EXflowMiscSize
    + EXipNextHopV4Size

\* mutant: the IPv4 router-IP size used for every exporter
OutRecordSizeV4(fam) == baseRecordSize + EXipReceivedV4Size

\* getExporter: outRecordSize of a new exporter
OutRecordSize(fam) ==
  baseRecordSize + (IF fam = "inet6" THEN EXipReceivedV6Size
                    ELSE EXipReceivedV4Size)

\* mutant: the header length forgotten in a packet's length
ConsumedRecordsOnly(count) == count * NETFLOW_V1_RECORD_LENGTH

\* input bytes a v1 packet with this count occupies
Consumed(count) == NETFLOW_V1_HEADER_LENGTH + count * NETFLOW_V1_RECORD_LENGTH

\* mutant: room checked for one record only
RoomNeededOne(count, ors) == ors

\* IsAvailable(fs->dataBlock, count * exporter->outRecordSize)
RoomNeeded(count, ors) == count * ors

\* IsAvailable (nffile): the block holds n more bytes
IsAvailable(blk, n) == blk.size + n <= BlockCap

MsecBoot(unixSecs, unixNsecs, sysUptime) ==
  (unixSecs * 1000 + unixNsecs \div 1000000) - sysUptime

\* mutant: equal First and Last taken as a wrap
StartWrapsEq(first, last) == first >= last

\* First > Last: the uptime counter wrapped between start and end
StartWraps(first, last) == first > last

\* msecStart and msecEnd of a record, the 2^32 corrections included
FlowTimes(msecBoot, sysUptime, first, last) ==
  LET start == IF StartWraps(first, last) THEN msecBoot - UptimeWrap + first
               ELSE msecBoot + first
      end   == last + msecBoot
  IN IF last > sysUptime THEN <<start - UptimeWrap, end - UptimeWrap>>
     ELSE <<start, end>>

\* AddV3Header + PushExtension of every extension the record gets
RecordSize(misc, nexthop, fam) ==
  RecordHeaderSize + EXgenericFlowSize + EXipv4FlowSize
    + (IF misc THEN EXflowMiscSize ELSE 0)
    + (IF nexthop THEN EXipNextHopV4Size ELSE 0)
    + (IF fam = "inet6" THEN EXipReceivedV6Size ELSE EXipReceivedV4Size)

VARIABLES
  exporter,   \* per source: known (in fs->exporter_data), packets, flows,
              \* outRecordSize
  stat,       \* nffile stat_record: numflows and numflows_<proto>
  block,      \* fs->dataBlock: NumRecords, size
  written,    \* records in blocks handed to WriteBlock
  proc,       \* the running Process_v1 call, phase "idle" between calls
  exited,     \* exit(255) after the record size check
  badTime     \* some record got times other than the exporter's

vars == <<exporter, stat, block, written, proc, exited, badTime>>

Idle == [phase |-> "idle", src |-> CHOOSE s \in Sources : TRUE, sizeLeft |-> 0,
         count |-> 0, i |-> 0, outSize |-> 0, msecBoot |-> 0,
         sysUptime |-> 0, up |-> 0, boot |-> 0]

EmptyBlock == [NumRecords |-> 0, size |-> 0]

\* mutant: NumRecords not advanced with the block size
AddRecordsSizeOnly(blk, n, bytes) == [blk EXCEPT !.size = @ + bytes]

\* fs->dataBlock->NumRecords += count; fs->dataBlock->size += outSize
AddRecords(blk, n, bytes) ==
  [NumRecords |-> blk.NumRecords + n, size |-> blk.size + bytes]

Init ==
  /\ exporter = [s \in Sources |->
                   [known |-> FALSE, packets |-> 0, flows |-> 0, ors |-> 0]]
  /\ stat = [numflows |-> 0, flows |-> [p \in Protos |-> 0]]
  /\ block = EmptyBlock /\ written = 0
  /\ proc = Idle /\ exited = FALSE /\ badTime = FALSE

\* ready for the next v1 header of the datagram
AtHeader(src, left) == [Idle EXCEPT !.phase = "header", !.src = src,
                                    !.sizeLeft = left]

(***************************************************************************)
(* Process_v1 entry: getExporter finds the exporter of this source and    *)
(* version or appends a new one with its outRecordSize; packets++.        *)
(***************************************************************************)
Receive(s, n) ==
  /\ proc.phase = "idle" /\ ~exited
  /\ exporter' = [exporter EXCEPT ![s] =
                    [known   |-> TRUE,
                     packets |-> @.packets + 1,
                     flows   |-> @.flows,
                     ors     |-> IF @.known THEN @.ors ELSE OutRecordSize(Family[s])]]
  /\ proc' = AtHeader(s, n)
  /\ UNCHANGED <<stat, block, written, exited, badTime>>

\* count > NETFLOW_V1_MAX_RECORDS, or fewer bytes left than the count
\* announces: abort the rest of the datagram
HeaderAbort(c) ==
  /\ proc.phase = "header" /\ ~exited
  /\ c > NETFLOW_V1_MAX_RECORDS \/ proc.sizeLeft < Consumed(c)
  /\ proc' = Idle
  /\ UNCHANGED <<exporter, stat, block, written, exited, badTime>>

(***************************************************************************)
(* A header that passes both checks: flush the block unless it has room  *)
(* for count records of outRecordSize, convert the clock fields, compute  *)
(* msecBoot.  The exporter's unix time is boot + up.                      *)
(***************************************************************************)
Header(c, up, boot) ==
  /\ proc.phase = "header" /\ ~exited
  /\ c <= NETFLOW_V1_MAX_RECORDS /\ proc.sizeLeft >= Consumed(c)
  /\ LET unix  == boot + up
         sysUp == up % UptimeWrap
         room  == IsAvailable(block, RoomNeeded(c, exporter[proc.src].ors))
     IN /\ block' = IF room THEN block ELSE EmptyBlock
        /\ written' = IF room THEN written ELSE written + block.NumRecords
        /\ proc' = [proc EXCEPT !.phase = "records", !.count = c, !.i = 0,
                      !.outSize = 0, !.sysUptime = sysUp, !.up = up, !.boot = boot,
                      !.msecBoot = MsecBoot(unix \div 1000,
                                            (unix % 1000) * 1000000, sysUp)]
  /\ UNCHANGED <<exporter, stat, exited, badTime>>

(***************************************************************************)
(* One record: the v3 record with its extensions, msecFirst/msecLast,    *)
(* the stat record and exporter->flows, the output cursor, and exit(255)  *)
(* when the record came out larger than outRecordSize.  The exporter saw  *)
(* the flow from uptime ft to lt, less than one counter wrap before the   *)
(* export.                                                                *)
(***************************************************************************)
Record(proto, misc, nexthop, ft, lt) ==
  /\ proc.phase = "records" /\ ~exited /\ proc.i < proc.count
  /\ ft <= lt /\ lt <= proc.up /\ proc.up - ft < UptimeWrap
  /\ LET size  == RecordSize(misc, nexthop, Family[proc.src])
         times == FlowTimes(proc.msecBoot, proc.sysUptime,
                            ft % UptimeWrap, lt % UptimeWrap)
     IN /\ badTime' = (badTime \/ times # <<proc.boot + ft, proc.boot + lt>>)
        /\ proc' = [proc EXCEPT !.i = @ + 1, !.outSize = @ + size]
        /\ exited' = (size > exporter[proc.src].ors)
  /\ stat' = [stat EXCEPT !.numflows = @ + 1, !.flows[proto] = @ + 1]
  /\ exporter' = [exporter EXCEPT ![proc.src].flows = @ + 1]
  /\ UNCHANGED <<block, written>>

\* all records of the packet done: account them to the block, step over the
\* packet, stop when no bytes are left
PacketEnd ==
  /\ proc.phase = "records" /\ ~exited /\ proc.i = proc.count
  /\ block' = AddRecords(block, proc.count, proc.outSize)
  /\ LET left == proc.sizeLeft - Consumed(proc.count)
     IN proc' = IF left <= 0 THEN Idle ELSE AtHeader(proc.src, left)
  /\ UNCHANGED <<exporter, stat, written, exited, badTime>>

Decode ==
  \/ \E c \in Counts : HeaderAbort(c)
  \/ \E c \in Counts, up \in Uptimes, boot \in Boots : Header(c, up, boot)
  \/ \E p \in Protos, misc, nh \in BOOLEAN, ft, lt \in 0 .. proc.up :
       Record(p, misc, nh, ft, lt)
  \/ PacketEnd

Next ==
  \/ \E s \in Sources, n \in InSizes : Receive(s, n)
  \/ Decode

\* Process_v1 runs to its end on the collector thread once called
Spec == Init /\ [][Next]_vars /\ WF_vars(Decode)

-----------------------------------------------------------------------------
TypeOK ==
  /\ exporter \in [Sources -> [known : BOOLEAN, packets : Nat, flows : Nat,
                               ors : Nat]]
  /\ stat \in [numflows : Nat, flows : [Protos -> Nat]]
  /\ block \in [NumRecords : Nat, size : Nat] /\ written \in Nat
  /\ proc.phase \in {"idle", "header", "records"}
  /\ proc.msecBoot \in Nat
  /\ exited \in BOOLEAN /\ badTime \in BOOLEAN

\* The records written so far into the current data block, those of the
\* packet in progress included, fit in it: the IsAvailable check made for
\* count * outRecordSize before the loop covers every record the loop writes.
BlockWithinCapacity == block.size + proc.outSize <= BlockCap

\* No record of any exporter is larger than the outRecordSize getExporter
\* computed for it, so the exit(255) after the record loop is never taken.
NoRecordSizeExit == ~exited

\* Every record's msecFirst and msecLast equal the exporter's boot time plus
\* the uptime at which the flow started and ended, across uptime counter
\* wraps between start, end and export.
FlowTimesExact == ~badTime

\* Between datagrams, the flows counted by the exporters, the stat record's
\* numflows, the sum of its per-protocol counters, and the records put into
\* data blocks (flushed or current) are all equal: a datagram aborted at a
\* later header keeps the records of its earlier packets in all of them.
FlowsAccounted ==
  proc.phase = "idle" =>
    LET emitted == written + block.NumRecords
    IN /\ MapThenSumSet(LAMBDA s : exporter[s].flows, Sources) = emitted
       /\ stat.numflows = emitted
       /\ MapThenSumSet(LAMBDA p : stat.flows[p], Protos) = emitted

\* Every Process_v1 call returns.  Each step of a running call either ends it,
\* steps over part of the datagram (so sizeLeft falls), or moves on within
\* the current packet from its header to its records or to the next one
\* (PacketStage rises, and it is bounded by count + 1).  With the variant
\* bounded and the next step always enabled (deadlock is checked) the call
\* cannot run forever: a header that consumed none of the datagram would
\* make the loop revisit the same packet.
PacketStage(p) == IF p.phase = "records" THEN 1 + p.i ELSE 0

DecodeProgresses ==
  [][proc.phase # "idle" =>
       \/ proc'.phase = "idle"
       \/ proc'.sizeLeft < proc.sizeLeft
       \/ proc'.sizeLeft = proc.sizeLeft /\ PacketStage(proc') > PacketStage(proc)]_vars
=============================================================================
