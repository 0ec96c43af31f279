# TLA+ models of nfdump

This directory holds TLA+ models of the nfdump sources under `src/`, the TLC
configurations that check them, and `PROJECT.json`, which records components,
runs, mutants, the definition-to-source map, findings and hazards.

## 1. The system and its parts

nfdump collects NetFlow/IPFIX/sFlow records, turns them into its own *v3
record* format (a 12-byte record header followed by typed, length-prefixed
*elements*, one per extension) and stores, filters and prints them. The
snapshot under `src/` contains these parts:

| Part | Source | State it keeps | Operations |
|---|---|---|---|
| Template sequencer: compilation | `libnffile/nfxV3.c` 51-173 | per template: the sequence table, `ExtSize[]`, `inLength`, `outLength`, `numElements` | `CompactSequencer`, `SetupSequencer`, `ClearSequencer`, `CalcOutRecordSize` |
| Template sequencer: execution | `libnffile/nfxV3.c` 175-474 | per sequencer: `offsetCache[]`, `inLength`, `outLength`; the function static `nestLevel`; the shared output record header | `SequencerRun`, `ProcessSubTemplate`, `GetSubTemplateSequencer` |
| V3 record verifier | `libnffile/nfxV3.c` 495-546 | none | `VerifyV3Record` |
| NetFlow v1 decoder | `netflow/netflow_v1.c` | per exporter: `packets`, `flows`, `outRecordSize`; the output data block; the file's stat record | `Init_v1`, `getExporter`, `Process_v1` |
| Statistics updater | `inline/nfdump_inline.c` | the stat record (per-protocol flow/packet/byte counters, first/last seen) | `UpdateStatRecord`, `UpdateRawStat` |
| TLS parser | `libnfdump/ssl/ssl.c`, `ssl.h` | `ssl_t`: version strings, growing arrays of ciphers, extensions, curves, point formats, signatures; SNI and ALPN names | `sslProcess`, `sslParseClientHandshake`, `sslParseServerHandshake`, `sslParseExtensions` and its sub-parsers, `checkGREASE` |
| JA3 | `libnfdump/ja3/ja3.c` | the JA3 string being built and its remaining length | `ja3Process`, `ja3String` |
| nfpcapd | `nfpcapd/nfpcapd.c` | the static `done` flag, signal masks, thread ids | `main` (setup, thread start, `WaitDone`, shutdown), `Interrupt_handler` |
| Fast CSV output | `output/output_csv_fast.c` | static `recordCount` | `csv_record_fast`, prolog/epilog |
| Flow cache swap, barrier, utilities, version, template types | `nfdump/nflowcache.h`, `libnffile/barrier.h`, `libnffile/util.h`, `libnffile/version.c`, `netflow/fnf.h` | none, or declarations only | macros and prototypes |

The IPFIX and NetFlow v9 decoders, the template store, the file writer, the
flow tree and the packet/flow/flush thread bodies are named by `spec.md` but
are not under `src/`.

**How the parts interact.** An IPFIX/v9 decoder announces templates. For
each one the template store builds a sequence table and calls
`SetupSequencer`, and the sibling sequencers of one exporter are linked into a
ring through `next`. For each data record the decoder writes a v3 header
(`AddV3Header`) and reserves `CalcOutRecordSize` bytes. It then calls
`SequencerRun`, which appends one element per extension and recurses through
`ProcessSubTemplate` into sibling sequencers for subTemplateList (292) and
subTemplateMultiList (293) fields. Every nested run appends to the *same*
record and reads the *same* static `nestLevel`. The NetFlow v1 decoder builds
v3 records directly and updates the stat record. nfpcapd runs a packet
thread, a flow thread and optionally a flush thread. The main thread blocks in
`WaitDone` on signals and then shuts the threads down in a fixed order.

**What is hard.**

* The sequencer is a recursive interpreter of untrusted input driven by
  untrusted templates. The parts that can go wrong are:
  * the order of its reads and checks;
  * the counters it shares across recursion levels and across records
    (`nestLevel`, `outLength`, `offsetCache`);
  * its uint16_t lengths.
* The v1 decoder reconstructs absolute times from a 32-bit uptime that wraps.
* The TLS parser walks nested length fields, and each sub-parser consumes its
  own count of bytes.
* nfpcapd coordinates threads and a signal handler through a plain int.

**Properties that make each part correct.**

* **Sequencer:**
  * it reads only inside the record and writes only inside the element it
    carved out;
  * every record it reports SEQ_OK passes `VerifyV3Record`;
  * `nestLevel` is balanced after every return;
  * the reserve covers the record;
  * every call returns;
  * a subTemplateList yields every record in it.
* **Compilation:** compaction keeps the wire layout.
* **v1:** `msecFirst <= msecLast <=` export time, records never outgrow
  `outRecordSize`, and the counters add up.
* **Stats:** updates commute.
* **TLS:** the parse stays within the message, and the extension list is
  exactly the non-GREASE extensions.
* **nfpcapd:** every captured packet is written before the process exits,
  and a stop signal always leads to exit.

## 2. Modules

### SequencerSetup (compilation)

`SequencerSetup` contains pure operators over a sequence table. A sequence is
a record `[inputType, inputLength, extensionID, outputLength, offsetRel,
stackID, copyMode]`, with 1-based indices.

* `CompactFrom`/`CompactSequencer` translate the in-place merge loop. They
  keep the uint16_t wrap of the merged length.
* `SetupSequencer` returns the compiled table, `ExtSize`, `inLength`,
  `outLength`, `numElements` and the sorted extension list. The last sequence
  into an extension sets its `ExtSize`, as in the code.
* `CalcOutRecordSize` is 1024 when `outLength` is 0, and `outLength`
  otherwise.

### Sequencer (execution)

The recursion `SequencerRun` → `ProcessSubTemplate` → `SequencerRun` becomes
an explicit call stack `frames`:

* a `run` frame is one activation of `SequencerRun`, with its loop index `i`,
  `totalInLength` and `totalOutLength`;
* a `multi`/`list` frame is one activation of `ProcessSubTemplate`, with its
  cursor and bytes left.

One loop iteration of `SequencerRun` is one action:

* `RunBoundsError` is the check at line 295;
* `RunSkip` is a plain skip;
* `RunSubTemplate` is a 292/293 field;
* `RunMemError` is the room check at line 340;
* `RunAllocCopy` is the first field into an extension in this run: element
  allocation (lines 329–364), then the placeholder case or the copy;
* `RunCopy` is a later field into an extension whose element is already
  allocated, or a stack-only field: the placeholder case or the copy;
* `RunEnd` is the end of the loop, which publishes `outLength`;
* `RunResume` consumes the result of a `ProcessSubTemplate`.

In `ProcessSubTemplate`:

* `MultiStep` is one iteration of the multilist `while`, and `MultiResume`
  adds the sub sequencer's `outLength` and propagates the result;
* `ListStep`/`ListResume` are the single list.

The `SequencerRun` entry (`Call`) contains `nestLevel++`, the empty-input
return, the nesting limit and the `offsetCache` clear. Every return
(`RunReturn`) decrements `nestLevel`.

Data is abstracted as follows:

* Input bytes are chosen the first time they are read (`mem`). This covers
  every input buffer without enumerating bytes nobody branches on.
* Positions at or beyond the record's `inSize` set `overread`.
* The output is the list of element headers (type, length, offset) and the
  record header (size, numElements). Copied field values are not tracked, but
  each copy's offset and length are compared with its element and recorded in
  `badWrite`.
* Each sequencer's compiled table and `ExtSize` are held in `seqr` from
  `Init` on, as `SetupSequencer` produced them, and never change, as in the
  code, where the table is built once per template.
* `sequencer->inLength` is written by `SequencerRun` only for the decoder,
  which is outside the model, so it is left out.

`StartRecord`/`RecordDone` stand for the decoder. They are not under `src/`
and are modelled from the spec. `StartRecord` writes the v3 header, takes
`CalcOutRecordSize` and calls `SequencerRun` for a record of one of the
`InSizes` sizes. `RecordDone` hands the result back and drops what only that
record used: its input bytes, its elements, and the `offsetCache` slots, which
every run clears before reading them. Records repeat forever, so the system
never stops and deadlock is checked.

### NetflowV1 (NetFlow v1 decoder)

`NetflowV1.tla` models `Process_v1` and `getExporter` in
`src/netflow/netflow_v1.c`. One datagram is decoded at a time, as the
collector thread does. The state is:

* `exporter`: per source address, whether `getExporter` has put it in the
  list, its `packets` and `flows` counters and its `outRecordSize`;
* `stat`: the stat record's `numflows` and per-protocol flow counters;
* `block`: `NumRecords` and `size` of the current data block; `written`
  counts the records of blocks handed to `WriteBlock`;
* `proc`: the running call (phase, `size_left`, the header's count and clock
  values, the record index, the bytes written for this packet);
* `exited`: the `exit(255)` after the record size check; `badTime`: a record
  whose times differ from the exporter's.

The actions are `Receive` (entry, `getExporter`, `packets++`), `HeaderAbort`
(count above 24 or fewer bytes than the count announces), `Header` (block
check and flush, clock conversion, `msecBoot`), `Record` (one v3 record:
extensions, times, stat switch, `flows++`, cursor, size check) and
`PacketEnd` (block accounting, `size_left`, loop end). Header and record
fields are chosen when the code reads them. Each header's clock is derived
from a ghost boot time and the exporter's true uptime. Each record's `First`
and `Last` come from true start and end uptimes less than one counter wrap
before the export, so the reconstructed times can be compared with the true
ones. `IsAvailable` and `WriteBlock` are not under `src/`. They are modelled
from the spec: a block holds `BlockCap` bytes, and a flush hands over the
block and starts an empty one.

Left out are the data no property tells apart: addresses, ports, packet and
byte counters, the ICMP port swap, printing and the metric update. A
`malloc` failure in `getExporter` returns before anything modelled changes,
so it is a stuttering step.

### StatRecord (statistics updater)

`StatRecord.tla` models `UpdateStatRecord` and `UpdateRawStat` of
`src/inline/nfdump_inline.c` as operators. A stat record is per-bucket
(`icmp`, `tcp`, `udp`, `other`) and total flow, packet and byte counters,
plus `firstseen` and `lastseen`. `Bucket` is the `switch` on the protocol;
`Account` is the bucket update, the totals and the window (`Widen`) that
both functions end with. They differ only in how a missing extension and
`flows = 0` are read. The one variable `stat` is a stat record. `StatUpdate`
and `RawUpdate` apply any record, each extension present or `NULL`, so
every stat record reachable by the two functions is checked. The reference
`SpecUpdate` is the updater of spec section 4.J, written from the spec.

### Ssl (TLS handshake parser and JA3)

`Ssl.tla` models `sslProcess` of `src/libnfdump/ssl/ssl.c` on one record,
and `ja3Process` of `src/libnfdump/ja3/ja3.c` on the record it returns.
`data` holds the record bytes. It is encoded by `Encode` from a description
in `hello`: fields, extensions as type and body, and length deltas that make
a length field disagree with what follows. `strm` is the byte stream of
`stream.h`. That header is not in the repository, so `Get`, `GetX` and
`Skip` follow spec section 4.A: a read of bytes that are not there sets the
sticky error flag, yields 0 and leaves the cursor where it was.

`stage` is where `sslProcess` is, `ssl` the `ssl_t` being filled, and
`extLeft` the loop counter (`extensionLength` on the client, `sizeLeft` on
the server). The actions are:

* `Reject`: any early `return NULL` of `sslProcess` or a handshake parser.
* `Hello`: the header checks, the dispatch and the fixed part of the
  ClientHello or ServerHello, up to the extension loop.
* One action per loop iteration: `GreaseExtension` (both loops),
  `ClientExtension` and `ClientExtensionError` (`sslParseExtensions` with
  the five parsers of `ParseExtension`), and `ServerExtension`.
* `HelloDone`: the loop ends.
* `Ja3`: the JA3 string with its `sLen` budget, `abort()` and `NULL`
  returns. The budget is `6 * (6 + N) + 1` for N values, as at ja3.c:81,
  and a value takes at most 6 characters, so neither branch is ever
  taken; they are kept so that a wrong budget would show.

The extension parsers are operators on the stream. They read exactly what
the C code reads: the SNI list, name length and rest of the list, `length
>> 1` curve and signature values, the point formats, and the ALPN
`do ... while`. `Ja3String` is the real string: `Decimal` renders `%u`,
each value is followed by `-`, and the last `-` is dropped (`--s`).

### V3Verify (the V3 record verifier, step by step)

`Sequencer` uses `VerifyV3Record` as an operator on the records a run
produces. `V3Verify` models the same function on any record: its
variables are the record header (`type`, `size`, `numElements`), `mem`,
and the locals `i`, `rlen`, `cnt`, the offset `at` of `elementHeader`,
and `pc` and `result`. `mem` maps each 4-byte word after the record
header to the element header `{type, length}` those bytes decode to. The
words after `size` belong to the next record or the rest of the block, so
the walk may read them. The actions are the code's tests in order:
`CheckType`, `CheckSize` (with the setup of `rlen` and `elementHeader`),
`ElementTooLong`, `ElementBadType`, `ElementNext` (the loop body), and
`LoopEnd`, which holds the residual and count tests. `SpecWalk` and
`SpecVerify` are the verifier of spec section 4.D, written as a recursive
walk over the same memory. Element lengths are multiples of 4, so no two
headers overlap, and each word may hold any header.

### NfpcapdOptions (nfpcapd startup) and NfpcapdMain (composition)

`NfpcapdOptions` is `main` from its locals to `pthread_create`. Its
variables are `argv` (the command line), `optind`, `cfg` (the locals the
options set: source, directories, host port, filter, snaplen, compression,
`-o` string) and `startPc`. Each getopt case is an action: `OptDevice`
(-i), `OptPcapFile` (-r), `OptDir` (-w, -l falling through to it), `OptPcapDir` (-p),
`OptHost` (-H), `OptSnaplen` (-s), `OptExpire` (-e), `OptCompress` (-j,
-y, -z), `OptOptions` (-o), `OptChecked` (the range and length checks of
-B -b -I -m -t -W -P -C), `OptPlain` (-u -g -d -D -S -T -v), `OptExit0`
(-h, -V) and `OptUnknown` (getopt's '?'). `OptEnd` is getopt's EOF. Then
`Args` (too many arguments, the filter from `argv[optind]`, `argc == 1`),
`Checks` (one source, scanOptions, one output, the port), `Setup`
(`setup_pcap_file` for -r: unreadable file, bad filter, unsupported link
type; the live setup of the build may fail) and `Dirs` (the `access`
tests). An argument is the class of value the code tells apart: "dir",
"file", "missing", "pcap", "junk", "badlink", a numeric string read through
`Atoi`, "bad" for one its check refuses. `Start` is the rest of main up to
the threads: external calls that succeed.

`NfpcapdMain` composes the two parts through `INSTANCE`: `Opt` is
NfpcapdOptions, `Sd` is NfpcapdShutdown. Before the threads exist the
shutdown variables are `Sd!Unstarted` (`mainPc = "startup"`). `Launch` is
`Opt!Start` together with `Sd!StartThreads(ModeOf(cfg))`: `-r` chooses the
pcap file thread, `-p` the flush thread. Each later step is a shutdown
action with the option variables unchanged. Outside signals are sent only
after the threads exist, because before the signal mask is set they would
end the process by their default action.

### NfpcapdShutdown (nfpcapd threads and signals) and CaptureSpec

`CaptureSpec` is the abstract capture: packets of flows are captured while
`capturing` holds, written in records of one or more packets, never more
than were captured, and the process `exited` only after capture stopped and
`written = captured`.

`NfpcapdShutdown` models `nfpcapd.c` `main` from the signal mask on, with
the three threads it starts. Its variables:

* `mode`: live or file capture (`pcapfile`), with or without the flush
  thread (`pcap_datadir`), chosen in `Init` over `Modes`;
* `mainPc`: where main is, `wait` (in `WaitDone`), `joinPacket`,
  `joinFlush`, `flushTree`, `joinFlow`, `exited`;
* `pending`: blocked signals not yet taken by `sigwait`; `sent`: outside
  signals so far, bounded by `MaxSignals`;
* `done`: the static int the SIGUSR2 `Interrupt_handler` sets (it is also SIGPIPE's handler, but SIGPIPE is blocked in every thread, line 690, and never reaches it);
  `usr2`: main's `pthread_kill` still to be delivered;
* `pkt`: the packet thread, `poll` (tests `done`), `enter` (between the test
  and the read), `read` (blocked), `exited`; `fileLeft`: packets left in a
  pcap file;
* `tree`, `nodes`, `flow`: packets per flow in the flow tree, the node list
  to the flow thread, and the flow thread's state;
* `flushQ`, `flush`: the pcap buffer queue and the flush thread;
* `captured`, `written`: the per-flow counts the refinement maps.

Actions: `Send(sig)` is an outside signal. A blocked one is added to
`pending`; SIGUSR2 runs `Interrupt_handler` and may interrupt the packet
thread's read (EINTR, `sa_flags` 0). `Deliver` is the `pthread_kill` of
line 759. `WaitDone` is one `sigwait` of the loop: SIGHUP is ignored,
SIGINT, SIGTERM and SIGUSR1 end it. Its local `done` shadows the global,
so the global `done` is set only by the handler. `JoinPacket`, `JoinFlush`,
`Flush_FlowTree` (every tree entry pushed to the node list, then the end
node) and `JoinFlow` are the rest of `main` in order. The thread bodies are
not under `src/` and come from spec section 5: `PacketPoll`,
`PacketBlock`, `LivePacket`, `LiveTimeout` (the `TO_MS` read timeout, passed to the live setup at lines 605-617 and applied inside the packet thread's read in `pcaproc.c`, which is not under `src/`, so it is modelled from the spec),
`FilePacket`, `FileEnd` (end of file raises SIGUSR1), `Expire`,
`FlowWrite`, `FlowEnd` and `FlushStep`. The flow thread ends on the end
node only, as the comment at line 770 of nfpcapd.c says; a flow thread
that left on `done` once its list was empty would miss the entries
`Flush_FlowTree` hands over after the packet thread stopped.

The refinement maps `capturing` to `pkt # "exited"` and `exited` to
`mainPc = "exited"`; `captured` and `written` map to themselves.

## 3. Runs

| Run | Config | Expect | Shows |
|---|---|---|---|
| `sequencer_safety` | `MCSequencer.cfg` | pass | Four properties hold over 875 K states; see below. |
| `sequencer_spec` | `MCSequencerSpec.cfg` | violation | `SequencerAsSpec` is `RunWithinBuffers` in every step and `SubTemplatesProcessed`. It fails in four ways. A variable-length prefix is read before the bounds check, so a record ending at the prefix is read past `inSize`. `CalcOutRecordSize` is smaller than the record a sub-template run produces. A subTemplateList with several records is decoded once, so the list frame returns with bytes left. A zero-length multilist entry loops forever (liveness, under `WF_vars(Next)`). |
| `compact_reference` | `MCCompact.cfg` | pass | `CompactSequencer` equals a reference fold on all 341 tables of up to 4 steps. |
| `compact_wide` | `MCCompactWide.cfg` | violation | Merged skip lengths wrap in uint16_t, and 0xFFFF becomes VARLENGTH. |
| `netflow_v1_safety` | `MCNetflowV1.cfg` | pass | Six properties of `Process_v1` hold over 295 K states; see below. |
| `stat_update` | `MCStatRecord.cfg` | pass | Order independence of both updaters, and `UpdateStatRecord` equals the spec's updater. |
| `rawstat` | `MCStatRecordRaw.cfg` | violation | `RawMatchesSpec` fails in two ways. `UpdateRawStat` counts a cntFlow with `flows = 0` as no flow, where the spec counts one. Without a genericFlow it sets `firstseen` to 0. |
| `ssl_parse` | `MCSsl.cfg` | pass | Well-formed hellos parse as the spec says, the GREASE test is exact, and accepted records render as the spec's JA3 string. |
| `nfpcapd_main` | `MCNfpcapd.cfg` | pass | From 22 command lines through every option case and startup check to the threads: they run with the source and archive the command line names, nfpcapd refines `CaptureSpec`, and every stop signal leads to exit. |
| `nfpcapd_spec` | `MCNfpcapdSpec.cfg` | violation | `NfpcapdAsSpec` fails in five ways. Main starts the threads with a port above 65535, with a flow directory that is a regular file, with a missing `-p` directory next to `-H`, and with no filter at all when no filter argument is given. A SIGUSR2 from outside sets `done`, yet the process never exits. |
| `v3_verify` | `MCV3Verify.cfg` | violation | `VerifiesAsSpec` fails: `VerifyV3Record` accepts an element of length 0, so a header-only record that announces an element verifies on a header read past its end. |
| `ssl_spec` | `MCSslSpec.cfg` | violation | `SslProcessAsSpec` (`HelloParsedAsSpec` and `AcceptedWithinRecord`) fails in three ways. A GREASE value in the curve list is kept; the spec excludes it. A ServerHello extension running past the record is skipped without a check, and the record is still accepted. An SNI list longer than its name swallows the next extension's header, and the record is accepted with that extension missing and a phantom extension read past the end. |

`sequencer_safety` checks these properties:

* `TypeOK`.
* `NestBalanced`: `nestLevel` equals the number of run frames on the stack.
* `RecordVerifies`: every SEQ_OK record passes `VerifyV3Record`, and its
  elements have valid types and at least their packed size.
* `NoWriteBeyondElement`.

Each property of a passing run has a mutant in `PROJECT.json` that TLC must
catch:

* nesting limit tested before the increment: breaks `TypeOK`;
* `nestLevel--` forgotten on the SEQ_MEM_ERR return: breaks `NestBalanced`;
* `numElements++` dropped: breaks `RecordVerifies`;
* element sized without its variable payload: breaks
  `NoWriteBeyondElement`;
* compaction without the VARLENGTH test: breaks `CompactionKeepsLayout`;
* `msecBoot` without the `unix_nsecs` part (it underflows): breaks `TypeOK`
  of NetflowV1;
* block room checked for one record instead of `count`: breaks
  `BlockWithinCapacity`;
* `outRecordSize` with the IPv4 router-IP size for an IPv6 exporter: breaks
  `NoRecordSizeExit`;
* `First >= Last` taken as a wrap: breaks `FlowTimesExact`;
* `NumRecords += count` dropped: breaks `FlowsAccounted`;
* the header length left out of a packet's length: breaks `DecodeProgresses`
  of NetflowV1 (a count-0 header consumes nothing);
* `firstseen` overwritten without the comparison: breaks
  `UpdateOrderIndependent`;
* ICMPv6 counted as "other": breaks `StatMatchesSpec`;
* a stream skip that moves the cursor past the bytes: breaks `TypeOK` of
  Ssl;
* `checkGREASE` without the equal-bytes test: breaks `GreaseFilterExact`;
* GREASE ciphers kept: breaks `HelloParsedAsSpec`;
* the trailing `-` of a JA3 list kept: breaks `Ja3MatchesSpec`;
* `Interrupt_handler` that increments `done` instead of setting it to 1:
  breaks `TypeOK` of NfpcapdShutdown (main's `pthread_kill` and an outside
  SIGUSR2 both reach it);
* `WaitDone` followed directly by `Flush_FlowTree`, without joining the
  packet thread: breaks `CaptureRefined` (packets captured after the flush
  stay in the tree);
* a live read that never times out: breaks `ShutdownCompletes` (see the
  `nfpcapd_main` section);
* the device/file check after the getopt loop refusing only a missing
  source, not both: breaks `CommandLineRespected` (`-i` and `-r` together
  start a file capture).

`netflow_v1_safety` checks these properties:

* `TypeOK`, with `msecBoot` a natural number (it is a `uint64_t`).
* `BlockWithinCapacity`: the block check made before the record loop covers
  every record the loop writes.
* `NoRecordSizeExit`: no record exceeds its exporter's `outRecordSize`.
* `FlowTimesExact`: `msecFirst` and `msecLast` are the exporter's boot time
  plus the true start and end uptimes, across counter wraps.
* `FlowsAccounted`: between datagrams, exporter flows, `numflows`, the sum
  of the protocol counters and the records in blocks agree.
* `DecodeProgresses`, an action property. Every step of a running call does
  one of three things. It ends the call, or it lowers `sizeLeft`, or it
  keeps `sizeLeft` and moves on within the packet, from the header to the
  records or to the next record. That last measure is bounded by
  `count + 1`. Deadlock is checked, so a running call always has a next
  step. Together these show that every `Process_v1` call returns. Checked
  this way, the run needs no liveness check and no separate run.

`ssl_parse` checks these properties:

* `TypeOK`: among other things, the stream cursor never passes the
  record's end.
* `GreaseFilterExact`: `checkGREASE` holds of exactly the 16 GREASE values
  (spec section 8 item 6). It is checked on every u16 built from two bytes,
  each a probe byte or a byte of the record.
* `HelloParsedAsSpec`: a well-formed hello is accepted. The version, the
  non-GREASE ciphers and extension types are recorded. For a client, the
  non-GREASE curves, point formats, signatures, SNI name and first ALPN
  name its bodies carry are recorded as well.
* `Ja3MatchesSpec`: every accepted record is rendered without `abort()` or
  `NULL`, as the spec's JA3 string. Lists are joined by `-` and fields by
  `,`, and a server stops after its extensions.

The violation run `ssl_spec` checks `SslProcessAsSpec`, the conjunction of
`HelloParsedAsSpec` and `AcceptedWithinRecord`, on the records of
`ssl_parse` with a GREASE curve added. `AcceptedWithinRecord` says that no returned `ssl_t` had a read fail. It
also says that on a record whose length fields all agree, the accepted
extension list is that of the record.

`nfpcapd_main` checks these properties of `NfpcapdMain`:

* `TypeOK`: among other things, `done` is 0 or 1 and `snaplen` is at least
  54.
* `CommandLineRespected`: once the threads run, the packet thread reads the
  device exactly when `-i` was given and the file exactly when `-r` was,
  and the flush thread exists exactly when `-p` was given. It ties the
  first state, the command line, to the threads main creates after the
  whole getopt loop and its checks.
* `CaptureRefined`: the model implements `CaptureSpec`. In particular the
  process exits only after the packet thread stopped and every captured
  packet, those still in the flow tree at shutdown included, was written
  by the flow thread.
* `ShutdownCompletes`: once SIGINT, SIGTERM or SIGUSR1 is pending, main
  reaches `exited`. It holds because a SIGUSR2 that arrives between the
  packet thread's `done` test and its read is caught by the next `TO_MS`
  timeout; without the timeout the join hangs.

`nfpcapd_spec` checks `NfpcapdAsSpec` on `NfpcapdMain`. The property
states what spec sections 5 and 6 promise of the life of the process.
Its first part is `StartedAsConfigured` of `NfpcapdOptions`, which must
hold in every step. It says what the usage text, the error messages and
section 6 ("1 on startup misconfiguration") ask of a process whose
threads start: a host's port is in 1..65535, the `-w` and `-p` paths are
directories, and the filter is the one given or the default "ip". Its
second part is `(done = 1) ~> (mainPc = "exited")`: once `done` is set,
the workers drain and the process exits. Each of the first four command
lines violates the first part on its own:

* `-i -H host/70000 ip`: the port test is `p > 655535` (line 588);
* `-r file -w regular-file ip`: `-w` only logs "No valid directory", and a
  writable file passes `access(W_OK)`;
* `-i -H host -p missing ip`: the `-p` directory is tested only inside
  `if (datadir)` (line 628);
* `-i -w dir` with no filter argument: `filter = argv[optind]` is NULL
  (line 544), so the default "ip" is lost and no filter is installed.

The fifth command line, `-i -w dir ip`, is accepted. With it the second
part fails on its own (checked with that command line alone). A SIGUSR2
from outside runs `Interrupt_handler`, which sets the global `done`, and
the packet thread leaves its loop. Main, however, sigwaits only on
SIGINT, SIGHUP, SIGTERM and SIGUSR1, and it tests the local `done` of
`WaitDone` (line 252), which shadows the global one. So the process runs
on without capturing until a SIGINT or SIGTERM. Section 5 lists SIGUSR2
among the signals main waits for.

`v3_verify` checks `VerifiesAsSpec` on `V3Verify`: once `VerifyV3Record`
returns, it has returned 1 exactly when `SpecVerify` accepts the record.
The spec's verifier refuses an element of length 0; the code tests only
`length > rlen` (line 519). The counterexample is a 12-byte record, header
only, with `numElements` 1. The loop reads the header that lies just past
the record. If those bytes hold length 0, `rlen` stays 0 and `cnt`
becomes 1, so the record is accepted. The `cnt != numElements` test
after the loop can never fail, because the loop either returns early or
counts every element.

### Bounds and why they are enough (MCSequencer)

The MC defines five templates on one sibling ring:

* **256** has a variable-length field into a variable-size element, a 2-byte
  field and two 1-byte skips. The skips are merged by compaction.
* **257** has a 1-byte field into ext 1 at offset 2, a stack-only field with
  extension 0 and stack slot 1, and a subTemplateList.
* **258** is a subTemplateMultiList.
* **265** is a 1-byte field used as a sub template.
* **260** is a subTemplateList followed by a 1-byte field into ext 1. Short
  records nest it in itself up to the limit. A record of 11 or 12 bytes
  whose list names 260 runs it once inside itself: the inner run clears
  the shared `offsetCache`, writes its own ext 1 element, and the outer
  run then copies its field through the slot the inner run left
  (nfxV3.c:269). `RecordVerifies` and `NoWriteBeyondElement` hold in that
  case: the stale slot points at an element of the right type and size.

The bounds are:

* `ByteVals = {0, 1, 4, 9, 255}`. These give the template ids 256, 257,
  260 and 265 (first byte 1), unknown ids (first byte 0), multilist sizes 0,
  1, 4 and 9, variable lengths up to 9, and the 255 escape to a 16-bit
  length.
* `InSizes = {0, 1, 2, 4, 10, 12}`. These cover an empty record, records
  that end inside a length prefix, and records long enough for three
  nesting levels.
* `NestLimit = 2`, scaled down from 16. The limit is still reached (run, sub
  run, then a refused third) and every early return is exercised.
* `OutSize = 28`, so SEQ_MEM_ERR happens.
* A state constraint `OutLengthBound`, with `MaxOutLength = 32`, bounds the
  only counter that grows without limit: a parent's `outLength` summed over
  the endless zero-size multilist loop.

Every action and every branch of `Call`, `MultiStep`, `ListStep`,
`RunResume` and `MultiResume` fires in this run.

### Bounds and why they are enough (MCNetflowV1)

* Two sources, one IPv4 and one IPv6, so both `outRecordSize` values and
  both router-IP extensions occur. The element sizes are those of
  `nfxV3.h`; a record is 112 to 132 bytes.
* `BlockCap = 300` holds two or three records, so a second packet of two
  records forces a flush.
* `InSizes = {8, 64, 112, 160}` and `Counts = {0, 1, 2, 25}` give datagrams
  of one, two or three packets, a trailing short header, a count above the
  maximum of 24, and a count larger than the bytes left.
* `UptimeWrap = 4` stands for 2^32. `Uptimes = {1, 4, 6}` and
  `Boots = {0, 997}` put the export in counter epochs 0 and 1, and make
  `unix_nsecs` carry a millisecond part. Flow start and end fall in the same
  epoch as the export or in the one before, in every order the two
  correction tests distinguish. With these values every intermediate of the
  `uint64_t` arithmetic stays non-negative, as it does for real clocks.
* The constraint `DatagramBound` stops after two datagrams in all. Deadlock
  is not reported for the states it cuts off.

### Bounds (MCStatRecord)

The genericFlows have protocols 0, 1, 6, 17 and 58, so every bucket of
the switch is reached, and ICMP and ICMPv6 both reach the shared `case`
(an `ASSUME` in `MCStatRecord` states that the protocols cover the
buckets). Every protocol has the inner time window; UDP and protocol 0
also have the outer one, so a later record can widen either end. The
cntFlows have `flows` 0 and 2. Records can lack either extension. The
constraint `FlowBound` keeps flows plus packets at 5 or less, i.e. stat
records after up to three records. Flows alone would not bound the run,
since `UpdateRawStat` may add no flows. The properties quantify over every
pair of records from every reachable stat record.

### Bounds (MCSsl)

`MCHellos` holds 139 records:

* ClientHellos with one or two extensions of distinct types. The choices are
  the well-formed SNI, curves, point formats, signatures, ALPN, an unparsed
  type (65281) and a GREASE type, and four malformed bodies: a curve list
  shorter than its extension, a curve list of odd length, an SNI list longer
  than its name, and an empty ALPN list.
* Sixteen single changes of a base ClientHello. They reach every early
  return of `sslProcess` and `sslParseClientHandshake`:
  * a wrong record type or version, too long a content or message length;
  * message types 0 and 11;
  * an unknown or a TLS 1.3 protocol version;
  * a 32-byte session id;
  * no ciphers, or no extensions;
  * an extension block longer or shorter than its extensions;
  * an extension longer or shorter than its body;
  * trailing bytes.
* ServerHellos with up to two extensions, one with an extension longer than
  the record, and one with a version the server table lacks.

Two extensions are enough to make one body's parse act on the next one's
header, which is how the loops go wrong. The GREASE test is checked on every
u16 made of the bytes 0, 0x0a, 0x0b, 0x1a, 0xaa, 0xab and 0xfa. These cover
the values it must accept, values that fail only the nibble mask, and values
that fail only the equal-bytes test. A curve list with a GREASE value is
added only in `ssl_spec`. The pass run states what the code does on
every other input.

A ClientHello with no extensions, or with only GREASE extensions, is
rejected or accepted as the code decides. `WellFormed` requires an
extension block, because `sslParseExtensions` rejects an empty one.

### Bounds (MCV3Verify)

Record headers of type 11 (V3Record) or 10, of size 8 (shorter than the
header), 12, 16, 20 or 24, and with 0 to 3 elements. Five words follow the
header. Each word holds one of four element headers: length 0, a
header-only element of length 4, an 8-byte element, or a 4-byte element
of type `MAXEXTENSIONS`. Every header a walk of three elements reads lies
within those words (an `ASSUME`). So the run covers each early return,
records that end early or late, and reads past the end. The run has 119 K
distinct states.

### Bounds (MCNfpcapd)

`MCNfpcapd` has 22 command lines. Four start the threads, one in each
mode, and carry the options that only set values. The others each stop
at one exit of the startup: -h, an empty command line, '?', both sources,
a missing -r file, a second -H, snaplen 53, -e without ',', an unknown
codec, two compressions, a refused -B, two arguments, a missing -w
directory, an unreadable pcap file, a bad filter, a bad -o string, no
output, port 0. Together they take every option case and every check,
both outcomes of each. `MCNfpcapdSpec.cfg` takes the five command lines
of the `nfpcapd_spec` section instead.

For the threads: two flow keys, three packets, at most two outside
signals drawn from SIGINT, SIGHUP and SIGUSR2. Two keys make
`Flush_FlowTree` push more than one node, three packets let one be
captured after another was expired, and two signals let a SIGHUP or a
SIGUSR2 precede the stop signal. SIGTERM acts as SIGINT in `WaitDone`, and
SIGPIPE is blocked in every thread and not in `WaitDone`'s set, so it
stays pending and changes nothing; both are left out. `nfpcapd_main` has
137 K distinct states.

### Fairness

`Spec` adds `WF_vars(Next)`. The decoder is a single thread that runs the
record to completion, so an enabled step is eventually taken. Only
`sequencer_spec` uses the fairness. Its counterexample is a state
whose only enabled step changes nothing: the multilist loop that never
advances.

`NetflowV1`'s `Spec` adds `WF_vars(Decode)` only. Once the collector has
called `Process_v1`, the call runs on that thread to its end. Nothing
forces another datagram to arrive, so `Receive` has no fairness. The run
checks `Init` and `Next`. Termination follows from the `DecodeProgresses`
variant and the deadlock check, so the run does not rely on the fairness.

`Ssl`'s `Spec` adds `WF_vars(Next)`: `sslProcess` is one call on one
thread. No run checks a liveness property of it. Every iteration of either
extension loop lowers `extLeft` by at least 4, so the parse ends by
construction. Each run has `CHECK_DEADLOCK FALSE`, because a parse stops
once the record is rejected or rendered.

`NfpcapdShutdown`'s `Spec` has weak fairness of main, of the packet,
flow and flush threads, and of `Deliver`: each is a POSIX thread that the
scheduler eventually runs, and a pending signal to a thread is eventually
delivered. `LiveTimeout` is part of the packet thread's step: the kernel
returns a live read after `TO_MS` (100 ms). Packets and outside signals
have no fairness; nothing forces them to arrive. `NfpcapdMain` adds weak
fairness of `Startup` and `Launch`: main runs its startup on its own
thread to the end.

## 4. What is not modelled, and why

* `ClearSequencer` and `PrintSequencer`: memory release and printing.
* The values copied into elements, the stack slots' values and byte order
  conversions. No property looks at field values; copy bounds are modelled.
* `sequencer->inLength`: it is written for the decoder and never read inside
  `src/`.
* The MD5 digest of the JA3 string and its hex rendering (`ja3String`): a
  hash is out of a model checker's reach, and the string it hashes is
  modelled. `sslPrint` and `sslFree` only print and free.
* CSV output (`csv_record_fast`): spec section 1 puts the output
  formatters out of scope, and the only state is the static `recordCount`.
  Its hazard is a record with neither an IPv4 nor an IPv6 element (line
  117). For such a record `sa` and `da` are read uninitialised: in practice
  the previous call's strings, or bytes without a NUL that `memcpy` copies
  past the buffer before the margin test at line 160. Nothing states what
  such a line should carry, so no property is given.
* The swap macros, utilities and version strings: data shuffling and
  declarations with no control state.
* The barrier, the IPFIX/v9 decoders, the template store, the file writer and
  the thread bodies of nfpcapd are not under `src/` (the last are modelled
  from spec section 5).
* Of nfpcapd's startup, the calls outside `src/`: the live setups,
  `ConfOpen`, `scanOptions` (only its verdict on -o), `SetPriv`,
  `AddFlowSource`, `Init_nffile`, `InitBookkeeper`, `Init_FlowTree`,
  `InitLog`, `daemonize`, the pid file and the metric socket. Only the live
  setup is left to fail; the others are taken to succeed. GNU getopt's
  argument permutation is not modelled: the command lines put the options
  first. The `-e` check tests `snaplen` instead of the timeouts it parsed
  (line 462). No property states it, because the valid timeouts are decided
  in `flowtree.c`, which is not under `src/`.
* The statinfo update, the log and the pid file after the joins of nfpcapd:
  sequential I/O.

## 5. Plan

Modules are listed in order of importance. All seven are done.

1. **Sequencer** (done): compilation, execution, sub templates, verifier.
2. **NetflowV1** (done): the packet and record loops, `getExporter`, the
   block check and flush, time-wrap arithmetic, accounting and termination.
   Not checked: the spec's §3 item 4 says `outRecordSize` *equals* the size
   of the extensions always emitted. The code makes it the largest record
   (flowMisc and the next hop included) and checks `<=`, which is what
   `NoRecordSizeExit` states.
3. **StatRecord** (done): both updaters, order independence, the spec's
   updater, and the two divergences of `UpdateRawStat`.
4. **Ssl** (done): `sslProcess` with both handshake parsers, the extension
   loops and parsers over the byte stream, the GREASE filter, and the JA3
   string with its budget. Three divergences were found: GREASE curves are
   kept, SNI skips by its own list length, and ServerHello extensions are
   skipped unchecked.
5. **NfpcapdShutdown** (done): main, the packet, flush and flow threads and
   the signal handler, refined to `CaptureSpec`; an outside SIGUSR2 stops
   the capture without ending the process.
6. **V3Verify** (done): `VerifyV3Record` over malformed headers against
   the spec's verifier, which also checks `length > 0`.
7. **NfpcapdOptions**, **NfpcapdMain** (done): the startup of `main`,
   composed with the threads; four divergences in the accepted command
   lines.
