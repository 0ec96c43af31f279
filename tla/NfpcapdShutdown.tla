--------------------------- MODULE NfpcapdShutdown ---------------------------
(***************************************************************************)
(* The threads of nfpcapd from thread start to exit.  main blocks the     *)
(* process signals in every thread, installs Interrupt_handler for        *)
(* SIGUSR2, starts the flush thread (with -p), the flow thread and the    *)
(* packet thread, and waits in WaitDone.  Then it sends SIGUSR2 to the    *)
(* packet thread, joins it and the flush thread, hands the flow tree to   *)
(* the flow thread with Flush_FlowTree and joins the flow thread.         *)
(*                                                                         *)
(* The thread bodies are not under src/ and follow spec section 5: the   *)
(* packet thread polls done, reads the device (a read returns on a packet *)
(* on the TO_MS timeout or on a signal) or the file, and puts packets in  *)
(* the flow tree and in pcap buffers; expired tree entries go to the node *)
(* list, which the flow thread writes out up to the end-of-list node; the *)
(* flush thread writes pcap buffers up to the end of its queue.           *)
(***************************************************************************)
EXTENDS Naturals, Sequences, SequencesExt

CONSTANTS
  Keys,             \* flow keys of captured packets
  MaxPackets,       \* packets captured in one behaviour
  Modes,            \* [live, archive]: device or file (-i/-r), -p given
  ExternalSignals,  \* signals sent to the process from outside
  MaxSignals        \* signals sent from outside in one behaviour

\* the signals WaitDone waits for, lowest number first (sigwait's order)
SigwaitSet == <<"HUP", "INT", "USR1", "TERM">>
StopSignals == {"INT", "TERM", "USR1"}

VARIABLES
  mode,       \* the configuration main started the threads with
  mainPc,     \* where main is after starting the threads
  pending,    \* blocked process signals pending for sigwait
  sent,       \* signals sent from outside so far
  usr2,       \* SIGUSR2 sent to the packet thread, not yet delivered
  done,       \* the static int done
  pkt,        \* packet thread: poll, enter (done read), read, exited
  fileLeft,   \* packets left in the pcap file
  tree,       \* tree[k]: packets in the flow tree entry of k (0: none)
  nodes,      \* the node list from the flow tree to the flow thread
  flow,       \* flow thread: run, exited
  flushQ,     \* pcap buffers queued for the flush thread
  flush,      \* flush thread: run, exited, none
  captured,   \* packets captured per key (history)
  written     \* packets written in flow records per key (history)

vars == <<mode, mainPc, pending, sent, usr2, done, pkt, fileLeft, tree, nodes,
          flow, flushQ, flush, captured, written>>

Total(f) == MapThenSumSet(LAMBDA k : f[k], Keys)

FlowNode(k, n) == [kind |-> "flow", key |-> k, pkts |-> n]
EndNode == [kind |-> "end", key |-> CHOOSE k \in Keys : TRUE, pkts |-> 0]

NoFlows == [k \in Keys |-> 0]

\* the packets a pcap file may hold; a device has no end
FileSizes(m) == IF m.live THEN {0} ELSE 0 .. MaxPackets

\* the flush thread exists with -p
FlushOf(m) == IF m.archive THEN "run" ELSE "none"

Init ==
  /\ mode \in Modes
  /\ mainPc = "wait" /\ pending = {} /\ sent = 0 /\ usr2 = FALSE /\ done = 0
  /\ pkt = "poll"
  /\ fileLeft \in FileSizes(mode)
  /\ tree = NoFlows /\ nodes = <<>> /\ flow = "run"
  /\ flushQ = <<>> /\ flush = FlushOf(mode)
  /\ captured = NoFlows /\ written = NoFlows

\* main before it starts the threads (mode is not chosen yet and has no
\* meaning), for the composition with its startup in NfpcapdMain
Unstarted ==
  /\ mode = [live |-> TRUE, archive |-> FALSE]
  /\ mainPc = "startup" /\ pending = {} /\ sent = 0 /\ usr2 = FALSE /\ done = 0
  /\ pkt = "none" /\ fileLeft = 0
  /\ tree = NoFlows /\ nodes = <<>> /\ flow = "none"
  /\ flushQ = <<>> /\ flush = "none"
  /\ captured = NoFlows /\ written = NoFlows

\* the signal mask and the SIGUSR2 handler are set, and the flush thread
\* (with -p), the flow thread and the packet thread are created
StartThreads(m) ==
  /\ mainPc = "startup"
  /\ mode' = m /\ mainPc' = "wait" /\ pkt' = "poll" /\ flow' = "run"
  /\ fileLeft' \in FileSizes(m) /\ flush' = FlushOf(m)
  /\ UNCHANGED <<pending, sent, usr2, done, tree, nodes, flushQ, captured,
                 written>>

-----------------------------------------------------------------------------
(* Signals *)

\* mutant: the handler counts instead of setting the flag
Interrupt_handlerInc(d) == d + 1

\* Interrupt_handler: done = 1
Interrupt_handler(d) == 1

\* A signal from outside.  The process signals are blocked in every thread
\* and wait for sigwait; SIGUSR2 runs Interrupt_handler on some thread, and
\* when that is the packet thread blocked in its read, the read returns.
Send(sig) ==
  /\ mainPc # "exited" /\ sent < MaxSignals
  /\ sent' = sent + 1
  /\ IF sig = "USR2"
     THEN /\ done' = Interrupt_handler(done)
          /\ pkt' \in IF pkt = "read" THEN {"read", "poll"} ELSE {pkt}
          /\ UNCHANGED pending
     ELSE /\ pending' = pending \cup {sig}
          /\ UNCHANGED <<done, pkt>>
  /\ UNCHANGED <<mode, mainPc, usr2, fileLeft, tree, nodes, flow, flushQ,
                 flush, captured, written>>

\* pthread_kill(packet thread, SIGUSR2) delivered: Interrupt_handler runs on
\* the packet thread (sa_flags 0: its blocking read fails with EINTR)
Deliver ==
  /\ usr2 /\ pkt # "exited"
  /\ usr2' = FALSE
  /\ done' = Interrupt_handler(done)
  /\ pkt' = IF pkt = "read" THEN "poll" ELSE pkt
  /\ UNCHANGED <<mode, mainPc, pending, sent, fileLeft, tree, nodes, flow,
                 flushQ, flush, captured, written>>

-----------------------------------------------------------------------------
(* main *)

\* the lowest-numbered pending signal of the sigwait set
NextSignal == SigwaitSet[CHOOSE i \in 1 .. 4 : SigwaitSet[i] \in pending
                            /\ \A j \in 1 .. i - 1 : SigwaitSet[j] \notin pending]

\* mutant: main goes on to Flush_FlowTree without joining the packet thread
WaitDoneNoJoin ==
  /\ mainPc = "wait" /\ pending # {}
  /\ pending' = pending \ {NextSignal}
  /\ IF NextSignal \in StopSignals
     THEN mainPc' = "flushTree" /\ usr2' = TRUE
     ELSE UNCHANGED <<mainPc, usr2>>
  /\ UNCHANGED <<mode, sent, done, pkt, fileLeft, tree, nodes, flow, flushQ,
                 flush, captured, written>>

\* one sigwait of WaitDone: SIGHUP is ignored, SIGINT, SIGTERM and SIGUSR1
\* end it; main then sends SIGUSR2 to the packet thread
WaitDone ==
  /\ mainPc = "wait" /\ pending # {}
  /\ pending' = pending \ {NextSignal}
  /\ IF NextSignal \in StopSignals
     THEN mainPc' = "joinPacket" /\ usr2' = TRUE
     ELSE UNCHANGED <<mainPc, usr2>>
  /\ UNCHANGED <<mode, sent, done, pkt, fileLeft, tree, nodes, flow, flushQ,
                 flush, captured, written>>

\* pthread_join of the packet thread, then of the flush thread with -p
JoinPacket ==
  /\ mainPc = "joinPacket" /\ pkt = "exited"
  /\ mainPc' = IF mode.archive THEN "joinFlush" ELSE "flushTree"
  /\ UNCHANGED <<mode, pending, sent, usr2, done, pkt, fileLeft, tree, nodes,
                 flow, flushQ, flush, captured, written>>

JoinFlush ==
  /\ mainPc = "joinFlush" /\ flush = "exited"
  /\ mainPc' = "flushTree"
  /\ UNCHANGED <<mode, pending, sent, usr2, done, pkt, fileLeft, tree, nodes,
                 flow, flushQ, flush, captured, written>>

\* Flush_FlowTree: every entry of the tree goes to the node list, and the
\* end-of-list node after them
Flush_FlowTree ==
  /\ mainPc = "flushTree"
  /\ LET ks == SetToSeq({k \in Keys : tree[k] > 0})
     IN nodes' = nodes \o [i \in 1 .. Len(ks) |-> FlowNode(ks[i], tree[ks[i]])]
                       \o <<EndNode>>
  /\ tree' = NoFlows
  /\ mainPc' = "joinFlow"
  /\ UNCHANGED <<mode, pending, sent, usr2, done, pkt, fileLeft, flow, flushQ,
                 flush, captured, written>>

\* pthread_join of the flow thread; the statinfo update and exit follow
JoinFlow ==
  /\ mainPc = "joinFlow" /\ flow = "exited"
  /\ mainPc' = "exited"
  /\ UNCHANGED <<mode, pending, sent, usr2, done, pkt, fileLeft, tree, nodes,
                 flow, flushQ, flush, captured, written>>

-----------------------------------------------------------------------------
(* packet thread *)

\* leaving the loop: the flush queue is closed behind the last buffer
PacketExit ==
  /\ pkt' = "exited"
  /\ flushQ' = IF mode.archive THEN Append(flushQ, "end") ELSE flushQ

\* the loop condition reads done
PacketPoll ==
  /\ pkt = "poll"
  /\ IF done # 0 THEN PacketExit ELSE pkt' = "enter" /\ UNCHANGED flushQ
  /\ UNCHANGED <<mode, mainPc, pending, sent, usr2, done, fileLeft, tree,
                 nodes, flow, flush, captured, written>>

\* after the test, into the read of the device or the file
PacketBlock ==
  /\ pkt = "enter"
  /\ pkt' = "read"
  /\ UNCHANGED <<mode, mainPc, pending, sent, usr2, done, fileLeft, tree,
                 nodes, flow, flushQ, flush, captured, written>>

\* a packet of flow k into the flow tree, and into a pcap buffer with -p
Process(k) ==
  /\ tree' = [tree EXCEPT ![k] = @ + 1]
  /\ captured' = [captured EXCEPT ![k] = @ + 1]
  /\ flushQ' = IF mode.archive THEN Append(flushQ, "buf") ELSE flushQ

LivePacket(k) ==
  /\ pkt = "read" /\ mode.live /\ Total(captured) < MaxPackets
  /\ Process(k) /\ pkt' = "poll"
  /\ UNCHANGED <<mode, mainPc, pending, sent, usr2, done, fileLeft, nodes,
                 flow, flush, written>>

\* mutant: a live read without the TO_MS timeout
LiveTimeoutNever == FALSE /\ pkt = "read"

\* the device read returns after TO_MS without a packet
LiveTimeout ==
  /\ pkt = "read" /\ mode.live
  /\ pkt' = "poll"
  /\ UNCHANGED <<mode, mainPc, pending, sent, usr2, done, fileLeft, tree,
                 nodes, flow, flushQ, flush, captured, written>>

FilePacket(k) ==
  /\ pkt = "read" /\ ~mode.live /\ fileLeft > 0
  /\ fileLeft' = fileLeft - 1
  /\ Process(k) /\ pkt' = "poll"
  /\ UNCHANGED <<mode, mainPc, pending, sent, usr2, done, nodes, flow, flush,
                 written>>

\* end of the pcap file: the packet thread signals main (SIGUSR1) and leaves
FileEnd ==
  /\ pkt = "read" /\ ~mode.live /\ fileLeft = 0
  /\ pending' = pending \cup {"USR1"}
  /\ PacketExit
  /\ UNCHANGED <<mode, mainPc, sent, usr2, done, fileLeft, tree, nodes, flow,
                 flush, captured, written>>

\* an entry of the flow tree times out and goes to the node list
Expire(k) ==
  /\ pkt = "poll" /\ tree[k] > 0
  /\ nodes' = Append(nodes, FlowNode(k, tree[k]))
  /\ tree' = [tree EXCEPT ![k] = 0]
  /\ UNCHANGED <<mode, mainPc, pending, sent, usr2, done, pkt, fileLeft, flow,
                 flushQ, flush, captured, written>>

-----------------------------------------------------------------------------
(* flow and flush threads *)

FlowWrite ==
  /\ flow = "run" /\ nodes # <<>> /\ Head(nodes).kind = "flow"
  /\ written' = [written EXCEPT ![Head(nodes).key] = @ + Head(nodes).pkts]
  /\ nodes' = Tail(nodes)
  /\ UNCHANGED <<mode, mainPc, pending, sent, usr2, done, pkt, fileLeft, tree,
                 flow, flushQ, flush, captured>>

FlowEnd ==
  /\ flow = "run" /\ nodes # <<>> /\ Head(nodes).kind = "end"
  /\ flow' = "exited" /\ nodes' = Tail(nodes)
  /\ UNCHANGED <<mode, mainPc, pending, sent, usr2, done, pkt, fileLeft, tree,
                 flushQ, flush, captured, written>>

FlushStep ==
  /\ flush = "run" /\ flushQ # <<>>
  /\ flushQ' = Tail(flushQ)
  /\ flush' = IF Head(flushQ) = "end" THEN "exited" ELSE flush
  /\ UNCHANGED <<mode, mainPc, pending, sent, usr2, done, pkt, fileLeft, tree,
                 nodes, flow, captured, written>>

-----------------------------------------------------------------------------
MainStep == WaitDone \/ JoinPacket \/ JoinFlush \/ Flush_FlowTree \/ JoinFlow

PacketStep ==
  PacketPoll \/ PacketBlock \/ LiveTimeout \/ FileEnd \/ \E k \in Keys : FilePacket(k)

FlowStep == FlowWrite \/ FlowEnd

\* the process has exited, or main waits in sigwait for a signal that no
\* one sends any more
Exited == mainPc = "exited" /\ UNCHANGED vars

Waiting == mainPc = "wait" /\ pending = {} /\ sent = MaxSignals /\ UNCHANGED vars

Next ==
  \/ \E sig \in ExternalSignals : Send(sig)
  \/ Deliver \/ MainStep \/ PacketStep \/ FlowStep \/ FlushStep
  \/ \E k \in Keys : LivePacket(k) \/ Expire(k)
  \/ Exited \/ Waiting

\* Each thread is scheduled by the OS, the kernel delivers a pending signal
\* and the TO_MS timer fires; packets and outside signals need not come.
Spec ==
  /\ Init /\ [][Next]_vars
  /\ WF_vars(MainStep) /\ WF_vars(PacketStep) /\ WF_vars(FlowStep)
  /\ WF_vars(FlushStep) /\ WF_vars(Deliver)

-----------------------------------------------------------------------------
TypeOK ==
  /\ mainPc \in {"wait", "joinPacket", "joinFlush", "flushTree", "joinFlow", "exited"}
  /\ pending \subseteq {"HUP", "INT", "USR1", "TERM"} /\ done \in {0, 1}
  /\ pkt \in {"poll", "enter", "read", "exited"} /\ flow \in {"run", "exited"}
  /\ tree \in [Keys -> 0 .. MaxPackets] /\ captured \in [Keys -> 0 .. MaxPackets]
  /\ written \in [Keys -> 0 .. MaxPackets]

\* nfpcapd implements CaptureSpec: the capture stops when the packet thread
\* leaves its loop, and main exits only after that and after the flow
\* thread has written every packet captured, those still in the flow tree
\* at shutdown included (Flush_FlowTree after the packet thread is joined).
Capture == INSTANCE CaptureSpec WITH capturing <- pkt # "exited",
                                     exited <- mainPc = "exited"

CaptureRefined == Capture!Spec

\* A SIGINT, SIGTERM or SIGUSR1 (from outside, or from the packet thread at
\* the end of a pcap file) leads to the exit of main: SIGUSR2 reaches the
\* packet thread wherever it is in its loop, and every join returns.
ShutdownCompletes == (pending \cap StopSignals # {}) ~> (mainPc = "exited")
=============================================================================
