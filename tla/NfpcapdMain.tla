----------------------------- MODULE NfpcapdMain ------------------------------
(***************************************************************************)
(* nfpcapd main from its command line to its exit: the startup of         *)
(* NfpcapdOptions, and when it gets as far as pthread_create, the threads *)
(* of NfpcapdShutdown, run in the capture mode the options chose.         *)
(***************************************************************************)
EXTENDS Naturals

CONSTANTS Keys, MaxPackets, ExternalSignals, MaxSignals, Argvs, Atoi

VARIABLES
  argv, optind, cfg, startPc,
  mode, mainPc, pending, sent, usr2, done, pkt, fileLeft, tree, nodes, flow,
  flushQ, flush, captured, written

\* every mode; only the Init of the instance, unused here, reads it
AllModes == [live : BOOLEAN, archive : BOOLEAN]

Opt == INSTANCE NfpcapdOptions
Sd == INSTANCE NfpcapdShutdown WITH Modes <- AllModes

optVars == <<argv, optind, cfg, startPc>>
sdVars == <<mode, mainPc, pending, sent, usr2, done, pkt, fileLeft, tree, nodes,
           flow, flushQ, flush, captured, written>>
vars == <<optVars, sdVars>>

\* -r chooses the pcap file thread over the live one, -p the flush thread
ModeOf(c) == [live |-> c.pcapfile = "none", archive |-> c.pcapDatadir # "none"]

Init == Opt!Init /\ Sd!Unstarted

\* a step of main's startup, before any thread exists
Boot(A) == A /\ UNCHANGED sdVars

Startup ==
  \/ Boot(Opt!OptExit0) \/ Boot(Opt!OptUnknown) \/ Boot(Opt!OptChecked)
  \/ Boot(Opt!OptPlain) \/ Boot(Opt!OptDevice) \/ Boot(Opt!OptPcapFile)
  \/ Boot(Opt!OptDir) \/ Boot(Opt!OptPcapDir) \/ Boot(Opt!OptHost)
  \/ Boot(Opt!OptSnaplen)
  \/ Boot(Opt!OptExpire) \/ Boot(Opt!OptCompress) \/ Boot(Opt!OptOptions)
  \/ Boot(Opt!OptEnd) \/ Boot(Opt!Args) \/ Boot(Opt!Checks)
  \/ Boot(Opt!Setup) \/ Boot(Opt!Dirs)

Launch == Opt!Start /\ Sd!StartThreads(ModeOf(cfg))

\* a step of the threads or of a signal; the options are not read again
Threads(A) == mainPc # "startup" /\ A /\ UNCHANGED optVars

Ended == startPc \in {"exit0", "exit1"} /\ UNCHANGED vars

Next ==
  \/ Startup \/ Launch \/ Ended
  \/ \E sig \in ExternalSignals : Threads(Sd!Send(sig))
  \/ Threads(Sd!Deliver)
  \/ Threads(Sd!WaitDone) \/ Threads(Sd!JoinPacket) \/ Threads(Sd!JoinFlush)
  \/ Threads(Sd!Flush_FlowTree) \/ Threads(Sd!JoinFlow)
  \/ Threads(Sd!PacketPoll) \/ Threads(Sd!PacketBlock) \/ Threads(Sd!LiveTimeout)
  \/ Threads(Sd!FileEnd)
  \/ \E k \in Keys : \/ Threads(Sd!FilePacket(k)) \/ Threads(Sd!LivePacket(k))
                    \/ Threads(Sd!Expire(k))
  \/ Threads(Sd!FlowWrite) \/ Threads(Sd!FlowEnd) \/ Threads(Sd!FlushStep)
  \/ Threads(Sd!Exited) \/ Threads(Sd!Waiting)

\* main runs its startup to the end; then the fairness of NfpcapdShutdown
Spec ==
  /\ Init /\ [][Next]_vars
  /\ WF_vars(Startup) /\ WF_vars(Launch)
  /\ WF_vars(Threads(Sd!MainStep)) /\ WF_vars(Threads(Sd!PacketStep))
  /\ WF_vars(Threads(Sd!FlowStep)) /\ WF_vars(Threads(Sd!FlushStep))
  /\ WF_vars(Threads(Sd!Deliver))
-----------------------------------------------------------------------------
TypeOK == Opt!TypeOK /\ (Sd!Unstarted \/ Sd!TypeOK)

\* Whatever the command line, nfpcapd exits only after every captured packet
\* was written (NfpcapdShutdown's refinement of CaptureSpec).
CaptureRefined == Sd!CaptureRefined

\* A stop signal leads to exit also for a process that went through its
\* startup (NfpcapdShutdown's ShutdownCompletes).
ShutdownCompletes == Sd!ShutdownCompletes

\* The threads run with what the command line asks for: they read the
\* device of -i or the file of -r, never both, and the flush thread archives
\* pcap data exactly when -p was given (the getopt cases, the device/file
\* check after the loop and the choice of the packet thread in main).
CommandLineRespected ==
  mainPc # "startup" =>
    /\ mode.live = Opt!Given("i") /\ mode.live # Opt!Given("r")
    /\ mode.archive = Opt!Given("p")

\* What spec sections 5 and 6 promise of the life of nfpcapd: the threads
\* start only with a configuration the usage text and error messages accept
\* (a port in 1..65535, directories for -w and -p, the given or default
\* filter; otherwise startup exits with 1), and once done is set, by the
\* signal main waits for in sigwait (SIGINT, SIGHUP, SIGTERM, SIGUSR1 and
\* SIGUSR2 in section 5), the workers drain and the process exits.
NfpcapdAsSpec ==
  /\ [][Opt!StartedAsConfigured']_vars
  /\ (done = 1) ~> (mainPc = "exited")
=============================================================================
