--------------------------- MODULE NfpcapdOptions ----------------------------
(***************************************************************************)
(* nfpcapd main up to the start of its threads: the getopt loop, one step *)
(* per option, the checks after it in the order of the code, and the      *)
(* capture setup (setup_pcap_file for -r).  An argument is a small class  *)
(* of what it is to the code: a numeric string read with atoi, a path     *)
(* that is a directory, a regular file or missing, a pcap file, a file    *)
(* that is no capture or has an unsupported link type, a filter that     *)
(* compiles or does not.  Calls outside src/ that only succeed or fail    *)
(* (the live setup) are a nondeterministic outcome.                       *)
(***************************************************************************)
EXTENDS Integers, Sequences

CONSTANTS
  Argvs,    \* the command lines: options [o, a], then arguments [o |-> "arg"]
  Atoi      \* atoi of the numeric strings the command lines carry

\* options whose argument is only range or length checked: -B -b -I -m -t
\* -W -P -C, and those that only set a value: -u -g -d -D -S -T -v
CheckedOpts == {"B", "b", "I", "m", "t", "W", "P", "C"}
PlainOpts == {"u", "g", "d", "D", "S", "T", "v"}

VARIABLES
  argv,      \* the command line
  optind,    \* getopt's index of the next element of argv
  cfg,       \* the locals main sets from the options
  startPc    \* getopt, args, checks, setup, dirs, start, started, exit0, exit1

vars == <<argv, optind, cfg, startPc>>

\* the defaults main sets before the loop; "none" is NULL or unset
Defaults == [device |-> FALSE, pcapfile |-> "none", datadir |-> "none",
             pcapDatadir |-> "none", host |-> "none", filter |-> "ip",
             snaplen |-> 1522, compress |-> "none", options |-> "none"]

Init ==
  /\ argv \in Argvs /\ optind = 1 /\ cfg = Defaults /\ startPc = "getopt"

Tok == argv[optind]

\* getopt returned option letter o of argv[optind]
GetOpt(os) ==
  /\ startPc = "getopt" /\ optind <= Len(argv) /\ Tok.o \in os

NextOpt(c) == cfg' = c /\ optind' = optind + 1 /\ UNCHANGED <<argv, startPc>>

ExitWith(code) == startPc' = code /\ UNCHANGED <<argv, optind, cfg>>

Goto(pc) == startPc' = pc /\ UNCHANGED <<argv, optind, cfg>>

-----------------------------------------------------------------------------
(* the getopt loop *)

\* -h prints the usage and -V the version, and both exit with success
OptExit0 == GetOpt({"h", "V"}) /\ ExitWith("exit0")

\* an unknown option, or one without its argument: usage, EXIT_FAILURE
OptUnknown == GetOpt({"?"}) /\ ExitWith("exit1")

OptChecked ==
  /\ GetOpt(CheckedOpts)
  /\ IF Tok.a = "bad" THEN ExitWith("exit1") ELSE NextOpt(cfg)

OptPlain == GetOpt(PlainOpts) /\ NextOpt(cfg)

OptDevice == GetOpt({"i"}) /\ NextOpt([cfg EXCEPT !.device = TRUE])

\* -r: the file must stat and be a regular file
OptPcapFile ==
  /\ GetOpt({"r"})
  /\ IF Tok.a \in {"missing", "dir"} THEN ExitWith("exit1")
     ELSE NextOpt([cfg EXCEPT !.pcapfile = Tok.a])

\* -w, and the legacy -l falling through to it.  A path that is no
\* directory is only logged, and one that does not stat is tested on the
\* uninitialised fstat; either outcome of that test leaves the loop by break.
OptDir ==
  /\ GetOpt({"w", "l"})
  /\ NextOpt([cfg EXCEPT !.datadir = Tok.a])

\* -p dir: the same stat test, and go on either way
OptPcapDir ==
  /\ GetOpt({"p"})
  /\ NextOpt([cfg EXCEPT !.pcapDatadir = Tok.a])

\* -H host[/port]: a second -H or an argument over 255 bytes exits; the
\* port defaults to "9995"
OptHost ==
  /\ GetOpt({"H"})
  /\ IF cfg.host # "none" \/ Tok.a = "long" THEN ExitWith("exit1")
     ELSE NextOpt([cfg EXCEPT !.host = IF Tok.a = "" THEN "9995" ELSE Tok.a])

OptSnaplen ==
  /\ GetOpt({"s"})
  /\ IF Atoi[Tok.a] < 14 + 20 + 20 THEN ExitWith("exit1")
     ELSE NextOpt([cfg EXCEPT !.snaplen = Atoi[Tok.a]])

\* -e active,inactive: a string over 16 bytes or without ',' exits; after
\* the split the code tests snaplen, not the two timeouts
OptExpire ==
  /\ GetOpt({"e"})
  /\ IF Tok.a \in {"long", "nocomma"} \/ cfg.snaplen < 14 + 20 + 20
     THEN ExitWith("exit1") ELSE NextOpt(cfg)

\* -j, -y, -z[=codec]: a second compression option exits, and so does a
\* codec ParseCompression does not know
OptCompress ==
  /\ GetOpt({"j", "y", "z"})
  /\ IF cfg.compress # "none" \/ Tok.a = "bad" THEN ExitWith("exit1")
     ELSE NextOpt([cfg EXCEPT !.compress =
                     CASE Tok.o = "j" -> "bz2"
                       [] Tok.o = "y" -> "lz4"
                       [] Tok.a = ""  -> "lzo"
                       [] OTHER       -> Tok.a])

\* -o: a string over 64 bytes exits; scanOptions parses it after the loop
OptOptions ==
  /\ GetOpt({"o"})
  /\ IF Tok.a = "long" THEN ExitWith("exit1")
     ELSE NextOpt([cfg EXCEPT !.options = Tok.a])

\* getopt returns EOF at the end of argv or at the first argument
OptEnd ==
  /\ startPc = "getopt" /\ ~(optind <= Len(argv) /\ Tok.o # "arg")
  /\ Goto("args")

-----------------------------------------------------------------------------
(* after the loop *)

\* more than one argument left: usage, EXIT_FAILURE; otherwise the filter
\* is argv[optind], which is NULL when no argument is left; then argc == 1
\* prints the usage and exits with success
Args ==
  /\ startPc = "args"
  /\ LET left == Len(argv) - optind + 1
     IN CASE left > 1         -> ExitWith("exit1")
          [] Len(argv) = 0    -> ExitWith("exit0")
          [] OTHER            ->
               /\ cfg' = [cfg EXCEPT !.filter =
                            IF left = 1 THEN argv[optind].a ELSE "none"]
               /\ startPc' = "checks" /\ UNCHANGED <<argv, optind>>

\* mutant: only a missing source is refused
SourceOKNotBoth(c) == c.device \/ c.pcapfile # "none"

\* exactly one of -i and -r
SourceOK(c) == c.device # (c.pcapfile # "none")

OutputOK(c) == (c.datadir # "none") # (c.host # "none")

PortAccepted(p) == ~(p <= 0 \/ p > 655535)

\* ConfOpen, then either a device or a pcap file, scanOptions, either a
\* directory or a host, and the port of the host
Checks ==
  /\ startPc = "checks"
  /\ IF /\ SourceOK(cfg) /\ cfg.options # "bad" /\ OutputOK(cfg)
        /\ cfg.host # "none" => PortAccepted(Atoi[cfg.host])
     THEN Goto("setup") ELSE ExitWith("exit1")

\* setup_pcap_file: a file pcap_open_offline cannot read (and zlib_stream
\* cannot either), a filter pcap_compile refuses, or an unsupported link
\* type fails the setup
SetupPcapFileFails(c) ==
  \/ c.pcapfile \in {"junk", "badlink"}
  \/ c.filter = "bad"

\* -r: setup_pcap_file; -i: the live setup of the build (not under src/),
\* which may fail; a failed setup exits
Setup ==
  /\ startPc = "setup"
  /\ IF cfg.pcapfile # "none"
     THEN IF SetupPcapFileFails(cfg) THEN ExitWith("exit1") ELSE Goto("dirs")
     ELSE \E ok \in BOOLEAN : IF ok THEN Goto("dirs") ELSE ExitWith("exit1")

\* with -w, access(W_OK) of the pcap directory and of the flow directory;
\* without it (-H) the pcap directory is not tested
Dirs ==
  /\ startPc = "dirs"
  /\ IF cfg.datadir # "none" /\ "missing" \in {cfg.datadir, cfg.pcapDatadir}
     THEN ExitWith("exit1") ELSE Goto("start")

Step ==
  \/ OptExit0 \/ OptUnknown \/ OptChecked \/ OptPlain \/ OptDevice
  \/ OptPcapFile \/ OptDir \/ OptPcapDir \/ OptHost \/ OptSnaplen \/ OptExpire
  \/ OptCompress \/ OptOptions \/ OptEnd
  \/ Args \/ Checks \/ Setup \/ Dirs

\* the signal mask is set and the threads are started
Start == startPc = "start" /\ Goto("started")

Stopped == startPc \in {"started", "exit0", "exit1"} /\ UNCHANGED vars

Next == Step \/ Start \/ Stopped

Spec == Init /\ [][Next]_vars
-----------------------------------------------------------------------------
TypeOK ==
  /\ optind \in 1 .. Len(argv) + 1
  /\ startPc \in {"getopt", "args", "checks", "setup", "dirs", "start",
                  "started", "exit0", "exit1"}
  /\ cfg.snaplen >= 14 + 20 + 20

Given(o) == \E i \in 1 .. Len(argv) : argv[i].o = o

\* the argument after the options, the pcap filter the user asked for
FilterArg == IF \E i \in 1 .. Len(argv) : argv[i].o = "arg"
             THEN argv[Len(argv)].a ELSE "none"

\* The usage text and the error messages say what nfpcapd accepts, and spec
\* section 6 says a startup misconfiguration exits with 1: when the threads
\* start, a host's port is a port (1..65535), the flow and pcap directories
\* given are directories, and the pcap filter is the one given or the
\* default "ip".
StartedAsConfigured ==
  startPc = "started" =>
    /\ cfg.host # "none" => Atoi[cfg.host] \in 1 .. 65535
    /\ cfg.datadir \in {"none", "dir"} /\ cfg.pcapDatadir \in {"none", "dir"}
    /\ cfg.filter = IF FilterArg = "none" THEN "ip" ELSE FilterArg
=============================================================================
