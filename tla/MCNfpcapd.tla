------------------------------ MODULE MCNfpcapd -------------------------------
EXTENDS NfpcapdMain, TLC

T(o, a) == [o |-> o, a |-> a]

MCAtoi == ("53" :> 53) @@ ("54" :> 54) @@ ("9995" :> 9995) @@ ("0" :> 0)
            @@ ("70000" :> 70000)

\* one command line for each capture mode, and command lines that stop at
\* each exit of the startup
MCArgvs ==
  { << T("i", ""), T("w", "dir"), T("s", "54"), T("e", "ok"), T("v", ""),
       T("B", "ok"), T("arg", "ip") >>,
    << T("i", ""), T("H", ""), T("p", "dir"), T("z", ""), T("o", "ok"),
       T("arg", "ip") >>,
    << T("r", "pcap"), T("l", "dir"), T("j", ""), T("arg", "ip") >>,
    << T("r", "pcap"), T("w", "dir"), T("p", "dir"), T("arg", "ip") >>,
    << T("h", "") >>, << >>, << T("?", "") >>,
    << T("i", ""), T("r", "pcap"), T("w", "dir"), T("arg", "ip") >>,
    << T("r", "missing") >>, << T("H", ""), T("H", "") >>,
    << T("s", "53") >>, << T("e", "nocomma") >>, << T("z", "bad") >>,
    << T("j", ""), T("y", "") >>, << T("B", "bad") >>,
    << T("arg", "ip"), T("arg", "ip") >>,
    << T("i", ""), T("w", "missing"), T("arg", "ip") >>,
    << T("r", "junk"), T("w", "dir"), T("arg", "ip") >>,
    << T("r", "pcap"), T("w", "dir"), T("arg", "bad") >>,
    << T("i", ""), T("o", "bad"), T("w", "dir"), T("arg", "ip") >>,
    << T("i", ""), T("arg", "ip") >>,
    << T("i", ""), T("H", "0"), T("arg", "ip") >> }
\* command lines that start the threads with a host port above 65535, a
\* flow directory that is a regular file, a missing pcap directory next to
\* -H, and no filter argument; and a live capture with a flow directory
\* that a SIGUSR2 from outside may stop
MCArgvsAsSpec ==
  { << T("i", ""), T("H", "70000"), T("arg", "ip") >>,
    << T("r", "pcap"), T("w", "file"), T("arg", "ip") >>,
    << T("i", ""), T("H", ""), T("p", "missing"), T("arg", "ip") >>,
    << T("i", ""), T("w", "dir") >>,
    << T("i", ""), T("w", "dir"), T("arg", "ip") >> }
=============================================================================
