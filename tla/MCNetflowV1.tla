---------------------------- MODULE MCNetflowV1 ----------------------------
(***************************************************************************)
(* NetflowV1 for TLC: one IPv4 and one IPv6 exporter, the element sizes  *)
(* of nfxV3.h, a data block that holds two or three records, and an      *)
(* uptime counter scaled from 2^32 to 4 msec so that flows start, end    *)
(* and get exported in different counter epochs.                         *)
(***************************************************************************)
EXTENDS NetflowV1, TLC

CONSTANTS s4, s6

MCSources == {s4, s6}
MCFamily == (s4 :> "inet") @@ (s6 :> "inet6")

\* datagrams received in a behaviour
MaxDatagrams == 2

DatagramBound == exporter[s4].packets + exporter[s6].packets <= MaxDatagrams
=============================================================================
