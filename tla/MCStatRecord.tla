---------------------------- MODULE MCStatRecord ----------------------------
(***************************************************************************)
(* StatRecord for TLC: genericFlows of ICMP, TCP, UDP, ICMPv6 and       *)
(* protocol 0, so that every bucket and both ICMP protocols occur, with  *)
(* two nested time windows, cntFlows with a flows count of 0 and 2, and *)
(* stat records reached while flows plus packets stay within MaxCount.  *)
(***************************************************************************)
EXTENDS StatRecord

MCProtocols == {0, 1, 6, 17, 58}

\* every protocol bucket of the switch is reached by some protocol
ASSUME {Bucket(p) : p \in MCProtocols} = Buckets

\* every protocol with the inner window; UDP and protocol 0 (the bucket of
\* a record without genericFlow in UpdateRawStat) also with the outer one
MCGenericFlows ==
  { [proto |-> p, inPackets |-> 1, inBytes |-> 10, msecFirst |-> w[1],
     msecLast |-> w[2]] :
      <<p, w>> \in (MCProtocols \X {<<2, 3>>}) \cup ({0, 17} \X {<<1, 4>>}) }

MCCntFlows ==
  { [outPackets |-> 1, outBytes |-> 5, flows |-> f] : f \in {0, 2} }

\* flows plus packets accounted in a behaviour (a record may add no flows)
MaxCount == 5

FlowBound == stat.total.flows + stat.total.packets <= MaxCount
=============================================================================
