---------------------------- MODULE MCHostAction ----------------------------
(* Small host action channels for TLC.                                     *)
EXTENDS HostAction

None == {}
One  == {1}
Two  == {1, 2}

\* Each request is delivered once; the first one also a second time.
Once  == JobIds \X {1}
Twice == Once \cup {<<1, 2>>}

\* Everything that can go wrong between anasd and hostd.
ChannelFaults == FaultKinds \ {"oversize", "retain"}
\* Faults that leave the job journal working.
SettleFaults == FaultKinds \ {"commit"}
Oversize == {"oversize"}
=============================================================================
