---------------------------- MODULE MCBfdSession ----------------------------
(* Model-checking instance of BfdSession: one session against one peer.    *)
(* Intervals keep their microsecond unit; the defaults are 1000 us, a      *)
(* configuration may move the transmit interval to 2 ms and the detect     *)
(* multiplier to 1, and the peer advertises multipliers 1 and 3 and echo   *)
(* support or none, so that local and remote multipliers can differ and    *)
(* echo can and cannot be negotiated.                                      *)
EXTENDS BfdSession

MCPeerDiscrs        == {7}
MCPeerIntervals     == {1000}
MCPeerEchoIntervals == {0, 1000}
MCPeerMults         == {1, 3}
MCCfgTx             == {NoVal, 2}
MCCfgRx             == {NoVal}
MCCfgEcho           == {NoVal}
MCCfgMults          == {NoVal, 1}
MCCfgTrackSla       == {FALSE}
=============================================================================
