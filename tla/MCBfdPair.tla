------------------------------ MODULE MCBfdPair ------------------------------
(* Model-checking instance of BfdPair: two endpoints with discriminators   *)
(* 1 and 2, created with the configuration of scenario S1 (defaults, no    *)
(* echo, not shut down).  One update may then move the transmit interval  *)
(* to 2 ms (a timer change), turn echo on, or shut the session down, and   *)
(* one packet may be lost or reordered.                                    *)
EXTENDS BfdPair

CONSTANTS a, b

MCDiscr == (a :> 1) @@ (b :> 2)
MCCfgTx == {NoVal, 2}
MCCfgMults == {NoVal}

S1 == [echo |-> FALSE, shutdown |-> FALSE, track_sla |-> FALSE, mhop |-> FALSE,
       txinterval |-> NoVal, recvinterval |-> NoVal, detectmultiplier |-> NoVal,
       echointerval |-> NoVal]
MCInitBpcs == {S1}
MCUpdBpcs ==
    {[S1 EXCEPT !.txinterval = 2], [S1 EXCEPT !.echo = TRUE],
     [S1 EXCEPT !.shutdown = TRUE]}
====
