------------------------------ MODULE MCBfdSla ------------------------------
(* Bounds for checking BfdSla with TLC. *)
EXTENDS BfdSla

\* Samples of 1 and 3 ms; with 0 for the zero-sample run.
MCElapsed == {1, 3}
MCElapsedWithZero == {0, 3}
\* A fixed multiplier of 3 (scenario S6) or a configuration moving between 2 and 3.
MCSteadyMults == {3}
MCMults == {2, 3}
MCMultsOne == {0, 1, 3}
MCTrackOn == {TRUE}
MCTrack == {TRUE, FALSE}

====
