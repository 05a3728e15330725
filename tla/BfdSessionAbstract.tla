------------------------- MODULE BfdSessionAbstract -------------------------
(***************************************************************************)
(* What a BFD session promises, in the terms of spec 4.D and RFC 5880     *)
(* section 6.8: its state, its local diagnostic, and whether it knows the  *)
(* peer's discriminator.  Four events change them: a packet from the peer *)
(* (the transition table), the detection time passing without one, and a   *)
(* local configuration.  Timers, intervals, Poll/Final and echo are        *)
(* invisible here; BfdSession refines this module.                         *)
(***************************************************************************)

VARIABLES
    state,  \* AdminDown, Down, Init or Up
    diag,   \* the local diagnostic code
    known   \* the remote discriminator has been learned (is non-zero)

vars == <<state, diag, known>>

SessStates == {"AdminDown", "Down", "Init", "Up"}

\* The state after a packet whose state field is r (the table of 4.D).
Table(s, r) ==
    IF r = "AdminDown" \/ (r = "Down" /\ s = "Up") THEN "Down"
    ELSE IF r = "Down" THEN "Init"
    ELSE "Up"

TypeOK ==
    /\ state \in SessStates
    /\ diag \in {"None", "DetectTime", "NeighDown", "AdminDown"}
    /\ known \in BOOLEAN

\* A session is created Down, or AdminDown when configured shut down.
Init ==
    /\ state \in {"AdminDown", "Down"}
    /\ diag = "None"
    /\ known = FALSE

\* A packet from the peer, discarded in AdminDown.  Being brought Down by
\* the peer records NeighDown and forgets its discriminator; reaching Up
\* clears the diagnostic; any other packet teaches the discriminator.
Receive(r) ==
    /\ state # "AdminDown"
    /\ state' = Table(state, r)
    /\ diag' = CASE state' = "Down" /\ state \in {"Init", "Up"} -> "NeighDown"
                 [] state' = "Up" /\ state # "Up"              -> "None"
                 [] OTHER                                        -> diag
    /\ known' = ~(state' = "Down" /\ state \in {"Init", "Up"})

\* The detection time (control or echo) passes in Init or Up.
DetectTimeout ==
    /\ state \in {"Init", "Up"}
    /\ state' = "Down" /\ diag' = "DetectTime" /\ known' = FALSE

\* RFC 5880 6.8.1: a session that is not Init or Up and whose detection
\* time passes forgets the remote discriminator.
ForgetPeer ==
    /\ state \in {"AdminDown", "Down"}
    /\ known' = FALSE
    /\ UNCHANGED <<state, diag>>

\* A local configuration leaves the session AdminDown (shut down) or Down.
\* AdminDown is entered and left only this way.  Spec 4.E would have a
\* configuration that does not toggle shutdown keep the state; the code
\* puts the session Down on every such update, and this module admits it
\* so that the rest of the machine can be checked (MCBfdPair_BringUp.cfg
\* shows what it costs).
Configure ==
    /\ state' \in {"AdminDown", "Down"}
    /\ UNCHANGED <<diag, known>>

Next ==
    \/ \E r \in SessStates : Receive(r)
    \/ DetectTimeout
    \/ ForgetPeer
    \/ Configure

Spec == Init /\ [][Next]_vars

\* An Init or Up session always knows whom it is talking to.
KnowsPeerWhenActive == state \in {"Init", "Up"} => known

=============================================================================
