------------------------------- MODULE BfdPair -------------------------------
(***************************************************************************)
(* Two bfdd endpoints, each running one session for the other, joined by  *)
(* a UDP path.  Each endpoint's handlers are the operators of             *)
(* BfdSessionOps, so this module composes the same code BfdSession checks *)
(* against an arbitrary peer, now against a peer that runs it too.        *)
(*                                                                         *)
(* The path delivers control packets in order, and may lose, reorder or   *)
(* duplicate them (a bounded number of faults), and may fail for good,     *)
(* losing what is in flight.  Echo packets are looped back below the BFD  *)
(* layer and are not on the channels.                                      *)
(*                                                                         *)
(* Time is abstracted the way the RFC 5880 timer inequalities allow: a    *)
(* detection timer expires only while the packets that would re-arm it    *)
(* have stopped (the path is down, the peer has stopped transmitting, or  *)
(* a packet to this end was lost since it last received one); and a timer *)
(* expires only while fewer than Cap packets are on the path, since the   *)
(* path delivers faster than the shortest timer interval.                 *)
(***************************************************************************)
EXTENDS BfdSessionOps, SequencesExt

CONSTANTS
    EndA, EndB,  \* the two endpoints
    Discr,       \* Ends -> the discriminator each session was created with
    CfgTx,       \* transmit-interval values (ms) a configuration may carry
    CfgMults,    \* detect-multiplier values, NoVal = key absent
    InitBpcs,    \* the configurations the sessions are created with
    UpdBpcs,     \* the configurations an update may submit
    Cap,         \* packets on the path before the timers wait
    MaxFaults,   \* bound on packets lost, reordered or duplicated
    MaxUpdates   \* bound on configuration updates

ASSUME EndA # EndB /\ Cap \in Nat \ {0}

VARIABLES
    bs,       \* Ends -> that endpoint's bfd_session
    chan,     \* Ends -> control packets in flight from that endpoint, oldest first
    link,     \* the path still carries packets
    starved,  \* Ends -> a packet to that endpoint was lost since it last received one
    echoing,  \* Ends -> an echo packet of that endpoint is looping back
    faults,   \* packets lost, reordered or duplicated so far
    updates   \* configuration updates so far

vars == <<bs, chan, link, starved, echoing, faults, updates>>

Ends == {EndA, EndB}

\* Single-hop configurations over the given interval and multiplier values.
Bpcs ==
    [echo: BOOLEAN, shutdown: BOOLEAN, track_sla: {FALSE}, mhop: {FALSE},
     txinterval: CfgTx, recvinterval: {NoVal}, detectmultiplier: CfgMults,
     echointerval: {NoVal}]

ASSUME InitBpcs \cup UpdBpcs \subseteq Bpcs

Other(e) == CHOOSE o \in Ends : o # e

\* The control packets of an event go on the wire.
CtrlOut(s) == SelectSeq(s.out, LAMBDA p : p.kind = "ctrl")

\* The end of an event of endpoint e that left the session record s: its
\* control packets join e's outgoing channel, or are lost with the path.
Emit(e, s, ch) ==
    /\ bs' = [bs EXCEPT ![e] = [s EXCEPT !.out = <<>>]]
    /\ chan' = IF link THEN [ch EXCEPT ![e] = @ \o CtrlOut(s)] ELSE ch

\* The timing abstraction: when a detection timer may expire, and how many
\* packets may be on the path when a transmit timer does.
InFlight == Len(chan[EndA]) + Len(chan[EndB])
PeerSilent(e) == ~link \/ "xmt" \notin bs[Other(e)].armed \/ starved[e]
EchoSilent(e) == ~link \/ "echo_xmt" \notin bs[e].armed \/ starved[e]

-----------------------------------------------------------------------------
(* Specification *)

\* ptm_bfd_sess_new on both ends; the first packet of each is in flight.
Init ==
    /\ \E f \in [Ends -> InitBpcs] :
         LET s0 == [e \in Ends |-> NewSession(f[e], Discr[e])]
         IN  /\ bs = [e \in Ends |-> [s0[e] EXCEPT !.out = <<>>]]
             /\ chan = [e \in Ends |-> CtrlOut(s0[e])]
    /\ link = TRUE
    /\ starved = [e \in Ends |-> FALSE]
    /\ echoing = [e \in Ends |-> FALSE]
    /\ faults = 0
    /\ updates = 0

XmtTimer(e) ==
    /\ "xmt" \in bs[e].armed
    /\ InFlight < Cap
    /\ Emit(e, bfd_xmt_cb(bs[e]), chan)
    /\ UNCHANGED <<link, starved, echoing, faults, updates>>

EchoXmtTimer(e) ==
    /\ "echo_xmt" \in bs[e].armed
    /\ InFlight < Cap
    /\ Emit(e, bfd_echo_xmt_cb(bs[e]), chan)
    /\ echoing' = [echoing EXCEPT ![e] = link]
    /\ UNCHANGED <<link, starved, faults, updates>>

DetectTimer(e) ==
    /\ "detect" \in bs[e].armed
    /\ InFlight < Cap
    /\ PeerSilent(e)
    /\ Emit(e, bfd_recvtimer_cb(bs[e]), chan)
    /\ UNCHANGED <<link, starved, echoing, faults, updates>>

EchoDetectTimer(e) ==
    /\ "echo_detect" \in bs[e].armed
    /\ InFlight < Cap
    /\ EchoSilent(e)
    /\ Emit(e, bfd_echo_recvtimer_cb(bs[e]), chan)
    /\ UNCHANGED <<link, starved, echoing, faults, updates>>

\* The oldest packet from the peer arrives; an AdminDown session or a
\* packet that fails validation leaves the session as it is.
Deliver(e) ==
    LET p  == Head(chan[Other(e)])
        ch == [chan EXCEPT ![Other(e)] = Tail(@)]
    IN  /\ chan[Other(e)] # <<>>
        /\ IF bs[e].state # "AdminDown" /\ ValidCtrl(bs[e], p)
           THEN /\ Emit(e, bfd_recv_ctrl(bs[e], p), ch)
                /\ starved' = [starved EXCEPT ![e] = FALSE]
           ELSE /\ chan' = ch
                /\ UNCHANGED <<bs, starved>>
        /\ UNCHANGED <<link, echoing, faults, updates>>

\* e's echo packet comes back through the peer's forwarding plane.
RecvEcho(e) ==
    /\ echoing[e]
    /\ bs[e].state # "AdminDown"
    /\ Emit(e, bfd_recv_echo(bs[e]), chan)
    /\ echoing' = [echoing EXCEPT ![e] = FALSE]
    /\ UNCHANGED <<link, starved, faults, updates>>

\* bfd_session_update on e's session from the control socket.
Update(e) ==
    /\ updates < MaxUpdates
    /\ \E bpc \in UpdBpcs : Emit(e, _bfd_session_update(bs[e], bpc), chan)
    /\ updates' = updates + 1
    /\ UNCHANGED <<link, starved, echoing, faults>>

Lose(e) ==
    /\ faults < MaxFaults
    /\ \E i \in 1 .. Len(chan[e]) : chan' = [chan EXCEPT ![e] = RemoveAt(@, i)]
    /\ starved' = [starved EXCEPT ![Other(e)] = TRUE]
    /\ faults' = faults + 1
    /\ UNCHANGED <<bs, link, echoing, updates>>

Reorder(e) ==
    /\ faults < MaxFaults
    /\ Len(chan[e]) >= 2
    /\ chan' = [chan EXCEPT ![e] = <<@[2], @[1]>> \o SubSeq(@, 3, Len(@))]
    /\ faults' = faults + 1
    /\ UNCHANGED <<bs, link, starved, echoing, updates>>

\* UDP may deliver a datagram twice; the oldest in flight is copied.
Duplicate(e) ==
    /\ faults < MaxFaults
    /\ chan[e] # <<>>
    /\ chan' = [chan EXCEPT ![e] = <<Head(@)>> \o @]
    /\ faults' = faults + 1
    /\ UNCHANGED <<bs, link, starved, echoing, updates>>

LinkFails ==
    /\ link
    /\ link' = FALSE
    /\ chan' = [e \in Ends |-> <<>>]
    /\ echoing' = [e \in Ends |-> FALSE]
    /\ UNCHANGED <<bs, starved, faults, updates>>

Next ==
    \/ \E e \in Ends :
          \/ XmtTimer(e) \/ EchoXmtTimer(e) \/ DetectTimer(e) \/ EchoDetectTimer(e)
          \/ Deliver(e) \/ RecvEcho(e) \/ Update(e)
          \/ Lose(e) \/ Reorder(e) \/ Duplicate(e)
    \/ LinkFails

\* The path delivers what it does not lose: weak fairness of Deliver(e),
\* written with its enabling condition (a packet from the peer is in
\* flight; every Deliver step removes it, so it is never a stutter).
DeliverFair(e) ==
    <>[](chan[Other(e)] # <<>>) => []<><<Deliver(e)>>_vars

\* The event loop fires an armed timer once it is due.  A timer is only
\* intermittently enabled here (it waits while the path is busy), hence
\* strong fairness: the abstraction delays a due timer, it never cancels it.
Fairness ==
    \A e \in Ends :
        /\ SF_vars(XmtTimer(e)) /\ SF_vars(DetectTimer(e))
        /\ SF_vars(EchoDetectTimer(e)) /\ DeliverFair(e)

Spec == Init /\ [][Next]_vars /\ Fairness

-----------------------------------------------------------------------------
(* Properties *)

\* One endpoint's session, with the other endpoint and the path as its
\* environment.  The peer may advertise the default intervals and
\* multiplier and those a configuration sets, converted from milliseconds.
AdvertisedIntervals ==
    {DefDesiredMinTx, DefRequiredMinRx} \cup {t * 1000 : t \in CfgTx \ {NoVal}}
AdvertisedMults == {DefDetectMult} \cup (CfgMults \ {NoVal})

SessionA ==
    INSTANCE BfdSession WITH
        bs <- bs[EndA], peerAlive <- link,
        MyDiscr <- Discr[EndA], PeerDiscrs <- {Discr[EndB]},
        PeerIntervals <- AdvertisedIntervals, PeerEchoIntervals <- {DefReqMinEcho},
        PeerMults <- AdvertisedMults,
        CfgRx <- {NoVal}, CfgEcho <- {NoVal}, CfgTrackSla <- {FALSE}

SessionB ==
    INSTANCE BfdSession WITH
        bs <- bs[EndB], peerAlive <- link,
        MyDiscr <- Discr[EndB], PeerDiscrs <- {Discr[EndA]},
        PeerIntervals <- AdvertisedIntervals, PeerEchoIntervals <- {DefReqMinEcho},
        PeerMults <- AdvertisedMults,
        CfgRx <- {NoVal}, CfgEcho <- {NoVal}, CfgTrackSla <- {FALSE}

\* Types; a packet from e carries e's discriminator and, as your-discriminator,
\* 0 or the peer's (what ptm_bfd_snd writes from my_discr and remote_discr).
TypeOK ==
    /\ SessionA!TypeOK /\ SessionB!TypeOK
    /\ \A e \in Ends :
         chan[e] \in Seq([kind: {"ctrl"}, state: States, P: BOOLEAN, F: BOOLEAN,
                          my_discr: {Discr[e]}, your_discr: {0, Discr[Other(e)]},
                          detect_mult: Nat, desired_min_tx: Nat,
                          required_min_rx: Nat, required_min_echo: Nat])
    /\ starved \in [Ends -> BOOLEAN] /\ echoing \in [Ends -> BOOLEAN]
    /\ faults \in 0 .. MaxFaults /\ updates \in 0 .. MaxUpdates

\* An endpoint is a behaviour of BfdSession: every packet the peer's code
\* emits and this end accepts (ptm_bfd_snd after ptm_bfd_ses_up/dn, the
\* Final replies, _bfd_session_update's conversions) is one BfdSession's
\* arbitrary peer may send, with the intervals and multipliers the peer's
\* configuration can advertise, and nothing arrives once the path has
\* failed.  The instance constants are symmetric in the two ends but for
\* the discriminator values, so EndB's behaviours are EndA's renamed.
SessionARefines == SessionA!SafetySpec

\* Scenario S1: two ends that stay configured and connected bring the
\* session Up on both sides and keep it Up: the three-way handshake of the
\* receive path, the Poll/Final exchange, the configuration updates and the
\* timers of bfd.c together (violated: MCBfdPair_BringUp.cfg through an
\* update, MCBfdPair_EchoDetectFlap.cfg through the echo detection timer).
BringUp ==
    <>[](link /\ \A e \in Ends : "SHUTDOWN" \notin bs[e].flags)
        => <>[](\A e \in Ends : bs[e].state = "Up")

\* Spec 4.D and testable property 6: a poll sequence started on an Up
\* session ends (a Final is received) unless the session leaves Up first.
\* ptm_bfd_snd carries P on every packet while polling and the peer
\* answers each Poll with a Final.
PollCompletes ==
    \A e \in Ends :
        (bs[e].state = "Up" /\ bs[e].polling)
            ~> (~bs[e].polling \/ bs[e].state # "Up")

====
