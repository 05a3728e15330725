----------------------------- MODULE BfdSession -----------------------------
(***************************************************************************)
(* One BFD session of the daemon, driven by the three asynchronous sources *)
(* of bfd.c: its four timers, control and echo packets from the peer, and  *)
(* configuration updates from the control socket.  The peer is arbitrary: *)
(* it may send any control packet that passes validation, in any order,   *)
(* and it may stop (crash or lose the path) for good.                      *)
(***************************************************************************)
EXTENDS BfdSessionOps

CONSTANTS
    MyDiscr,          \* the discriminator the session was created with
    PeerDiscrs,       \* discriminators the peer may announce
    PeerIntervals,    \* intervals (us) the peer may advertise
    PeerEchoIntervals,\* echo intervals (us) the peer may advertise, 0 = none
    PeerMults,        \* detect multipliers the peer may advertise
    CfgTx,            \* transmit-interval values (ms) a configuration may carry
    CfgRx,            \* receive-interval values (ms), NoVal = key absent
    CfgEcho,          \* echo-interval values (ms), NoVal = key absent
    CfgMults,         \* detect-multiplier values, NoVal = key absent
    CfgTrackSla       \* track-sla values a configuration may carry

ASSUME MyDiscr # 0 /\ 0 \notin PeerDiscrs

VARIABLES
    bs,        \* the bfd_session record
    peerAlive  \* the peer still sends and loops back packets

vars == <<bs, peerAlive>>

\* Configurations the control socket may submit for this session.
Bpcs ==
    [echo: BOOLEAN, shutdown: BOOLEAN, track_sla: CfgTrackSla,
     mhop: BOOLEAN, txinterval: CfgTx, recvinterval: CfgRx,
     detectmultiplier: CfgMults, echointerval: CfgEcho]

\* Control packets the peer may send that pass validation.
PeerPackets ==
    {p \in [kind: {"ctrl"}, state: States, P: BOOLEAN, F: BOOLEAN,
            my_discr: PeerDiscrs, your_discr: {0, MyDiscr},
            detect_mult: PeerMults, desired_min_tx: PeerIntervals,
            required_min_rx: PeerIntervals,
            required_min_echo: PeerEchoIntervals] : ValidCtrl(bs, p)}

\* The packets an event emits leave the session at the end of the event;
\* an arbitrary peer makes no use of them.
Sent(s)  == [s EXCEPT !.out = <<>>]

TypeOK ==
    /\ bs.state \in States
    /\ bs.local_diag \in Diags
    /\ bs.remote_discr \in {0} \cup PeerDiscrs
    /\ bs.polling \in BOOLEAN
    /\ bs.flags \subseteq Flags
    /\ bs.armed \subseteq Timers
    /\ bs.echo_xmt_TO \in Nat /\ bs.echo_detect_TO \in Nat
    /\ peerAlive \in BOOLEAN

Init ==
    /\ \E bpc \in Bpcs : bs = Sent(NewSession(bpc, MyDiscr))
    /\ peerAlive = TRUE

XmtTimer       == "xmt" \in bs.armed /\ bs' = Sent(bfd_xmt_cb(bs))
                  /\ UNCHANGED peerAlive
EchoXmtTimer   == "echo_xmt" \in bs.armed /\ bs' = Sent(bfd_echo_xmt_cb(bs))
                  /\ UNCHANGED peerAlive
DetectTimer    == "detect" \in bs.armed /\ bs' = Sent(bfd_recvtimer_cb(bs))
                  /\ UNCHANGED peerAlive
EchoDetectTimer == "echo_detect" \in bs.armed
                   /\ bs' = Sent(bfd_echo_recvtimer_cb(bs))
                   /\ UNCHANGED peerAlive

\* A control packet from the peer; AdminDown sessions discard it.
RecvCtrl ==
    /\ peerAlive
    /\ bs.state # "AdminDown"
    /\ \E p \in PeerPackets : bs' = Sent(bfd_recv_ctrl(bs, p))
    /\ UNCHANGED peerAlive

\* One of our echo packets comes back.  The loop-back keeps no state, so
\* an echo sent before the echo transmit timer was stopped (by
\* ptm_bfd_echo_stop or a configuration) may still arrive.
RecvEcho ==
    /\ peerAlive
    /\ bs.state # "AdminDown"
    /\ bs' = Sent(bfd_recv_echo(bs))
    /\ UNCHANGED peerAlive

\* bfd_session_update(): a configuration for the existing key (the
\* create-only rejection is modelled in the registry).  The multihop key
\* cannot change for an existing session.
UpdateWith(bpc) ==
    /\ bpc.mhop = ("MH" \in bs.flags)
    /\ bs' = Sent(_bfd_session_update(bs, bpc))
    /\ UNCHANGED peerAlive

Update == \E bpc \in Bpcs : UpdateWith(bpc)

PeerStops == peerAlive /\ peerAlive' = FALSE /\ UNCHANGED bs

Next ==
    \/ XmtTimer \/ EchoXmtTimer \/ DetectTimer \/ EchoDetectTimer
    \/ RecvCtrl \/ RecvEcho \/ Update \/ PeerStops

\* The event loop fires every armed timer once its interval elapses.
Fairness ==
    /\ WF_vars(XmtTimer) /\ WF_vars(EchoXmtTimer)
    /\ WF_vars(DetectTimer) /\ WF_vars(EchoDetectTimer)

Spec == Init /\ [][Next]_vars /\ Fairness

\* The safety part alone: what a composition of sessions is checked against.
SafetySpec == Init /\ [][Next]_vars

\* The session seen through its state, diagnostic and remote discriminator.
Abstract == INSTANCE BfdSessionAbstract
                WITH state <- bs.state, diag <- bs.local_diag,
                     known <- bs.remote_discr # 0

-----------------------------------------------------------------------------
(* Properties *)

\* Every behaviour of the session is one of the abstract machine of spec
\* 4.D: the state moves only by the transition table, by a detection
\* timeout out of Init/Up (diagnostic DetectTime) or by configuration; the
\* diagnostic records why the session last went Down; and the remote
\* discriminator is learned from every accepted packet and forgotten
\* whenever the session is brought Down or times out again while Down.
\* Ties together bfd_recv_ctrl's learn/Final/transition order,
\* ptm_bfd_ses_dn/ses_up, both detection callbacks and the update path.
Refines == Abstract!Spec

\* Spec invariant 3: "All transmit and detect timers are cancelled in
\* AdminDown" (testable property 2).  Shutdown in _bfd_session_update
\* cancels all four; ptm_bfd_sess_new then starts transmitting anyway.
ShutdownCancelsTimers ==
    bs.state = "AdminDown" => bs.armed = {}

\* A session is in AdminDown exactly when it is shut down, and a session
\* that is not shut down never falls silent: its transmit timer stays
\* armed through every timer, packet and configuration event (the peer
\* would otherwise declare it down).
KeepsTransmitting ==
    /\ (bs.state = "AdminDown") <=> ("SHUTDOWN" \in bs.flags)
    /\ bs.state # "AdminDown" => "xmt" \in bs.armed

\* A session that is Init or Up can always detect the loss of its peer: its
\* detection timer is armed (bfd_recvtimer_cb re-arms it after going Down,
\* packet reception re-arms it, shutdown cancels it).
FailureDetectable ==
    bs.state \in {"Init", "Up"} => "detect" \in bs.armed

\* Spec 4.D and 4.E: every change to Up stages up_min_tx and a Final
\* commits it, and a timer change while Up starts a new poll; so an Up
\* session that is not polling transmits at its configured interval.
\* Relies on ptm_bfd_ses_up / ptm_bfd_echo_start staging before the Poll,
\* on the Final commit, and on _bfd_session_update leaving Up whenever it
\* changes up_min_tx (it never starts a poll itself).
UpTimersCommitted ==
    (bs.state = "Up" /\ ~bs.polling) => bs.timers.desired_min_tx = bs.up_min_tx

\* Scenario S2: once the peer falls silent, an Init or Up session leaves
\* Init/Up (the detection timer or the echo detection timer brings it Down).
DetectsSilentPeer ==
    (~peerAlive /\ bs.state \in {"Init", "Up"}) ~> (bs.state \notin {"Init", "Up"})

\* Spec 4.C and RFC 5880 6.8.7: every transmit interval ptm_bfd_start_xmt_timer
\* can arm for the session's current control and echo periods lies between
\* 75% and 100% of the period (75% and 90% when detect_mult is 1), both ends
\* reached, up to the truncation of the integer division.
RfcJitterTop(to, mult) == IF mult = 1 THEN (9 * to) \div 10 ELSE to

JitterWithinRfc ==
    \A to \in {XmtTO(bs), bs.echo_xmt_TO} :
        LET J == JitteredIntervals(to, bs.detect_mult)
        IN  /\ \A j \in J : (3 * to) \div 4 <= j /\ j <= RfcJitterTop(to, bs.detect_mult)
            /\ {(3 * to) \div 4, RfcJitterTop(to, bs.detect_mult)} \subseteq J

\* Spec 4.E: a configuration update that does not toggle shutdown takes
\* effect "without a teardown"; only a timer change while Up starts a poll.
\* _bfd_session_update writes PTM_BFD_DOWN on every update without
\* shutdown, bypassing ptm_bfd_ses_dn.
UpdateKeepsState ==
    [][\A bpc \in Bpcs :
         (UpdateWith(bpc) /\ bpc.shutdown = ("SHUTDOWN" \in bs.flags))
            => bs'.state = bs.state]_vars

\* Spec invariants 4 and 6 and 4.D: echo runs only on an Up single-hop
\* session whose echo interval has been negotiated with the peer (the
\* transmit interval is max(local, remote) > 0), and its detection time is
\* the LOCAL detect multiplier times that interval.  _bfd_session_update
\* calls ptm_bfd_echo_start whenever echo-mode is configured, and
\* ptm_bfd_echo_start multiplies by the peer's multiplier.
EchoAsNegotiated ==
    "echo_xmt" \in bs.armed =>
        /\ bs.state = "Up"
        /\ "MH" \notin bs.flags
        /\ bs.echo_xmt_TO > 0
        /\ bs.echo_detect_TO = bs.detect_mult * bs.echo_xmt_TO

\* Spec 4.D: echo is deactivated when configuration removes it, so an echo
\* detection timer runs only for a session configured for echo.  The
\* un-shutdown branch of _bfd_session_update re-arms it on every update.
EchoDetectOnlyWithEcho ==
    "echo_detect" \in bs.armed => "ECHO" \in bs.flags

\* Spec invariant 6 and 4.D: the echo detection timeout is the LOCAL detect
\* multiplier times the negotiated echo interval; ptm_bfd_echo_start uses
\* the multiplier the peer advertised.
EchoDetectUsesLocalMult ==
    "ECHO_ACTIVE" \in bs.flags =>
        bs.echo_detect_TO = bs.detect_mult * bs.echo_xmt_TO

=============================================================================
