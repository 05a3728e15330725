--------------------------- MODULE BfdSessionOps ---------------------------
(***************************************************************************)
(* The per-session operations of bfd.c as pure operators on a session     *)
(* record.  Each C function that mutates a bfd_session becomes an operator *)
(* from a session record to the session record it leaves behind, so that  *)
(* the sequential composition of calls inside one event handler is a      *)
(* composition of operators.  BfdSession (one endpoint against an         *)
(* arbitrary peer) and later modules compose these into actions.          *)
(*                                                                         *)
(* Field out holds the packets the session emitted during the current     *)
(* event (control or echo); every event starts with out = <<>>.           *)
(* Field armed is the set of the four per-session timers that are armed   *)
(* in the event layer; the armed interval itself is abstracted away except *)
(* for echo_xmt_TO, which the code reads to decide whether echo starts.   *)
(***************************************************************************)
EXTENDS Integers, Sequences

CONSTANTS
    DefDesiredMinTx,    \* BFD_DEFDESIREDMINTX (microseconds)
    DefRequiredMinRx,   \* BFD_DEFREQUIREDMINRX
    DefReqMinEcho,      \* BFD_DEF_REQ_MIN_ECHO
    DefDetectMult,      \* BFD_DEFDETECTMULT
    NoVal               \* a configuration key that is absent (bpc_has_* = false)

ASSUME DefDetectMult \in 1..255

\* enum of PTM_BFD_* states; calloc() leaves 0 = PTM_BFD_ADM_DOWN
States == {"AdminDown", "Down", "Init", "Up"}
\* local_diag values written by this file (0 is "no diagnostic")
Diags == {"None", "DetectTime", "NeighDown", "AdminDown"}
\* BFD_SESS_FLAG_* bits used by the session state machine
Flags == {"ECHO", "ECHO_ACTIVE", "SHUTDOWN", "MH", "TRACK_SLA"}
\* the four event-layer timers of a session
Timers == {"xmt", "detect", "echo_xmt", "echo_detect"}

Arm(s, t)    == [s EXCEPT !.armed = @ \cup {t}]
Disarm(s, t) == [s EXCEPT !.armed = @ \ {t}]

(***************************************************************************)
(* Packet transmission (bfd_packet.c, not part of src/: modelled from the  *)
(* spec).  A control packet carries Poll = polling, Final = fbit, and the  *)
(* staged new_timers while a poll sequence is running.                    *)
(***************************************************************************)
\* Mutant: the two discriminator fields are written swapped.
ptm_bfd_snd_swapped_discr(s, fbit) ==
    [s EXCEPT !.out = Append(@,
        [kind |-> "ctrl", state |-> s.state, P |-> s.polling, F |-> fbit # 0,
         my_discr |-> s.remote_discr, your_discr |-> s.my_discr,
         detect_mult |-> s.detect_mult,
         desired_min_tx |-> IF s.polling THEN s.new_timers.desired_min_tx
                                         ELSE s.timers.desired_min_tx,
         required_min_rx |-> IF s.polling THEN s.new_timers.required_min_rx
                                          ELSE s.timers.required_min_rx,
         required_min_echo |-> s.timers.required_min_echo])]

ptm_bfd_snd(s, fbit) ==
    [s EXCEPT !.out = Append(@,
        [kind |-> "ctrl", state |-> s.state, P |-> s.polling, F |-> fbit # 0,
         my_discr |-> s.my_discr, your_discr |-> s.remote_discr,
         detect_mult |-> s.detect_mult,
         desired_min_tx |-> IF s.polling THEN s.new_timers.desired_min_tx
                                         ELSE s.timers.desired_min_tx,
         required_min_rx |-> IF s.polling THEN s.new_timers.required_min_rx
                                          ELSE s.timers.required_min_rx,
         required_min_echo |-> s.timers.required_min_echo])]

\* An echo packet carries only our discriminator; the peer loops it back.
ptm_bfd_echo_snd(s) ==
    [s EXCEPT !.out = Append(@, [kind |-> "echo", my_discr |-> s.my_discr])]

\* Stage the values a poll sequence will commit on Final.
StagePoll(s) ==
    [s EXCEPT !.polling = TRUE,
              !.new_timers = [desired_min_tx  |-> s.up_min_tx,
                              required_min_rx |-> s.timers.required_min_rx]]

(***************************************************************************)
(* bfd.c                                                                    *)
(***************************************************************************)
\* The transmit period in use (spec invariant 5; set by the packet layer).
XmtTO(s) ==
    IF s.timers.desired_min_tx > s.remote_timers.required_min_rx
    THEN s.timers.desired_min_tx ELSE s.remote_timers.required_min_rx

\* Mutant: random() % (maxpercent + 1), one percent too many.
JitteredIntervals_off_by_one(xmt_TO, detect_mult) ==
    LET maxpercent == IF detect_mult = 1 THEN 16 ELSE 26
    IN  {(xmt_TO * (75 + r)) \div 100 : r \in 0 .. maxpercent}

\* The intervals ptm_bfd_start_xmt_timer may arm for a nominal xmt_TO: one
\* for each value of random() % maxpercent (uint64_t, so no overflow).
JitteredIntervals(xmt_TO, detect_mult) ==
    LET maxpercent == IF detect_mult = 1 THEN 16 ELSE 26
    IN  {(xmt_TO * (75 + r)) \div 100 : r \in 0 .. maxpercent - 1}

\* Which jittered interval is armed only affects when the timer fires, which
\* the untimed model leaves open (JitteredIntervals is checked on its own);
\* arming is what remains.
ptm_bfd_start_xmt_timer(s, is_echo) ==
    Arm(s, IF is_echo THEN "echo_xmt" ELSE "xmt")

ptm_bfd_echo_xmt_TO(s) == ptm_bfd_start_xmt_timer(ptm_bfd_echo_snd(s), TRUE)

ptm_bfd_xmt_TO(s, fbit) == ptm_bfd_start_xmt_timer(ptm_bfd_snd(s, fbit), FALSE)

ptm_bfd_echo_stop(s, polling) ==
    LET s1 == [s EXCEPT !.echo_xmt_TO = 0, !.echo_detect_TO = 0,
                        !.flags = @ \ {"ECHO_ACTIVE"},
                        !.armed = @ \ {"echo_xmt", "echo_detect"}]
    IN  IF polling THEN ptm_bfd_snd(StagePoll(s1), 0) ELSE s1

ptm_bfd_echo_start(s) ==
    LET s1 == [s EXCEPT !.echo_detect_TO = s.remote_detect_mult * s.echo_xmt_TO]
    IN  ptm_bfd_snd(StagePoll(ptm_bfd_echo_xmt_TO(s1)), 0)

\* Mutant: the non-echo branch sends the Poll without staging the values.
ptm_bfd_ses_up_no_stage(s) ==
    LET s1 == [s EXCEPT !.local_diag = "None", !.state = "Up", !.polling = TRUE]
    IN  IF s1.echo_xmt_TO # 0 /\ "MH" \notin s1.flags
        THEN ptm_bfd_echo_start(s1)
        ELSE ptm_bfd_snd(s1, 0)

ptm_bfd_ses_up(s) ==
    LET s1 == [s EXCEPT !.local_diag = "None", !.state = "Up", !.polling = TRUE]
    IN  IF s1.echo_xmt_TO # 0 /\ "MH" \notin s1.flags
        THEN ptm_bfd_echo_start(s1)
        ELSE ptm_bfd_snd(StagePoll(s1), 0)

\* Mutant: going Down keeps the remote discriminator.
ptm_bfd_ses_dn_keeps_discr(s, diag) ==
    LET s1 == ptm_bfd_snd([s EXCEPT !.local_diag = diag,
                                    !.state = "Down", !.polling = FALSE], 0)
    IN  IF "ECHO_ACTIVE" \in s1.flags THEN ptm_bfd_echo_stop(s1, FALSE) ELSE s1

ptm_bfd_ses_dn(s, diag) ==
    LET s1 == ptm_bfd_snd([s EXCEPT !.local_diag = diag, !.remote_discr = 0,
                                    !.state = "Down", !.polling = FALSE], 0)
    IN  IF "ECHO_ACTIVE" \in s1.flags THEN ptm_bfd_echo_stop(s1, FALSE) ELSE s1

\* Mutant: the timeout re-arms the timer but does not bring the session down.
bfd_recvtimer_cb_no_dn(s) ==
    LET s0 == Disarm(s, "detect")
    IN  IF s0.state \in {"Init", "Up"}
        THEN Arm(s0, "detect")
        ELSE [s0 EXCEPT !.remote_discr = 0]

\* Detection timer callback; the timer is one-shot, so firing disarms it.
bfd_recvtimer_cb(s) ==
    LET s0 == Disarm(s, "detect")
    IN  IF s0.state \in {"Init", "Up"}
        THEN Arm(ptm_bfd_ses_dn(s0, "DetectTime"), "detect")
        ELSE [s0 EXCEPT !.remote_discr = 0]

bfd_echo_recvtimer_cb(s) ==
    LET s0 == Disarm(s, "echo_detect")
    IN  IF s0.state \in {"Init", "Up"} THEN ptm_bfd_ses_dn(s0, "DetectTime")
                                        ELSE s0

bfd_xmt_cb(s)      == ptm_bfd_xmt_TO(Disarm(s, "xmt"), 0)
bfd_echo_xmt_cb(s) == ptm_bfd_echo_xmt_TO(Disarm(s, "echo_xmt"))

(***************************************************************************)
(* Configuration.  A bpc is the parsed peer configuration; a timer field   *)
(* equal to NoVal stands for bpc_has_<field> = false.  Interval fields are *)
(* in milliseconds, as in the JSON, and converted to microseconds here.   *)
(***************************************************************************)
SetIf(v, old, scale) == IF v = NoVal THEN old ELSE v * scale

\* Echo-mode part of _bfd_session_update: echo is started (and its
\* detection timer armed) whenever echo-mode is configured.
bfd_update_echo(s, bpc) ==
    IF bpc.echo
    THEN Arm(ptm_bfd_echo_start([s EXCEPT !.flags = @ \cup {"ECHO"}]),
             "echo_detect")
    ELSE ptm_bfd_echo_stop([s EXCEPT !.flags = @ \ {"ECHO"}], FALSE)

\* Mutant: the transmit interval is stored in milliseconds, not scaled.
bfd_update_timers_tx_unscaled(s, bpc) ==
    [s EXCEPT !.flags = IF bpc.track_sla THEN @ \cup {"TRACK_SLA"}
                                         ELSE @ \ {"TRACK_SLA"},
              !.up_min_tx = SetIf(bpc.txinterval, @, 1),
              !.timers.required_min_rx = SetIf(bpc.recvinterval, @, 1000),
              !.detect_mult = SetIf(bpc.detectmultiplier, @, 1),
              !.timers.required_min_echo = SetIf(bpc.echointerval, @, 1000)]

\* Track-sla flag and timer parameters present in the configuration.
bfd_update_timers(s, bpc) ==
    [s EXCEPT !.flags = IF bpc.track_sla THEN @ \cup {"TRACK_SLA"}
                                         ELSE @ \ {"TRACK_SLA"},
              !.up_min_tx = SetIf(bpc.txinterval, @, 1000),
              !.timers.required_min_rx = SetIf(bpc.recvinterval, @, 1000),
              !.detect_mult = SetIf(bpc.detectmultiplier, @, 1),
              !.timers.required_min_echo = SetIf(bpc.echointerval, @, 1000)]

\* Mutant: the un-shutdown branch re-arms the receive timers only.
bfd_update_shutdown_no_xmt(s, bpc) ==
    IF bpc.shutdown
    THEN ptm_bfd_snd([s EXCEPT !.flags = @ \cup {"SHUTDOWN"}, !.armed = {},
                               !.state = "AdminDown"], 0)
    ELSE [s EXCEPT !.flags = @ \ {"SHUTDOWN"}, !.state = "Down",
                   !.armed = @ \cup {"detect", "echo_detect"}]

\* Shutdown part: shut down cancels all timers and enters AdminDown;
\* otherwise the session is put in Down and every timer is re-armed.
bfd_update_shutdown(s, bpc) ==
    IF bpc.shutdown
    THEN ptm_bfd_snd([s EXCEPT !.flags = @ \cup {"SHUTDOWN"}, !.armed = {},
                               !.state = "AdminDown"], 0)
    ELSE [s EXCEPT !.flags = @ \ {"SHUTDOWN"}, !.state = "Down",
                   !.armed = @ \cup {"detect", "echo_detect", "xmt"}
                               \cup (IF "ECHO" \in s.flags
                                     THEN {"echo_xmt"} ELSE {})]

\* The label part is modelled with the registry (BfdRegistry).
_bfd_session_update(s, bpc) ==
    bfd_update_shutdown(bfd_update_timers(bfd_update_echo(s, bpc), bpc), bpc)

\* bfd_session_new(): calloc plus the defaults it writes.
bfd_session_new ==
    [my_discr |-> 0, state |-> "AdminDown", local_diag |-> "None",
     remote_discr |-> 0, polling |-> FALSE, flags |-> {},
     up_min_tx |-> DefDesiredMinTx,
     timers |-> [desired_min_tx |-> 0, required_min_rx |-> DefRequiredMinRx,
                 required_min_echo |-> DefReqMinEcho],
     new_timers |-> [desired_min_tx |-> 0, required_min_rx |-> 0],
     remote_timers |-> [desired_min_tx |-> 0, required_min_rx |-> 0,
                        required_min_echo |-> 0],
     detect_mult |-> DefDetectMult, remote_detect_mult |-> 0,
     echo_xmt_TO |-> 0, echo_detect_TO |-> 0, armed |-> {}, out |-> <<>>]

\* The session part of ptm_bfd_sess_new() after the registry lookups:
\* discriminator, initial state, slow detection, MH flag, configuration,
\* and the first transmission.
NewSession(bpc, discr) ==
    LET s0 == bfd_session_new
        s1 == [s0 EXCEPT !.my_discr = discr, !.state = "Down",
                         !.remote_discr = 0,
                         !.timers.desired_min_tx = s0.up_min_tx,
                         !.armed = {"detect"},
                         !.flags = IF bpc.mhop THEN {"MH"} ELSE {}]
    IN  ptm_bfd_xmt_TO(_bfd_session_update(s1, bpc), 0)

(***************************************************************************)
(* Packet reception (bfd_packet.c, not in src/: modelled from spec 4.D).   *)
(* A session in AdminDown discards control packets: AdminDown is left     *)
(* only by configuration.                                                  *)
(***************************************************************************)
ValidCtrl(s, p) ==
    /\ p.your_discr \in {0, s.my_discr}
    /\ p.your_discr = 0 => p.state \in {"Down", "AdminDown"}

EchoCapable(s) ==
    /\ "ECHO" \in s.flags
    /\ "MH" \notin s.flags
    /\ s.remote_timers.required_min_echo > 0

NegotiatedEcho(s) ==
    IF s.timers.required_min_echo > s.remote_timers.required_min_echo
    THEN s.timers.required_min_echo ELSE s.remote_timers.required_min_echo

\* The state transition table of spec 4.D.
Transition(s, rstate) ==
    CASE s.state = "Up" /\ rstate \in {"AdminDown", "Down"} ->
            ptm_bfd_ses_dn(s, "NeighDown")
      [] s.state = "Init" /\ rstate = "AdminDown" ->
            ptm_bfd_ses_dn(s, "NeighDown")
      [] s.state = "Down" /\ rstate = "Down" ->
            [s EXCEPT !.state = "Init"]
      [] s.state \in {"Down", "Init"} /\ rstate \in {"Init", "Up"} ->
            LET u == ptm_bfd_ses_up(s)
            IN  IF s.echo_xmt_TO # 0 /\ "MH" \notin s.flags
                THEN [u EXCEPT !.flags = @ \cup {"ECHO_ACTIVE"}]
                ELSE u
      [] OTHER -> s

\* Mutant: the detection timer is re-armed only for packets demultiplexed
\* by your-discriminator.
bfd_recv_learn_by_discr_only(s, p) ==
    LET s1 == [s EXCEPT !.remote_discr = p.my_discr,
                        !.remote_detect_mult = p.detect_mult,
                        !.remote_timers =
                            [desired_min_tx |-> p.desired_min_tx,
                             required_min_rx |-> p.required_min_rx,
                             required_min_echo |-> p.required_min_echo]]
    IN  IF p.your_discr # 0 THEN Arm(s1, "detect") ELSE s1

\* Mutant: the remote discriminator is taken from the wrong header field.
bfd_recv_learn_swapped_discr(s, p) ==
    Arm([s EXCEPT !.remote_discr = p.your_discr,
                  !.remote_detect_mult = p.detect_mult,
                  !.remote_timers = [desired_min_tx |-> p.desired_min_tx,
                                     required_min_rx |-> p.required_min_rx,
                                     required_min_echo |-> p.required_min_echo]],
        "detect")

\* Learn the peer's discriminator, multiplier and timers; re-arm detection.
bfd_recv_learn(s, p) ==
    Arm([s EXCEPT !.remote_discr = p.my_discr,
                  !.remote_detect_mult = p.detect_mult,
                  !.remote_timers = [desired_min_tx |-> p.desired_min_tx,
                                     required_min_rx |-> p.required_min_rx,
                                     required_min_echo |-> p.required_min_echo]],
        "detect")

\* Commit the staged timers when a Final answers our Poll.
bfd_recv_final(s) ==
    [s EXCEPT !.timers.desired_min_tx = s.new_timers.desired_min_tx,
              !.timers.required_min_rx = s.new_timers.required_min_rx,
              !.polling = FALSE]

\* Mutant: a Poll is answered without the Final bit.
bfd_recv_ctrl_no_final(s, p) ==
    LET s1 == bfd_recv_learn(s, p)
        s2 == IF p.P THEN ptm_bfd_snd(s1, 0) ELSE s1
        s3 == IF p.F /\ s2.polling THEN bfd_recv_final(s2) ELSE s2
        s4 == IF "ECHO_ACTIVE" \in s3.flags THEN s3
              ELSE [s3 EXCEPT !.echo_xmt_TO = IF EchoCapable(s3)
                                              THEN NegotiatedEcho(s3) ELSE 0]
    IN  Transition(s4, p.state)

bfd_recv_ctrl(s, p) ==
    LET s1 == bfd_recv_learn(s, p)
        s2 == IF p.P THEN ptm_bfd_snd(s1, 1) ELSE s1
        s3 == IF p.F /\ s2.polling THEN bfd_recv_final(s2) ELSE s2
        s4 == IF "ECHO_ACTIVE" \in s3.flags THEN s3
              ELSE [s3 EXCEPT !.echo_xmt_TO = IF EchoCapable(s3)
                                              THEN NegotiatedEcho(s3) ELSE 0]
    IN  Transition(s4, p.state)

\* A looped-back echo packet refreshes the echo detection timer.
bfd_recv_echo(s) == Arm(s, "echo_detect")

=============================================================================
