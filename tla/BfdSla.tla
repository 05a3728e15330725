------------------------------- MODULE BfdSla -------------------------------
(***************************************************************************)
(* SLA accounting of a session with track-sla: ptm_bfd_send_sla_update of *)
(* bfd.c, called for every received control or echo packet, and the       *)
(* packet counters and configuration it reads.  Counter updates and the    *)
(* call itself are in the packet layer (bfd_packet.c), modelled from spec  *)
(* 4.E: the receive counter is incremented before the sample is folded.   *)
(*                                                                         *)
(* uint32_t arithmetic is kept modulo 2^Width; Width is below 32 so that   *)
(* TLC's integers hold it, and the wrap behaves the same at any width.     *)
(* A sample is the elapsed time in ms since the last transmission.        *)
(***************************************************************************)
EXTENDS Integers, Sequences, SequencesExt

CONSTANTS
    Width,                         \* bits of the uint32_t fields
    PKTS_TO_CONSIDER_FOR_PKT_LOSS, \* packets per loss report
    Elapsed,                       \* sample values (ms)
    Mults,                         \* detect multipliers a configuration sets
    TrackSla,                      \* track-sla values a configuration sets
    MaxPkts                        \* bound on each packet counter

ASSUME /\ Width \in 2 .. 30
       /\ PKTS_TO_CONSIDER_FOR_PKT_LOSS \in 1 .. 100
       /\ 100 % PKTS_TO_CONSIDER_FOR_PKT_LOSS = 0
       /\ Mults \subseteq 0 .. 255   \* uint8_t; the parser checks no range

VARIABLES
    sla,          \* bfd->sla
    stats,        \* bfd->stats packet counters
    detect_mult,  \* bfd->detect_mult
    track_sla,    \* BFD_SESS_FLAG_TRACK_SLA
    crashed,      \* the daemon died on an integer division by zero
    window,       \* the samples folded since the last report
    steady,       \* detect_mult and track-sla unchanged since the last report
    report        \* the last report control_notify_sla sent

vars == <<sla, stats, detect_mult, track_sla, crashed, window, steady, report>>

NoReport == [latency |-> -1, jitter |-> -1, loss |-> -1, samples |-> <<>>,
             steady |-> FALSE]

\* Mutant: signed arithmetic.
U32_signed(x) == x

\* uint32_t arithmetic.
U32(x) == x % (2 ^ Width)

\* The int a uint32_t converts to (two's complement), as abs() receives it.
ToInt(x) == IF x >= 2 ^ (Width - 1) THEN x - 2 ^ Width ELSE x
Abs(x) == IF x < 0 THEN -x ELSE x

-----------------------------------------------------------------------------
(* ptm_bfd_send_sla_update *)

\* Mutant: the first sample of a window also adds to the jitter sum.
SlaSample_no_first_skip(s, time_elapsed) ==
    [s EXCEPT !.lattency = U32(@ + time_elapsed),
              !.jitter = U32(@ + Abs(ToInt(U32(s.old_lat - time_elapsed)))),
              !.old_lat = time_elapsed]

\* The sample is folded into the running sums; a zero old_lat means "no
\* previous sample".
SlaSample(s, time_elapsed) ==
    [s EXCEPT !.lattency = U32(@ + time_elapsed),
              !.jitter = IF s.old_lat # 0
                         THEN U32(@ + Abs(ToInt(U32(s.old_lat - time_elapsed))))
                         ELSE @,
              !.old_lat = time_elapsed]

\* Loss over the last PKTS_TO_CONSIDER_FOR_PKT_LOSS packets, in percent
\* (the float of the code; exact here since the constant divides 100).
SlaLoss(s, st) ==
    LET total_pkts_lost == U32((st.tx_ctrl + st.tx_echo) - (st.rx_ctrl + st.rx_echo))
    IN  [s EXCEPT !.pkt_loss = U32(total_pkts_lost - s.pkts_lost)
                                 * (100 \div PKTS_TO_CONSIDER_FOR_PKT_LOSS),
                  !.pkts_lost = total_pkts_lost]

\* Whether this sample completes a report, and whether the report
\* includes a loss figure.
IsReport(st, dm) == (st.rx_ctrl + st.rx_echo) % dm = 0
IsLossReport(st, dm) ==
    (st.rx_ctrl + st.rx_echo) % PKTS_TO_CONSIDER_FOR_PKT_LOSS < dm

\* The whole of ptm_bfd_send_sla_update for one sample: fold, and on a
\* report compute loss, divide the sums, notify and reset.  The report test
\* total_pkts % detect_mult with detect_mult = 0, and the division by
\* detect_mult - 1 = 0, raise SIGFPE.
ptm_bfd_send_sla_update(e) ==
    IF detect_mult = 0
    THEN /\ crashed' = TRUE
         /\ UNCHANGED <<sla, window, steady, report>>
    ELSE
    LET s1 == SlaSample(sla, e)
        s2 == IF IsLossReport(stats', detect_mult) THEN SlaLoss(s1, stats') ELSE s1
        lat == s2.lattency \div detect_mult
        jit == s2.jitter \div (detect_mult - 1)
    IN  IF ~IsReport(stats', detect_mult)
        THEN /\ sla' = s1
             /\ window' = Append(window, e)
             /\ UNCHANGED <<crashed, steady, report>>
        ELSE IF detect_mult = 1
        THEN /\ crashed' = TRUE
             /\ UNCHANGED <<sla, window, steady, report>>
        ELSE /\ sla' = [s2 EXCEPT !.lattency = 0, !.jitter = 0, !.old_lat = 0]
             /\ report' = [latency |-> lat, jitter |-> jit,
                           loss |-> s2.pkt_loss, samples |-> Append(window, e),
                           steady |-> steady]
             /\ window' = <<>>
             /\ steady' = TRUE
             /\ UNCHANGED crashed

-----------------------------------------------------------------------------
(* Specification *)

Init ==
    /\ sla = [lattency |-> 0, jitter |-> 0, old_lat |-> 0,
              pkts_lost |-> 0, pkt_loss |-> 0]
    /\ stats = [tx_ctrl |-> 0, rx_ctrl |-> 0, tx_echo |-> 0, rx_echo |-> 0]
    /\ detect_mult \in Mults
    /\ track_sla \in TrackSla
    /\ crashed = FALSE
    /\ window = <<>> /\ steady = TRUE /\ report = NoReport

\* ptm_bfd_snd / ptm_bfd_echo_snd count the packet they send.
Send(c) ==
    /\ ~crashed
    /\ stats[c] < MaxPkts
    /\ stats' = [stats EXCEPT ![c] = @ + 1]
    /\ UNCHANGED <<sla, detect_mult, track_sla, crashed, window, steady, report>>

\* A control or echo packet is received and counted; with track-sla it is
\* folded into the SLA figures.
Receive(c, e) ==
    /\ ~crashed
    /\ stats[c] < MaxPkts
    /\ stats' = [stats EXCEPT ![c] = @ + 1]
    /\ IF track_sla
       THEN ptm_bfd_send_sla_update(e)
       ELSE UNCHANGED <<sla, crashed, window, steady, report>>
    /\ UNCHANGED <<detect_mult, track_sla>>

\* The part of _bfd_session_update that SLA accounting reads: the
\* TRACK_SLA flag and detect_mult.  The running sums are left as they are.
bfd_update_sla_config(m, t) ==
    /\ ~crashed
    /\ detect_mult' = m
    /\ track_sla' = t
    /\ steady' = (steady /\ m = detect_mult /\ t = track_sla)
    /\ UNCHANGED <<sla, stats, crashed, window, report>>

Next ==
    \/ \E c \in {"tx_ctrl", "tx_echo"} : Send(c)
    \/ \E c \in {"rx_ctrl", "rx_echo"}, e \in Elapsed : Receive(c, e)
    \/ \E m \in Mults, t \in TrackSla : bfd_update_sla_config(m, t)

Spec == Init /\ [][Next]_vars

-----------------------------------------------------------------------------
(* Reference definitions *)

SumOf(seq) == FoldSeq(LAMBDA x, acc : x + acc, 0, seq)

\* Absolute differences of consecutive samples.
Steps(seq) == [i \in 1 .. Len(seq) - 1 |-> Abs(seq[i + 1] - seq[i])]

\* Scenario S6: a report gives the mean latency of the samples since the
\* previous report and their mean jitter.
MeanLatency(seq) == SumOf(seq) \div Len(seq)
MeanJitter(seq) == IF Len(seq) < 2 THEN 0 ELSE SumOf(Steps(seq)) \div (Len(seq) - 1)

-----------------------------------------------------------------------------
(* Properties *)

TypeOK ==
    /\ sla \in [lattency: 0 .. 2 ^ Width - 1, jitter: 0 .. 2 ^ Width - 1,
                old_lat: {0} \cup Elapsed, pkts_lost: 0 .. 2 ^ Width - 1,
                pkt_loss: Nat]
    /\ stats \in [{"tx_ctrl", "rx_ctrl", "tx_echo", "rx_echo"} -> 0 .. MaxPkts]
    /\ detect_mult \in Mults /\ track_sla \in TrackSla /\ crashed \in BOOLEAN
    /\ window \in Seq(Elapsed)

\* Scenario S6: when detect-multiplier and track-sla have stayed unchanged
\* since the previous report, a report's latency and jitter are the mean
\* latency and mean jitter of exactly the samples folded since that report.
\* Relies on the rx-counter trigger, the division and the reset after each
\* report in ptm_bfd_send_sla_update agreeing with each other.
SteadyReportIsAverage ==
    report.steady =>
        /\ report.latency = MeanLatency(report.samples)
        /\ report.jitter = MeanJitter(report.samples)

\* The same, whatever configuration changes happened in between (spec
\* 4.E lets detect-multiplier and track-sla change without a teardown).
ReportIsAverage ==
    report # NoReport =>
        /\ report.latency = MeanLatency(report.samples)
        /\ report.jitter = MeanJitter(report.samples)

\* Spec 4.E: a loss figure is a percentage of the packets considered:
\* never above 100.  ptm_bfd_send_sla_update subtracts received from sent
\* packets and the previous snapshot in uint32_t.
LossWithinBounds == sla.pkt_loss <= 100

\* Spec: detect multipliers range over 1..255, and a report divides the
\* jitter sum by detect_mult - 1 in integer arithmetic.
NoDivByZero == ~crashed

====
