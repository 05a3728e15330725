# TLA+ models of bfdd (the BFD daemon core)

This directory holds TLA+ models of the BFD daemon whose sources are
`src/bfd.c` (session state machine, timers callbacks, registry lookups,
session lifecycle, SLA accounting) and `src/unnamed/part_000`
(`bfd_config.c`: JSON configuration, notifications, peer labels), checked
with TLC.  The behaviour described by `spec.md` (RFC 5880 BFD) is the
reference the properties are stated against.

## 1. Inventory

### Components

| Component | Source | State it keeps | Operations (state changing) |
|---|---|---|---|
| A. Discriminator allocator | `bfd.c:166-170` `ptm_bfd_gen_ID` | static `uint32_t sessionID`, starts at 1 | allocate (post-increment, wraps to 0) |
| B. Session registry | `bfd.c:64-70, 102-109, 315-503, 753-758, 863-881` | three uthash tables: `session_hash` (by `my_discr`), `peer_hash` (single-hop key: peer, port name), `local_peer_hash` (multi-hop key: peer, local, vrf) | add on create, delete on free, `bfd_find_disc`, `bfd_find_shop` (retries with an empty port name), `bfd_find_mhop`, `ptm_bfd_sess_find` (packet demultiplexing) |
| C. Timer engine | event layer (not in `src/`); used by `bfd.c:172-214, 531-606` | per session four one-shot timers: control transmit, detection, echo transmit, echo detection | arm (`*_update`), cancel (`*_delete`), fire (the four `*_cb` callbacks); transmit intervals jittered 75-90/100 % |
| D. Protocol state machine | `bfd.c:196-291, 547-606`; packet reception in `bfd_packet.c` (not in `src/`) | per session: state, diag, remote discriminator, local/remote timers, detect multipliers, poll state and staged `new_timers`, echo intervals, flags | control/echo packet reception, `ptm_bfd_ses_up`, `ptm_bfd_ses_dn`, `ptm_bfd_echo_start/stop`, transmit and detection timeouts |
| E. Session lifecycle | `bfd.c:608-976`, `part_000:74-82, 654-696` | the session objects, labels list `bg_pllist`, `refcount` | create (`ptm_bfd_sess_new`), update (`bfd_session_update`), delete (`ptm_bfd_ses_del` / `bfd_session_free`), label install/rename (`pl_new`, `pl_find`) |
| F. SLA accounting | `bfd.c:978-1009` `ptm_bfd_send_sla_update` | latency/jitter sums, last latency, lost-packet snapshot, loss % | one sample per received packet, a report every `detect_mult` packets |
| G. Configuration parsing | `part_000:84-349, 355-375, 545-555` | none (builds a `bfd_peer_cfg`) | JSON to `bfd_peer_cfg`, defaults, label-to-key translation |
| H. Notifications | `part_000:377-543, 558-648` | none | JSON responses and notifications |
| I. Interface / VRF lookup | `bfd.c:111-164, 293-313` | none (ioctl, hash lookups) | ifindex, MAC, port name, VRF name |

### How they interact

Everything runs on one event loop (spec 5): a handler runs to completion, so
the concurrency is the *interleaving of events*, not of instructions.  Three
asynchronous sources drive a session: its timers (C fires into D), packets
from the peer (demultiplexed by B, then handled by D), and configuration from
the control socket (G calls E's `ptm_bfd_sess_new`/`ptm_bfd_ses_del`, which use
A and B and call D's operations).  D emits packets and notifications (H).
On every received packet with track-sla set, D feeds F.

### What is hard

* **Event interleavings.**  A configuration update can arrive between any two
  packets or timer firings; timers are armed and cancelled by several
  handlers; the peer's packets can be lost, late or arbitrary.
* **Sequential composition inside a handler.**  `_bfd_session_update` starts
  echo (which sends and arms timers), then changes parameters, then sets the
  state and re-arms timers; `ptm_bfd_sess_new` then re-arms transmission.
  The order of these calls decides the result.
* **Poll/Final.**  Staged timers are committed by a Final that may answer an
  older Poll.
* **Registry consistency** across create/update/delete: three hash tables,
  a label list that points back at sessions, explicit discriminators next to
  allocated ones, a reference count.
* **Arithmetic edges** in the allocator (32-bit wrap) and SLA (division by
  `detect_mult - 1`, unsigned differences).

### Properties that make each component correct

* A: allocated discriminators are non-zero and never repeat while a session
  holds them.
* B: every live session is in the discriminator index and in exactly the
  index of its hop kind; keys are unique; a lookup by discriminator returns
  the session only if the packet comes from its peer.
* C/D: AdminDown iff shut down, with all timers cancelled; an active session
  keeps transmitting and keeps a detection timer; a silent peer is detected;
  echo runs only on an Up single-hop session with a negotiated interval; the
  echo detection time uses the local multiplier; configuration changes do not
  tear the session down; remote discriminator is 0 in Down; a Poll's staged
  values are committed only by the Final that answers it.
* E: create-only never modifies; delete respects the reference count;
  labels always name live sessions.
* F: reports equal the reference averages; no division by zero; loss is
  never negative.

## 2. Modules

| Module | Models | Status |
|---|---|---|
| `BfdSessionOps` | D and the session part of E as pure operators on a session record: one operator per C function of `bfd.c` (`ptm_bfd_ses_up`, `ptm_bfd_ses_dn`, `ptm_bfd_echo_start`, `ptm_bfd_echo_stop`, the timer callbacks, `_bfd_session_update` split into its echo, timer and shutdown parts, `NewSession` for the session part of `ptm_bfd_sess_new`) plus, from the spec, packet transmission (`ptm_bfd_snd`) and reception (`bfd_recv_ctrl`, the transition table of spec 4.D) | done |
| `BfdSessionAbstract` | what a session promises (spec 4.D, RFC 5880 6.8): state, local diagnostic and whether the remote discriminator is known, changed only by a packet (the transition table), a detection timeout, the second timeout in Down, or a configuration | done |
| `BfdSession` / `MCBfdSession` | one session against an arbitrary peer: actions for the four timers, control and echo reception, configuration update, and the peer falling silent; shown to implement `BfdSessionAbstract` | done |
| `BfdRegistry` / `MCBfdRegistry` | A, B and the registry half of E: `ptm_bfd_gen_ID`, the three indices, `bfd_find_disc/shop/mhop`, `ptm_bfd_sess_find`, `ptm_bfd_sess_new` (label or key lookup, update or insert), `bfd_session_update` (create-only, label install/rename), `ptm_bfd_ses_del` / `bfd_session_free`, delete by label | done |
| `BfdSla` / `MCBfdSla` | F: `ptm_bfd_send_sla_update` with `uint32_t` arithmetic (at a reduced width), the packet counters it reads, and the track-sla / detect-multiplier part of `_bfd_session_update`; reports compared with the reference mean latency and mean jitter (`MeanLatency`, `MeanJitter`) | done |
| `BfdPair` / `MCBfdPair` | two endpoints, each running the handlers of `BfdSessionOps`, joined by a path that loses, reorders and fails: three-way handshake, Poll/Final round trip (spec property 6), echo loop-back; each end is shown to implement `BfdSession` with INSTANCE ... WITH | done |

### How the session record corresponds to the code

`bs` is the `bfd_session` struct restricted to the fields the state machine
reads or writes: `state` (`ses_state`), `local_diag`, `remote_discr`,
`polling`, `flags` (the `BFD_SESS_FLAG_*` bits as a set), `up_min_tx`,
`timers`, `new_timers`, `remote_timers`, `detect_mult`,
`remote_detect_mult`, `echo_xmt_TO`, `echo_detect_TO`.  `armed` is the set of
timers the event layer has armed (`bfd_*timer_update` adds,
`bfd_*timer_delete` removes, a callback firing removes its own timer).
`out` collects the packets the current event sends.  Timer intervals other
than the echo interval are not kept: the untimed model lets any armed timer
fire at any point, which covers every relative timing.
`BfdPair` below uses a more constrained timing abstraction, needed for
liveness between two ends.

Each action applies the operator of the whole C handler: for example
`Update` is `_bfd_session_update`, i.e. echo start/stop, then parameters,
then shutdown or un-shutdown with its timer changes, in the code's order.

### How the registry state corresponds to the code

`mem` maps a small set of `Handles` (the addresses `malloc` may return) to
the registry fields of a `bfd_session`: `alive`, `my_discr`, `mh`, `peer`,
`port` (`shop.port_name`; the multi-hop key is reduced to its peer
address), `pl` (the number of its `peer_label`, 0 for NULL).  Freeing
clears `alive` but keeps the contents, so a stale pointer reads what was
last written, and a later create may receive the same handle, as `malloc`
may.  The three uthash tables are sequences of handles in insertion order:
`HASH_FIND` returns the most recently added of equal keys (uthash prepends
to a bucket; with at most two sessions no bucket expansion happens).
`bg_pllist` is a sequence of `[label, bs]` records; element `i` is the
`peer_label` with number `i` (labels are never freed).  `sessionID` is the
allocator's counter, reduced to `IDBits` bits.  `open` is the set of
descriptors open in the process and `mem[h].sock` the session's transmit
socket: `ptm_bfd_sess_new` opens one (from the `Socks` not open) before
`bfd_session_new`, and `bfd_session_free` closes it.

`ptm_bfd_sess_new` returns NULL without touching anything when `socket()`
fails (every descriptor open; the create is then a stuttering step).
When `malloc` fails (every handle in use) it also returns NULL, but the
socket it has just opened stays open.  `refcount`
is never raised anywhere in this code, so the refcount test of
`ptm_bfd_ses_del` always passes.

### How the SLA state corresponds to the code

`sla` is `bfd->sla` (`lattency`, `jitter`, `old_lat`, `pkts_lost`,
`pkt_loss`), `stats` the four packet counters, `detect_mult` and
`track_sla` the session fields the function reads.  `uint32_t` arithmetic
is `U32` (modulo `2^Width`); `abs()` receives the difference converted to
`int` (`ToInt`).  The float `pkt_loss` is exact because
`PKTS_TO_CONSIDER_FOR_PKT_LOSS` divides 100 in the model.  An integer
division by zero sets `crashed` (SIGFPE ends the daemon).  The ghost
variables `window` (the samples since the last report), `steady` (no
configuration change since the last report) and `report` (the last report
sent with `control_notify_sla`) exist only for the properties.  The packet
layer, which counts packets and calls the function, is not in `src/`:
following spec 4.E the receive counter is incremented before the sample is
folded in.

### How the pair corresponds to the code

`BfdPair` holds `bs[e]`, the session record above, for the two ends `EndA`
and `EndB`.  `chan[e]` is the FIFO of control packets `e` has sent and the
peer has not received (the control packets of `out`, by `CtrlOut`, are
appended by `Emit` at the end of each event, or lost when the path has
failed).  `echoing[e]` says that an echo packet of `e` is looping back
through the peer; `RecvEcho` consumes it.  Each timer action applies the
same callback operator as `BfdSession`; `Deliver(e)` takes the oldest packet
from the peer and applies `bfd_recv_ctrl` if `ValidCtrl` accepts it and the
session is not AdminDown (otherwise drops it); `Update(e)` applies
`_bfd_session_update`.  The environment actions are `Lose` (any packet in
flight), `Reorder` (the two oldest), `Duplicate` (the oldest is delivered
twice, as UDP may), bounded together by `MaxFaults`, and
`LinkFails` (the path is gone for good and what is in flight is lost).

Time is abstracted by two guards.  A detection timer expires only while
the packets that would re-arm it have stopped (`PeerSilent`: the path has
failed, the peer's transmit timer is not armed, or a packet to this end was
lost since it last received one; `EchoSilent` likewise for echo).  And a
timer fires only while fewer than `Cap` packets are on the path: the path
delivers faster than the shortest timer interval, which also keeps the
channels finite.  Replies sent from the receive path (a Final, the packet
of a state change) are not held back by `Cap`.

`SessionA` and `SessionB` instantiate `BfdSession` with `bs <- bs[e]` and
`peerAlive <- link`, and with the peer packet set restricted to what the
other end's configurations can advertise (`AdvertisedIntervals`: the
defaults and the configured transmit intervals times 1000).
`SessionARefines` is `BfdSession`'s `SafetySpec` (its
`Init /\ [][Next]_vars`) as a temporal property.  The configuration is
symmetric in the two ends but for the discriminator values, so `EndB` is
not checked separately.  What this shows is that an end sees only packets
`BfdSession`'s environment may send; the invariants of `session_safety`
were checked with `MCBfdSession`'s peer values, which overlap the pair's
(defaults, 2 ms) but are not the same set.  Checking them found that
`BfdSession`'s echo reception was too narrow: it required the echo transmit
timer to be armed, but an echo sent before echo was stopped can still come
back, and spec 4.D refreshes the echo detection timer for any matching echo.
`BfdSession.RecvEcho` now allows it.  Also `ptm_bfd_snd` encodes the Final
bit as a boolean (`fbit # 0`), which only the pair (where packets are
received by the same code) exercises.

### Not modelled, and why

* Packet encoding/validation bytes, UDP ports, TTL (validation is the
  predicate `ValidCtrl`; ports and TTL are properties of the socket layer).
* JSON parsing, responses and notifications (G, H): formatting only.  The
  label-to-key translation of `parse_peer_label_config` is part of
  `ConfigDelByLabel`.
* Socket options, addresses and I/O: only a socket's ownership is kept
  (`open`, `mem[h].sock`).
* Interface, MAC and VRF lookups (I): ioctl and OS state.
* Exact timer intervals: the untimed model over-approximates every timing.
  The jitter computation itself (`JitteredIntervals`, `bfd.c:174-187`) is a
  pure operator, checked against the RFC ranges over the session's reachable
  control and echo periods (`JitterWithinRfc`); the control period is
  `XmtTO`, spec invariant 5, since `xmt_TO` is set by the packet layer.
* VXLAN: commented out in the code.

## 3. Runs

| Run | cfg | Expect | What it shows |
|---|---|---|---|
| `session_safety` | `MCBfdSession.cfg` | pass | a session not shut down always transmits, AdminDown iff shut down, Init/Up always has a detection timer, an Up session not polling transmits at its configured interval (`UpTimersCommitted`: every change to Up stages `up_min_tx` and a Final commits it), every jittered transmit interval lies in the RFC 5880 6.8.7 range of its period, both ends reached (`JitterWithinRfc`), (under weak fairness of the timer callbacks) an Init/Up session whose peer fell silent leaves Init/Up, and the session implements `BfdSessionAbstract` (`Refines`: the state moves only by the table, a timeout or a configuration; the diagnostic says why it last went Down; the remote discriminator is learned from every accepted packet and forgotten on every Down it is brought to and on a second timeout) |
| `create_shutdown_transmits` | `MCBfdSession_ShutdownCancelsTimers.cfg` | violation | a session created shut down keeps its transmit timer |
| `echo_before_negotiation` | `MCBfdSession_EchoAsNegotiated.cfg` | violation | configuring echo starts echo transmission in Down, on multi-hop sessions and with a zero interval; and echo detection time is the peer's multiplier, not ours, times the interval (`EchoAsNegotiated`, spec invariants 4 and 6) |
| `pair_refines_and_polls` | `MCBfdPair.cfg` | pass | two ends over a path that loses, reorders, duplicates and fails: packets from an end carry its discriminator and 0 or the peer's; an end is a behaviour of `BfdSession` against the peer values the other end's configuration can advertise (`SessionARefines`); a poll sequence started while Up ends unless the session leaves Up, through a lost, reordered or duplicated Poll or Final (`PollCompletes`) |
| `pair_update_flap` | `MCBfdPair_BringUp.cfg` | violation | one configuration update on one end of a connected pair, with no loss, can leave both sessions flapping Down/Init/Up forever (`BringUp`, scenario S1) |
| `registry_safety` | `MCBfdRegistry.cfg` | pass | the indices hold exactly the live sessions, each in the index of its hop kind; keys are unique; labels are unique and linked both ways |
| `discr_collision` | `MCBfdRegistry_DiscrValid.cfg` | violation | a live session's discriminator is not always non-zero and unique (`DiscrValid`): a configured discriminator can equal an allocated one (scenario S4), and the allocator returns 0 after wrapping |
| `demux_ignores_peer` | `MCBfdRegistry_DemuxChecksPeer.cfg` | violation | demultiplexing by your-discriminator never checks the source address |
| `resources_outlive_session` | `MCBfdRegistry_NothingOutlivesSession.cfg` | violation | what a session owns outlives it (`NothingOutlivesSession`): a deleted session's label keeps pointing at the freed (and possibly reused) session, and a create that fails in `malloc` leaks the socket it opened |
| `sla_steady_reports` | `MCBfdSla.cfg` | pass | without a configuration change since the previous report, a report is the mean latency and jitter of exactly the samples since that report |
| `sla_loss_wraps` | `MCBfdSla_LossWithinBounds.cfg` | violation | more packets received than sent make the unsigned loss wrap to a huge percentage |
| `sla_mult_one` | `MCBfdSla_NoDivByZero.cfg` | violation | detect-multiplier 1 divides the jitter sum by zero; detect-multiplier 0, which the parser accepts (256 truncates to it), divides in the report test |

Eight more configurations check a property that is violated but are kept
outside the run list, which is limited to twelve runs; some isolate one
half of a listed run's property:
`MCBfdSession_UpdateKeepsState.cfg` (any configuration update forces an Up
session to Down, `bfd.c:715`; the pair run shows what that does),
`MCBfdSession_EchoDetectOnlyWithEcho.cfg` (the echo detection timer is
armed on sessions without echo, `bfd.c:720`), `MCBfdPair_EchoDetectFlap.cfg`
(`BringUp` with no update and no fault, two packets allowed on the path:
that timer fires on an Up session created without echo, and its Down
crossing the peer's Up packets flaps the pair forever, `bfd.c:720`; with
the timer fired only when echo is configured, the same model keeps the
pair Up),
`MCBfdSession_EchoDetectUsesLocalMult.cfg` (echo detection time uses the
peer's multiplier, `bfd.c:235`, alone), `MCBfdRegistry_DiscrWraps.cfg`
(`DiscrValid` with no configured discriminators: the allocator returns 0
after wrapping, `bfd.c:169`), `MCBfdRegistry_SocketLeak.cfg`
(`NothingOutlivesSession` with no labels: three creates, the third failing
in `malloc`, leave a descriptor no session owns, `bfd.c:828`),
`MCBfdSla_ZeroSample.cfg` (a 0 ms sample is taken for "no previous
sample", `bfd.c:983`) and `MCBfdSla_ReportIsAverage.cfg` (after a
detect-multiplier change a report divides a sum of fewer samples by the
new multiplier, `bfd.c:987`).  `PROJECT.json` lists them as hazards.

### Bounds (MCBfdSession)

One session with discriminator 1 against a peer with discriminator 7.
Defaults are 1000 us for all intervals and multiplier 3.  A configuration
may change the transmit interval (to 2 ms) and the multiplier (to 1), toggle
echo and shutdown; receive and echo intervals keep their defaults and
track-sla stays off (their assignments are in the model; varying them adds
states but no new control path).  The peer advertises 1000 us, multiplier
1 or 3 (so local and remote multipliers differ and coincide), echo 0 or
1000 us (so echo can and cannot be negotiated), any state, P and F bits, and
your-discriminator 0 or ours.  Every branch of every operator is reachable
under these values: 26,112 distinct states, about 40 s.

### Bounds (MCBfdRegistry)

Two session handles, two peers, two port names (empty and `eth0`), two
labels, configured discriminator absent or 1 (the first allocated value),
a 2-bit counter.  Two handles are enough for every relation the properties
state (two sessions sharing a key, a discriminator or a label) and for the
reuse of a freed handle while another session lives; two labels allow a
rename to a taken and to a free label.  Two descriptors in
`registry_safety` (socket() fails before malloc can), three in the
configurations about the socket leak, where malloc must fail with a
descriptor to spare.  Handles and descriptors are symmetry sets.
146,539 distinct states, about 105 s.

### Bounds (MCBfdSla)

Counters up to 3 each (up to 6 received packets), samples of 1 and 3 ms
(two values give distinct jitter terms), multipliers 2 and 3 and track-sla
both ways, loss window of 4 packets, 8-bit arithmetic.  This covers two
full reports at either multiplier (the crash run adds multipliers 0 and 1), a loss report, configuration changes
inside and between windows, and more packets received than sent.  301,704
distinct states, about 8 s.

### Bounds (MCBfdPair)

Discriminators 1 and 2; both ends created with the defaults (scenario S1).
One update (`MaxUpdates = 1`) may set a 2 ms transmit interval (a timer
change that advertises a new value), turn echo on, or shut the session
down; one packet may be lost, reordered or duplicated (`MaxFaults = 1`); the path may
fail.  `Cap = 1`: a timer waits while any packet is in flight, but the
receive path's replies still pile up, so channels reach five packets and
`Reorder` fires.  Every action fires.  60,813 distinct states, about 110 s
with the temporal properties.  With `Cap = 2` the state space is 776,187
states and the liveness check does not finish in minutes.

`Cap = 1` is a real restriction: it forbids a timer firing while a packet
is on the path, so two packets never cross.  `PollCompletes` and the
refinement are checked only under it.  Whether the pair comes Up and stays
Up is not claimed for it: at `Cap = 2`, with no update, the pair flaps
through the leftover echo detection timer (`MCBfdPair_EchoDetectFlap.cfg`)
and, with one reordered packet, through a stale Down packet reaching an Up
end (spec 4.D's Down+Up→Up keeps the exchange going).

### Fairness

In `BfdSession`, `Fairness` is weak fairness of the four timer callbacks:
the event loop fires an armed timer once its interval elapses.  Packet
reception and configuration are not fair: the peer and the operator may
stay silent.

In `BfdPair`, the transmit, detection and echo-detection timers are
strongly fair: the `Cap` guard makes them intermittently enabled, and the
abstraction may delay a due timer but never cancel it.  Delivery is weakly
fair (`DeliverFair`, weak fairness spelt out with its enabling condition, a
packet from the peer in flight): the path delivers what it does not lose.
Updates, faults and the path failure are not fair.  `BringUp` assumes
that eventually the path stays up and neither end is shut down.
`PollCompletes` needs the timer fairness and `DeliverFair`: every packet
of a polling end carries P, and the peer answers each with F.

`BfdSession`'s refinement of `BfdSessionAbstract` is a safety property
(`Abstract!Spec`, no fairness).  The abstract `Configure` lets any
configuration put the session Down, since `_bfd_session_update` does
(`bfd.c:715`); `pair_update_flap` shows why spec 4.E forbids it.

## 4. Further work

1. Compose `BfdRegistry` with `BfdSession`: packets demultiplexed by
   `ptm_bfd_sess_find` into per-handle sessions.
2. `BfdPair` with `Cap = 2` and two faults, if a larger machine allows
   (`PollCompletes` and `SessionARefines` with packets crossing).
