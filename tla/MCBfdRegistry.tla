--------------------------- MODULE MCBfdRegistry ---------------------------
(* Model values and small sets for checking BfdRegistry with TLC. *)
EXTENDS BfdRegistry, TLC

CONSTANTS h1, h2, p1, p2, eth0, l1, l2, sd1, sd2, sd3

MCHandles == {h1, h2}
MCPeers == {p1, p2}
MCPorts == {NoIf, eth0}
MCLabels == {l1, l2}
MCNoLabels == {}
\* One descriptor more than handles, so that malloc can fail after socket().
MCSocks == {sd1, sd2, sd3}
\* As many descriptors as handles: socket() fails before malloc can.
MCSocksPerHandle == {sd1, sd2}
\* A configured discriminator equal to the first allocated one.
MCExplicitDiscrs == {1}
MCNoExplicitDiscrs == {}

\* Handles are addresses malloc picks arbitrarily, descriptors numbers
\* socket() picks: each set is interchangeable.
HandleSymmetry == Permutations(MCHandles) \cup Permutations(MCSocksPerHandle)
SpareSockSymmetry == Permutations(MCHandles) \cup Permutations(MCSocks)

====
