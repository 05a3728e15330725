---------------------------- MODULE BfdRegistry ----------------------------
(***************************************************************************)
(* The session registry of bfd.c and the configuration operations that     *)
(* change it: the discriminator allocator ptm_bfd_gen_ID, the three uthash *)
(* indices session_hash, peer_hash and local_peer_hash, the peer label     *)
(* list bg_pllist of bfd_config.c, ptm_bfd_sess_new, bfd_session_update,   *)
(* ptm_bfd_ses_del / bfd_session_free, and packet demultiplexing           *)
(* (ptm_bfd_sess_find).  The protocol part of a session is in BfdSession;  *)
(* here a session is the fields the registry keys on.                      *)
(*                                                                         *)
(* Session memory is the function mem from a small set of Handles (the     *)
(* addresses malloc may return) to the struct; free clears alive but the   *)
(* contents stay, so a stale pointer reads what was there, and malloc may  *)
(* hand the same handle to a later session.  The open set holds the       *)
(* transmit sockets ptm_bfd_sess_new opens (one per session).             *)
(***************************************************************************)
EXTENDS Integers, Sequences, SequencesExt

CONSTANTS
    Handles,        \* addresses of bfd_session structs
    NoSession,      \* the NULL session pointer
    Peers,          \* peer addresses (the key's address part)
    Ports,          \* local interface names, NoIf among them
    NoIf,           \* the empty port name ""
    Labels,         \* peer labels
    NoLabel,        \* configuration without "label"
    ExplicitDiscrs, \* values of the "discriminator" configuration key
    NoDiscr,        \* configuration without "discriminator"
    IDBits,         \* width of the sessionID counter (32 in the code)
    Socks           \* descriptors socket() may return

ASSUME NoIf \in Ports /\ IDBits \in Nat \ {0}

VARIABLES
    mem,             \* Handles -> bfd_session (alive = allocated)
    session_hash,    \* by my_discr, in insertion order
    peer_hash,       \* by single-hop key (peer, port_name)
    local_peer_hash, \* by multi-hop key (peer, local, vrf)
    bg_pllist,       \* peer_label list; element i is pl number i
    sessionID,       \* static counter of ptm_bfd_gen_ID
    open             \* descriptors open in the process

vars == <<mem, session_hash, peer_hash, local_peer_hash, bg_pllist, sessionID, open>>

\* Memory malloc has never returned: no pointer to it exists.
Unused == [alive |-> FALSE, my_discr |-> 0, mh |-> FALSE,
           peer |-> CHOOSE p \in Peers : TRUE, port |-> NoIf, pl |-> 0,
           sock |-> -1]

\* The configuration fields the registry reads (parse_peer_config).
Bpcs ==
    [mhop: BOOLEAN, peer: Peers, localif: Ports,
     discr: ExplicitDiscrs \cup {NoDiscr}, label: Labels \cup {NoLabel},
     createonly: BOOLEAN]

\* Delete requests carry only the key.
DelKeys == [mhop: BOOLEAN, peer: Peers, localif: Ports]

Live == {h \in Handles : mem[h].alive}

-----------------------------------------------------------------------------
(* Allocator and lookups *)

\* ptm_bfd_gen_ID: return sessionID++ on a uint32_t.
\* Mutant: the counter is not reduced to its width.
NextID_unbounded == sessionID + 1

ptm_bfd_gen_ID == sessionID
NextID == (sessionID + 1) % (2 ^ IDBits)

\* HASH_FIND: uthash prepends to a bucket, so among equal keys the most
\* recently added session is found (the tables stay below the expansion
\* threshold at these sizes).
HashFind(idx, matching) ==
    LET i == SelectLastInSeq(idx, LAMBDA h : h \in matching)
    IN  IF i = 0 THEN NoSession ELSE idx[i]

\* bfd_find_disc: the address test compares my_discr with the key the
\* lookup just matched, as the code does.
bfd_find_disc(peer, ldisc) ==
    LET bs == HashFind(session_hash, {h \in Handles : mem[h].my_discr = ldisc})
    IN  IF bs # NoSession /\ mem[bs].my_discr # ldisc /\ mem[bs].peer = peer
        THEN NoSession ELSE bs

ShopMatch(peer, port, h) == mem[h].peer = peer /\ mem[h].port = port

\* Mutant: only the key with an empty port name is tried.
bfd_find_shop_fallback_only(peer, port) ==
    HashFind(peer_hash, {h \in Handles : ShopMatch(peer, NoIf, h)})

\* bfd_find_shop: exact key, then the key with an empty port name.
bfd_find_shop(peer, port) ==
    LET bs == HashFind(peer_hash, {h \in Handles : ShopMatch(peer, port, h)})
    IN  IF bs # NoSession THEN bs ELSE HashFind(peer_hash, {h \in Handles : ShopMatch(peer, NoIf, h)})

bfd_find_mhop(peer) == HashFind(local_peer_hash, {h \in Handles : mem[h].peer = peer})

\* The key lookup shared by ptm_bfd_sess_new and ptm_bfd_ses_del.
FindByKey(k) ==
    IF k.mhop THEN bfd_find_mhop(k.peer) ELSE bfd_find_shop(k.peer, k.localif)

\* ptm_bfd_sess_find for a received control packet.
ptm_bfd_sess_find(your_discr, state, peer, port, is_mhop) ==
    IF your_discr # 0 THEN bfd_find_disc(peer, your_discr)
    ELSE IF state \in {"Down", "AdminDown"}
         THEN IF is_mhop THEN bfd_find_mhop(peer) ELSE bfd_find_shop(peer, port)
         ELSE NoSession

\* pl_find: the first list element with that label (0 = NULL).
pl_find(pls, label) == SelectLastInSeq(pls, LAMBDA pl : pl.label = label)

-----------------------------------------------------------------------------
(* Operations on <<mem, bg_pllist>> *)

\* Mutant: a rename does not check whether the new label is taken.
bfd_update_label_no_taken_check(m, pls, h, label) ==
    IF label = NoLabel THEN <<m, pls>>
    ELSE IF m[h].pl = 0
         THEN IF pl_find(pls, label) # 0 THEN <<m, pls>>
              ELSE <<[m EXCEPT ![h].pl = Len(pls) + 1],
                     Append(pls, [label |-> label, bs |-> h])>>
    ELSE <<m, [pls EXCEPT ![m[h].pl].label = label]>>

\* The label part of _bfd_session_update on session h.
bfd_update_label(m, pls, h, label) ==
    IF label = NoLabel THEN <<m, pls>>
    ELSE IF m[h].pl = 0
         THEN IF pl_find(pls, label) # 0 THEN <<m, pls>>
              ELSE \* pl_new: insert at the list head, link both ways
                   <<[m EXCEPT ![h].pl = Len(pls) + 1],
                     Append(pls, [label |-> label, bs |-> h])>>
    ELSE IF pls[m[h].pl].label = label \/ pl_find(pls, label) # 0
         THEN <<m, pls>>
         ELSE <<m, [pls EXCEPT ![m[h].pl].label = label]>>

\* Mutant: the session is always removed from peer_hash.
bfd_session_free_ph_only(bs) ==
    /\ mem' = [mem EXCEPT ![bs].alive = FALSE]
    /\ session_hash' = Remove(session_hash, bs)
    /\ peer_hash' = Remove(peer_hash, bs)
    /\ open' = open \ {mem[bs].sock}
    /\ UNCHANGED <<local_peer_hash, bg_pllist, sessionID>>

\* bfd_session_free: the socket is closed, the four timers are cancelled
\* (BfdSession) and the session leaves session_hash and the index of its
\* hop kind; the label that points at it is left alone.
bfd_session_free(bs) ==
    /\ mem' = [mem EXCEPT ![bs].alive = FALSE]
    /\ open' = open \ {mem[bs].sock}
    /\ session_hash' = Remove(session_hash, bs)
    /\ IF mem[bs].mh
       THEN /\ local_peer_hash' = Remove(local_peer_hash, bs)
            /\ UNCHANGED peer_hash
       ELSE /\ peer_hash' = Remove(peer_hash, bs)
            /\ UNCHANGED local_peer_hash
    /\ UNCHANGED <<bg_pllist, sessionID>>

\* bfd_session_update on session bs (which may be a stale pointer): a
\* create-only configuration fails, otherwise _bfd_session_update runs;
\* of it only the label part touches registry state.
bfd_session_update(bs, bpc) ==
    /\ ~bpc.createonly
    /\ LET r == bfd_update_label(mem, bg_pllist, bs, bpc.label)
       IN  mem' = r[1] /\ bg_pllist' = r[2]
    /\ UNCHANGED <<session_hash, peer_hash, local_peer_hash, sessionID, open>>

\* The new-session half of ptm_bfd_sess_new, in the struct malloc returned
\* at h for socket sd: discriminator, HASH_ADD to session_hash and to the
\* hop index, then _bfd_session_update (its label part).
bfd_session_insert(h, bpc, sd) ==
    LET s == [alive |-> TRUE, mh |-> bpc.mhop, peer |-> bpc.peer, sock |-> sd,
              my_discr |-> IF bpc.discr # NoDiscr THEN bpc.discr
                           ELSE ptm_bfd_gen_ID,
              port |-> IF bpc.mhop THEN NoIf ELSE bpc.localif, pl |-> 0]
        r == bfd_update_label([mem EXCEPT ![h] = s], bg_pllist, h, bpc.label)
    IN  /\ mem' = r[1]
        /\ bg_pllist' = r[2]
        /\ sessionID' = IF bpc.discr # NoDiscr THEN sessionID ELSE NextID
        /\ session_hash' = Append(session_hash, h)
        /\ IF bpc.mhop
           THEN /\ local_peer_hash' = Append(local_peer_hash, h)
                /\ UNCHANGED peer_hash
           ELSE /\ peer_hash' = Append(peer_hash, h)
                /\ UNCHANGED local_peer_hash

\* ptm_bfd_sess_new: a known label selects its session, otherwise the key
\* is looked up; a found session is updated, else a socket is opened and a
\* new session made.  With every descriptor open socket() fails and the
\* call returns NULL unchanged; with every handle in use malloc fails and
\* the call returns NULL with the socket still open.
ptm_bfd_sess_new(bpc) ==
    LET pl == IF bpc.label # NoLabel THEN pl_find(bg_pllist, bpc.label) ELSE 0
        l_bfd == IF pl # 0 THEN bg_pllist[pl].bs ELSE FindByKey(bpc)
    IN  IF l_bfd # NoSession
        THEN bfd_session_update(l_bfd, bpc)
        ELSE \E sd \in Socks \ open :
                /\ open' = open \cup {sd}
                /\ IF Live = Handles
                   THEN UNCHANGED <<mem, session_hash, peer_hash,
                                    local_peer_hash, bg_pllist, sessionID>>
                   ELSE \E h \in Handles \ Live : bfd_session_insert(h, bpc, sd)

\* ptm_bfd_ses_del: look the key up; refcount is never raised in this code
\* base, so the refcount test always passes.
ptm_bfd_ses_del(k) ==
    LET bs == FindByKey(k)
    IN  bs # NoSession /\ bfd_session_free(bs)

-----------------------------------------------------------------------------
(* Specification *)

Init ==
    /\ mem = [h \in Handles |-> Unused]
    /\ session_hash = <<>> /\ peer_hash = <<>> /\ local_peer_hash = <<>>
    /\ bg_pllist = <<>>
    /\ sessionID = 1
    /\ open = {}

\* config_add for one peer of an "ipv4", "ipv6" or "label" list.
ConfigAdd == \E bpc \in Bpcs : ptm_bfd_sess_new(bpc)

\* config_del for one peer given by address.
ConfigDel == \E k \in DelKeys : ptm_bfd_ses_del(k)

\* config_del for a peer of the "label" list: parse_peer_label_config
\* copies the key out of pl->pl_bs, which may be freed memory.
ConfigDelByLabel ==
    \E l \in Labels :
        LET pl == pl_find(bg_pllist, l)
            bs == bg_pllist[pl].bs
        IN  /\ pl # 0
            /\ ptm_bfd_ses_del([mhop |-> mem[bs].mh, peer |-> mem[bs].peer,
                                localif |-> mem[bs].port])

Next == ConfigAdd \/ ConfigDel \/ ConfigDelByLabel

Spec == Init /\ [][Next]_vars

-----------------------------------------------------------------------------
(* Properties *)

TypeOK ==
    /\ mem \in [Handles -> [alive: BOOLEAN, my_discr: 0 .. 2 ^ IDBits - 1 \cup ExplicitDiscrs,
                            mh: BOOLEAN, peer: Peers, port: Ports, pl: Nat,
                            sock: Socks \cup {-1}]]
    /\ \A idx \in {session_hash, peer_hash, local_peer_hash} : idx \in Seq(Handles)
    /\ bg_pllist \in Seq([label: Labels, bs: Handles])
    /\ sessionID \in 0 .. 2 ^ IDBits - 1
    /\ open \subseteq Socks

\* Spec invariants 1 and 2 (testable property 1): a session is in
\* session_hash exactly while it is allocated, and in exactly one of
\* peer_hash / local_peer_hash, the one of its MH flag; freed memory is in
\* no index.  Create, update and delete by address or by label all keep it.
IndexConsistent ==
    \A h \in Handles :
        /\ h \in ToSet(session_hash) <=> mem[h].alive
        /\ h \in ToSet(peer_hash) <=> (mem[h].alive /\ ~mem[h].mh)
        /\ h \in ToSet(local_peer_hash) <=> (mem[h].alive /\ mem[h].mh)

\* Spec 4.B: "insertion fails if a key collision would result".  No two
\* live sessions share a single-hop or a multi-hop key: ptm_bfd_sess_new
\* turns a configuration for a known key into an update.
KeysUnique ==
    \A h1, h2 \in Live :
        (h1 # h2 /\ mem[h1].mh = mem[h2].mh /\ mem[h1].peer = mem[h2].peer)
            => ~mem[h1].mh /\ mem[h1].port # mem[h2].port

\* Labels are unique (spec 3) and a live session's label points back at
\* it, through installs and renames by _bfd_session_update and through
\* the reuse of freed session memory.
LabelsConsistent ==
    /\ \A i, j \in DOMAIN bg_pllist :
          i # j => bg_pllist[i].label # bg_pllist[j].label
    /\ \A h \in Live : mem[h].pl # 0 => bg_pllist[mem[h].pl].bs = h

\* Spec 4.A, scenario S4 and RFC 5880 6.8.1: every live session has a
\* valid discriminator, non-zero and unique among live sessions, across
\* creations, deletions and the allocator's wrap.  ptm_bfd_sess_new takes a
\* configured discriminator without a collision check (HASH_ADD accepts
\* the duplicate key), and ptm_bfd_gen_ID post-increments a uint32_t that
\* wraps to 0 where the spec wraps "to 1 after 2^32-1".
DiscrValid ==
    \A h1, h2 \in Live :
        /\ mem[h1].my_discr # 0
        /\ h1 # h2 => mem[h1].my_discr # mem[h2].my_discr

\* Spec 4.B: a packet demultiplexed by your-discriminator resolves to a
\* session only if it comes from that session's peer.  bfd_find_disc's
\* address test can never be true.
DemuxChecksPeer ==
    \A h \in Live, peer \in Peers :
        LET bs == ptm_bfd_sess_find(mem[h].my_discr, "Up", peer, NoIf, FALSE)
        IN  bs # NoSession => mem[bs].peer = peer

\* What a session owns does not outlive it (spec 3 and 4.E): every label
\* names a live session that carries it, and every open descriptor is the
\* socket of a live session.  bfd_session_free never releases the
\* session's peer_label, so pl_bs is left pointing at freed memory, which
\* ptm_bfd_sess_new and config_del by label later dereference; and when
\* malloc fails, ptm_bfd_sess_new returns without closing the socket it
\* has just opened.
NothingOutlivesSession ==
    /\ \A i \in DOMAIN bg_pllist :
          mem[bg_pllist[i].bs].alive /\ mem[bg_pllist[i].bs].pl = i
    /\ \A sd \in open : \E h \in Live : mem[h].sock = sd

====
