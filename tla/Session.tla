------------------------------- MODULE Session -------------------------------
(***************************************************************************)
(* Two ends of one session (session.rs): Session, its ratchets and its     *)
(* skipped keys, and the SessionManager's save and load, over a medium     *)
(* that loses, reorders, repeats and damages messages.                     *)
(*                                                                         *)
(* Keys are terms: a root key is the sequence of the secrets mixed into it,*)
(* a chain key its seed and the number of times it was advanced, a message *)
(* key the chain key and the number it was derived with.  The salt of the  *)
(* first root key, which every other key goes back to, stands beside the   *)
(* terms, once in the session and once in the message: the program's 32    *)
(* bytes are equal when the terms and the salts are.  The private key with *)
(* number g of end e is <<e, g>> and stands for its public key too.  A     *)
(* message carries the key it was encrypted with, for the comparison of    *)
(* the tag: the tag matches if and only if the receiver derives that key   *)
(* from that salt and the message is intact.                               *)
(***************************************************************************)
EXTENDS Integers, Sequences, FiniteSets

CONSTANTS
    Ends,               \* the two ends
    Initiator,          \* the end whose is_initiator is set
    RatchetAfter,       \* MAX_MESSAGES_BEFORE_RATCHET
    MaxSkippedKeys,     \* MAX_SKIPPED_KEYS
    NoSession,          \* the manager has no session for the peer
    MaxSends,           \* bound: messages of each end
    MaxFaults           \* bound: repeated and damaged messages, reloads and
                        \* new sessions in a behaviour

ASSUME SessionAssumption ==
    /\ \E other \in Ends : other # Initiator /\ Ends = {Initiator, other}
    /\ RatchetAfter \in Nat /\ MaxSkippedKeys \in Nat
    /\ 0 < RatchetAfter /\ RatchetAfter <= MaxSkippedKeys
    /\ MaxFaults \in Nat

VARIABLES
    session,    \* per end: SessionManager.sessions at the peer's key
    stored,     \* per end: the session in NVS
    sent,       \* history: every message encrypted so far
    arrived,    \* history: those of them that have been delivered
    matched,    \* history: those of them whose key the receiver derived, from
                \* whatever salt
    opened,     \* history: those of them that were decrypted
    past        \* history: keys - private keys drawn by each end;
                \* faults - of the bound; rewound - an end lost the memory of
                \* what it had done; disturbed - the medium or the ends did
                \* one of the things the protocol does not survive;
                \* rematched - the key of a message was derived a second
                \* time; astray - that of a message the other end sent was
                \* not derived; refused - such a message was not decrypted

sessionVars == <<session, stored, sent, arrived, matched, opened, past>>

Peer(e) == CHOOSE o \in Ends : o # e
-----------------------------------------------------------------------------
Dh(k, l)    == {k, l}
Salt(e)     == IF e = Initiator THEN "initiator-salt-v1" ELSE "responder-salt-v1"
Chain(root, secret, label) ==
    [seed |-> Append(root, secret), label |-> label, index |-> 0]
Advanced(chain)      == [chain EXCEPT !.index = @ + 1]
MessageKey(chain, n) == [chain |-> chain, num |-> n]

\* Session::new: the role of an end decides the salt of its root key and the
\* name of its sending chain.
NewSession(e) ==
    LET secret == Dh(<<e, 0>>, <<Peer(e), 0>>)
        sends  == IF e = Initiator THEN "send" ELSE "recv"
        hears  == IF e = Initiator THEN "recv" ELSE "send"
    IN  [salt                |-> Salt(e),
         root_key            |-> <<>>,
         send_chain_key      |-> Chain(<<>>, secret, sends),
         recv_chain_key      |-> Chain(<<>>, secret, hears),
         send_ratchet        |-> <<e, 0>>,
         recv_ratchet_public |-> <<Peer(e), 0>>,
         send_count          |-> 0,
         recv_count          |-> 0,
         prev_recv_chain     |-> 0,
         skipped_keys        |-> {}]

\* serialize and deserialize: everything but the skipped keys.
Reloaded(s) == [s EXCEPT !.skipped_keys = {}]

SessionInit ==
    /\ session = [e \in Ends |-> NewSession(e)]
    /\ stored = [e \in Ends |-> NoSession]
    /\ sent = {}
    /\ arrived = {}
    /\ matched = {}
    /\ opened = {}
    /\ past = [keys |-> [e \in Ends |-> 0], faults |-> 0, rewound |-> FALSE,
               disturbed |-> FALSE, rematched |-> FALSE, astray |-> FALSE,
               refused |-> FALSE]

SessionTypeOK ==
    /\ \A e \in Ends : session[e] # NoSession =>
          /\ session[e].send_count \in 0 .. RatchetAfter - 1
          /\ session[e].recv_count \in 0 .. RatchetAfter
          /\ session[e].prev_recv_chain \in 0 .. RatchetAfter
          /\ session[e].send_ratchet \in {e} \X Nat
          /\ session[e].recv_ratchet_public \in {Peer(e)} \X Nat
          /\ \A k \in session[e].skipped_keys : k.num \in 0 .. RatchetAfter - 1
    /\ opened \subseteq matched /\ matched \subseteq arrived /\ arrived \subseteq sent
    /\ past.faults \in 0 .. MaxFaults
-----------------------------------------------------------------------------
\* The key of the message and the header, as encrypt makes them before it counts.
Sealed(e) ==
    LET s == session[e]
    IN  [from |-> e, dh |-> s.send_ratchet, prev |-> s.prev_recv_chain,
         num |-> s.send_count, salt |-> s.salt,
         key |-> MessageKey(s.send_chain_key, s.send_count),
         text |-> Cardinality({m \in sent : m.from = e})]

Counted(s) == [s EXCEPT !.send_count = @ + 1,
                        !.send_chain_key = Advanced(@)]

ShouldRatchet(s) == s.send_count >= RatchetAfter

\* The bug of a new key pair on the old sending chain.
AdvanceSendRatchetKeepsChain(s, fresh) ==
    [s EXCEPT !.send_ratchet = fresh, !.prev_recv_chain = s.recv_count,
              !.send_chain_key.index = 0, !.send_count = 0]

\* advance_send_ratchet with a fresh private key.
AdvanceSendRatchet(s, fresh) ==
    LET secret == Dh(fresh, s.recv_ratchet_public)
    IN  [s EXCEPT !.root_key = Append(@, secret),
                  !.send_chain_key = Chain(s.root_key, secret, "chain"),
                  !.send_ratchet = fresh,
                  !.prev_recv_chain = s.recv_count,
                  !.send_count = 0]

\* The newest key pair of its peer that has reached an end.
Heard(e) == LET gens == {m.dh[2] : m \in {n \in arrived : n.from # e}}
            IN  CHOOSE g \in gens \cup {0} : \A h \in gens : h <= g

\* encrypt: at the end it may ratchet.
Encrypt(e) ==
    LET s     == Counted(session[e])
        fresh == past.keys[e] + 1
    IN  /\ session[e] # NoSession
        /\ Cardinality({m \in sent : m.from = e}) < MaxSends[e]
        /\ sent' = sent \cup {Sealed(e)}
        /\ IF ShouldRatchet(s)
           THEN /\ session' = [session EXCEPT ![e] = AdvanceSendRatchet(s, <<e, fresh>>)]
                /\ past' = [past EXCEPT !.keys[e] = fresh,
                                        !.disturbed = @ \/ past.keys[Peer(e)] > Heard(e)]
           ELSE /\ session' = [session EXCEPT ![e] = s]
                /\ UNCHANGED past
        /\ UNCHANGED <<stored, arrived, matched, opened>>
-----------------------------------------------------------------------------
\* skip_message_keys past its check: the keys up to `until` are put by.
SkipMessageKeys(s, until) ==
    LET gap == {n \in 0 .. until - 1 : n >= s.recv_count}
        put == {[dh |-> s.recv_ratchet_public, num |-> n,
                 key |-> MessageKey([s.recv_chain_key EXCEPT
                                        !.index = @ + n - s.recv_count], n)] : n \in gap}
    IN  [s EXCEPT !.recv_chain_key.index = @ + Cardinality(gap),
                  !.recv_count = @ + Cardinality(gap),
                  !.skipped_keys = put \cup {k \in @ : \A p \in put :
                                       <<k.dh, k.num>> # <<p.dh, p.num>>}]

TooMany(s, until) == until - s.recv_count > MaxSkippedKeys

AdvanceRecvRatchet(s, theirs) ==
    LET secret == Dh(s.send_ratchet, theirs)
    IN  [s EXCEPT !.root_key = Append(@, secret),
                  !.recv_chain_key = Chain(s.root_key, secret, "chain"),
                  !.recv_ratchet_public = theirs,
                  !.recv_count = 0]

SkippedFor(s, m) == {k \in s.skipped_keys : k.dh = m.dh /\ k.num = m.num}

(***************************************************************************)
(* get_message_key: a key that was put by is taken out; any other number,  *)
(* an old one too, is derived from the chain as it stands.                 *)
(***************************************************************************)
Opening(s, key) == [state |-> s, key |-> key]

\* The bug of a key that stays after it was used.
GetMessageKeyKeeps(s, m) ==
    IF SkippedFor(s, m) # {}
    THEN Opening(s, (CHOOSE k \in SkippedFor(s, m) : TRUE).key)
    ELSE LET t == SkipMessageKeys(s, m.num)
         IN  Opening([t EXCEPT !.recv_chain_key = Advanced(@),
                               !.recv_count = m.num + 1],
                     MessageKey(t.recv_chain_key, m.num))

GetMessageKey(s, m) ==
    IF SkippedFor(s, m) # {}
    THEN Opening([s EXCEPT !.skipped_keys = @ \ SkippedFor(s, m)],
                 (CHOOSE k \in SkippedFor(s, m) : TRUE).key)
    ELSE IF TooMany(s, m.num) THEN Opening(s, <<>>)
    ELSE LET t == SkipMessageKeys(s, m.num)
         IN  Opening([t EXCEPT !.recv_chain_key = Advanced(@),
                               !.recv_count = m.num + 1],
                     MessageKey(t.recv_chain_key, m.num))

\* decrypt up to the comparison of the tag: any key but the newest of the peer
\* is taken for a new one, and all of this stays when the tag does not match.
Opened(s, m) ==
    IF m.dh = s.recv_ratchet_public THEN GetMessageKey(s, m)
    ELSE IF TooMany(s, m.prev) THEN Opening(s, <<>>)
    ELSE GetMessageKey(AdvanceRecvRatchet(SkipMessageKeys(s, m.prev), m.dh), m)

(***************************************************************************)
(* What the protocol does not survive: a message that comes again, damaged,*)
(* after a newer key pair of its sender, or two key pairs after the newest *)
(* that was heard.  Two ratchets that cross are noted by Encrypt.          *)
(***************************************************************************)
Disturbs(m, e, intact) ==
    m \in arrived \/ ~ intact \/ m.dh[2] < Heard(e) \/ m.dh[2] > Heard(e) + 1

Deliver(m, intact) ==
    LET e     == Peer(m.from)
        r     == Opened(session[e], m)
        match == intact /\ r.key = m.key
        ok    == match /\ session[e].salt = m.salt
        cost  == IF m \in arrived \/ ~ intact THEN 1 ELSE 0
        owed  == intact /\ ~ past.disturbed /\ ~ Disturbs(m, e, intact)
    IN  /\ session[e] # NoSession
        /\ past.faults + cost <= MaxFaults
        /\ session' = [session EXCEPT ![e] = r.state]
        /\ arrived' = arrived \cup {m}
        /\ matched' = IF match THEN matched \cup {m} ELSE matched
        /\ opened' = IF ok THEN opened \cup {m} ELSE opened
        /\ past' = [past EXCEPT !.faults = @ + cost,
                                !.disturbed = @ \/ Disturbs(m, e, intact),
                                !.rematched = @ \/ (match /\ m \in matched),
                                !.astray = @ \/ (~ match /\ owed),
                                !.refused = @ \/ (~ ok /\ owed)]
        /\ UNCHANGED <<stored, sent>>
-----------------------------------------------------------------------------
\* save_to_nvs, for the one session of the end.
SaveSession(e) ==
    /\ stored' = [stored EXCEPT ![e] = IF session[e] = NoSession THEN NoSession
                                       ELSE Reloaded(session[e])]
    /\ stored' # stored
    /\ UNCHANGED <<session, sent, arrived, matched, opened, past>>

\* A session that is not the one that was in use has forgotten something.
Replace(e, s) ==
    /\ past.faults < MaxFaults
    /\ session' = [session EXCEPT ![e] = s]
    /\ past' = [past EXCEPT !.faults = @ + 1,
                            !.rewound = @ \/ s # session[e],
                            !.disturbed = @ \/ s # session[e]]
    /\ UNCHANGED <<stored, sent, arrived, matched, opened>>

\* A restart and load_from_nvs.
Reload(e) == Replace(e, stored[e])

\* create_session once more, with the parameters of the first time.
CreateSession(e) == Replace(e, NewSession(e))

RemoveSession(e) == session[e] # NoSession /\ Replace(e, NoSession)

SessionNext ==
    \/ \E e \in Ends : Encrypt(e)
    \/ \E m \in sent, intact \in BOOLEAN : Deliver(m, intact)
    \/ \E e \in Ends : SaveSession(e)
    \/ \E e \in Ends : Reload(e)
    \/ \E e \in Ends : CreateSession(e)
    \/ \E e \in Ends : RemoveSession(e)

SessionSpec == SessionInit /\ [][SessionNext]_sessionVars
-----------------------------------------------------------------------------
(***************************************************************************)
(* The ends stay in step, but for their salts: for what one end sends the  *)
(* other derives the key from the same place of the same chain, in any     *)
(* order within one key pair, over any losses and over ratchets of either  *)
(* end (skip_message_keys, advance_recv_ratchet), although it keeps the    *)
(* step it took for a message whose tag does not match, until one of the   *)
(* things listed at Disturbs happens, two ratchets cross, or an end goes   *)
(* back to an older session.                                               *)
(***************************************************************************)
EndsKeepInStep == ~ past.astray

(***************************************************************************)
(* What one end sends the other decrypts, under the same conditions        *)
(* ("bob.decrypt(&header, &ciphertext).unwrap()", session.rs:897).         *)
(***************************************************************************)
OpensWhatArrives == ~ past.refused

(***************************************************************************)
(* Unless an end went back to an older session, no key encrypts two        *)
(* messages, across the wrap of the counter at every ratchet, and no end   *)
(* derives the key of a message twice, however often it arrives: whatever  *)
(* the salts, no message could be decrypted twice.                         *)
(***************************************************************************)
KeysServeOnce ==
    past.rewound \/ (/\ ~ past.rematched
                     /\ \A m, n \in sent : m.key = n.key => m = n)
=============================================================================
