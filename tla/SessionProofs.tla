---------------------------- MODULE SessionProofs ----------------------------
(***************************************************************************)
(* Four results about sessions, for any number of messages, losses,        *)
(* reloads and ratchets.                                                   *)
(*                                                                         *)
(* Every key of a session serves once, to encrypt and to decrypt, as long  *)
(* as no end goes back to an older session.  Sending: the key at the head  *)
(* of a sending chain is new because the chain was seeded with a private   *)
(* key that nobody had drawn before, and has been advanced past every key  *)
(* taken from it.  Receiving: what was derived is behind the head of the   *)
(* receiving chain or belongs to a chain with a shorter root, and is not   *)
(* among the skipped keys.                                                 *)
(*                                                                         *)
(* For what arrives undisturbed the receiver derives the sender's key, but *)
(* for the salt: at every moment the end that has ratcheted last is ahead  *)
(* by exactly the secrets of the key pairs its peer has not heard of, and  *)
(* every message on its way is the next key of the receiver, or one that   *)
(* it has put by, or one of the chain that starts at the next key pair.    *)
(*                                                                         *)
(* The two salts keep the ends apart: nothing is ever decrypted.           *)
(*                                                                         *)
(* The counters of a session keep their limits, whatever comes back.       *)
(***************************************************************************)
EXTENDS Session, FiniteSetTheorems, SequenceTheorems, TLAPS

PrivateKeys == Ends \X Nat
Terms       == SUBSET PrivateKeys
Chains      == [seed : Seq(Terms), label : {"send", "recv", "chain"}, index : Nat]
MessageKeys == [chain : Chains, num : Nat]
SkippedKeys == [dh : PrivateKeys, num : Nat, key : MessageKeys]

States ==
    [salt                : {"initiator-salt-v1", "responder-salt-v1"},
     root_key            : Seq(Terms),
     send_chain_key      : Chains,
     recv_chain_key      : Chains,
     send_ratchet        : PrivateKeys,
     recv_ratchet_public : PrivateKeys,
     send_count          : Nat,
     recv_count          : Nat,
     prev_recv_chain     : Nat,
     skipped_keys        : SUBSET SkippedKeys]

PastShape ==
    /\ DOMAIN past = {"keys", "faults", "rewound", "disturbed", "rematched",
                    "astray", "refused"}
    /\ past.keys \in [Ends -> Nat]

Typed ==
    /\ session \in [Ends -> States]
    /\ \A m \in sent : /\ m.from \in Ends /\ m.dh \in PrivateKeys
                       /\ m.prev \in Nat /\ m.num \in Nat /\ m.key \in MessageKeys
    /\ matched \subseteq sent
-----------------------------------------------------------------------------
\* Two places of one chain.
SameChain(c, d) == c.seed = d.seed /\ c.label = d.label

\* The secret a chain was seeded with.
Secret(chain) == chain.seed[Len(chain.seed)]

\* The private keys drawn so far.
Drawn == {k \in PrivateKeys : k[2] <= past.keys[k[1]]}

\* No chain is seeded with, and no end has heard of, a key not drawn yet.
SecretsDrawn ==
    /\ \A m \in sent : m.dh \in Drawn /\ Secret(m.key.chain) \subseteq Drawn
    /\ \A e \in Ends : /\ Secret(session[e].send_chain_key) \subseteq Drawn
                       /\ session[e].send_ratchet \in Drawn
                       /\ session[e].recv_ratchet_public \in Drawn

\* A sending chain is past the messages encrypted with it, and nobody else's.
ChainsAhead ==
    /\ \A e \in Ends, m \in sent :
          SameChain(m.key.chain, session[e].send_chain_key)
             => m.key.chain.index < session[e].send_chain_key.index
    /\ \A e, f \in Ends :
          e # f => ~ SameChain(session[e].send_chain_key, session[f].send_chain_key)

SealedOnce == \A m, n \in sent : m.key = n.key => m = n
-----------------------------------------------------------------------------
\* A key that a receiving end cannot derive from its chain any more: it is
\* behind the head, and no chain to come has so short a seed.
Behind(key, s) ==
    /\ SameChain(key.chain, s.recv_chain_key)
          => key.chain.index < s.recv_chain_key.index
    /\ key.chain.label = "chain" => Len(key.chain.seed) <= Len(s.root_key)

\* The receiving half of a state in which the keys in `used` are used up.
UsedUp(s, used) ==
    /\ s.recv_chain_key.label = "chain"
          => Len(s.recv_chain_key.seed) <= Len(s.root_key)
    /\ \A k \in s.skipped_keys : Behind(k.key, s)
    /\ \A j, k \in s.skipped_keys : j.key = k.key => j.dh = k.dh /\ j.num = k.num
    /\ \A key \in used : Behind(key, s) /\ \A k \in s.skipped_keys : k.key # key

UsedBy(e) == {m.key : m \in {n \in matched : Peer(n.from) = e}}

OpenedOnce ==
    /\ ~ past.rematched
    /\ \A e \in Ends : UsedUp(session[e], UsedBy(e))

Kept == Typed /\ SecretsDrawn /\ ChainsAhead /\ SealedOnce /\ OpenedOnce

SessionInv == PastShape /\ (past.rewound \/ Kept)
-----------------------------------------------------------------------------
\* Of two ends each is the other's peer.
LEMMA TwoEnds ==
    ASSUME SessionAssumption, NEW e \in Ends
    PROVE  /\ Peer(e) \in Ends /\ Peer(e) # e
           /\ \A f \in Ends : f # e => f = Peer(e)
<1>1. PICK other \in Ends : other # Initiator /\ Ends = {Initiator, other}
  BY DEF SessionAssumption
<1>2. \E o \in Ends : o # e
  BY <1>1
<1>3. Peer(e) \in Ends /\ Peer(e) # e
  BY <1>2 DEF Peer
<1> QED BY <1>1, <1>3

\* A chain made of a root and a secret.
LEMMA ChainIsChain ==
    ASSUME NEW root \in Seq(Terms), NEW secret \in SUBSET PrivateKeys,
           NEW label \in {"send", "recv", "chain"}
    PROVE  LET c == Chain(root, secret, label)
           IN  /\ c \in Chains /\ c.label = label /\ c.index = 0
               /\ Secret(c) = secret /\ Len(c.seed) = Len(root) + 1
               /\ Append(root, secret) \in Seq(Terms)
               /\ c.seed = Append(root, secret)
<1>1. secret \in Terms
  BY DEF Terms
<1>2. /\ Append(root, secret) \in Seq(Terms)
      /\ Len(Append(root, secret)) = Len(root) + 1
      /\ Append(root, secret)[Len(root) + 1] = secret
  BY <1>1
<1> QED BY <1>2 DEF Chain, Chains, Secret

\* A step along a chain keeps its seed and its label.
LEMMA AdvancedChain ==
    ASSUME NEW c \in Chains
    PROVE  /\ Advanced(c) \in Chains
           /\ Advanced(c).seed = c.seed /\ Advanced(c).label = c.label
           /\ Advanced(c).index = c.index + 1
BY DEF Advanced, Chains

\* The secret of two key pairs is a term.
LEMMA Secrets ==
    ASSUME NEW k \in PrivateKeys, NEW l \in PrivateKeys
    PROVE  Dh(k, l) \in SUBSET PrivateKeys /\ k \in Dh(k, l) /\ l \in Dh(k, l)
BY DEF Dh
-----------------------------------------------------------------------------
\* Counting a message moves the sending chain on.
LEMMA CountedFields ==
    ASSUME NEW s \in States
    PROVE  LET c == Counted(s)
           IN  /\ c \in States /\ c.salt = s.salt
               /\ c.root_key = s.root_key /\ c.send_ratchet = s.send_ratchet
               /\ c.recv_ratchet_public = s.recv_ratchet_public
               /\ c.recv_chain_key = s.recv_chain_key
               /\ c.recv_count = s.recv_count /\ c.skipped_keys = s.skipped_keys
               /\ c.prev_recv_chain = s.prev_recv_chain
               /\ c.send_count = s.send_count + 1
               /\ SameChain(c.send_chain_key, s.send_chain_key)
               /\ c.send_chain_key.index = s.send_chain_key.index + 1
<1> DEFINE chain == Advanced(s.send_chain_key)
           c == [s EXCEPT !.send_count = s.send_count + 1, !.send_chain_key = chain]
<1>1. s.send_chain_key \in Chains /\ s.send_count + 1 \in Nat
  BY DEF States
<1>2. /\ chain \in Chains /\ SameChain(chain, s.send_chain_key)
      /\ chain.index = s.send_chain_key.index + 1
  BY <1>1, AdvancedChain DEF SameChain
<1>3. Counted(s) = c
  BY DEF Counted
<1> HIDE DEF chain
<1>4. /\ c \in States /\ c.salt = s.salt
      /\ c.root_key = s.root_key /\ c.send_ratchet = s.send_ratchet
      /\ c.recv_ratchet_public = s.recv_ratchet_public
      /\ c.recv_chain_key = s.recv_chain_key
      /\ c.recv_count = s.recv_count /\ c.skipped_keys = s.skipped_keys
      /\ c.prev_recv_chain = s.prev_recv_chain
      /\ c.send_count = s.send_count + 1 /\ c.send_chain_key = chain
  BY <1>1, <1>2 DEF States
<1> QED BY <1>2, <1>3, <1>4

\* A new key pair of an end: a longer root key and a sending chain.
LEMMA RatchetedFields ==
    ASSUME NEW s \in States, NEW fresh \in PrivateKeys
    PROVE  LET d == AdvanceSendRatchet(s, fresh)
               secret == Dh(fresh, s.recv_ratchet_public)
           IN  /\ d \in States /\ d.salt = s.salt
               /\ d.root_key = Append(s.root_key, secret)
               /\ Len(d.root_key) = Len(s.root_key) + 1
               /\ d.send_ratchet = fresh
               /\ d.recv_ratchet_public = s.recv_ratchet_public
               /\ d.recv_chain_key = s.recv_chain_key
               /\ d.recv_count = s.recv_count /\ d.skipped_keys = s.skipped_keys
               /\ d.prev_recv_chain = s.recv_count /\ d.send_count = 0
               /\ d.send_chain_key.label = "chain" /\ d.send_chain_key.index = 0
               /\ d.send_chain_key.seed = d.root_key /\ Secret(d.send_chain_key) = secret
<1> DEFINE d == AdvanceSendRatchet(s, fresh)
           secret == Dh(fresh, s.recv_ratchet_public)
           chain  == Chain(s.root_key, secret, "chain")
<1>1. /\ s.root_key \in Seq(Terms) /\ s.recv_ratchet_public \in PrivateKeys
      /\ s.recv_count \in Nat
  BY DEF States
<1>2. secret \in SUBSET PrivateKeys
  BY <1>1, Secrets
<1> HIDE DEF secret
<1>3. /\ chain \in Chains /\ chain.label = "chain" /\ chain.index = 0
      /\ Len(chain.seed) = Len(s.root_key) + 1 /\ Secret(chain) = secret
      /\ chain.seed \in Seq(Terms) /\ chain.seed = Append(s.root_key, secret)
  BY <1>1, <1>2, ChainIsChain
<1> HIDE DEF chain
<1>4. d = [s EXCEPT !.root_key = chain.seed, !.send_chain_key = chain,
                    !.send_ratchet = fresh, !.prev_recv_chain = s.recv_count,
                    !.send_count = 0]
  BY <1>3 DEF AdvanceSendRatchet, secret, chain
<1> HIDE DEF d
<1>5. /\ d \in States /\ d.salt = s.salt
      /\ d.root_key = chain.seed /\ d.send_chain_key = chain /\ d.send_ratchet = fresh
      /\ d.recv_ratchet_public = s.recv_ratchet_public
      /\ d.recv_chain_key = s.recv_chain_key /\ d.skipped_keys = s.skipped_keys
      /\ d.recv_count = s.recv_count
      /\ d.prev_recv_chain = s.recv_count /\ d.send_count = 0
  BY <1>1, <1>3, <1>4 DEF States
<1> QED BY <1>3, <1>5 DEF d, secret

\* A new key pair of the peer: a longer root key and a receiving chain.
LEMMA AdvancedRecv ==
    ASSUME NEW s \in States, NEW theirs \in PrivateKeys
    PROVE  LET u == AdvanceRecvRatchet(s, theirs)
               secret == Dh(s.send_ratchet, theirs)
           IN  /\ u \in States /\ u.salt = s.salt
               /\ u.root_key = Append(s.root_key, secret)
               /\ u.send_chain_key = s.send_chain_key /\ u.send_ratchet = s.send_ratchet
               /\ u.send_count = s.send_count /\ u.prev_recv_chain = s.prev_recv_chain
               /\ u.recv_ratchet_public = theirs /\ u.recv_count = 0
               /\ u.recv_chain_key.label = "chain" /\ u.recv_chain_key.index = 0
               /\ u.recv_chain_key.seed = u.root_key
               /\ Len(u.root_key) = Len(s.root_key) + 1
               /\ u.skipped_keys = s.skipped_keys
<1> DEFINE secret == Dh(s.send_ratchet, theirs)
           chain  == Chain(s.root_key, secret, "chain")
           u      == AdvanceRecvRatchet(s, theirs)
<1>1. s.root_key \in Seq(Terms) /\ s.send_ratchet \in PrivateKeys
  BY DEF States
<1>2. secret \in SUBSET PrivateKeys
  BY <1>1, Secrets
<1> HIDE DEF secret
<1>3. /\ chain \in Chains /\ chain.label = "chain" /\ chain.index = 0
      /\ Append(s.root_key, secret) \in Seq(Terms) /\ chain.seed = Append(s.root_key, secret)
      /\ Len(chain.seed) = Len(s.root_key) + 1
  BY <1>1, <1>2, ChainIsChain
<1> HIDE DEF chain
<1> DEFINE root == Append(s.root_key, secret)
<1>4. u = [s EXCEPT !.root_key = root, !.recv_chain_key = chain,
                    !.recv_ratchet_public = theirs, !.recv_count = 0]
  BY DEF AdvanceRecvRatchet, secret, chain
<1>5. root \in Seq(Terms) /\ chain.seed = root
  BY <1>3
<1> HIDE DEF root, u
<1>6. /\ u \in States /\ u.salt = s.salt /\ u.root_key = root
      /\ u.send_chain_key = s.send_chain_key /\ u.send_ratchet = s.send_ratchet
      /\ u.send_count = s.send_count /\ u.prev_recv_chain = s.prev_recv_chain
      /\ u.recv_ratchet_public = theirs /\ u.recv_count = 0
      /\ u.recv_chain_key = chain /\ u.skipped_keys = s.skipped_keys
  BY <1>3, <1>4, <1>5 DEF States
<1> QED BY <1>3, <1>5, <1>6 DEF u, root, secret
-----------------------------------------------------------------------------
\* The numbers that skip_message_keys puts by.
LEMMA Gap ==
    ASSUME NEW from \in Nat, NEW until \in Nat
    PROVE  LET gap == {n \in 0 .. until - 1 : n >= from}
           IN  /\ Cardinality(gap) \in Nat
               /\ \A n \in gap : n - from < Cardinality(gap)
               /\ from + Cardinality(gap) = IF until <= from THEN from ELSE until
<1> DEFINE gap == {n \in 0 .. until - 1 : n >= from}
<1>1. gap = from .. until - 1
  OBVIOUS
<1>2. until - 1 \in Int /\ from \in Int
  OBVIOUS
<1>3. Cardinality(from .. until - 1)
        = IF from > until - 1 THEN 0 ELSE (until - 1) - from + 1
  BY <1>2, FS_Interval
<1>4. Cardinality(gap) = IF from > until - 1 THEN 0 ELSE (until - 1) - from + 1
  BY <1>1, <1>3
<1>5. Cardinality(gap) \in Nat
  BY <1>4
<1>6. \A n \in gap : n - from < Cardinality(gap)
  BY <1>4
<1> HIDE DEF gap
<1>7. from + Cardinality(gap) = IF until <= from THEN from ELSE until
  BY <1>4
<1> QED BY <1>5, <1>6, <1>7 DEF gap

\* What putting keys by leaves alone.
LEMMA SkipFrame ==
    ASSUME NEW s \in States, NEW until \in Nat
    PROVE  LET t == SkipMessageKeys(s, until)
           IN  /\ t \in States /\ t.salt = s.salt
               /\ t.send_chain_key = s.send_chain_key /\ t.root_key = s.root_key
               /\ t.send_ratchet = s.send_ratchet
               /\ t.recv_ratchet_public = s.recv_ratchet_public
               /\ SameChain(t.recv_chain_key, s.recv_chain_key)
               /\ t.recv_chain_key.index >= s.recv_chain_key.index
               /\ \A k \in t.skipped_keys :
                     k \in s.skipped_keys \/ SameChain(k.key.chain, s.recv_chain_key)
<1> DEFINE gap == {n \in 0 .. until - 1 : n >= s.recv_count}
           key(n) == MessageKey([s.recv_chain_key EXCEPT !.index = @ + n - s.recv_count], n)
           put == {[dh |-> s.recv_ratchet_public, num |-> n, key |-> key(n)] : n \in gap}
<1>1. s.recv_count \in Nat /\ s.recv_chain_key \in Chains
      /\ s.recv_ratchet_public \in PrivateKeys /\ s.skipped_keys \in SUBSET SkippedKeys
  BY DEF States
<1>2. Cardinality(gap) \in Nat
  BY <1>1, Gap
<1>3. \A n \in gap : key(n) \in MessageKeys /\ SameChain(key(n).chain, s.recv_chain_key)
  BY <1>1 DEF MessageKey, MessageKeys, Chains, SameChain
<1> HIDE DEF key
<1>4. put \in SUBSET SkippedKeys
  BY <1>1, <1>3 DEF SkippedKeys
<1> DEFINE chain == [s.recv_chain_key EXCEPT !.index = @ + Cardinality(gap)]
           kept  == put \cup {k \in s.skipped_keys : \A p \in put :
                                  <<k.dh, k.num>> # <<p.dh, p.num>>}
<1>5. /\ chain \in Chains /\ SameChain(chain, s.recv_chain_key)
      /\ chain.index >= s.recv_chain_key.index
  BY <1>1, <1>2 DEF Chains, SameChain
<1>6. kept \in SUBSET SkippedKeys
  BY <1>1, <1>4
<1>7. s.recv_count + Cardinality(gap) \in Nat
  BY <1>1, <1>2
<1>8. SkipMessageKeys(s, until) =
        [s EXCEPT !.recv_chain_key = chain, !.recv_count = @ + Cardinality(gap),
                  !.skipped_keys = kept]
  BY DEF SkipMessageKeys, key
<1>9. \A k \in kept : k \in s.skipped_keys \/ SameChain(k.key.chain, s.recv_chain_key)
  BY <1>3
<1> HIDE DEF gap, put, chain, kept
<1> QED BY <1>5, <1>6, <1>7, <1>8, <1>9 DEF States

\* Putting keys by uses none up that were not, and lets none used up come back.
LEMMA SkipKeepsUsedUp ==
    ASSUME NEW s \in States, NEW until \in Nat, NEW used \in SUBSET MessageKeys,
           UsedUp(s, used)
    PROVE  UsedUp(SkipMessageKeys(s, until), used)
<1> DEFINE t == SkipMessageKeys(s, until)
           gap == {n \in 0 .. until - 1 : n >= s.recv_count}
           key(n) == MessageKey([s.recv_chain_key EXCEPT !.index = @ + n - s.recv_count], n)
           put == {[dh |-> s.recv_ratchet_public, num |-> n, key |-> key(n)] : n \in gap}
<1>1. s.recv_count \in Nat /\ s.recv_chain_key \in Chains /\ s.skipped_keys \in SUBSET SkippedKeys
  BY DEF States
<1>2. \A n \in gap : n \in Nat /\ n >= s.recv_count /\ n - s.recv_count < Cardinality(gap)
  <2>1. \A n \in gap : n \in Nat /\ n >= s.recv_count
    BY <1>1
  <2>2. s.recv_count \in Nat
    BY <1>1
  <2>3. \A n \in gap : n - s.recv_count < Cardinality(gap)
    BY <2>2, Gap, Zenon
  <2> QED BY <2>1, <2>3
<1>3. Cardinality(gap) \in Nat
  <2>1. s.recv_count \in Nat
    BY <1>1
  <2> QED BY <2>1, Gap, Zenon
<1>4. /\ t.root_key = s.root_key
      /\ SameChain(t.recv_chain_key, s.recv_chain_key)
      /\ t.recv_chain_key.index = s.recv_chain_key.index + Cardinality(gap)
      /\ t.skipped_keys \subseteq put \cup s.skipped_keys
  BY DEF SkipMessageKeys, States, SameChain, Chains
<1>5. \A n \in gap :
         /\ SameChain(key(n).chain, s.recv_chain_key)
         /\ key(n).chain.index = s.recv_chain_key.index + n - s.recv_count
         /\ key(n).num = n
  BY <1>1 DEF MessageKey, SameChain, Chains
<1> HIDE DEF t, gap, key
<1>6. \A k \in put : \E n \in gap : k.num = n /\ k.dh = s.recv_ratchet_public /\ k.key = key(n)
  OBVIOUS
<1> HIDE DEF put
\* The keys put by are ahead of the old head of the chain and behind the new.
<1>7. \A k \in put :
         /\ SameChain(k.key.chain, s.recv_chain_key)
         /\ k.key.chain.index \in Nat
         /\ k.key.chain.index >= s.recv_chain_key.index
         /\ k.key.chain.index < t.recv_chain_key.index
  BY <1>1, <1>2, <1>3, <1>4, <1>5, <1>6, SMTT(30) DEF Chains
<1>8. \A key1 \in MessageKeys : Behind(key1, s) => Behind(key1, t)
  BY <1>1, <1>3, <1>4 DEF Behind, SameChain, MessageKeys, Chains
<1>9. \A key1 \in MessageKeys : Behind(key1, s) => \A k \in put : k.key # key1
  BY <1>1, <1>7 DEF Behind, Chains, MessageKeys
<1>10. /\ t.recv_chain_key.seed = s.recv_chain_key.seed
       /\ t.recv_chain_key.label = s.recv_chain_key.label
  BY <1>4 DEF SameChain
<1>11. \A k \in put : Behind(k.key, t)
  BY <1>4, <1>7, <1>10 DEF Behind, UsedUp, SameChain
<1>12. \A k \in s.skipped_keys : k.key \in MessageKeys /\ Behind(k.key, s)
  BY <1>1 DEF SkippedKeys, UsedUp
<1>13. \A k \in t.skipped_keys : Behind(k.key, t)
  BY <1>4, <1>8, <1>11, <1>12
<1>14. ASSUME NEW j \in t.skipped_keys, NEW k \in t.skipped_keys, j.key = k.key
       PROVE  j.dh = k.dh /\ j.num = k.num
  <2>1. CASE j \in put /\ k \in put
    <3>1. PICK m \in gap : j.num = m /\ j.dh = s.recv_ratchet_public /\ j.key = key(m)
      BY <1>6, <2>1
    <3>2. PICK n \in gap : k.num = n /\ k.dh = s.recv_ratchet_public /\ k.key = key(n)
      BY <1>6, <2>1
    <3>3. key(m).num = m /\ key(n).num = n
      BY <1>5
    <3> QED BY <1>14, <3>1, <3>2, <3>3
  <2>2. CASE j \in s.skipped_keys /\ k \in s.skipped_keys
    BY <1>14, <2>2 DEF UsedUp
  <2>3. CASE j \in put /\ k \in s.skipped_keys
    BY <1>9, <1>12, <1>14, <2>3
  <2>4. CASE j \in s.skipped_keys /\ k \in put
    BY <1>9, <1>12, <1>14, <2>4
  <2> QED BY <1>4, <2>1, <2>2, <2>3, <2>4
<1>15. ASSUME NEW key1 \in used
       PROVE  Behind(key1, t) /\ \A k \in t.skipped_keys : k.key # key1
  <2>1. key1 \in MessageKeys /\ Behind(key1, s) /\ \A k \in s.skipped_keys : k.key # key1
    BY <1>15 DEF UsedUp
  <2> QED BY <1>4, <1>8, <1>9, <2>1
<1>16. t.recv_chain_key.label = "chain" => Len(t.recv_chain_key.seed) <= Len(t.root_key)
  BY <1>4, <1>10 DEF UsedUp
<1> QED BY <1>13, <1>14, <1>15, <1>16 DEF UsedUp, t

\* The first chain of a new key pair has a longer seed than all before it.
LEMMA RatchetKeepsUsedUp ==
    ASSUME NEW s \in States, NEW theirs \in PrivateKeys, NEW used \in SUBSET MessageKeys,
           UsedUp(s, used)
    PROVE  LET t == AdvanceRecvRatchet(s, theirs)
           IN  /\ t \in States /\ UsedUp(t, used)
               /\ t.send_chain_key = s.send_chain_key /\ t.send_ratchet = s.send_ratchet
               /\ t.recv_ratchet_public = theirs
<1> DEFINE t == AdvanceRecvRatchet(s, theirs)
<1>1. /\ t \in States /\ Len(t.root_key) = Len(s.root_key) + 1
      /\ t.recv_chain_key.seed = t.root_key /\ t.recv_chain_key.label = "chain"
      /\ t.skipped_keys = s.skipped_keys
      /\ t.send_chain_key = s.send_chain_key /\ t.send_ratchet = s.send_ratchet
      /\ t.recv_ratchet_public = theirs
  BY AdvancedRecv
<1> HIDE DEF t
<1>2. Len(s.root_key) \in Nat /\ s.skipped_keys \in SUBSET SkippedKeys
  BY DEF States
<1>3. \A key \in MessageKeys : Behind(key, s) => Behind(key, t)
  <2> TAKE key \in MessageKeys
  <2>1. Len(key.chain.seed) \in Nat
    BY DEF MessageKeys, Chains
  <2> QED BY <1>1, <1>2, <2>1 DEF Behind, SameChain
<1>4. \A k \in s.skipped_keys : k.key \in MessageKeys
  BY <1>2 DEF SkippedKeys
<1>5. Len(t.recv_chain_key.seed) <= Len(t.root_key)
  BY <1>1, <1>2
<1>6. UsedUp(t, used)
  BY <1>1, <1>3, <1>4, <1>5 DEF UsedUp
<1> QED BY <1>1, <1>6 DEF t
-----------------------------------------------------------------------------
\* The answer of get_message_key without a key is no key.
LEMMA NoKeyIsNone == << >> \notin MessageKeys
<1>1. \A key \in MessageKeys : DOMAIN key = {"chain", "num"}
  BY DEF MessageKeys
<1>2. DOMAIN << >> = {}
  OBVIOUS
<1> QED BY <1>1, <1>2

\* What deriving a key leaves, and that the key was not used up.
Derives(s, r, used) ==
    /\ r.state \in States /\ UsedUp(r.state, used)
    /\ r.state.send_chain_key = s.send_chain_key
    /\ r.state.send_ratchet = s.send_ratchet
    /\ r.key \in MessageKeys =>
          r.key \notin used /\ UsedUp(r.state, used \cup {r.key})

\* A skipped key is taken out with all others that are the same.
LEMMA TakeSkipped ==
    ASSUME NEW s \in States, NEW m, NEW used \in SUBSET MessageKeys, UsedUp(s, used),
           SkippedFor(s, m) # {}
    PROVE  /\ Derives(s, GetMessageKey(s, m), used)
           /\ GetMessageKey(s, m).state.recv_ratchet_public = s.recv_ratchet_public
<1> DEFINE k == CHOOSE j \in SkippedFor(s, m) : TRUE
           t == [s EXCEPT !.skipped_keys = @ \ SkippedFor(s, m)]
<1>1. k \in s.skipped_keys /\ k.dh = m.dh /\ k.num = m.num
  BY DEF SkippedFor
<1>2. s.skipped_keys \in SUBSET SkippedKeys
  BY DEF States
<1>3. /\ t \in States
      /\ t.recv_chain_key = s.recv_chain_key /\ t.root_key = s.root_key
      /\ t.send_chain_key = s.send_chain_key /\ t.send_ratchet = s.send_ratchet
      /\ t.recv_ratchet_public = s.recv_ratchet_public
      /\ t.skipped_keys = s.skipped_keys \ SkippedFor(s, m)
  BY DEF States
<1>4. GetMessageKey(s, m) = [state |-> t, key |-> k.key]
  BY DEF GetMessageKey, Opening
<1> HIDE DEF k, t
<1>5. \A key : Behind(key, s) <=> Behind(key, t)
  BY <1>3 DEF Behind
<1>6. UsedUp(t, used)
  BY <1>3, <1>5 DEF UsedUp
<1>7. k.key \notin used /\ Behind(k.key, t)
  BY <1>1, <1>5 DEF UsedUp
<1>8. \A j \in t.skipped_keys : j.key # k.key
  BY <1>1, <1>3 DEF UsedUp, SkippedFor
<1>9. UsedUp(t, used \cup {k.key})
  BY <1>6, <1>7, <1>8 DEF UsedUp
<1> QED BY <1>3, <1>4, <1>6, <1>7, <1>9 DEF Derives

\* A key from the head of the chain.
LEMMA TakeHead ==
    ASSUME NEW s \in States, NEW m, m.num \in Nat, NEW used \in SUBSET MessageKeys,
           UsedUp(s, used), SkippedFor(s, m) = {}, ~ TooMany(s, m.num)
    PROVE  /\ Derives(s, GetMessageKey(s, m), used)
           /\ GetMessageKey(s, m).state.recv_ratchet_public = s.recv_ratchet_public
<1> DEFINE t == SkipMessageKeys(s, m.num)
           u == [t EXCEPT !.recv_chain_key = Advanced(@), !.recv_count = m.num + 1]
           key == MessageKey(t.recv_chain_key, m.num)
<1>1. /\ t \in States /\ UsedUp(t, used)
      /\ t.send_chain_key = s.send_chain_key /\ t.send_ratchet = s.send_ratchet
      /\ t.recv_ratchet_public = s.recv_ratchet_public
  BY SkipFrame, SkipKeepsUsedUp
<1>2. GetMessageKey(s, m) = [state |-> u, key |-> key]
  BY DEF GetMessageKey, Opening
<1> HIDE DEF t
<1>3. /\ t.recv_chain_key \in Chains /\ t.skipped_keys \in SUBSET SkippedKeys
  BY <1>1 DEF States
<1>4. /\ Advanced(t.recv_chain_key) \in Chains
      /\ Advanced(t.recv_chain_key).seed = t.recv_chain_key.seed
      /\ Advanced(t.recv_chain_key).label = t.recv_chain_key.label
      /\ Advanced(t.recv_chain_key).index = t.recv_chain_key.index + 1
  BY <1>3, AdvancedChain
<1>5. /\ u \in States
      /\ u.recv_chain_key = Advanced(t.recv_chain_key)
      /\ u.root_key = t.root_key /\ u.skipped_keys = t.skipped_keys
      /\ u.send_chain_key = t.send_chain_key /\ u.send_ratchet = t.send_ratchet
      /\ u.recv_ratchet_public = t.recv_ratchet_public
  <2> DEFINE head == Advanced(t.recv_chain_key)
  <2>1. u = [t EXCEPT !.recv_chain_key = head, !.recv_count = m.num + 1]
    OBVIOUS
  <2>2. head \in Chains /\ m.num + 1 \in Nat
    BY <1>4
  <2> HIDE DEF head, u
  <2>3. u \in States /\ u.recv_chain_key = head
    BY <1>1, <2>1, <2>2 DEF States
  <2>4. /\ u.root_key = t.root_key /\ u.skipped_keys = t.skipped_keys
        /\ u.send_chain_key = t.send_chain_key /\ u.send_ratchet = t.send_ratchet
        /\ u.recv_ratchet_public = t.recv_ratchet_public
    BY <1>1, <2>1 DEF States
  <2> QED BY <2>3, <2>4 DEF head
<1>6. /\ key \in MessageKeys /\ key.chain = t.recv_chain_key
  BY <1>3 DEF MessageKey, MessageKeys
<1> HIDE DEF u, key
<1>7. \A k \in MessageKeys : Behind(k, t) => Behind(k, u) /\ k # key
  <2> SUFFICES ASSUME NEW k \in MessageKeys, Behind(k, t)
               PROVE  Behind(k, u) /\ k # key
    OBVIOUS
  <2>1. k.chain.index \in Nat /\ t.recv_chain_key.index \in Nat
    BY <1>3 DEF MessageKeys, Chains
  <2> QED BY <1>4, <1>5, <1>6, <2>1 DEF Behind, SameChain
<1>8. Behind(key, u)
  <2>1. t.recv_chain_key.index \in Nat
    BY <1>3 DEF Chains
  <2> QED BY <1>1, <1>4, <1>5, <1>6, <2>1 DEF Behind, UsedUp
<1>9. \A k \in t.skipped_keys : k.key \in MessageKeys /\ Behind(k.key, t)
  BY <1>1, <1>3 DEF UsedUp, SkippedKeys
<1>10. UsedUp(u, used)
  BY <1>1, <1>4, <1>5, <1>7, <1>9 DEF UsedUp
<1>11. key \notin used
  BY <1>1, <1>7 DEF UsedUp
<1>12. UsedUp(u, used \cup {key})
  BY <1>5, <1>7, <1>8, <1>9, <1>10 DEF UsedUp
<1> QED BY <1>1, <1>2, <1>5, <1>6, <1>10, <1>11, <1>12 DEF Derives

\* get_message_key
LEMMA GetDerives ==
    ASSUME NEW s \in States, NEW m, m.num \in Nat, NEW used \in SUBSET MessageKeys,
           UsedUp(s, used)
    PROVE  /\ Derives(s, GetMessageKey(s, m), used)
           /\ GetMessageKey(s, m).state.recv_ratchet_public = s.recv_ratchet_public
<1>1. CASE SkippedFor(s, m) = {} /\ TooMany(s, m.num)
  <2>1. GetMessageKey(s, m) = [state |-> s, key |-> << >>]
    BY <1>1 DEF GetMessageKey, Opening
  <2> QED BY <2>1, NoKeyIsNone DEF Derives
<1> QED BY <1>1, TakeSkipped, TakeHead

\* A message, whatever key pair it names and however often it has come.
LEMMA OpenedDerives ==
    ASSUME NEW s \in States, NEW m, m.num \in Nat, m.prev \in Nat, m.dh \in PrivateKeys,
           NEW used \in SUBSET MessageKeys, UsedUp(s, used)
    PROVE  /\ Derives(s, Opened(s, m), used)
           /\ Opened(s, m).state.recv_ratchet_public \in {s.recv_ratchet_public, m.dh}
<1>1. CASE m.dh = s.recv_ratchet_public
  BY <1>1, GetDerives DEF Opened
<1>2. CASE m.dh # s.recv_ratchet_public /\ TooMany(s, m.prev)
  <2>1. Opened(s, m) = [state |-> s, key |-> << >>]
    BY <1>2 DEF Opened, Opening
  <2> QED BY <2>1, NoKeyIsNone DEF Derives
<1>3. CASE m.dh # s.recv_ratchet_public /\ ~ TooMany(s, m.prev)
  <2> DEFINE t == SkipMessageKeys(s, m.prev)
             u == AdvanceRecvRatchet(t, m.dh)
  <2>1. /\ t \in States /\ UsedUp(t, used)
        /\ t.send_chain_key = s.send_chain_key /\ t.send_ratchet = s.send_ratchet
    BY SkipFrame, SkipKeepsUsedUp
  <2> HIDE DEF t
  <2>2. /\ u \in States /\ UsedUp(u, used)
        /\ u.send_chain_key = s.send_chain_key /\ u.send_ratchet = s.send_ratchet
        /\ u.recv_ratchet_public = m.dh
    BY <2>1, RatchetKeepsUsedUp
  <2>3. Opened(s, m) = GetMessageKey(u, m)
    BY <1>3 DEF Opened, t
  <2> HIDE DEF u
  <2> QED BY <2>2, <2>3, GetDerives DEF Derives
<1> QED BY <1>1, <1>2, <1>3
-----------------------------------------------------------------------------
\* The keys of the messages an end has matched are message keys.
LEMMA KeysUsed == Typed => \A e \in Ends : UsedBy(e) \in SUBSET MessageKeys
BY DEF Typed, UsedBy

\* A delivery keeps the invariant of the keys.
LEMMA DeliverKeeps ==
    ASSUME SessionAssumption, PastShape, Kept, NEW m \in sent, NEW intact \in BOOLEAN,
           Deliver(m, intact)
    PROVE  PastShape' /\ Kept'
<1> DEFINE e == Peer(m.from)
           s == session[e]
           r == Opened(s, m)
           ok == intact /\ r.key = m.key
<1>1. /\ e \in Ends /\ s \in States /\ m.key \in MessageKeys
      /\ m.num \in Nat /\ m.prev \in Nat /\ m.dh \in PrivateKeys /\ m.from \in Ends
  BY TwoEnds DEF Kept, Typed
<1>2. UsedBy(e) \in SUBSET MessageKeys /\ UsedUp(s, UsedBy(e))
  BY <1>1, KeysUsed DEF Kept, OpenedOnce
<1>3. /\ session' = [session EXCEPT ![e] = r.state]
      /\ matched' = IF ok THEN matched \cup {m} ELSE matched
      /\ past'.rewound = past.rewound /\ past'.keys = past.keys
      /\ past'.rematched = (past.rematched \/ (ok /\ m \in matched))
      /\ PastShape' /\ sent' = sent
  BY DEF Deliver, PastShape
<1> HIDE DEF e, s
<1>4. /\ Derives(s, r, UsedBy(e))
      /\ r.state.recv_ratchet_public \in {s.recv_ratchet_public, m.dh}
  BY <1>1, <1>2, OpenedDerives
<1> HIDE DEF r
<1>5. ok => r.key \in MessageKeys /\ m.key \notin UsedBy(e)
  BY <1>1, <1>4 DEF Derives
<1> HIDE DEF ok
<1>6. /\ session \in [Ends -> States] /\ session'[e] = r.state
      /\ \A f \in Ends \ {e} : session'[f] = session[f]
  BY <1>1, <1>3 DEF Kept, Typed
<1>7. Typed'
  BY <1>1, <1>3, <1>4 DEF Kept, Typed, Derives
<1>8. \A f \in Ends : /\ session'[f].send_chain_key = session[f].send_chain_key
                     /\ session'[f].send_ratchet = session[f].send_ratchet
  BY <1>4, <1>6 DEF Derives, s
<1>9. SecretsDrawn'
  <2>1. Drawn' = Drawn
    BY <1>3 DEF Drawn
  <2>2. m.dh \in Drawn
    BY DEF Kept, SecretsDrawn
  <2>3. \A f \in Ends : session'[f].recv_ratchet_public \in {session[f].recv_ratchet_public, m.dh}
    BY <1>4, <1>6 DEF s
  <2> QED BY <1>3, <1>8, <2>1, <2>2, <2>3 DEF Kept, SecretsDrawn
<1>10. ChainsAhead'
  BY <1>3, <1>8 DEF Kept, ChainsAhead
<1>11. SealedOnce'
  BY <1>3 DEF Kept, SealedOnce
<1>12. OpenedOnce'
  <2>1. ok => m \notin matched
    BY <1>5 DEF UsedBy, e
  <2>2. ~ past'.rematched
    BY <1>3, <2>1 DEF Kept, OpenedOnce
  <2>3. \A f \in Ends \ {e} : UsedBy(f)' = UsedBy(f)
    BY <1>3 DEF UsedBy, e
  <2>4. UsedBy(e)' = IF ok THEN UsedBy(e) \cup {m.key} ELSE UsedBy(e)
    BY <1>3 DEF UsedBy, e
  <2>5. ok => r.key = m.key
    BY DEF ok
  <2>6. UsedUp(session'[e], UsedBy(e)')
    BY <1>4, <1>5, <1>6, <2>4, <2>5 DEF Derives
  <2>7. \A f \in Ends \ {e} : UsedUp(session'[f], UsedBy(f)')
    BY <1>6, <2>3 DEF Kept, OpenedOnce
  <2> QED BY <2>2, <2>6, <2>7 DEF OpenedOnce
<1> QED BY <1>3, <1>7, <1>9, <1>10, <1>11, <1>12 DEF Kept

\* The key a message is sealed with is at the head of its chain.
LEMMA SealedIsNew ==
    ASSUME Kept, NEW e \in Ends
    PROVE  /\ Sealed(e).from = e /\ Sealed(e).dh \in Drawn
           /\ Sealed(e).prev \in Nat /\ Sealed(e).num \in Nat
           /\ Sealed(e).key \in MessageKeys
           /\ Sealed(e).key.chain = session[e].send_chain_key
           /\ \A m \in sent : m.key # Sealed(e).key
<1>1. session[e] \in States
  BY DEF Kept, Typed
<1>2. /\ session[e].send_chain_key \in Chains /\ session[e].send_count \in Nat
      /\ session[e].prev_recv_chain \in Nat
  BY <1>1 DEF States
<1>3. /\ Sealed(e).from = e /\ Sealed(e).dh = session[e].send_ratchet
      /\ Sealed(e).prev = session[e].prev_recv_chain
      /\ Sealed(e).num = session[e].send_count
      /\ Sealed(e).key = MessageKey(session[e].send_chain_key, session[e].send_count)
  BY DEF Sealed
<1>4. /\ Sealed(e).key \in MessageKeys
      /\ Sealed(e).key.chain = session[e].send_chain_key
  BY <1>2, <1>3 DEF MessageKey, MessageKeys
<1>5. ASSUME NEW m \in sent, m.key = Sealed(e).key PROVE FALSE
  <2>1. m.key.chain = session[e].send_chain_key
    BY <1>4, <1>5
  <2>2. session[e].send_chain_key.index < session[e].send_chain_key.index
    BY <2>1 DEF Kept, ChainsAhead, SameChain
  <2> QED BY <1>2, <2>2 DEF Chains
<1>6. session[e].send_ratchet \in Drawn
  BY DEF Kept, SecretsDrawn
<1> QED BY <1>2, <1>3, <1>4, <1>5, <1>6

\* What the sender changes in its session leaves the used keys used.
LEMMA CountedUsesNone ==
    ASSUME NEW s \in States, NEW used, UsedUp(s, used)
    PROVE  UsedUp(Counted(s), used)
BY CountedFields DEF UsedUp, Behind

\* So does its ratchet.
LEMMA RatchetedUsesNone ==
    ASSUME NEW s \in States, NEW fresh \in PrivateKeys,
           NEW used \in SUBSET MessageKeys, UsedUp(s, used)
    PROVE  UsedUp(AdvanceSendRatchet(s, fresh), used)
<1> DEFINE d == AdvanceSendRatchet(s, fresh)
<1>1. /\ Len(d.root_key) = Len(s.root_key) + 1
      /\ d.recv_chain_key = s.recv_chain_key /\ d.skipped_keys = s.skipped_keys
  BY RatchetedFields
<1> HIDE DEF d
<1>2. /\ Len(s.root_key) \in Nat /\ s.skipped_keys \in SUBSET SkippedKeys
      /\ Len(s.recv_chain_key.seed) \in Nat
  BY DEF States, Chains
<1>3. \A key \in MessageKeys : Behind(key, s) => Behind(key, d)
  <2> TAKE key \in MessageKeys
  <2>1. Len(key.chain.seed) \in Nat
    BY DEF MessageKeys, Chains
  <2> QED BY <1>1, <1>2, <2>1 DEF Behind
<1>4. \A k \in s.skipped_keys : k.key \in MessageKeys
  BY <1>2 DEF SkippedKeys
<1>5. UsedUp(d, used)
  BY <1>1, <1>2, <1>3, <1>4 DEF UsedUp
<1> QED BY <1>5 DEF d

\* A chain seeded with a key not drawn before is no chain there is.
LEMMA FreshChain ==
    ASSUME NEW c, NEW d, NEW fresh, fresh \in Secret(d), fresh \notin Drawn,
           Secret(c) \subseteq Drawn
    PROVE  ~ SameChain(c, d)
BY DEF SameChain, Secret

\* encrypt keeps the invariant of the keys.
LEMMA EncryptKeeps ==
    ASSUME SessionAssumption, PastShape, Kept, NEW e \in Ends, Encrypt(e)
    PROVE  PastShape' /\ Kept'
<1> DEFINE s == session[e]
           c == Counted(s)
           fresh == <<e, past.keys[e] + 1>>
           new == Sealed(e)
<1>1. session \in [Ends -> States] /\ s \in States
  BY DEF Kept, Typed
<1>2. UsedBy(e) \in SUBSET MessageKeys /\ UsedUp(s, UsedBy(e))
  BY KeysUsed DEF Kept, OpenedOnce
<1>3. /\ c \in States /\ UsedUp(c, UsedBy(e))
      /\ SameChain(c.send_chain_key, s.send_chain_key)
      /\ c.send_chain_key.index = s.send_chain_key.index + 1
      /\ c.send_ratchet = s.send_ratchet /\ c.recv_ratchet_public = s.recv_ratchet_public
  BY <1>1, <1>2, CountedFields, CountedUsesNone
<1>4. /\ new.from = e /\ new.dh \in Drawn /\ new.prev \in Nat /\ new.num \in Nat
      /\ new.key \in MessageKeys /\ new.key.chain = s.send_chain_key
      /\ \A m \in sent : m.key # new.key
  BY SealedIsNew
<1>5. /\ sent' = sent \cup {new} /\ matched' = matched
      /\ past'.rewound = past.rewound /\ past'.rematched = past.rematched
      /\ PastShape'
      /\ \/ session' = [session EXCEPT ![e] = c] /\ past'.keys = past.keys
         \/ /\ session' = [session EXCEPT ![e] = AdvanceSendRatchet(c, fresh)]
            /\ past'.keys = [past.keys EXCEPT ![e] = @ + 1]
  <2>1. past.keys[e] + 1 \in Nat /\ past.keys \in [Ends -> Nat]
    BY DEF PastShape
  <2>2. sent' = sent \cup {new} /\ matched' = matched
    BY DEF Encrypt
  <2>3. CASE ShouldRatchet(c)
    <3> DEFINE d == AdvanceSendRatchet(c, fresh)
               late == past.disturbed \/ past.keys[Peer(e)] > Heard(e)
    <3>1. /\ session' = [session EXCEPT ![e] = d]
          /\ past' = [past EXCEPT !.keys[e] = past.keys[e] + 1, !.disturbed = late]
      BY <2>3 DEF Encrypt
    <3> HIDE DEF d, late
    <3>2. /\ past'.keys = [past.keys EXCEPT ![e] = @ + 1]
          /\ past'.rewound = past.rewound /\ past'.rematched = past.rematched
          /\ PastShape'
      BY <2>1, <3>1 DEF PastShape
    <3> QED BY <2>2, <3>1, <3>2 DEF d
  <2>4. CASE ~ ShouldRatchet(c)
    <3>1. session' = [session EXCEPT ![e] = c] /\ past' = past
      BY <2>4 DEF Encrypt
    <3> QED BY <2>2, <3>1 DEF PastShape
  <2> QED BY <2>3, <2>4
<1> HIDE DEF s, c, new
\* What both cases have in common.
<1>6. SealedOnce'
  BY <1>4, <1>5 DEF Kept, SealedOnce
<1>7. \A f \in Ends : UsedBy(f)' = UsedBy(f)
  BY <1>5 DEF UsedBy
<1>8. ASSUME session'[e] \in States, UsedUp(session'[e], UsedBy(e)),
             \A f \in Ends \ {e} : session'[f] = session[f],
             session' \in [Ends -> States]
      PROVE  Typed' /\ OpenedOnce'
  <2>1. Typed'
    BY <1>4, <1>5, <1>8 DEF Kept, Typed, Drawn
  <2>2. OpenedOnce'
    BY <1>5, <1>7, <1>8 DEF Kept, OpenedOnce
  <2> QED BY <2>1, <2>2
<1>9. \A f \in Ends \ {e} : /\ ~ SameChain(s.send_chain_key, session[f].send_chain_key)
                            /\ ~ SameChain(session[f].send_chain_key, s.send_chain_key)
  BY DEF Kept, ChainsAhead, s
<1>10. \A m \in sent : SameChain(m.key.chain, s.send_chain_key)
                            => m.key.chain.index < s.send_chain_key.index
  BY DEF Kept, ChainsAhead, s
<1>11. Secret(new.key.chain) \subseteq Drawn
  BY <1>4 DEF Kept, SecretsDrawn, s
<1>12. CASE session' = [session EXCEPT ![e] = c] /\ past'.keys = past.keys
  <2>1. /\ session'[e] = c /\ \A f \in Ends \ {e} : session'[f] = session[f]
        /\ session' \in [Ends -> States]
    BY <1>1, <1>3, <1>12
  <2>2. Typed' /\ OpenedOnce'
    BY <1>3, <1>8, <2>1
  <2>3. Drawn' = Drawn
    BY <1>12 DEF Drawn
  <2>4. Secret(c.send_chain_key) = Secret(s.send_chain_key)
    BY <1>3 DEF SameChain, Secret
  <2>5. SecretsDrawn'
    BY <1>3, <1>4, <1>5, <1>11, <2>1, <2>3, <2>4 DEF Kept, SecretsDrawn, s
  <2>6. ASSUME NEW m \in sent', NEW f \in Ends,
               SameChain(m.key.chain, session'[f].send_chain_key)
        PROVE  m.key.chain.index < session'[f].send_chain_key.index
    <3>1. s.send_chain_key.index \in Nat
      BY <1>1 DEF States, Chains
    <3>2. CASE f = e /\ m \in sent
      <4>1. SameChain(m.key.chain, s.send_chain_key)
        BY <1>3, <2>1, <2>6, <3>2 DEF SameChain
      <4>2. m.key.chain.index \in Nat
        BY <3>2 DEF Kept, Typed, MessageKeys, Chains
      <4> QED BY <1>3, <1>10, <2>1, <3>1, <3>2, <4>1, <4>2
    <3>3. CASE f = e /\ m = new
      BY <1>3, <1>4, <2>1, <3>1, <3>3
    <3>4. CASE f # e /\ m \in sent
      BY <2>1, <2>6, <3>4 DEF Kept, ChainsAhead
    <3>5. CASE f # e /\ m = new
      BY <1>4, <1>9, <2>1, <2>6, <3>5
    <3> QED BY <1>5, <3>2, <3>3, <3>4, <3>5
  <2>7. ASSUME NEW f \in Ends, NEW g \in Ends, f # g
        PROVE  ~ SameChain(session'[f].send_chain_key, session'[g].send_chain_key)
    <3>1. CASE f = e
      BY <1>3, <1>9, <2>1, <2>7, <3>1 DEF SameChain
    <3>2. CASE g = e
      BY <1>3, <1>9, <2>1, <2>7, <3>2 DEF SameChain
    <3>3. CASE f # e /\ g # e
      BY <2>1, <2>7, <3>3 DEF Kept, ChainsAhead
    <3> QED BY <3>1, <3>2, <3>3
  <2>8. ChainsAhead'
    BY <2>6, <2>7 DEF ChainsAhead
  <2> QED BY <1>5, <1>6, <2>2, <2>5, <2>8 DEF Kept
<1>13. CASE /\ session' = [session EXCEPT ![e] = AdvanceSendRatchet(c, fresh)]
            /\ past'.keys = [past.keys EXCEPT ![e] = @ + 1]
  <2> DEFINE d == AdvanceSendRatchet(c, fresh)
  <2>1. fresh \in PrivateKeys /\ fresh \notin Drawn
    BY DEF PastShape, PrivateKeys, Drawn
  <2>2. /\ d \in States /\ UsedUp(d, UsedBy(e))
        /\ Secret(d.send_chain_key) = Dh(fresh, c.recv_ratchet_public)
        /\ d.send_ratchet = fresh /\ d.recv_ratchet_public = c.recv_ratchet_public
    BY <1>2, <1>3, <2>1, RatchetedFields, RatchetedUsesNone
  <2>3. Drawn \subseteq Drawn' /\ fresh \in Drawn'
    <3>1. past.keys \in [Ends -> Nat]
      BY DEF PastShape
    <3> QED BY <1>13, <2>1, <3>1 DEF Drawn, PrivateKeys
  <2> HIDE DEF d, fresh
  <2>4. /\ session'[e] = d /\ \A f \in Ends \ {e} : session'[f] = session[f]
        /\ session' \in [Ends -> States]
    BY <1>1, <1>13, <2>2 DEF d
  <2>5. Typed' /\ OpenedOnce'
    BY <1>8, <2>2, <2>4
  <2>6. c.recv_ratchet_public \in Drawn
    BY <1>3 DEF Kept, SecretsDrawn, s
  <2>7. Secret(d.send_chain_key) \subseteq Drawn' /\ fresh \in Secret(d.send_chain_key)
    BY <2>2, <2>3, <2>6 DEF Dh
  <2>8. SecretsDrawn'
    BY <1>4, <1>5, <1>11, <2>2, <2>3, <2>4, <2>6, <2>7 DEF Kept, SecretsDrawn
  <2>9. \A m \in sent' : Secret(m.key.chain) \subseteq Drawn
    BY <1>5, <1>11 DEF Kept, SecretsDrawn
  <2>10. \A m \in sent' : ~ SameChain(m.key.chain, d.send_chain_key)
    BY <2>1, <2>7, <2>9, FreshChain
  <2>11. \A f \in Ends \ {e} : ~ SameChain(session[f].send_chain_key, d.send_chain_key)
    BY <2>1, <2>7, FreshChain DEF Kept, SecretsDrawn
  <2>12. ASSUME NEW m \in sent', NEW f \in Ends,
                SameChain(m.key.chain, session'[f].send_chain_key)
         PROVE  m.key.chain.index < session'[f].send_chain_key.index
    <3>1. f # e
      BY <2>4, <2>10, <2>12
    <3>2. CASE m \in sent
      BY <2>4, <2>12, <3>1, <3>2 DEF Kept, ChainsAhead
    <3>3. CASE m = new
      BY <1>4, <1>9, <2>4, <2>12, <3>1, <3>3
    <3> QED BY <1>5, <3>2, <3>3
  <2>13. ASSUME NEW f \in Ends, NEW g \in Ends, f # g
         PROVE  ~ SameChain(session'[f].send_chain_key, session'[g].send_chain_key)
    <3>1. CASE f = e
      BY <2>4, <2>11, <2>13, <3>1 DEF SameChain
    <3>2. CASE g = e
      BY <2>4, <2>11, <2>13, <3>2
    <3>3. CASE f # e /\ g # e
      BY <2>4, <2>13, <3>3 DEF Kept, ChainsAhead
    <3> QED BY <3>1, <3>2, <3>3
  <2>14. ChainsAhead'
    BY <2>12, <2>13 DEF ChainsAhead
  <2> QED BY <1>5, <1>6, <2>5, <2>8, <2>14 DEF Kept
<1> QED BY <1>5, <1>12, <1>13

\* A session that is put in place of another is noted, and one that is put in
\* its own place changes nothing.
LEMMA ReplaceKeeps ==
    ASSUME SessionInv, NEW e \in Ends, NEW s, Replace(e, s)
    PROVE  SessionInv'
<1>1. /\ PastShape' /\ past'.keys = past.keys /\ past'.rematched = past.rematched
      /\ past'.rewound = (past.rewound \/ s # session[e])
      /\ session' = [session EXCEPT ![e] = s] /\ sent' = sent /\ matched' = matched
  BY DEF SessionInv, PastShape, Replace
<1>2. CASE ~ past.rewound /\ s = session[e]
  <2>1. Kept
    BY <1>2 DEF SessionInv
  <2>2. session' = session
    BY <1>1, <1>2, <2>1 DEF Kept, Typed
  <2>3. Drawn' = Drawn /\ \A f \in Ends : UsedBy(f)' = UsedBy(f)
    BY <1>1 DEF Drawn, UsedBy
  <2>4. Kept'
    BY <1>1, <2>1, <2>2, <2>3
       DEF Kept, Typed, SecretsDrawn, ChainsAhead, SealedOnce, OpenedOnce
  <2> QED BY <1>1, <2>4 DEF SessionInv
<1> QED BY <1>1, <1>2 DEF SessionInv

\* That an end went back is not forgotten.
LEMMA RewoundForGood ==
    ASSUME SessionInv, past.rewound, [SessionNext]_sessionVars
    PROVE  PastShape' /\ past'.rewound
<1>1. ASSUME NEW e \in Ends, Encrypt(e) PROVE PastShape' /\ past'.rewound
  <2>1. past.keys \in [Ends -> Nat] /\ past.keys[e] + 1 \in Nat /\ PastShape
    BY DEF SessionInv, PastShape
  <2> DEFINE late == past.disturbed \/ past.keys[Peer(e)] > Heard(e)
  <2>2. \/ past' = past
        \/ past' = [past EXCEPT !.keys[e] = past.keys[e] + 1, !.disturbed = late]
    BY <1>1 DEF Encrypt
  <2> HIDE DEF late
  <2>3. CASE past' = past
    BY <2>1, <2>3 DEF PastShape
  <2>4. CASE past' = [past EXCEPT !.keys[e] = past.keys[e] + 1, !.disturbed = late]
    <3>1. /\ past'.keys = [past.keys EXCEPT ![e] = past.keys[e] + 1]
          /\ past'.rewound = past.rewound /\ DOMAIN past' = DOMAIN past
      BY <2>1, <2>4 DEF PastShape
    <3>2. past'.keys \in [Ends -> Nat]
      BY <2>1, <3>1
    <3> QED BY <2>1, <3>1, <3>2 DEF PastShape
  <2> QED BY <2>2, <2>3, <2>4
<1>2. ASSUME NEW m \in sent, NEW intact \in BOOLEAN, Deliver(m, intact)
      PROVE  PastShape' /\ past'.rewound
  BY <1>2 DEF Deliver, SessionInv, PastShape
<1>3. ASSUME NEW e \in Ends, NEW s, Replace(e, s) PROVE PastShape' /\ past'.rewound
  BY <1>3 DEF Replace, SessionInv, PastShape
<1>4. ASSUME NEW e \in Ends, SaveSession(e) PROVE PastShape' /\ past'.rewound
  BY <1>4 DEF SaveSession, SessionInv, PastShape
<1>5. CASE UNCHANGED sessionVars
  BY <1>5 DEF sessionVars, SessionInv, PastShape
<1> QED BY <1>1, <1>2, <1>3, <1>4, <1>5
      DEF SessionNext, Reload, CreateSession, RemoveSession

\* Every step keeps the invariant of the keys.
LEMMA NextSessionInv ==
    SessionAssumption /\ SessionInv /\ [SessionNext]_sessionVars => SessionInv'
<1> SUFFICES ASSUME SessionAssumption, SessionInv, [SessionNext]_sessionVars
             PROVE  SessionInv'
  OBVIOUS
<1>1. CASE past.rewound
  BY <1>1, RewoundForGood DEF SessionInv
<1>2. CASE ~ past.rewound
  <2>1. PastShape /\ Kept
    BY <1>2 DEF SessionInv
  <2>2. ASSUME NEW e \in Ends, Encrypt(e) PROVE SessionInv'
    BY <2>1, <2>2, EncryptKeeps DEF SessionInv
  <2>3. ASSUME NEW m \in sent, NEW intact \in BOOLEAN, Deliver(m, intact) PROVE SessionInv'
    BY <2>1, <2>3, DeliverKeeps DEF SessionInv
  <2>4. ASSUME NEW e \in Ends, NEW s, Replace(e, s) PROVE SessionInv'
    BY <2>4, ReplaceKeeps
  <2>5. CASE UNCHANGED <<session, sent, matched, past>>
    <3>1. Drawn' = Drawn /\ \A f \in Ends : UsedBy(f)' = UsedBy(f)
      BY <2>5 DEF Drawn, UsedBy
    <3> QED BY <2>1, <2>5, <3>1
          DEF SessionInv, PastShape, Kept, Typed, SecretsDrawn, ChainsAhead,
              SealedOnce, OpenedOnce
  <2> QED BY <2>2, <2>3, <2>4, <2>5
        DEF SessionNext, SaveSession, Reload, CreateSession, RemoveSession, sessionVars
<1> QED BY <1>1, <1>2
-----------------------------------------------------------------------------
\* Two new sessions satisfy it.
LEMMA InitSessionInv == SessionAssumption /\ SessionInit => SessionInv
<1> SUFFICES ASSUME SessionAssumption, SessionInit PROVE SessionInv
  OBVIOUS
<1>1. \A e \in Ends : session[e] = NewSession(e)
  BY DEF SessionInit
<1>2. PastShape /\ ~ past.rematched /\ \A e \in Ends : past.keys[e] = 0
  BY DEF SessionInit, PastShape
<1>3. ASSUME NEW e \in Ends
      PROVE  /\ session[e] \in States
             /\ Secret(session[e].send_chain_key) = Dh(<<e, 0>>, <<Peer(e), 0>>)
             /\ session[e].send_ratchet = <<e, 0>>
             /\ session[e].recv_ratchet_public = <<Peer(e), 0>>
             /\ session[e].send_chain_key.label = IF e = Initiator THEN "send" ELSE "recv"
             /\ session[e].recv_chain_key.label # "chain"
             /\ session[e].skipped_keys = {}
  <2> DEFINE root   == << >>
             secret == Dh(<<e, 0>>, <<Peer(e), 0>>)
             sends  == IF e = Initiator THEN "send" ELSE "recv"
             hears  == IF e = Initiator THEN "recv" ELSE "send"
             out    == Chain(root, secret, sends)
             in     == Chain(root, secret, hears)
  <2>1. <<e, 0>> \in PrivateKeys /\ <<Peer(e), 0>> \in PrivateKeys
    BY TwoEnds DEF PrivateKeys
  <2>2. root \in Seq(Terms) /\ secret \in SUBSET PrivateKeys
    BY <2>1, Secrets DEF Terms
  <2>3. sends \in {"send", "recv", "chain"} /\ hears \in {"send", "recv", "chain"}
    OBVIOUS
  <2>4. /\ out \in Chains /\ out.label = sends /\ Secret(out) = secret
        /\ in \in Chains /\ in.label = hears
    BY <2>2, <2>3, ChainIsChain
  <2>5. NewSession(e) =
          [salt |-> Salt(e),
           root_key |-> root, send_chain_key |-> out, recv_chain_key |-> in,
           send_ratchet |-> <<e, 0>>, recv_ratchet_public |-> <<Peer(e), 0>>,
           send_count |-> 0, recv_count |-> 0, prev_recv_chain |-> 0,
           skipped_keys |-> {}]
    BY DEF NewSession
  <2>6. hears # "chain"
    OBVIOUS
  <2> HIDE DEF root, out, in, secret
  <2>7. NewSession(e) \in States
    BY <2>1, <2>2, <2>4, <2>5 DEF States, Salt
  <2> QED BY <1>1, <2>4, <2>5, <2>6, <2>7 DEF secret
<1>4. session \in [Ends -> States] /\ sent = {} /\ matched = {}
  BY <1>3 DEF SessionInit
<1>5. Typed /\ SealedOnce
  BY <1>4 DEF Typed, SealedOnce
<1>6. SecretsDrawn
  <2>1. \A e \in Ends : <<e, 0>> \in Drawn
    BY <1>2 DEF Drawn, PrivateKeys
  <2>2. \A e \in Ends : <<Peer(e), 0>> \in Drawn
    BY <2>1, TwoEnds
  <2> QED BY <1>3, <1>4, <2>1, <2>2 DEF SecretsDrawn, Dh
<1>7. ChainsAhead
  <2>1. ASSUME NEW e \in Ends, NEW f \in Ends, e # f
        PROVE  session[e].send_chain_key.label # session[f].send_chain_key.label
    <3>1. e = Initiator \/ f = Initiator
      BY <2>1 DEF SessionAssumption
    <3> QED BY <1>3, <2>1, <3>1
  <2> QED BY <1>4, <2>1 DEF ChainsAhead, SameChain
<1>8. OpenedOnce
  <2>1. \A e \in Ends : UsedBy(e) = {}
    BY <1>4 DEF UsedBy
  <2> QED BY <1>2, <1>3, <2>1 DEF OpenedOnce, UsedUp
<1> QED BY <1>2, <1>5, <1>6, <1>7, <1>8 DEF SessionInv, Kept

\* For any number of messages in any order, repeated, damaged or lost, and any
\* ratchets: unless an end went back to an older session no key encrypts two
\* messages and no end derives the key of a message twice (encrypt, decrypt,
\* get_message_key).
THEOREM EveryKeyServesOnce == SessionSpec => []KeysServeOnce
<1>1. SessionInv => KeysServeOnce
  BY DEF SessionInv, Kept, OpenedOnce, SealedOnce, KeysServeOnce
<1>2. SessionAssumption
  BY SessionAssumption
<1> QED BY <1>1, <1>2, InitSessionInv, NextSessionInv, PTL DEF SessionSpec
-----------------------------------------------------------------------------
\* The secrets of the ratchets of e after the one with number `from`, up to the
\* one with number `to`, with the key of the peer with number l.
Mixed(e, from, to, l) ==
    [i \in 1 .. to - from |-> Dh(<<e, from + i>>, <<Peer(e), l>>)]

\* A root key after the ratchets of e.
Mixing(root, e, from, to, l) == root \o Mixed(e, from, to, l)

\* As many secrets as there are new key pairs.
LEMMA MixedTyped ==
    ASSUME SessionAssumption, NEW e \in Ends, NEW from \in Nat, NEW to \in Nat, NEW l \in Nat,
           from <= to
    PROVE  /\ Mixed(e, from, to, l) \in Seq(Terms)
           /\ Len(Mixed(e, from, to, l)) = to - from
<1>1. to - from \in Nat
  OBVIOUS
<1>2. ASSUME NEW i \in 1 .. to - from
      PROVE  Dh(<<e, from + i>>, <<Peer(e), l>>) \in Terms
  <2>1. from + i \in Nat
    OBVIOUS
  <2>2. <<e, from + i>> \in PrivateKeys /\ <<Peer(e), l>> \in PrivateKeys
    BY <2>1, TwoEnds DEF PrivateKeys
  <2> QED BY <2>2, Secrets DEF Terms
<1> DEFINE f == [i \in 1 .. to - from |-> Dh(<<e, from + i>>, <<Peer(e), l>>)]
<1>3. f \in [1 .. to - from -> Terms]
  BY <1>2
<1>4. f = Mixed(e, from, to, l)
  BY DEF Mixed
<1> HIDE DEF f
<1>5. f \in Seq(Terms) /\ Len(f) = to - from
  BY <1>1, <1>3
<1> QED BY <1>4, <1>5

\* No new key pair, no secret.
LEMMA NoSecrets ==
    ASSUME NEW e, NEW n \in Nat, NEW l, NEW root \in Seq(Terms)
    PROVE  Mixing(root, e, n, n, l) = root
<1>1. Mixed(e, n, n, l) = << >>
  BY DEF Mixed
<1> QED BY <1>1, ConcatEmptySeq DEF Mixing

\* The secret of the next key pair comes at the end ...
LEMMA OneMoreSecret ==
    ASSUME SessionAssumption, NEW e \in Ends, NEW from \in Nat, NEW to \in Nat, NEW l \in Nat,
           from <= to, NEW root \in Seq(Terms)
    PROVE  Append(Mixing(root, e, from, to, l), Dh(<<e, to + 1>>, <<Peer(e), l>>))
              = Mixing(root, e, from, to + 1, l)
<1> DEFINE d(i) == Dh(<<e, from + i>>, <<Peer(e), l>>)
           a == Mixed(e, from, to, l)
           b == Mixed(e, from, to + 1, l)
           z == d(to - from + 1)
<1>1. /\ a \in Seq(Terms) /\ Len(a) = to - from
      /\ b \in Seq(Terms) /\ Len(b) = to - from + 1
  <2>1. to + 1 \in Nat /\ from <= to /\ from <= to + 1 /\ (to + 1) - from = to - from + 1
    OBVIOUS
  <2>2. \A n \in Nat : from <= n => /\ Mixed(e, from, n, l) \in Seq(Terms)
                                   /\ Len(Mixed(e, from, n, l)) = n - from
    BY MixedTyped, Zenon
  <2> QED BY <2>1, <2>2
<1>2. (\A i \in 1 .. to - from : a[i] = d(i)) /\ \A i \in 1 .. to - from + 1 : b[i] = d(i)
  BY DEF Mixed
<1>3. d(to - from + 1) \in Terms
  <2>1. to - from + 1 \in 1 .. Len(b)
    BY <1>1
  <2>2. b[to - from + 1] \in Terms
    BY <1>1, <2>1, ElementOfSeq
  <2>3. b[to - from + 1] = d(to - from + 1)
    BY <1>1, <1>2, <2>1
  <2> HIDE DEF d
  <2> QED BY <2>2, <2>3
<1> HIDE DEF a, b
<1>4. z \in Terms
  BY <1>3
<1>5. b[to - from + 1] = z /\ \A i \in 1 .. to - from : a[i] = b[i]
  <2>1. \A i \in 1 .. to - from : i \in 1 .. to - from + 1
    OBVIOUS
  <2>2. to - from + 1 \in 1 .. to - from + 1
    OBVIOUS
  <2> HIDE DEF d
  <2> QED BY <1>2, <2>1, <2>2
<1> HIDE DEF z
<1>6. Append(a, z) = b
  <2> DEFINE x == Append(a, z)
  <2>1. /\ x \in Seq(Terms) /\ Len(x) = to - from + 1
        /\ \A i \in 1 .. to - from : x[i] = a[i]
        /\ x[to - from + 1] = z
    BY <1>1, <1>4, AppendProperties
  <2> HIDE DEF x
  <2>2. ASSUME NEW i \in 1 .. to - from + 1 PROVE x[i] = b[i]
    <3>1. CASE i = to - from + 1
      BY <1>5, <2>1, <3>1
    <3>2. CASE i \in 1 .. to - from
      BY <1>5, <2>1, <3>2
    <3> QED BY <3>1, <3>2
  <2>3. x = b
    BY <1>1, <2>1, <2>2, SeqEqual
  <2> QED BY <2>3 DEF x
<1>7. Append(root \o a, z) = root \o b
  <2> DEFINE f == <<z>>
  <2>1. f \in Seq(Terms)
    BY <1>4
  <2>2. root \o a \in Seq(Terms)
    BY <1>1, ConcatProperties
  <2>3. Append(root \o a, z) = (root \o a) \o f
    BY <1>4, <2>2, AppendIsConcat
  <2>4. Append(a, z) = a \o f
    BY <1>1, <1>4, AppendIsConcat
  <2> HIDE DEF f
  <2>5. (root \o a) \o f = root \o (a \o f)
    <3>1. ASSUME NEW u \in Seq(Terms), NEW v \in Seq(Terms), NEW w \in Seq(Terms)
          PROVE  (u \o v) \o w = u \o (v \o w)
      BY ConcatAssociative
    <3>2. a \in Seq(Terms)
      BY <1>1
    <3> QED BY <2>1, <3>1, <3>2, Zenon
  <2> QED BY <1>6, <2>3, <2>4, <2>5
<1>8. from + (to - from + 1) = to + 1
  OBVIOUS
<1> QED BY <1>7, <1>8 DEF a, b, d, z, Mixing

\* ... also when it is the only one.
LEMMA OneSecret ==
    ASSUME SessionAssumption
    PROVE  \A e \in Ends, n \in Nat, l \in Nat, root \in Seq(Terms) :
              Append(root, Dh(<<e, n + 1>>, <<Peer(e), l>>)) = Mixing(root, e, n, n + 1, l)
<1> TAKE e \in Ends, n \in Nat, l \in Nat, root \in Seq(Terms)
<1>1. Mixing(root, e, n, n, l) = root
  BY NoSecrets
<1>2. n <= n
  OBVIOUS
<1>3. Append(Mixing(root, e, n, n, l), Dh(<<e, n + 1>>, <<Peer(e), l>>))
        = Mixing(root, e, n, n + 1, l)
  BY <1>2, OneMoreSecret
<1> QED BY <1>1, <1>3

\* The receiver mixes the first of them in by itself.
LEMMA FirstSecret ==
    ASSUME SessionAssumption, NEW e \in Ends, NEW from \in Nat, NEW to \in Nat, NEW l \in Nat,
           from < to, NEW root \in Seq(Terms)
    PROVE  Mixing(Append(root, Dh(<<e, from + 1>>, <<Peer(e), l>>)), e, from + 1, to, l)
              = Mixing(root, e, from, to, l)
<1> DEFINE d(i) == Dh(<<e, from + i>>, <<Peer(e), l>>)
           a == Mixed(e, from + 1, to, l)
           b == Mixed(e, from, to, l)
<1>1. /\ a \in Seq(Terms) /\ Len(a) = to - from - 1
      /\ b \in Seq(Terms) /\ Len(b) = to - from
  <2>1. from + 1 \in Nat /\ from + 1 <= to /\ to - (from + 1) = to - from - 1
    OBVIOUS
  <2>2. from <= to
    OBVIOUS
  <2>3. b \in Seq(Terms) /\ Len(b) = to - from
    BY <2>2, MixedTyped, Zenon
  <2>4. \A n \in Nat : n <= to => /\ Mixed(e, n, to, l) \in Seq(Terms)
                                 /\ Len(Mixed(e, n, to, l)) = to - n
    BY MixedTyped, Zenon
  <2> QED BY <2>1, <2>3, <2>4
<1>2. (\A i \in 1 .. to - from - 1 : a[i] = d(i + 1)) /\ \A i \in 1 .. to - from : b[i] = d(i)
  <2>1. \A i \in 1 .. to - from - 1 : (from + 1) + i = from + (i + 1)
    OBVIOUS
  <2>2. to - (from + 1) = to - from - 1
    OBVIOUS
  <2> QED BY <2>1, <2>2 DEF Mixed
<1>3. d(1) \in Terms
  <2>1. 1 \in 1 .. Len(b)
    BY <1>1
  <2>2. b[1] \in Terms
    BY <1>1, <2>1, ElementOfSeq
  <2>3. b[1] = d(1)
    BY <1>1, <1>2, <2>1
  <2> HIDE DEF d
  <2> QED BY <2>2, <2>3
<1> HIDE DEF a, b, d
<1>4. <<d(1)>> \in Seq(Terms) /\ Len(<<d(1)>>) = 1 /\ <<d(1)>>[1] = d(1)
  BY <1>3
<1> DEFINE f == <<d(1)>>
<1> HIDE DEF f
<1>5. /\ f \o a \in Seq(Terms) /\ Len(f \o a) = to - from
      /\ \A i \in 1 .. to - from :
            (f \o a)[i] = IF i <= 1 THEN f[i] ELSE a[i - 1]
  <2>1. f \in Seq(Terms) /\ Len(f) = 1 /\ 1 + (to - from - 1) = to - from
    BY <1>4 DEF f
  <2>2. /\ f \o a \in Seq(Terms) /\ Len(f \o a) = Len(f) + Len(a)
        /\ \A i \in 1 .. Len(f) + Len(a) :
              (f \o a)[i] = IF i <= Len(f) THEN f[i] ELSE a[i - Len(f)]
    BY <1>1, <2>1, ConcatProperties
  <2> DEFINE x == f \o a
  <2> HIDE DEF x
  <2>3. /\ x \in Seq(Terms) /\ Len(x) = to - from
        /\ \A i \in 1 .. to - from : x[i] = IF i <= 1 THEN f[i] ELSE a[i - 1]
    BY <1>1, <2>1, <2>2 DEF x
  <2> QED BY <2>3 DEF x
<1>6. ASSUME NEW i \in 1 .. to - from PROVE (f \o a)[i] = b[i]
  <2>1. CASE i = 1
    BY <1>2, <1>4, <1>5, <2>1 DEF f
  <2>2. CASE i # 1
    <3>1. i - 1 \in 1 .. to - from - 1 /\ (i - 1) + 1 = i /\ ~ (i <= 1)
      BY <2>2
    <3>2. (f \o a)[i] = a[i - 1]
      BY <1>5, <3>1
    <3> QED BY <1>2, <3>1, <3>2
  <2> QED BY <2>1, <2>2
<1>7. f \o a = b
  <2> DEFINE x == f \o a
  <2>1. x \in Seq(Terms) /\ Len(x) = to - from /\ \A i \in 1 .. to - from : x[i] = b[i]
    BY <1>5, <1>6
  <2> HIDE DEF x
  <2>2. x = b
    BY <1>1, <2>1, SeqEqual
  <2> QED BY <2>2 DEF x
<1>8. Append(root, d(1)) = root \o f
  BY <1>3, AppendIsConcat DEF f
<1>9. f \in Seq(Terms)
  BY <1>4 DEF f
<1>10. (root \o f) \o a = root \o (f \o a)
  BY <1>1, <1>9, ConcatAssociative, SMTT(30)
<1> QED BY <1>7, <1>8, <1>10 DEF a, b, d, Mixing

-----------------------------------------------------------------------------
\* The key put by for a place of a chain is the one at that place.
FromChain(k, chain) ==
    SameChain(k.key.chain, chain) /\ k.key.chain.index = k.num /\ k.key.num = k.num

\* The head of the receiving chain is the next message's.
AtHead(s) == s.recv_chain_key.index = s.recv_count

\* Equal places of the same chain are the same key.
LEMMA SameKey ==
    ASSUME NEW j \in MessageKeys, NEW k \in MessageKeys, SameChain(j.chain, k.chain),
           j.chain.index = k.chain.index, j.num = k.num
    PROVE  j = k
<1>1. j.chain \in Chains /\ k.chain \in Chains
  BY DEF MessageKeys
<1>2. j.chain = k.chain
  BY <1>1 DEF Chains, SameChain
<1> QED BY <1>2 DEF MessageKeys

\* The keys put by on the way to the message with number `until`, each with
\* its number and from its place of the chain.
LEMMA SkipPutsBy ==
    ASSUME NEW s \in States, NEW until \in Nat, AtHead(s)
    PROVE  LET t == SkipMessageKeys(s, until)
           IN  /\ AtHead(t)
               /\ t.recv_count = IF until <= s.recv_count THEN s.recv_count ELSE until
               /\ t.send_count = s.send_count /\ t.prev_recv_chain = s.prev_recv_chain
               /\ \A k \in t.skipped_keys :
                     \/ k \in s.skipped_keys
                     \/ k.dh = s.recv_ratchet_public /\ FromChain(k, s.recv_chain_key)
               /\ \A n \in Nat : s.recv_count <= n /\ n < until =>
                     \E k \in t.skipped_keys : k.dh = s.recv_ratchet_public /\ k.num = n
               /\ \A k \in s.skipped_keys : k.num < s.recv_count => k \in t.skipped_keys
<1> DEFINE t == SkipMessageKeys(s, until)
           gap == {n \in 0 .. until - 1 : n >= s.recv_count}
           key(n) == MessageKey([s.recv_chain_key EXCEPT !.index = @ + n - s.recv_count], n)
           put == {[dh |-> s.recv_ratchet_public, num |-> n, key |-> key(n)] : n \in gap}
           kept == put \cup {k \in s.skipped_keys : \A p \in put :
                                  <<k.dh, k.num>> # <<p.dh, p.num>>}
<1>1. /\ s.recv_count \in Nat /\ s.recv_chain_key \in Chains
      /\ s.skipped_keys \in SUBSET SkippedKeys
  BY DEF States
<1>2. s.recv_count + Cardinality(gap) = IF until <= s.recv_count THEN s.recv_count ELSE until
  <2>1. s.recv_count \in Nat
    BY <1>1
  <2> QED BY <2>1, Gap, Zenon
<1>3. \A n \in gap : n \in Nat /\ s.recv_count <= n
  BY <1>1
<1>4. \A n \in Nat : s.recv_count <= n /\ n < until => n \in gap
  OBVIOUS
<1>5. \A n \in gap : /\ SameChain(key(n).chain, s.recv_chain_key)
                     /\ key(n).chain.index = n /\ key(n).num = n
  <2> TAKE n \in gap
  <2>1. s.recv_count + n - s.recv_count = n
    BY <1>1, <1>3
  <2> QED BY <1>1, <1>3, <2>1 DEF MessageKey, SameChain, Chains, AtHead
<1>6. t = [s EXCEPT !.recv_chain_key.index = @ + Cardinality(gap),
                    !.recv_count = @ + Cardinality(gap), !.skipped_keys = kept]
  BY DEF SkipMessageKeys, key
<1> HIDE DEF gap, key, t
<1>7. \A k \in put : \E n \in gap : k.num = n /\ k.dh = s.recv_ratchet_public /\ k.key = key(n)
  OBVIOUS
<1>8. \A n \in gap : \E k \in put : k.num = n /\ k.dh = s.recv_ratchet_public
  <2> TAKE n \in gap
  <2>1. [dh |-> s.recv_ratchet_public, num |-> n, key |-> key(n)] \in put
    OBVIOUS
  <2> QED BY <2>1
<1> HIDE DEF put
<1>9. \A k \in s.skipped_keys : k.num < s.recv_count => k \in kept
  <2> SUFFICES ASSUME NEW k \in s.skipped_keys, k.num < s.recv_count PROVE k \in kept
    OBVIOUS
  <2>1. k.num \in Nat
    BY <1>1 DEF SkippedKeys
  <2>2. \A p \in put : p.num \in Nat /\ s.recv_count <= p.num
    BY <1>3, <1>7
  <2>3. \A p \in put : p.num # k.num
    BY <1>1, <2>1, <2>2
  <2> QED BY <2>3
<1>10. kept \subseteq put \cup s.skipped_keys /\ put \subseteq kept
  OBVIOUS
<1> HIDE DEF kept
<1>11. /\ t.recv_count = s.recv_count + Cardinality(gap)
       /\ t.recv_chain_key.index = s.recv_chain_key.index + Cardinality(gap)
       /\ t.skipped_keys = kept
       /\ t.send_count = s.send_count /\ t.prev_recv_chain = s.prev_recv_chain
  BY <1>1, <1>6 DEF States, Chains
<1>12. AtHead(t)
  BY <1>11 DEF AtHead
<1>13. \A k \in put : k.dh = s.recv_ratchet_public /\ FromChain(k, s.recv_chain_key)
  BY <1>5, <1>7 DEF FromChain
<1>14. \A k \in t.skipped_keys : k \in s.skipped_keys \/ k \in put
  BY <1>10, <1>11
<1>15. \A n \in gap : \E k \in t.skipped_keys : k.dh = s.recv_ratchet_public /\ k.num = n
  BY <1>8, <1>10, <1>11
<1> QED BY <1>2, <1>4, <1>9, <1>11, <1>12, <1>13, <1>14, <1>15 DEF t

(***************************************************************************)
(* A message whose key has been put by, or that is not behind the head of  *)
(* its chain, is decrypted with the key at its place, and every message    *)
(* before the new head but this one still has its key put by.              *)
(***************************************************************************)
Takes(s, m, r) ==
    /\ r.state \in States /\ AtHead(r.state)
    /\ r.state.send_chain_key = s.send_chain_key /\ r.state.send_ratchet = s.send_ratchet
    /\ r.state.recv_ratchet_public = s.recv_ratchet_public
    /\ r.state.root_key = s.root_key
    /\ r.state.send_count = s.send_count /\ r.state.prev_recv_chain = s.prev_recv_chain
    /\ SameChain(r.state.recv_chain_key, s.recv_chain_key)
    /\ r.state.recv_count \in {s.recv_count, m.num + 1}
    /\ \A k \in r.state.skipped_keys :
          \/ k \in s.skipped_keys
          \/ k.dh = s.recv_ratchet_public /\ FromChain(k, s.recv_chain_key)
    /\ \A n \in Nat : /\ n < r.state.recv_count /\ n # m.num
                      /\ n < s.recv_count => \E k \in s.skipped_keys :
                                                k.dh = s.recv_ratchet_public /\ k.num = n
          => \E k \in r.state.skipped_keys : k.dh = s.recv_ratchet_public /\ k.num = n
    /\ r.key \in MessageKeys /\ SameChain(r.key.chain, s.recv_chain_key)
    /\ r.key.chain.index = m.num /\ r.key.num = m.num

\* A message behind the head is opened with the key that was put by.
LEMMA TakesPutBy ==
    ASSUME NEW s \in States, NEW m, m.num \in Nat, AtHead(s), SkippedFor(s, m) # {},
           m.dh = s.recv_ratchet_public,
           \A k \in s.skipped_keys :
               k.dh = s.recv_ratchet_public => FromChain(k, s.recv_chain_key)
    PROVE  Takes(s, m, GetMessageKey(s, m))
<1> DEFINE k == CHOOSE j \in SkippedFor(s, m) : TRUE
           t == [s EXCEPT !.skipped_keys = @ \ SkippedFor(s, m)]
<1>1. k \in s.skipped_keys /\ k.dh = m.dh /\ k.num = m.num
  BY DEF SkippedFor
<1>2. s.skipped_keys \in SUBSET SkippedKeys
  BY DEF States
<1>3. /\ t \in States
      /\ t.recv_chain_key = s.recv_chain_key /\ t.root_key = s.root_key
      /\ t.send_chain_key = s.send_chain_key /\ t.send_ratchet = s.send_ratchet
      /\ t.recv_ratchet_public = s.recv_ratchet_public
      /\ t.recv_count = s.recv_count /\ t.send_count = s.send_count
      /\ t.prev_recv_chain = s.prev_recv_chain
      /\ t.skipped_keys = s.skipped_keys \ SkippedFor(s, m)
  BY DEF States
<1>4. GetMessageKey(s, m) = [state |-> t, key |-> k.key]
  BY DEF GetMessageKey, Opening
<1> HIDE DEF k, t
<1>5. FromChain(k, s.recv_chain_key) /\ k.key \in MessageKeys
  BY <1>1, <1>2 DEF SkippedKeys
<1>6. ASSUME NEW n \in Nat, n < t.recv_count, n # m.num,
             n < s.recv_count => \E j \in s.skipped_keys :
                                    j.dh = s.recv_ratchet_public /\ j.num = n
      PROVE  \E j \in t.skipped_keys : j.dh = s.recv_ratchet_public /\ j.num = n
  BY <1>3, <1>6 DEF SkippedFor
<1>7. /\ AtHead(t) /\ SameChain(t.recv_chain_key, s.recv_chain_key)
      /\ \A j \in t.skipped_keys : j \in s.skipped_keys
  BY <1>3 DEF AtHead, SameChain
<1>8. /\ k.key \in MessageKeys /\ SameChain(k.key.chain, s.recv_chain_key)
      /\ k.key.chain.index = m.num /\ k.key.num = m.num
  BY <1>1, <1>5 DEF FromChain
<1> QED BY <1>3, <1>4, <1>6, <1>7, <1>8 DEF Takes

\* A message at the head or ahead of it is opened with the key at its place.
LEMMA TakesNext ==
    ASSUME NEW s \in States, NEW m, m.num \in Nat, AtHead(s), SkippedFor(s, m) = {},
           s.recv_count <= m.num, m.num - s.recv_count <= MaxSkippedKeys, SessionAssumption
    PROVE  Takes(s, m, GetMessageKey(s, m))
<1> DEFINE t == SkipMessageKeys(s, m.num)
           head == Advanced(t.recv_chain_key)
           u == [t EXCEPT !.recv_chain_key = head, !.recv_count = m.num + 1]
           key == MessageKey(t.recv_chain_key, m.num)
<1>1. s.recv_count \in Nat
  BY DEF States
<1>2. ~ TooMany(s, m.num)
  BY <1>1 DEF TooMany, SessionAssumption
<1>3. GetMessageKey(s, m) = [state |-> u, key |-> key]
  BY <1>2 DEF GetMessageKey, Opening
<1>4. /\ t \in States
      /\ t.send_chain_key = s.send_chain_key /\ t.root_key = s.root_key
      /\ t.send_ratchet = s.send_ratchet
      /\ t.recv_ratchet_public = s.recv_ratchet_public
      /\ SameChain(t.recv_chain_key, s.recv_chain_key)
  BY SkipFrame
<1>5. /\ AtHead(t) /\ t.recv_count = IF m.num <= s.recv_count THEN s.recv_count ELSE m.num
      /\ t.send_count = s.send_count /\ t.prev_recv_chain = s.prev_recv_chain
      /\ \A k \in t.skipped_keys :
            \/ k \in s.skipped_keys
            \/ k.dh = s.recv_ratchet_public /\ FromChain(k, s.recv_chain_key)
      /\ \A n \in Nat : s.recv_count <= n /\ n < m.num =>
            \E k \in t.skipped_keys : k.dh = s.recv_ratchet_public /\ k.num = n
      /\ \A k \in s.skipped_keys : k.num < s.recv_count => k \in t.skipped_keys
  BY SkipPutsBy
<1> HIDE DEF t
<1>6. t.recv_count = m.num /\ t.recv_chain_key.index = m.num
  BY <1>1, <1>5 DEF AtHead
<1>7. t.recv_chain_key \in Chains
  BY <1>4 DEF States
<1>8. /\ head \in Chains /\ SameChain(head, s.recv_chain_key) /\ head.index = m.num + 1
  BY <1>4, <1>6, <1>7, AdvancedChain DEF SameChain
<1> HIDE DEF head
<1>9. /\ u \in States /\ u.recv_chain_key = head /\ u.recv_count = m.num + 1
      /\ u.root_key = t.root_key /\ u.skipped_keys = t.skipped_keys
      /\ u.send_chain_key = t.send_chain_key /\ u.send_ratchet = t.send_ratchet
      /\ u.recv_ratchet_public = t.recv_ratchet_public
      /\ u.send_count = t.send_count /\ u.prev_recv_chain = t.prev_recv_chain
  <2>1. m.num + 1 \in Nat
    OBVIOUS
  <2> QED BY <1>4, <1>8, <2>1 DEF States
<1> HIDE DEF u
<1>10. /\ key \in MessageKeys /\ SameChain(key.chain, s.recv_chain_key)
       /\ key.chain.index = m.num /\ key.num = m.num
  BY <1>4, <1>6, <1>7 DEF MessageKey, MessageKeys, SameChain
<1> HIDE DEF key
<1>11. ASSUME NEW n \in Nat, n < u.recv_count, n # m.num,
              n < s.recv_count => \E j \in s.skipped_keys :
                                     j.dh = s.recv_ratchet_public /\ j.num = n
       PROVE  \E j \in u.skipped_keys : j.dh = s.recv_ratchet_public /\ j.num = n
  <2>1. n < m.num
    BY <1>9, <1>11
  <2>2. CASE n < s.recv_count
    BY <1>5, <1>9, <1>11, <2>2
  <2>3. CASE s.recv_count <= n
    BY <1>5, <1>9, <2>1, <2>3
  <2> QED BY <1>1, <2>2, <2>3
<1>12. AtHead(u) /\ SameChain(u.recv_chain_key, s.recv_chain_key)
  BY <1>8, <1>9 DEF AtHead
<1>13. \A k \in u.skipped_keys :
          \/ k \in s.skipped_keys
          \/ k.dh = s.recv_ratchet_public /\ FromChain(k, s.recv_chain_key)
  BY <1>5, <1>9
<1> QED BY <1>3, <1>4, <1>5, <1>9, <1>10, <1>11, <1>12, <1>13 DEF Takes

-----------------------------------------------------------------------------
\* The newest key of its peer an end knows.
Known(e) == session[e].recv_ratchet_public[2]

\* The root key of the peer of e followed by the secrets of the ratchets of e
\* it has still to hear of, up to the one with number g.
RootAhead(e, g) ==
    Mixing(session[Peer(e)].root_key, e, Known(Peer(e)), g, past.keys[Peer(e)])

\* The key pairs: an end knows its peer's last one, or its peer has heard of its own.
KeysInStep(e) ==
    /\ session[e].send_ratchet = <<e, past.keys[e]>>
    /\ session[e].recv_ratchet_public = <<Peer(e), Known(e)>>
    /\ Known(e) <= past.keys[Peer(e)]
    /\ Known(e) = past.keys[Peer(e)] \/ Known(Peer(e)) = past.keys[e]
    /\ Known(e) = past.keys[Peer(e)] => session[e].root_key = RootAhead(e, past.keys[e])

\* The counters fit the chains.
CountsInStep(e) ==
    /\ session[e].send_count < RatchetAfter
    /\ session[e].recv_count <= RatchetAfter /\ session[e].prev_recv_chain <= RatchetAfter
    /\ session[e].send_chain_key.index = session[e].send_count
    /\ AtHead(session[e])

\* A chain of e with the key number g is the one its peer listens on, or will.
ChainInStep(e, g, chain) ==
    /\ g = Known(Peer(e)) => SameChain(chain, session[Peer(e)].recv_chain_key)
    /\ g > Known(Peer(e)) => chain.label = "chain" /\ chain.seed = RootAhead(e, g)

\* The sending chain, and that its receiver is not past it.
ChainsInStep(e) ==
    /\ ChainInStep(e, past.keys[e], session[e].send_chain_key)
    /\ Known(Peer(e)) = past.keys[e] => session[Peer(e)].recv_count <= session[e].send_count

\* A message of e, delivered or not.
MessageInStep(e, m) ==
    /\ m.dh = <<e, m.dh[2]>> /\ m.dh[2] <= past.keys[e]
    /\ m.num < RatchetAfter /\ m.prev <= RatchetAfter
    /\ m.key.num = m.num /\ m.key.chain.index = m.num
    /\ m.dh[2] = past.keys[e] => m.num < session[e].send_count
    /\ ChainInStep(e, m.dh[2], m.key.chain)

\* The key of a message behind the head of its chain has been put by.
WaitsInStep(e, m) ==
    m.dh[2] = Known(Peer(e)) /\ m.num < session[Peer(e)].recv_count
        => \E k \in session[Peer(e)].skipped_keys : k.dh = m.dh /\ k.num = m.num

\* The peer knows of a key pair of e exactly when a message with it has arrived.
ArrivedInStep(e) ==
    /\ \A m \in arrived : m.from = e => m.dh[2] <= Known(Peer(e))
    /\ Known(Peer(e)) # 0 => \E m \in arrived : m.from = e /\ m.dh[2] = Known(Peer(e))

\* The keys e has put by.
SkippedInStep(e) ==
    \A k \in session[e].skipped_keys :
        /\ k.dh[2] <= Known(e)
        /\ k.dh = session[e].recv_ratchet_public => FromChain(k, session[e].recv_chain_key)

\* While nothing has disturbed the protocol.
InStep ==
    /\ \A e \in Ends : /\ KeysInStep(e) /\ CountsInStep(e) /\ ChainsInStep(e)
                       /\ ArrivedInStep(e) /\ SkippedInStep(e)
    /\ \A m \in sent : MessageInStep(m.from, m)
    /\ \A m \in sent \ arrived : WaitsInStep(m.from, m)

StepInv ==
    /\ SessionInv
    /\ arrived \subseteq sent
    /\ past.astray = FALSE
    /\ past.rewound => past.disturbed
    /\ ~ past.disturbed => InStep
-----------------------------------------------------------------------------
\* A private key is its end and its number.
LEMMA KeyPair == \A k \in PrivateKeys : k[1] \in Ends /\ k[2] \in Nat /\ k = <<k[1], k[2]>>
BY DEF PrivateKeys

\* The types every step needs.
LEMMA Ground ==
    ASSUME SessionAssumption, PastShape, Kept, NEW e \in Ends
    PROVE  /\ Peer(e) \in Ends /\ Peer(e) # e /\ Peer(Peer(e)) = e
           /\ \A f \in Ends : f # e => f = Peer(e)
           /\ session[e] \in States /\ Known(e) \in Nat /\ past.keys[e] \in Nat
           /\ session[e].root_key \in Seq(Terms)
           /\ session[e].send_count \in Nat /\ session[e].recv_count \in Nat
           /\ session[e].prev_recv_chain \in Nat
           /\ session[e].send_chain_key \in Chains /\ session[e].recv_chain_key \in Chains
           /\ session[e].skipped_keys \in SUBSET SkippedKeys
<1>1. Peer(e) \in Ends /\ Peer(e) # e /\ \A f \in Ends : f # e => f = Peer(e)
  BY TwoEnds
<1>2. Peer(Peer(e)) = e
  <2>1. Peer(Peer(e)) \in Ends /\ Peer(Peer(e)) # Peer(e)
    BY <1>1, TwoEnds
  <2> QED BY <1>1, <2>1
<1>3. session[e] \in States
  BY DEF Kept, Typed
<1>4. session[e].recv_ratchet_public \in PrivateKeys
  BY <1>3 DEF States
<1>5. Known(e) \in Nat
  BY <1>4, KeyPair DEF Known
<1>6. past.keys[e] \in Nat
  BY DEF PastShape
<1>7. /\ session[e].root_key \in Seq(Terms)
      /\ session[e].send_count \in Nat /\ session[e].recv_count \in Nat
      /\ session[e].prev_recv_chain \in Nat
      /\ session[e].send_chain_key \in Chains /\ session[e].recv_chain_key \in Chains
      /\ session[e].skipped_keys \in SUBSET SkippedKeys
  BY <1>3 DEF States
<1> QED BY <1>1, <1>2, <1>3, <1>5, <1>6, <1>7

\* Two ends begin in step.
LEMMA InitStepInv ==
    ASSUME SessionAssumption, SessionInit
    PROVE  StepInv
<1>1. SessionInv
  BY InitSessionInv
<1>2. ~ past.rewound /\ past.astray = FALSE /\ sent = {} /\ arrived = {}
  BY DEF SessionInit
<1>3. PastShape /\ Kept
  BY <1>1, <1>2 DEF SessionInv
<1>4. ASSUME NEW e \in Ends
      PROVE  /\ session[e] = NewSession(e) /\ past.keys[e] = 0
             /\ session[e].root_key = << >>
             /\ session[e].send_ratchet = <<e, 0>>
             /\ session[e].recv_ratchet_public = <<Peer(e), 0>> /\ Known(e) = 0
             /\ session[e].send_count = 0 /\ session[e].recv_count = 0
             /\ session[e].prev_recv_chain = 0 /\ session[e].skipped_keys = {}
             /\ session[e].send_chain_key.index = 0 /\ session[e].recv_chain_key.index = 0
             /\ session[e].send_chain_key.seed
                  = Append(<< >>, Dh(<<e, 0>>, <<Peer(e), 0>>))
             /\ session[e].recv_chain_key.seed
                  = Append(<< >>, Dh(<<e, 0>>, <<Peer(e), 0>>))
             /\ session[e].send_chain_key.label = IF e = Initiator THEN "send" ELSE "recv"
             /\ session[e].recv_chain_key.label = IF e = Initiator THEN "recv" ELSE "send"
  <2>1. session[e] = NewSession(e) /\ past.keys[e] = 0
    BY DEF SessionInit
  <2>2. session[e].recv_ratchet_public = <<Peer(e), 0>>
    BY <2>1 DEF NewSession
  <2> QED BY <2>1, <2>2 DEF NewSession, Chain, Known
<1>5. ASSUME NEW e \in Ends
      PROVE  /\ KeysInStep(e) /\ CountsInStep(e) /\ ChainsInStep(e)
             /\ ArrivedInStep(e) /\ SkippedInStep(e)
  <2>1. Peer(e) \in Ends /\ Peer(e) # e /\ Peer(Peer(e)) = e /\ session[e].root_key \in Seq(Terms)
        /\ session[Peer(e)].root_key \in Seq(Terms)
    BY <1>3, Ground
  <2>2. RootAhead(e, 0) = session[e].root_key
    <3>1. Known(Peer(e)) = 0 /\ session[Peer(e)].root_key = session[e].root_key
      BY <1>4, <2>1
    <3>2. Mixing(session[e].root_key, e, 0, 0, past.keys[Peer(e)]) = session[e].root_key
      BY <2>1, NoSecrets
    <3> QED BY <3>1, <3>2 DEF RootAhead
  <2>3. KeysInStep(e)
    BY <1>4, <2>1, <2>2 DEF KeysInStep
  <2>4. CountsInStep(e)
    BY <1>4 DEF CountsInStep, AtHead, SessionAssumption
  <2>5. e = Initiator <=> Peer(e) # Initiator
    BY <2>1, TwoEnds DEF SessionAssumption
  <2>6. Dh(<<e, 0>>, <<Peer(e), 0>>) = Dh(<<Peer(e), 0>>, <<e, 0>>)
    BY DEF Dh
  <2>7. SameChain(session[e].send_chain_key, session[Peer(e)].recv_chain_key)
    BY <1>4, <2>1, <2>5, <2>6, SMTT(30) DEF SameChain
  <2>8. ChainsInStep(e)
    BY <1>4, <2>1, <2>7 DEF ChainsInStep, ChainInStep
  <2>9. ArrivedInStep(e) /\ SkippedInStep(e)
    BY <1>2, <1>4, <2>1 DEF ArrivedInStep, SkippedInStep
  <2> QED BY <2>3, <2>4, <2>8, <2>9
<1>6. InStep
  BY <1>2, <1>5 DEF InStep
<1> QED BY <1>1, <1>2, <1>6 DEF StepInv
-----------------------------------------------------------------------------
\* In step, an end has heard of the newest key of its peer that it knows.
LEMMA HeardIsKnown ==
    ASSUME SessionAssumption, PastShape, Kept, arrived \subseteq sent, InStep, NEW e \in Ends
    PROVE  Heard(e) = Known(e)
<1> DEFINE p == Peer(e)
           gens == {m.dh[2] : m \in {n \in arrived : n.from # e}}
<1>1. p \in Ends /\ Peer(p) = e /\ p # e /\ Known(e) \in Nat /\ \A f \in Ends : f # e => f = p
  BY Ground
<1>2. ArrivedInStep(p)
  BY <1>1 DEF InStep
<1>3. \A m \in arrived : m.from \in Ends /\ m.dh[2] \in Nat
  BY KeyPair DEF Kept, Typed
<1> HIDE DEF p
<1>4. \A m \in arrived : m.from # e <=> m.from = p
  BY <1>1, <1>3
<1>5. \A g \in gens : g \in Nat /\ g <= Known(e)
  BY <1>1, <1>2, <1>3, <1>4 DEF ArrivedInStep
<1>6. Known(e) \in gens \cup {0}
  BY <1>1, <1>2, <1>4 DEF ArrivedInStep
<1>7. \A g \in gens \cup {0} : g \in Nat
  BY <1>5
<1> HIDE DEF gens
<1>8. \A g \in gens \cup {0} : (\A h \in gens : h <= g) => g = Known(e)
  BY <1>1, <1>5, <1>6, <1>7
<1>9. Heard(e) = CHOOSE g \in gens \cup {0} : \A h \in gens : h <= g
  BY DEF Heard, gens
<1> QED BY <1>5, <1>6, <1>8, <1>9

-----------------------------------------------------------------------------
\* encrypt, with its ratchet, keeps the ends in step.
LEMMA EncryptInStep ==
    ASSUME SessionAssumption, StepInv, NEW e \in Ends, Encrypt(e), ~ past'.disturbed
    PROVE  InStep'
<1> DEFINE s == session[e]
           c == Counted(s)
           fresh == <<e, past.keys[e] + 1>>
           d == AdvanceSendRatchet(c, fresh)
           new == Sealed(e)
           p == Peer(e)
           late == past.disturbed \/ past.keys[p] > Heard(e)
<1>1. /\ sent' = sent \cup {new} /\ arrived' = arrived
      /\ \/ /\ ~ ShouldRatchet(c)
            /\ session' = [session EXCEPT ![e] = c] /\ past' = past
         \/ /\ session' = [session EXCEPT ![e] = d]
            /\ past' = [past EXCEPT !.keys[e] = past.keys[e] + 1, !.disturbed = late]
  BY DEF Encrypt
<1>2. DOMAIN past = {"keys", "faults", "rewound", "disturbed", "rematched",
                    "astray", "refused"}
      /\ past.keys \in [Ends -> Nat]
  BY DEF StepInv, SessionInv, PastShape
<1> HIDE DEF d, late, new
<1>3. /\ ~ past.disturbed
      /\ \/ /\ ~ ShouldRatchet(c)
            /\ session' = [session EXCEPT ![e] = c] /\ past'.keys = past.keys
         \/ /\ session' = [session EXCEPT ![e] = d]
            /\ past'.keys = [past.keys EXCEPT ![e] = past.keys[e] + 1]
            /\ ~ late
  <2>1. CASE /\ ~ ShouldRatchet(c)
             /\ session' = [session EXCEPT ![e] = c] /\ past' = past
    BY <2>1
  <2>2. CASE /\ session' = [session EXCEPT ![e] = d]
             /\ past' = [past EXCEPT !.keys[e] = past.keys[e] + 1, !.disturbed = late]
    <3>1. /\ past'.keys = [past.keys EXCEPT ![e] = past.keys[e] + 1]
          /\ past'.disturbed = late
      BY <1>2, <2>2
    <3>2. ~ late
      BY <3>1, Zenon
    <3> QED BY <2>2, <3>1, <3>2 DEF late
  <2> QED BY <1>1, <2>1, <2>2
<1>4. PastShape /\ Kept /\ InStep /\ arrived \subseteq sent
  BY <1>3 DEF StepInv, SessionInv
<1>5. /\ p \in Ends /\ p # e /\ Peer(p) = e /\ \A f \in Ends : f # e => f = p
      /\ s \in States /\ session[p] \in States
      /\ Known(e) \in Nat /\ Known(p) \in Nat /\ past.keys[e] \in Nat /\ past.keys[p] \in Nat
      /\ s.root_key \in Seq(Terms) /\ session[p].root_key \in Seq(Terms)
      /\ s.send_count \in Nat /\ s.recv_count \in Nat /\ session[p].recv_count \in Nat
  <2>1. p \in Ends
    BY <1>4, Ground
  <2> QED BY <1>4, <2>1, Ground
<1>6. /\ KeysInStep(e) /\ CountsInStep(e) /\ ChainsInStep(e)
      /\ KeysInStep(p) /\ CountsInStep(p) /\ ChainsInStep(p)
  BY <1>4, <1>5 DEF InStep
<1>7. /\ c \in States
      /\ c.root_key = s.root_key /\ c.send_ratchet = s.send_ratchet
      /\ c.recv_ratchet_public = s.recv_ratchet_public
      /\ c.recv_chain_key = s.recv_chain_key
      /\ c.recv_count = s.recv_count /\ c.skipped_keys = s.skipped_keys
      /\ c.prev_recv_chain = s.prev_recv_chain
      /\ c.send_count = s.send_count + 1
      /\ SameChain(c.send_chain_key, s.send_chain_key)
      /\ c.send_chain_key.index = s.send_chain_key.index + 1
  BY <1>5, CountedFields
<1>8. /\ new.from = e /\ new.dh = s.send_ratchet /\ new.prev = s.prev_recv_chain
      /\ new.num = s.send_count /\ new.key.chain = s.send_chain_key /\ new.key.num = s.send_count
  BY DEF new, Sealed, MessageKey
<1> HIDE DEF c
\* The receiving half of both ends stays.
<1>9. /\ \A f \in Ends : /\ session'[f].recv_ratchet_public = session[f].recv_ratchet_public
                         /\ session'[f].recv_chain_key = session[f].recv_chain_key
                         /\ session'[f].recv_count = session[f].recv_count
                         /\ session'[f].skipped_keys = session[f].skipped_keys
                         /\ Known(f)' = Known(f)
      /\ session'[p] = session[p] /\ past'.keys[p] = past.keys[p]
      /\ session'[e] \in {c, d}
  <2>1. fresh \in PrivateKeys
    BY <1>5 DEF PrivateKeys
  <2>2. /\ d.recv_ratchet_public = s.recv_ratchet_public
        /\ d.recv_chain_key = s.recv_chain_key
        /\ d.recv_count = s.recv_count /\ d.skipped_keys = s.skipped_keys
    BY <1>7, <2>1, RatchetedFields DEF d
  <2>3. /\ session'[p] = session[p] /\ past'.keys[p] = past.keys[p]
        /\ session'[e] \in {c, d}
    <3>1. session \in [Ends -> States]
      BY <1>4 DEF Kept, Typed
    <3> QED BY <1>2, <1>3, <1>5, <3>1
  <2>4. ASSUME NEW f \in Ends
        PROVE  /\ session'[f].recv_ratchet_public = session[f].recv_ratchet_public
               /\ session'[f].recv_chain_key = session[f].recv_chain_key
               /\ session'[f].recv_count = session[f].recv_count
               /\ session'[f].skipped_keys = session[f].skipped_keys
    BY <1>5, <1>7, <2>2, <2>3
  <2> QED BY <2>3, <2>4 DEF Known
<1>10. \A f \in Ends : ArrivedInStep(f)' /\ SkippedInStep(f)'
  <2> TAKE f \in Ends
  <2>1. ArrivedInStep(f) /\ SkippedInStep(f) /\ Peer(f) \in Ends
    BY <1>4, Ground DEF InStep
  <2> QED BY <1>1, <1>9, <2>1 DEF ArrivedInStep, SkippedInStep
<1>11. ASSUME NEW m \in sent' \ arrived' PROVE WaitsInStep(m.from, m)'
  <2>1. CASE m \in sent
    <3>1. WaitsInStep(m.from, m) /\ m.from \in Ends
      BY <1>1, <1>4, <1>11, <2>1 DEF InStep, Kept, Typed
    <3>2. Peer(m.from) \in Ends
      BY <1>4, <3>1, Ground
    <3> QED BY <1>9, <3>1, <3>2 DEF WaitsInStep
  <2>2. CASE m = new
    <3>1. m.dh[2] = past.keys[e] /\ m.num = s.send_count /\ m.from = e
      BY <1>6, <1>8, <2>2 DEF KeysInStep
    <3>2. m.dh[2] = Known(p) => session[p].recv_count <= s.send_count
      BY <1>6, <3>1 DEF ChainsInStep
    <3> QED BY <1>5, <1>9, <3>1, <3>2 DEF WaitsInStep
  <2> QED BY <1>1, <2>1, <2>2
\* Chains of e are compared with the session of p, which stays.
<1>12. \A g, chain : /\ RootAhead(e, g)' = RootAhead(e, g)
                      /\ ChainInStep(e, g, chain)' <=> ChainInStep(e, g, chain)
  BY <1>9 DEF RootAhead, ChainInStep, Known
<1>13. ASSUME NEW g \in Nat, g <= past.keys[p], NEW chain, ChainInStep(p, g, chain)
       PROVE  ChainInStep(p, g, chain)'
  <2>1. /\ Known(e)' = Known(e)
        /\ session'[e].recv_chain_key = session[e].recv_chain_key
    BY <1>9
  <2>2. CASE session' = [session EXCEPT ![e] = c] /\ past'.keys = past.keys
    <3>1. session'[e].root_key = session[e].root_key
      BY <1>4, <1>7, <2>2 DEF Kept, Typed
    <3>2. RootAhead(p, g)' = RootAhead(p, g)
      BY <1>5, <2>1, <2>2, <3>1 DEF RootAhead
    <3> QED BY <1>5, <1>13, <2>1, <3>2 DEF ChainInStep
  <2>3. CASE ~ late
    <3>1. past.keys[p] <= Known(e)
      <4>1. Heard(e) = Known(e)
        BY <1>4, HeardIsKnown
      <4> QED BY <1>5, <2>3, <4>1 DEF late
    <3>2. ~ (g > Known(e))
      BY <1>5, <1>13, <3>1
    <3> QED BY <1>5, <1>13, <2>1, <3>2 DEF ChainInStep
  <2> QED BY <1>3, <2>2, <2>3
<1>14. ASSUME NEW g, NEW x, NEW y, SameChain(x, y), ChainInStep(e, g, y)
       PROVE  ChainInStep(e, g, x)
  BY <1>14 DEF ChainInStep, SameChain
<1>15. KeysInStep(p)' /\ ChainsInStep(p)' /\ CountsInStep(p)'
  <2>1. CountsInStep(p)'
    BY <1>6, <1>9 DEF CountsInStep
  <2>2. ChainsInStep(p)'
    <3>1. ChainInStep(p, past.keys[p], session[p].send_chain_key)'
      BY <1>5, <1>6, <1>9, <1>13 DEF ChainsInStep
    <3> QED BY <1>5, <1>6, <1>9, <3>1 DEF ChainsInStep
  <2>3. KeysInStep(p)'
    <3>1. CASE session' = [session EXCEPT ![e] = c] /\ past'.keys = past.keys
      <4>1. session'[e].root_key = session[e].root_key
        BY <1>4, <1>7, <3>1 DEF Kept, Typed
      <4>2. RootAhead(p, past.keys[p])' = RootAhead(p, past.keys[p])
        BY <1>5, <1>9, <3>1, <4>1 DEF RootAhead
      <4> QED BY <1>5, <1>6, <1>9, <3>1, <4>2 DEF KeysInStep
    <3>2. CASE past'.keys = [past.keys EXCEPT ![e] = past.keys[e] + 1] /\ ~ late
      <4>1. past.keys[p] <= Known(e)
        <5>1. Heard(e) = Known(e)
          BY <1>4, HeardIsKnown
        <5> QED BY <1>5, <3>2, <5>1 DEF late
      <4>2. past'.keys[e] = past.keys[e] + 1
        BY <1>2, <3>2
      <4>3. Known(p) <= past.keys[e] /\ Known(e) = past.keys[p]
        BY <1>5, <1>6, <4>1 DEF KeysInStep
      <4>4. Known(p) < past'.keys[e]
        BY <1>5, <4>2, <4>3
      <4> QED
        <5>1. /\ session'[p] = session[p] /\ past'.keys[p] = past.keys[p]
              /\ Known(p)' = Known(p) /\ Known(e)' = Known(e)
          BY <1>5, <1>9
        <5>2. Known(p)' # past'.keys[e]
          BY <1>5, <4>4, <5>1
        <5>3. /\ Peer(p) = e /\ session'[p].send_ratchet = <<p, past'.keys[p]>>
              /\ session'[p].recv_ratchet_public = <<e, Known(p)'>>
              /\ Known(p)' <= past'.keys[e] /\ Known(e)' = past'.keys[p]
          <6>1. /\ session[p].send_ratchet = <<p, past.keys[p]>>
                /\ session[p].recv_ratchet_public = <<e, Known(p)>>
            BY <1>5, <1>6 DEF KeysInStep
          <6>2. Known(p) <= past'.keys[e]
            BY <1>5, <4>2, <4>3
          <6> QED BY <1>5, <4>3, <5>1, <6>1, <6>2
        <5> QED BY <5>2, <5>3 DEF KeysInStep

    <3> QED BY <1>3, <3>1, <3>2
  <2> QED BY <2>1, <2>2, <2>3
<1>16. /\ KeysInStep(e)' /\ CountsInStep(e)' /\ ChainsInStep(e)'
       /\ past'.keys[e] = past.keys[e] => session'[e].send_count = s.send_count + 1
       /\ past'.keys[e] \in {past.keys[e], past.keys[e] + 1}
  <2>1. CASE /\ ~ ShouldRatchet(c)
             /\ session' = [session EXCEPT ![e] = c] /\ past'.keys = past.keys
    <3>1. session'[e] = c
      BY <1>4, <2>1 DEF Kept, Typed
    <3>2. KeysInStep(e)'
      BY <1>5, <1>6, <1>7, <1>9, <2>1, <3>1 DEF KeysInStep, RootAhead, Known
    <3>3. CountsInStep(e)'
      BY <1>5, <1>6, <1>7, <2>1, <3>1 DEF CountsInStep, ShouldRatchet, AtHead, SessionAssumption
    <3>4. ChainInStep(e, past.keys[e], c.send_chain_key)
      BY <1>6, <1>7, <1>14 DEF ChainsInStep
    <3>5. ChainsInStep(e)'
      BY <1>5, <1>6, <1>7, <1>9, <1>12, <2>1, <3>1, <3>4 DEF ChainsInStep
    <3> QED BY <1>7, <2>1, <3>1, <3>2, <3>3, <3>5
  <2>2. CASE /\ session' = [session EXCEPT ![e] = d]
             /\ past'.keys = [past.keys EXCEPT ![e] = past.keys[e] + 1]
             /\ ~ late
    <3> DEFINE secret == Dh(fresh, <<p, past.keys[p]>>)
    <3>1. session'[e] = d /\ past'.keys[e] = past.keys[e] + 1
      BY <1>2, <1>4, <2>2 DEF Kept, Typed
    <3>2. Known(e) = past.keys[p]
      <4>1. Heard(e) = Known(e)
        BY <1>4, HeardIsKnown
      <4> QED BY <1>5, <1>6, <2>2, <4>1 DEF late, KeysInStep
    <3>3. c.recv_ratchet_public = <<p, past.keys[p]>> /\ fresh \in PrivateKeys
      BY <1>5, <1>6, <1>7, <3>2 DEF KeysInStep, PrivateKeys
    <3>4. /\ d.root_key = Append(s.root_key, secret) /\ d.send_ratchet = fresh
          /\ d.recv_count = s.recv_count /\ d.recv_chain_key = s.recv_chain_key
          /\ d.prev_recv_chain = s.recv_count /\ d.send_count = 0
          /\ d.send_chain_key.label = "chain" /\ d.send_chain_key.index = 0
          /\ d.send_chain_key.seed = Append(s.root_key, secret)
      <4>1. Dh(fresh, s.recv_ratchet_public) = secret
        BY <1>7, <3>3
      <4>2. c \in States
        BY <1>7
      <4> HIDE DEF c
      <4>3. /\ d.root_key = Append(c.root_key, Dh(fresh, c.recv_ratchet_public))
            /\ d.send_ratchet = fresh
            /\ d.recv_count = c.recv_count /\ d.recv_chain_key = c.recv_chain_key
            /\ d.prev_recv_chain = c.recv_count /\ d.send_count = 0
            /\ d.send_chain_key.label = "chain" /\ d.send_chain_key.index = 0
            /\ d.send_chain_key.seed = d.root_key
        BY <3>3, <4>2, RatchetedFields DEF d
      <4> HIDE DEF s, secret, fresh
      <4> QED BY <1>7, <4>1, <4>3
    <3>5. Append(s.root_key, secret) = RootAhead(e, past.keys[e] + 1)
      <4>1. s.root_key = Mixing(session[p].root_key, e, Known(p), past.keys[e], past.keys[p])
        BY <1>6, <3>2 DEF KeysInStep, RootAhead
      <4>2. Known(p) <= past.keys[e]
        BY <1>5, <1>6 DEF KeysInStep
      <4>3. Append(Mixing(session[p].root_key, e, Known(p), past.keys[e], past.keys[p]), secret)
              = Mixing(session[p].root_key, e, Known(p), past.keys[e] + 1, past.keys[p])
        <5>1. ASSUME NEW g \in Nat, NEW h \in Nat, NEW l \in Nat, NEW root \in Seq(Terms), g <= h
              PROVE  Append(Mixing(root, e, g, h, l), Dh(<<e, h + 1>>, <<Peer(e), l>>))
                       = Mixing(root, e, g, h + 1, l)
          BY <5>1, OneMoreSecret, SMTT(30)
        <5>2. /\ Known(p) \in Nat /\ past.keys[e] \in Nat /\ past.keys[p] \in Nat
              /\ session[p].root_key \in Seq(Terms)
          BY <1>5
        <5>3. secret = Dh(<<e, past.keys[e] + 1>>, <<Peer(e), past.keys[p]>>)
          OBVIOUS
        <5> HIDE DEF secret, p
        <5>4. Append(Mixing(session[p].root_key, e, Known(p), past.keys[e], past.keys[p]),
                     Dh(<<e, past.keys[e] + 1>>, <<Peer(e), past.keys[p]>>))
              = Mixing(session[p].root_key, e, Known(p), past.keys[e] + 1, past.keys[p])
          BY <4>2, <5>1, <5>2, ZenonT(60)
        <5> QED BY <5>3, <5>4
      <4> QED BY <4>1, <4>3 DEF RootAhead
    <3>6. past'.keys[e] > Known(p) /\ past'.keys[e] # Known(p) /\ past'.keys[e] # past.keys[e]
      BY <1>5, <1>6, <3>1 DEF KeysInStep
    <3> HIDE DEF secret
    <3>7. KeysInStep(e)'
      <4>1. RootAhead(e, past.keys[e])' = RootAhead(e, past.keys[e] + 1)
        BY <1>5, <1>9, <3>1 DEF RootAhead, Known
      <4> QED BY <1>5, <1>6, <1>9, <3>1, <3>2, <3>4, <3>5, <4>1 DEF KeysInStep
    <3>8. CountsInStep(e)'
      BY <1>5, <1>6, <3>1, <3>4 DEF CountsInStep, AtHead, SessionAssumption
    <3>9. ChainInStep(e, past'.keys[e], d.send_chain_key)
      BY <3>1, <3>4, <3>5, <3>6 DEF ChainInStep
    <3>10. ChainsInStep(e)'
      <4>1. ChainInStep(e, past.keys[e], session[e].send_chain_key)'
        BY <1>5, <1>9, <3>1, <3>9 DEF ChainInStep, RootAhead, Known
      <4> QED BY <1>5, <1>9, <3>6, <4>1 DEF ChainsInStep, Known
    <3> QED BY <3>1, <3>6, <3>7, <3>8, <3>10
  <2> QED BY <1>3, <2>1, <2>2
<1>17. ASSUME NEW m \in sent' PROVE MessageInStep(m.from, m)'
  <2>1. CASE m \in sent /\ m.from = e
    <3>1. MessageInStep(e, m) /\ m.dh[2] \in Nat /\ m.num \in Nat
      BY <1>4, <2>1, KeyPair DEF InStep, Kept, Typed
    <3>2. m.dh[2] <= past'.keys[e]
      BY <1>5, <1>16, <3>1, SMTT(30) DEF MessageInStep
    <3>3. m.dh[2] = past'.keys[e] => m.num < session'[e].send_count
      BY <1>5, <1>16, <3>1, SMTT(30) DEF MessageInStep
    <3> QED BY <1>12, <2>1, <3>1, <3>2, <3>3 DEF MessageInStep
  <2>2. CASE m \in sent /\ m.from = p
    <3>1. MessageInStep(p, m) /\ m.dh[2] \in Nat
      BY <1>4, <2>2, KeyPair DEF InStep, Kept, Typed
    <3>2. ChainInStep(p, m.dh[2], m.key.chain)'
      BY <1>13, <3>1 DEF MessageInStep
    <3> QED BY <1>9, <2>2, <3>1, <3>2 DEF MessageInStep
  <2>3. CASE m = new
    <3>1. m.dh = <<e, past.keys[e]>> /\ m.dh[2] = past.keys[e]
      BY <1>6, <1>8, <2>3 DEF KeysInStep
    <3>2. ChainInStep(e, m.dh[2], m.key.chain)'
      BY <1>6, <1>8, <1>12, <2>3, <3>1 DEF ChainsInStep
    <3>3. m.dh[2] <= past'.keys[e]
      BY <1>5, <1>16, <3>1
    <3>4. m.dh[2] = past'.keys[e] => m.num < session'[e].send_count
      BY <1>5, <1>8, <1>16, <2>3, <3>1
    <3>5. m.num < RatchetAfter /\ m.prev <= RatchetAfter
          /\ m.key.num = m.num /\ m.key.chain.index = m.num
      BY <1>6, <1>8, <2>3 DEF CountsInStep
    <3> QED BY <1>8, <2>3, <3>1, <3>2, <3>3, <3>4, <3>5 DEF MessageInStep
  <2>4. m \in sent => m.from = e \/ m.from = p
    BY <1>4, <1>5 DEF Kept, Typed
  <2> QED BY <1>1, <2>1, <2>2, <2>3, <2>4
<1>18. \A f \in Ends : f = e \/ f = p
  BY <1>5
<1>19. \A f \in Ends : KeysInStep(f)' /\ CountsInStep(f)' /\ ChainsInStep(f)'
  BY <1>15, <1>16, <1>18
<1> QED BY <1>10, <1>11, <1>17, <1>19 DEF InStep

-----------------------------------------------------------------------------
(***************************************************************************)
(* What decrypt makes of a message of e that its peer is ready for: of the *)
(* newest key pair it has heard of, or of the one after that.              *)
(***************************************************************************)
Received(e, m, r) ==
    LET s == session[Peer(e)]
        t == r.state
    IN  /\ t.send_chain_key = s.send_chain_key /\ t.send_ratchet = s.send_ratchet
        /\ t.send_count = s.send_count /\ t.prev_recv_chain = s.prev_recv_chain
        /\ t.recv_ratchet_public = m.dh /\ AtHead(t)
        /\ m.dh[2] = Known(Peer(e)) =>
              /\ t.root_key = s.root_key /\ SameChain(t.recv_chain_key, s.recv_chain_key)
              /\ t.recv_count \in {s.recv_count, m.num + 1}
        /\ m.dh[2] # Known(Peer(e)) =>
              /\ t.root_key = RootAhead(e, m.dh[2])
              /\ t.root_key = Append(s.root_key, Dh(m.dh, s.send_ratchet))
              /\ t.recv_chain_key.label = "chain" /\ t.recv_chain_key.seed = t.root_key
              /\ t.recv_count \in {0, m.num + 1}
        /\ \A k \in t.skipped_keys :
              /\ k.dh[2] <= m.dh[2]
              /\ k.dh = m.dh => FromChain(k, t.recv_chain_key)
        /\ \A n \in Nat :
              /\ n < t.recv_count /\ n # m.num
              /\ m.dh[2] = Known(Peer(e)) /\ n < s.recv_count =>
                    \E k \in s.skipped_keys : k.dh = m.dh /\ k.num = n
              => \E k \in t.skipped_keys : k.dh = m.dh /\ k.num = n
        /\ r.key = m.key

\* decrypt of a message of the key pair that was heard last.
LEMMA ReceivedSame ==
    ASSUME SessionAssumption, PastShape, Kept, InStep, NEW m \in sent, m \notin arrived,
           m.dh[2] = Known(Peer(m.from))
    PROVE  Received(m.from, m, Opened(session[Peer(m.from)], m))
<1> DEFINE e == m.from
           p == Peer(e)
           s == session[p]
           r == Opened(s, m)
<1>1. /\ e \in Ends /\ m.num \in Nat /\ m.prev \in Nat /\ m.dh[2] \in Nat
      /\ m.key \in MessageKeys
  BY KeyPair DEF Kept, Typed
<1>2. /\ p \in Ends /\ Peer(p) = e /\ s \in States /\ s.recv_count \in Nat
      /\ s.skipped_keys \in SUBSET SkippedKeys
  <2>1. p \in Ends /\ Peer(p) = e
    BY <1>1, Ground
  <2> QED BY <2>1, Ground
<1>3. /\ KeysInStep(p) /\ CountsInStep(p) /\ SkippedInStep(p)
      /\ MessageInStep(e, m) /\ WaitsInStep(e, m)
  BY <1>1, <1>2 DEF InStep
<1>4. m.dh = s.recv_ratchet_public
  BY <1>2, <1>3 DEF MessageInStep, KeysInStep
<1>5. r = GetMessageKey(s, m)
  BY <1>4 DEF Opened
<1> HIDE DEF e, p, s, r
<1>6. Takes(s, m, r)
  <2>1. AtHead(s)
    BY <1>3 DEF CountsInStep, s
  <2>2. CASE SkippedFor(s, m) # {}
    <3>1. \A k \in s.skipped_keys :
             k.dh = s.recv_ratchet_public => FromChain(k, s.recv_chain_key)
      BY <1>3 DEF SkippedInStep, s
    <3> QED BY <1>1, <1>2, <1>4, <1>5, <2>1, <2>2, <3>1, TakesPutBy
  <2>3. CASE SkippedFor(s, m) = {}
    <3>1. ~ (m.num < s.recv_count)
      BY <1>3, <2>3 DEF WaitsInStep, SkippedFor, s, p, e
    <3>2. s.recv_count <= m.num
      BY <1>1, <1>2, <3>1
    <3>3. m.num < RatchetAfter
      BY <1>3 DEF MessageInStep
    <3>4. m.num - s.recv_count <= MaxSkippedKeys
      BY <1>1, <1>2, <3>2, <3>3 DEF SessionAssumption
    <3> QED BY <1>1, <1>2, <1>5, <2>1, <2>3, <3>2, <3>4, TakesNext
  <2> QED BY <2>2, <2>3
<1>7. r.key = m.key
  <2>1. SameChain(m.key.chain, s.recv_chain_key)
    BY <1>3 DEF MessageInStep, ChainInStep, s, p, e
  <2>2. SameChain(r.key.chain, m.key.chain)
    BY <1>6, <2>1 DEF Takes, SameChain
  <2>3. r.key \in MessageKeys /\ r.key.chain.index = m.key.chain.index /\ r.key.num = m.key.num
    BY <1>3, <1>6 DEF Takes, MessageInStep
  <2> QED BY <1>1, <2>2, <2>3, SameKey
<1>8. \A k \in r.state.skipped_keys :
         /\ k.dh[2] <= m.dh[2]
         /\ k.dh = m.dh => FromChain(k, r.state.recv_chain_key)
  <2> TAKE k \in r.state.skipped_keys
  <2>1. SameChain(r.state.recv_chain_key, s.recv_chain_key)
    BY <1>6 DEF Takes
  <2>2. CASE k \in s.skipped_keys
    <3>1. /\ k.dh[2] <= m.dh[2]
          /\ k.dh = s.recv_ratchet_public => FromChain(k, s.recv_chain_key)
      BY <1>3, <2>2 DEF SkippedInStep, s, p, e
    <3> QED BY <1>4, <2>1, <3>1 DEF FromChain, SameChain
  <2>3. CASE k.dh = s.recv_ratchet_public /\ FromChain(k, s.recv_chain_key)
    BY <1>1, <1>4, <2>1, <2>3 DEF FromChain, SameChain
  <2> QED BY <1>6, <2>2, <2>3 DEF Takes
<1>9. ASSUME NEW n \in Nat, n < r.state.recv_count, n # m.num,
             m.dh[2] = Known(p) /\ n < s.recv_count =>
                 \E k \in s.skipped_keys : k.dh = m.dh /\ k.num = n
      PROVE  \E k \in r.state.skipped_keys : k.dh = m.dh /\ k.num = n
  <2>1. n < s.recv_count => \E k \in s.skipped_keys : k.dh = m.dh /\ k.num = n
    BY <1>9 DEF p, e
  <2> QED BY <1>4, <1>6, <1>9, <2>1 DEF Takes
<1>10. /\ r.state.send_chain_key = s.send_chain_key /\ r.state.send_ratchet = s.send_ratchet
       /\ r.state.send_count = s.send_count /\ r.state.prev_recv_chain = s.prev_recv_chain
       /\ r.state.recv_ratchet_public = m.dh /\ AtHead(r.state)
       /\ r.state.root_key = s.root_key
       /\ SameChain(r.state.recv_chain_key, s.recv_chain_key)
       /\ r.state.recv_count \in {s.recv_count, m.num + 1}
  BY <1>4, <1>6 DEF Takes
<1>11. Received(e, m, r)
  BY <1>7, <1>8, <1>9, <1>10 DEF Received, s, p, e
<1> QED BY <1>11 DEF r, s, p, e

\* decrypt of a message of the next key pair: the receiver ratchets.
LEMMA ReceivedNext ==
    ASSUME SessionAssumption, PastShape, Kept, InStep, NEW m \in sent,
           m.dh[2] = Known(Peer(m.from)) + 1
    PROVE  Received(m.from, m, Opened(session[Peer(m.from)], m))
<1> DEFINE e == m.from
           p == Peer(e)
           s == session[p]
           r == Opened(s, m)
           t == SkipMessageKeys(s, m.prev)
           u == AdvanceRecvRatchet(t, m.dh)
<1>1. /\ e \in Ends /\ m.num \in Nat /\ m.prev \in Nat /\ m.dh \in PrivateKeys
      /\ m.dh[2] \in Nat /\ m.key \in MessageKeys
  BY KeyPair DEF Kept, Typed
<1>2. /\ p \in Ends /\ Peer(p) = e /\ s \in States /\ s.recv_count \in Nat
      /\ s.skipped_keys \in SUBSET SkippedKeys /\ Known(p) \in Nat
      /\ past.keys[p] \in Nat /\ s.root_key \in Seq(Terms)
  <2>1. p \in Ends /\ Peer(p) = e
    BY <1>1, Ground
  <2> QED BY <2>1, Ground
<1>3. /\ KeysInStep(p) /\ CountsInStep(p) /\ SkippedInStep(p) /\ MessageInStep(e, m)
  BY <1>1, <1>2 DEF InStep
<1>4. s.recv_ratchet_public = <<e, Known(p)>> /\ m.dh = <<e, Known(p) + 1>>
      /\ s.send_ratchet = <<p, past.keys[p]>>
  BY <1>2, <1>3 DEF MessageInStep, KeysInStep
<1>5. m.dh # s.recv_ratchet_public
  BY <1>2, <1>4
<1>6. ~ TooMany(s, m.prev)
  <2>1. m.prev <= RatchetAfter
    BY <1>3 DEF MessageInStep
  <2> QED BY <1>1, <1>2, <2>1 DEF TooMany, SessionAssumption
<1>7. r = GetMessageKey(u, m)
  BY <1>5, <1>6 DEF Opened
<1>8. /\ t \in States /\ t.send_chain_key = s.send_chain_key /\ t.root_key = s.root_key
      /\ t.send_ratchet = s.send_ratchet
      /\ t.send_count = s.send_count /\ t.prev_recv_chain = s.prev_recv_chain
      /\ \A k \in t.skipped_keys : k \in s.skipped_keys \/ k.dh = s.recv_ratchet_public
  <2>1. AtHead(s)
    BY <1>3 DEF CountsInStep
  <2> HIDE DEF t, s
  <2>2. /\ t \in States /\ t.send_chain_key = s.send_chain_key /\ t.root_key = s.root_key
        /\ t.send_ratchet = s.send_ratchet
    BY <1>1, <1>2, SkipFrame DEF t
  <2>3. /\ t.send_count = s.send_count /\ t.prev_recv_chain = s.prev_recv_chain
        /\ \A k \in t.skipped_keys : k \in s.skipped_keys \/ k.dh = s.recv_ratchet_public
    BY <1>1, <1>2, <2>1, SkipPutsBy DEF t
  <2> QED BY <2>2, <2>3
<1> DEFINE secret == Dh(s.send_ratchet, m.dh)
<1> HIDE DEF t, s, e
<1>9. /\ u \in States /\ u.root_key = Append(s.root_key, secret)
      /\ u.send_chain_key = s.send_chain_key /\ u.send_ratchet = s.send_ratchet
      /\ u.send_count = s.send_count /\ u.prev_recv_chain = s.prev_recv_chain
      /\ u.recv_ratchet_public = m.dh /\ u.recv_count = 0
      /\ u.recv_chain_key.label = "chain" /\ u.recv_chain_key.index = 0
      /\ u.recv_chain_key.seed = Append(s.root_key, secret)
      /\ u.skipped_keys = t.skipped_keys
  <2>1. /\ u \in States /\ u.root_key = Append(t.root_key, Dh(t.send_ratchet, m.dh))
        /\ u.send_chain_key = t.send_chain_key /\ u.send_ratchet = t.send_ratchet
        /\ u.send_count = t.send_count /\ u.prev_recv_chain = t.prev_recv_chain
        /\ u.recv_ratchet_public = m.dh /\ u.recv_count = 0
        /\ u.recv_chain_key.label = "chain" /\ u.recv_chain_key.index = 0
        /\ u.recv_chain_key.seed = u.root_key
        /\ u.skipped_keys = t.skipped_keys
    BY <1>1, <1>8, AdvancedRecv
  <2> HIDE DEF u
  <2>2. Append(t.root_key, Dh(t.send_ratchet, m.dh)) = Append(s.root_key, secret)
    BY <1>8
  <2> QED BY <1>8, <2>1, <2>2
<1> HIDE DEF u, r
<1>10. \A k \in u.skipped_keys : k.dh[2] <= Known(p) /\ k.dh # m.dh
  <2> TAKE k \in u.skipped_keys
  <2>1. CASE k \in s.skipped_keys
    <3>1. k.dh[2] <= Known(p)
      BY <1>3, <2>1 DEF SkippedInStep, s
    <3>2. k.dh[2] \in Nat
      BY <1>2, <2>1, KeyPair DEF SkippedKeys
    <3> QED BY <1>2, <1>4, <3>1, <3>2
  <2>2. CASE k.dh = s.recv_ratchet_public
    BY <1>2, <1>4, <1>5, <2>2
  <2> QED BY <1>8, <1>9, <2>1, <2>2
<1>11. Takes(u, m, r)
  <2>1. SkippedFor(u, m) = {} /\ AtHead(u)
    BY <1>9, <1>10 DEF SkippedFor, AtHead
  <2>2. m.num < RatchetAfter
    BY <1>3 DEF MessageInStep
  <2>3. u.recv_count <= m.num /\ m.num - u.recv_count <= MaxSkippedKeys
    BY <1>1, <1>9, <2>2 DEF SessionAssumption
  <2> QED BY <1>1, <1>7, <1>9, <2>1, <2>3, TakesNext
<1>12. Append(s.root_key, secret) = RootAhead(e, m.dh[2])
  <2> DEFINE K == Known(p)
             L == past.keys[p]
  <2>1. secret = Dh(<<e, K + 1>>, <<Peer(e), L>>)
    BY <1>4 DEF Dh, p
  <2>2. Append(s.root_key, Dh(<<e, K + 1>>, <<Peer(e), L>>)) = Mixing(s.root_key, e, K, K + 1, L)
    <3>1. e \in Ends /\ K \in Nat /\ L \in Nat /\ s.root_key \in Seq(Terms)
      BY <1>1, <1>2
    <3> HIDE DEF K, L
    <3> QED BY <3>1, OneSecret
  <2>3. Mixing(s.root_key, e, K, K + 1, L) = RootAhead(e, m.dh[2])
    BY <1>4 DEF RootAhead, s, p
  <2> HIDE DEF K, L, secret
  <2> QED BY <2>1, <2>2, <2>3
<1>13. r.key = m.key
  <2>1. Known(p) + 1 > Known(p) /\ m.dh[2] = Known(p) + 1
    BY <1>2, <1>4
  <2>2. m.key.chain.label = "chain" /\ m.key.chain.seed = RootAhead(e, m.dh[2])
    BY <1>3, <2>1 DEF MessageInStep, ChainInStep
  <2>3. SameChain(r.key.chain, m.key.chain)
    BY <1>9, <1>11, <1>12, <2>2 DEF Takes, SameChain
  <2>4. r.key \in MessageKeys /\ r.key.chain.index = m.key.chain.index /\ r.key.num = m.key.num
    BY <1>3, <1>11 DEF Takes, MessageInStep
  <2> QED BY <1>1, <2>3, <2>4, SameKey
<1>14. \A k \in r.state.skipped_keys :
          /\ k.dh[2] <= m.dh[2]
          /\ k.dh = m.dh => FromChain(k, r.state.recv_chain_key)
  <2> TAKE k \in r.state.skipped_keys
  <2>1. CASE k \in u.skipped_keys
    <3>1. k \in SkippedKeys
      BY <1>9, <2>1 DEF States
    <3>2. k.dh[2] \in Nat
      BY <3>1, KeyPair DEF SkippedKeys
    <3> QED BY <1>2, <1>4, <1>10, <2>1, <3>2
  <2>2. CASE k.dh = u.recv_ratchet_public /\ FromChain(k, u.recv_chain_key)
    BY <1>1, <1>9, <1>11, <2>2 DEF Takes, FromChain, SameChain
  <2> QED BY <1>11, <2>1, <2>2 DEF Takes
<1>15. ASSUME NEW n \in Nat, n < r.state.recv_count, n # m.num
       PROVE  \E k \in r.state.skipped_keys : k.dh = m.dh /\ k.num = n
  <2>1. ~ (n < u.recv_count)
    BY <1>9
  <2> QED BY <1>9, <1>11, <1>15, <2>1 DEF Takes
<1>16. /\ r.state.send_chain_key = s.send_chain_key /\ r.state.send_ratchet = s.send_ratchet
       /\ r.state.send_count = s.send_count /\ r.state.prev_recv_chain = s.prev_recv_chain
       /\ r.state.recv_ratchet_public = m.dh /\ AtHead(r.state)
       /\ r.state.root_key = Append(s.root_key, secret)
       /\ r.state.recv_chain_key.label = "chain"
       /\ r.state.recv_chain_key.seed = Append(s.root_key, secret)
       /\ r.state.recv_count \in {0, m.num + 1}
  BY <1>9, <1>11 DEF Takes, SameChain
<1>17. secret = Dh(m.dh, s.send_ratchet) /\ m.dh[2] # Known(p)
  BY <1>2, <1>4 DEF Dh
<1> HIDE DEF secret
<1>18. Received(e, m, r)
  BY <1>12, <1>13, <1>14, <1>15, <1>16, <1>17 DEF Received, s, p
<1> QED BY <1>18 DEF r, s, e

-----------------------------------------------------------------------------
\* The root of the receiver after it has ratcheted.
LEMMA MixesFirst ==
    ASSUME SessionAssumption
    PROVE  \A e \in Ends, n, g, l \in Nat, root \in Seq(Terms) : n < g =>
              Mixing(Append(root, Dh(<<e, n + 1>>, <<Peer(e), l>>)), e, n + 1, g, l)
                = Mixing(root, e, n, g, l)
<1> TAKE e \in Ends, n, g, l \in Nat, root \in Seq(Terms)
<1> HAVE n < g
<1> QED BY FirstSecret

\* Two messages of one key pair and one number are one.
LEMMA OneMessage ==
    ASSUME Kept, NEW e \in Ends, NEW m \in sent, NEW n \in sent,
           MessageInStep(e, m), MessageInStep(e, n), m.dh = n.dh, m.num = n.num,
           m.dh[2] >= Known(Peer(e)), Known(Peer(e)) \in Nat, m.dh[2] \in Nat
    PROVE  m = n
<1>1. SameChain(m.key.chain, n.key.chain)
  <2>1. CASE m.dh[2] = Known(Peer(e))
    BY <2>1 DEF MessageInStep, ChainInStep, SameChain
  <2>2. CASE m.dh[2] > Known(Peer(e))
    BY <2>2 DEF MessageInStep, ChainInStep, SameChain
  <2> QED BY <2>1, <2>2
<1>2. m.key \in MessageKeys /\ n.key \in MessageKeys
  BY DEF Kept, Typed
<1>3. m.key = n.key
  BY <1>1, <1>2, SameKey DEF MessageInStep
<1> QED BY <1>3 DEF Kept, SealedOnce

\* A delivery that disturbs nothing derives the key of its message and keeps
\* the ends in step.
LEMMA DeliverInStep ==
    ASSUME SessionAssumption, StepInv, NEW m \in sent, NEW intact \in BOOLEAN,
           Deliver(m, intact), ~ past'.disturbed
    PROVE  InStep' /\ past'.astray = FALSE
<1> DEFINE e == m.from
           p == Peer(e)
           s == session[p]
           r == Opened(s, m)
           t == r.state
           ok == intact /\ r.key = m.key
<1>1. /\ session' = [session EXCEPT ![p] = t]
      /\ arrived' = arrived \cup {m} /\ sent' = sent
      /\ past'.keys = past.keys
      /\ past'.disturbed = (past.disturbed \/ Disturbs(m, p, intact))
      /\ past'.astray = (past.astray \/ (~ ok /\ intact /\ ~ past.disturbed
                                           /\ ~ Disturbs(m, p, intact)))
  <2>1. DOMAIN past = {"keys", "faults", "rewound", "disturbed", "rematched",
                    "astray", "refused"}
    BY DEF StepInv, SessionInv, PastShape
  <2> QED BY <2>1 DEF Deliver
<1> HIDE DEF ok
<1>2. ~ past.disturbed /\ ~ Disturbs(m, p, intact)
  BY <1>1, Zenon
<1>3. PastShape /\ Kept /\ InStep /\ arrived \subseteq sent /\ past.astray = FALSE
  BY <1>2 DEF StepInv, SessionInv
<1>4. /\ e \in Ends /\ m.num \in Nat /\ m.prev \in Nat /\ m.dh \in PrivateKeys
      /\ m.dh[2] \in Nat /\ m.key \in MessageKeys
  BY <1>3, KeyPair DEF Kept, Typed
<1>5. /\ p \in Ends /\ p # e /\ Peer(p) = e /\ \A f \in Ends : f = e \/ f = p
      /\ s \in States /\ session[e] \in States
      /\ Known(e) \in Nat /\ Known(p) \in Nat /\ past.keys[e] \in Nat /\ past.keys[p] \in Nat
      /\ s.root_key \in Seq(Terms) /\ session[e].root_key \in Seq(Terms)
      /\ s.recv_count \in Nat /\ s.send_count \in Nat
      /\ session[e].send_count \in Nat /\ session[e].recv_count \in Nat
  <2>1. p \in Ends
    BY <1>3, <1>4, Ground
  <2> QED BY <1>3, <1>4, <2>1, Ground
<1>6. /\ KeysInStep(e) /\ CountsInStep(e) /\ ChainsInStep(e)
      /\ KeysInStep(p) /\ CountsInStep(p) /\ ChainsInStep(p)
      /\ ArrivedInStep(e) /\ ArrivedInStep(p) /\ SkippedInStep(e) /\ SkippedInStep(p)
      /\ MessageInStep(e, m)
  BY <1>3, <1>4, <1>5 DEF InStep
<1> DEFINE K == Known(p)
           g == m.dh[2]
<1>7. m \notin arrived /\ intact /\ g \in {K, K + 1}
  <2>1. Heard(p) = K
    BY <1>3, <1>5, HeardIsKnown
  <2>2. m \notin arrived /\ intact /\ ~ (g < Heard(p)) /\ ~ (g > Heard(p) + 1)
    BY <1>2, Zenon DEF Disturbs
  <2>3. g \in Nat /\ K \in Nat
    BY <1>4, <1>5
  <2> HIDE DEF g, K
  <2>4. g \in {K, K + 1}
    BY <2>1, <2>2, <2>3
  <2> QED BY <2>2, <2>4
<1>8. Received(e, m, r)
  BY <1>3, <1>7, ReceivedSame, ReceivedNext
<1> HIDE DEF e, p, s, r
<1>9. /\ t.send_chain_key = s.send_chain_key /\ t.send_ratchet = s.send_ratchet
      /\ t.send_count = s.send_count /\ t.prev_recv_chain = s.prev_recv_chain
      /\ t.recv_ratchet_public = m.dh /\ AtHead(t) /\ r.key = m.key
      /\ \A k \in t.skipped_keys : k.dh[2] <= g /\ (k.dh = m.dh => FromChain(k, t.recv_chain_key))
  BY <1>8 DEF Received, s, p
<1>10. g = K => /\ t.root_key = s.root_key /\ SameChain(t.recv_chain_key, s.recv_chain_key)
                /\ t.recv_count \in {s.recv_count, m.num + 1}
  BY <1>8 DEF Received, s, p
<1>11. g # K => /\ t.root_key = RootAhead(e, g)
                /\ t.root_key = Append(s.root_key, Dh(m.dh, s.send_ratchet))
                /\ t.recv_chain_key.label = "chain" /\ t.recv_chain_key.seed = t.root_key
                /\ t.recv_count \in {0, m.num + 1}
  BY <1>8 DEF Received, s, p
<1>12. /\ session'[p] = t /\ session'[e] = session[e]
       /\ Known(p)' = g /\ Known(e)' = Known(e)
  <2>1. session'[p] = t /\ session'[e] = session[e]
    BY <1>1, <1>3, <1>4, <1>5 DEF Kept, Typed
  <2> QED BY <1>9, <2>1 DEF Known
<1>13. /\ m.dh = <<e, g>> /\ g <= past.keys[e]
       /\ g = past.keys[e] => m.num < session[e].send_count
       /\ m.num < RatchetAfter
  BY <1>6 DEF MessageInStep
<1> HIDE DEF t, K, g
\* A new key pair comes only from an end that has heard of all of its peer's.
<1>14. g # K => Known(e) = past.keys[p] /\ g = K + 1 /\ K < past.keys[e]
  BY <1>5, <1>6, <1>7, <1>13 DEF KeysInStep, K, p
<1>15. \A h \in Nat : h >= g =>
          Mixing(t.root_key, e, g, h, past.keys[p]) = RootAhead(e, h)
  <2> SUFFICES ASSUME NEW h \in Nat, h >= g
               PROVE  Mixing(t.root_key, e, g, h, past.keys[p]) = RootAhead(e, h)
    OBVIOUS
  <2>1. CASE g = K
    BY <1>10, <2>1 DEF RootAhead, K, s, p
  <2>2. CASE g # K
    <3>1. s.send_ratchet = <<p, past.keys[p]>>
      BY <1>6 DEF KeysInStep, s
    <3>2. Dh(m.dh, s.send_ratchet) = Dh(<<e, K + 1>>, <<Peer(e), past.keys[p]>>)
      BY <1>13, <1>14, <2>2, <3>1 DEF p
    <3>3. t.root_key = Append(s.root_key, Dh(<<e, K + 1>>, <<Peer(e), past.keys[p]>>))
      BY <1>11, <2>2, <3>2
    <3>4. K \in Nat /\ K < h /\ past.keys[p] \in Nat /\ s.root_key \in Seq(Terms)
      BY <1>5, <1>14, <2>2 DEF K
    <3>5. Mixing(Append(s.root_key, Dh(<<e, K + 1>>, <<Peer(e), past.keys[p]>>)),
                 e, K + 1, h, past.keys[p]) = Mixing(s.root_key, e, K, h, past.keys[p])
      BY <1>4, <3>4, MixesFirst
    <3>6. Mixing(s.root_key, e, K, h, past.keys[p]) = RootAhead(e, h)
      BY DEF RootAhead, K, s, p
    <3> QED BY <1>14, <2>2, <3>3, <3>5, <3>6
  <2> QED BY <2>1, <2>2
\* Chains of e that p listens on, or will.
<1>16. ASSUME NEW h \in Nat, NEW chain, ChainInStep(e, h, chain)
       PROVE  ChainInStep(e, h, chain)'
  <2>1. ASSUME h = g PROVE SameChain(chain, t.recv_chain_key)
    <3>1. CASE g = K
      BY <1>10, <1>16, <2>1, <3>1 DEF ChainInStep, SameChain, K, s, p
    <3>2. CASE g # K
      <4>1. h > K
        BY <1>5, <1>14, <2>1, <3>2 DEF K
      <4>2. chain.label = "chain" /\ chain.seed = RootAhead(e, h)
        BY <1>16, <4>1 DEF ChainInStep, K, p
      <4> QED BY <1>11, <2>1, <3>2, <4>2 DEF SameChain
    <3> QED BY <3>1, <3>2
  <2>2. ASSUME h > g PROVE chain.label = "chain" /\ chain.seed = RootAhead(e, h)'
    <3>1. h > K
      BY <1>4, <1>5, <1>14, <2>2 DEF K, g
    <3>2. chain.label = "chain" /\ chain.seed = RootAhead(e, h)
      BY <1>16, <3>1 DEF ChainInStep, K, p
    <3>3. RootAhead(e, h)' = Mixing(t.root_key, e, g, h, past.keys[p])
      BY <1>1, <1>12 DEF RootAhead, p
    <3>4. h >= g
      BY <1>4, <2>2 DEF g
    <3> QED BY <1>15, <3>2, <3>3, <3>4
  <2> QED BY <1>12, <2>1, <2>2 DEF ChainInStep, p
\* Chains of p, and the root key e compares with.
<1>17. /\ \A h : RootAhead(p, h)' = RootAhead(p, h)
       /\ \A h, chain : ChainInStep(p, h, chain)' <=> ChainInStep(p, h, chain)
  BY <1>1, <1>5, <1>12 DEF RootAhead, ChainInStep
<1>18. KeysInStep(e)' /\ CountsInStep(e)' /\ ChainsInStep(e)'
  <2>1. CountsInStep(e)'
    BY <1>6, <1>12 DEF CountsInStep
  <2>2. KeysInStep(e)'
    <3>1. RootAhead(e, past.keys[e])' = Mixing(t.root_key, e, g, past.keys[e], past.keys[p])
      BY <1>1, <1>12 DEF RootAhead, p
    <3>2. RootAhead(e, past.keys[e])' = RootAhead(e, past.keys[e])
      BY <1>4, <1>5, <1>13, <1>15, <3>1 DEF g
    <3>3. Known(e) = past.keys[p] \/ g = past.keys[e]
      BY <1>6, <1>14 DEF KeysInStep, K, p
    <3> QED BY <1>1, <1>6, <1>12, <3>2, <3>3 DEF KeysInStep, p
  <2>3. ChainInStep(e, past.keys[e], session[e].send_chain_key)'
    <3>1. ChainInStep(e, past.keys[e], session[e].send_chain_key)
      BY <1>6 DEF ChainsInStep
    <3>2. \A h \in Nat : \A chain : ChainInStep(e, h, chain) =>
             /\ h = Known(p)' => SameChain(chain, session'[p].recv_chain_key)
             /\ h > Known(p)' => chain.label = "chain" /\ chain.seed = RootAhead(e, h)'
      BY <1>16 DEF ChainInStep, p
    <3>3. RootAhead(e, past.keys[e])' = Mixing(t.root_key, e, g, past.keys[e], past.keys[p])
      BY <1>1, <1>12 DEF RootAhead, p
    <3>4. RootAhead(e, past.keys[e])' = RootAhead(e, past.keys[e])
      BY <1>4, <1>5, <1>13, <1>15, <3>3 DEF g
    <3> QED BY <1>1, <1>5, <1>12, <3>1, <3>2, <3>4 DEF ChainInStep, p
  <2>4. g = past.keys[e] => t.recv_count <= session[e].send_count
    <3>1. CASE g = K
      <4>1. g = past.keys[e] => s.recv_count <= session[e].send_count
        BY <1>6, <3>1 DEF ChainsInStep, K, s, p
      <4> QED BY <1>4, <1>5, <1>10, <1>13, <3>1, <4>1, SMTT(30)
    <3>2. CASE g # K
      BY <1>4, <1>5, <1>11, <1>13, <3>2, SMTT(30)
    <3> QED BY <3>1, <3>2
  <2>5. ChainsInStep(e)'
    BY <1>1, <1>12, <2>3, <2>4 DEF ChainsInStep, p
  <2> QED BY <2>1, <2>2, <2>5
<1>19. KeysInStep(p)' /\ CountsInStep(p)' /\ ChainsInStep(p)'
  <2>1. CountsInStep(p)'
    <3>1. t.recv_count <= RatchetAfter
      <4>1. s.recv_count <= RatchetAfter /\ RatchetAfter \in Nat
        BY <1>6 DEF CountsInStep, s, SessionAssumption
      <4> QED BY <1>4, <1>5, <1>10, <1>11, <1>13, <4>1
    <3> QED BY <1>6, <1>9, <1>12, <3>1 DEF CountsInStep, s
  <2>2. ChainsInStep(p)'
    <3>1. ChainInStep(p, past.keys[p], session[p].send_chain_key)'
      <4>1. ChainInStep(p, past.keys[p], session[p].send_chain_key)
        BY <1>6 DEF ChainsInStep
      <4>2. /\ past'.keys[p] = past.keys[p] /\ Known(e)' = Known(e)
            /\ session'[p].send_chain_key = session[p].send_chain_key
            /\ session'[e] = session[e]
        BY <1>1, <1>9, <1>12 DEF s
      <4> QED BY <1>1, <1>5, <4>1, <4>2 DEF ChainInStep, RootAhead
    <3> QED BY <1>1, <1>5, <1>6, <1>9, <1>12, <3>1 DEF ChainsInStep, s
  <2>3. KeysInStep(p)'
    <3>1. session'[p].send_ratchet = <<p, past'.keys[p]>>
      BY <1>1, <1>6, <1>9, <1>12 DEF KeysInStep, s
    <3>2. session'[p].recv_ratchet_public = <<e, Known(p)'>> /\ Known(p)' <= past'.keys[e]
      BY <1>1, <1>9, <1>12, <1>13
    <3>3. Known(p)' = past'.keys[e] \/ Known(e)' = past'.keys[p]
      BY <1>1, <1>5, <1>6, <1>12, <1>14 DEF KeysInStep, K
    <3>4. ASSUME g = past.keys[e]
          PROVE  t.root_key = Mixing(session[e].root_key, p, Known(e), past.keys[p], past.keys[e])
      <4>1. CASE g = K
        BY <1>5, <1>6, <1>10, <3>4, <4>1 DEF KeysInStep, RootAhead, K, s
      <4>2. CASE g # K
        <5>1. Known(e) = past.keys[p] /\ t.root_key = RootAhead(e, past.keys[e])
          BY <1>11, <1>14, <3>4, <4>2
        <5>2. session[e].root_key = RootAhead(e, past.keys[e])
          BY <1>6, <5>1 DEF KeysInStep, p
        <5>3. Mixing(session[e].root_key, p, past.keys[p], past.keys[p], past.keys[e])
                = session[e].root_key
          BY <1>5, NoSecrets
        <5> QED BY <5>1, <5>2, <5>3
      <4> QED BY <4>1, <4>2
    <3>5. RootAhead(p, past.keys[p])'
            = Mixing(session[e].root_key, p, Known(e), past.keys[p], past.keys[e])
      BY <1>1, <1>5, <1>12 DEF RootAhead
    <3> QED BY <1>1, <1>5, <1>12, <3>1, <3>2, <3>3, <3>4, <3>5 DEF KeysInStep
  <2> QED BY <2>1, <2>2, <2>3
<1>20. ArrivedInStep(e)' /\ ArrivedInStep(p)'
  <2>1. ArrivedInStep(e)'
    <3>1. \A n \in arrived : n.from \in Ends /\ n.dh[2] \in Nat
      BY <1>3, KeyPair DEF Kept, Typed
    <3>2. K <= g
      BY <1>5, <1>14 DEF K
    <3>3. \A n \in arrived' : n.from = e => n.dh[2] <= g
      <4> TAKE n \in arrived'
      <4>1. CASE n \in arrived
        BY <1>4, <1>5, <1>6, <3>1, <3>2, <4>1 DEF ArrivedInStep, K, g, p
      <4>2. CASE n = m
        BY <1>4, <4>2 DEF g
      <4> QED BY <1>1, <4>1, <4>2
    <3>4. m \in arrived' /\ m.from = e /\ m.dh[2] = g
      BY <1>1 DEF e, g
    <3> QED BY <1>12, <3>3, <3>4 DEF ArrivedInStep, p
  <2>2. ArrivedInStep(p)'
    <3>1. m.from # p
      BY <1>5 DEF e
    <3> QED BY <1>1, <1>5, <1>6, <1>12, <3>1 DEF ArrivedInStep
  <2> QED BY <2>1, <2>2
<1>21. SkippedInStep(e)' /\ SkippedInStep(p)'
  <2>1. SkippedInStep(e)'
    BY <1>6, <1>12 DEF SkippedInStep
  <2>2. SkippedInStep(p)'
    BY <1>9, <1>12 DEF SkippedInStep
  <2> QED BY <2>1, <2>2
<1>22. ASSUME NEW n \in sent' PROVE MessageInStep(n.from, n)'
  <2>1. n \in sent /\ MessageInStep(n.from, n) /\ n.dh[2] \in Nat /\ (n.from = e \/ n.from = p)
    BY <1>1, <1>3, <1>5, KeyPair DEF InStep, Kept, Typed
  <2>2. session'[n.from].send_count = session[n.from].send_count
    BY <1>9, <1>12, <2>1 DEF s
  <2>3. ChainInStep(n.from, n.dh[2], n.key.chain)'
    <3>1. ChainInStep(n.from, n.dh[2], n.key.chain)
      BY <2>1 DEF MessageInStep
    <3>2. CASE n.from = e
      BY <1>16, <2>1, <3>1, <3>2
    <3>3. CASE n.from = p
      BY <1>17, <3>1, <3>3
    <3> QED BY <2>1, <3>2, <3>3
  <2> QED BY <1>1, <2>1, <2>2, <2>3 DEF MessageInStep
<1>23. ASSUME NEW n \in sent' \ arrived' PROVE WaitsInStep(n.from, n)'
  <2>1. /\ n \in sent \ arrived /\ n # m /\ WaitsInStep(n.from, n) /\ MessageInStep(n.from, n)
        /\ n.num \in Nat /\ (n.from = e \/ n.from = p)
    BY <1>1, <1>3, <1>5 DEF InStep, Kept, Typed
  <2>2. CASE n.from = e
    <3> SUFFICES ASSUME n.dh[2] = g, n.num < t.recv_count
                 PROVE  \E k \in t.skipped_keys : k.dh = n.dh /\ k.num = n.num
      BY <1>12, <2>2 DEF WaitsInStep, p
    <3>1. n.dh = m.dh
      BY <1>13, <2>1, <2>2 DEF MessageInStep
    <3>2. n.num # m.num
      <4>1. m.dh[2] >= Known(Peer(e)) /\ Known(Peer(e)) \in Nat
        BY <1>4, <1>5, <1>7 DEF p, K, g
      <4> QED BY <1>3, <1>4, <1>6, <2>1, <2>2, <3>1, <4>1, OneMessage
    <3>3. g = K /\ n.num < s.recv_count =>
             \E k \in s.skipped_keys : k.dh = m.dh /\ k.num = n.num
      BY <2>1, <2>2, <3>1 DEF WaitsInStep, K, g, s, p
    <3> QED BY <1>8, <2>1, <3>1, <3>2, <3>3 DEF Received, K, g, s, p, t
  <2>3. CASE n.from = p
    BY <1>5, <1>12, <2>1, <2>3 DEF WaitsInStep
  <2> QED BY <2>1, <2>2, <2>3
<1>24. InStep'
  BY <1>5, <1>18, <1>19, <1>20, <1>21, <1>22, <1>23 DEF InStep
<1>25. past'.astray = FALSE
  <2>1. ok
    BY <1>7, <1>9 DEF ok
  <2> QED BY <1>1, <1>3, <2>1
<1> QED BY <1>24, <1>25

\* What the ends share depends on the sessions, the messages and the keys drawn.
LEMMA SameInStep ==
    ASSUME InStep, session' = session, sent' = sent, arrived' = arrived,
           past'.keys = past.keys
    PROVE  InStep'
<1>1. \A e : Known(e)' = Known(e)
  BY DEF Known
<1>2. \A e, g : RootAhead(e, g)' = RootAhead(e, g)
  BY <1>1 DEF RootAhead
<1>3. \A e, g, c : ChainInStep(e, g, c) => ChainInStep(e, g, c)'
  BY <1>1, <1>2 DEF ChainInStep
<1>4. \A e : KeysInStep(e) => KeysInStep(e)'
  BY <1>1, <1>2 DEF KeysInStep
<1>5. \A e : CountsInStep(e) => CountsInStep(e)'
  BY DEF CountsInStep
<1>6. \A e : ChainsInStep(e) => ChainsInStep(e)'
  BY <1>1, <1>3 DEF ChainsInStep
<1>7. \A e : ArrivedInStep(e) => ArrivedInStep(e)'
  BY <1>1 DEF ArrivedInStep
<1>8. \A e : SkippedInStep(e) => SkippedInStep(e)'
  BY <1>1 DEF SkippedInStep
<1>9. \A e, m : MessageInStep(e, m) => MessageInStep(e, m)'
  BY <1>3 DEF MessageInStep
<1>10. \A e, m : WaitsInStep(e, m) => WaitsInStep(e, m)'
  BY <1>1 DEF WaitsInStep
<1> QED BY <1>4, <1>5, <1>6, <1>7, <1>8, <1>9, <1>10, Zenon DEF InStep

\* Every step keeps the ends in step.
LEMMA NextStepInv ==
    SessionAssumption /\ StepInv /\ [SessionNext]_sessionVars => StepInv'
<1> SUFFICES ASSUME SessionAssumption, StepInv, [SessionNext]_sessionVars PROVE StepInv'
  OBVIOUS
<1>1. SessionInv'
  BY NextSessionInv DEF StepInv
<1>2. DOMAIN past = {"keys", "faults", "rewound", "disturbed", "rematched",
                    "astray", "refused"}
  BY DEF StepInv, SessionInv, PastShape
<1>3. ASSUME NEW e \in Ends, Encrypt(e) PROVE StepInv'
  <2> DEFINE late == past.disturbed \/ past.keys[Peer(e)] > Heard(e)
  <2>1. /\ arrived' = arrived /\ sent' = sent \cup {Sealed(e)}
        /\ \/ past' = past
           \/ past' = [past EXCEPT !.keys[e] = past.keys[e] + 1, !.disturbed = late]
    BY <1>3 DEF Encrypt
  <2>2. past'.astray = past.astray /\ past'.rewound = past.rewound
        /\ past'.disturbed \in {past.disturbed, late}
    <3> HIDE DEF late
    <3> QED BY <1>2, <2>1
  <2>3. past'.rewound => past'.disturbed
    BY <2>2, Zenon DEF StepInv
  <2>4. ~ past'.disturbed => InStep'
    BY <1>3, EncryptInStep
  <2> QED BY <1>1, <2>1, <2>2, <2>3, <2>4 DEF StepInv
<1>4. ASSUME NEW m \in sent, NEW intact \in BOOLEAN, Deliver(m, intact) PROVE StepInv'
  <2> DEFINE p == Peer(m.from)
             ok == intact /\ Opened(session[p], m).key = m.key
             refusing == ~ ok /\ intact /\ ~ past.disturbed /\ ~ Disturbs(m, p, intact)
  <2>1. /\ arrived' = arrived \cup {m} /\ sent' = sent
        /\ past'.rewound = past.rewound
        /\ past'.disturbed = (past.disturbed \/ Disturbs(m, p, intact))
        /\ past'.astray = (past.astray \/ refusing)
    BY <1>2, <1>4 DEF Deliver
  <2>2. arrived' \subseteq sent'
    BY <2>1 DEF StepInv
  <2>3. past'.rewound => past'.disturbed
    BY <2>1, Zenon DEF StepInv
  <2>4. ~ past'.disturbed => InStep'
    BY <1>4, DeliverInStep
  <2>5. past'.astray = FALSE
    <3>1. CASE past'.disturbed
      <4>1. past.disturbed \/ Disturbs(m, p, intact)
        BY <2>1, <3>1, Zenon
      <4>2. ~ refusing
        BY <4>1
      <4> HIDE DEF refusing
      <4> QED BY <2>1, <4>2 DEF StepInv
    <3>2. CASE ~ past'.disturbed
      BY <1>4, <3>2, DeliverInStep
    <3> QED BY <3>1, <3>2
  <2> QED BY <1>1, <2>2, <2>3, <2>4, <2>5 DEF StepInv
<1>5. ASSUME UNCHANGED <<session, sent, arrived, past>> PROVE StepInv'
  <2>1. InStep => InStep'
    BY <1>5, SameInStep
  <2> QED BY <1>1, <1>5, <2>1 DEF StepInv
<1>6. ASSUME NEW e \in Ends, NEW s, Replace(e, s) PROVE StepInv'
  <2>1. /\ arrived' = arrived /\ sent' = sent /\ session' = [session EXCEPT ![e] = s]
        /\ past'.keys = past.keys /\ past'.astray = past.astray
        /\ past'.rewound = (past.rewound \/ s # session[e])
        /\ past'.disturbed = (past.disturbed \/ s # session[e])
    BY <1>2, <1>6 DEF Replace
  <2>2. past'.rewound => past'.disturbed
    BY <2>1, Zenon DEF StepInv
  <2>3. ~ past'.disturbed => InStep'
    <3> SUFFICES ASSUME ~ past'.disturbed PROVE InStep'
      OBVIOUS
    <3>1. ~ past.disturbed /\ s = session[e]
      BY <2>1, Zenon
    <3>2. session \in [Ends -> States]
      BY <3>1 DEF StepInv, SessionInv, Kept, Typed
    <3>3. session' = session /\ InStep
      BY <2>1, <3>1, <3>2 DEF StepInv
    <3> QED BY <2>1, <3>3, SameInStep
  <2> QED BY <1>1, <2>1, <2>2, <2>3 DEF StepInv
<1> QED BY <1>3, <1>4, <1>5, <1>6
      DEF SessionNext, SaveSession, Reload, CreateSession, RemoveSession, sessionVars

\* For what one end sends the other derives the key from the same place of the
\* same chain, whatever the salts, in spite of losses, of messages out of order
\* within a key pair, and of any ratchets, until one of the things happens that
\* Disturbs lists, two ratchets cross, or an end goes back to an older session
\* (encrypt, decrypt).
THEOREM EndsStayInStep == SessionSpec => []EndsKeepInStep
<1>1. StepInv => EndsKeepInStep
  BY DEF StepInv, EndsKeepInStep
<1>2. SessionAssumption
  BY SessionAssumption
<1>3. SessionInit => StepInv
  BY <1>2, InitStepInv
<1> QED BY <1>1, <1>2, <1>3, NextStepInv, PTL DEF SessionSpec
-----------------------------------------------------------------------------
\* A session with the salt of its end.
OfOwnSalt(e, s) == s \in States /\ s.salt = Salt(e)

Shaped(m) == /\ m.from \in Ends /\ m.dh \in PrivateKeys
             /\ m.prev \in Nat /\ m.num \in Nat /\ m.key \in MessageKeys

ApartInv ==
    /\ PastShape
    /\ session \in [Ends -> States \cup {NoSession}]
    /\ stored \in [Ends -> States \cup {NoSession}]
    /\ \A e \in Ends : /\ session[e] = NoSession \/ OfOwnSalt(e, session[e])
                       /\ stored[e] = NoSession \/ OfOwnSalt(e, stored[e])
    /\ \A m \in sent : Shaped(m) /\ m.salt = Salt(m.from)
    /\ opened = {}

\* NewSession
LEMMA NewIsOfOwnSalt ==
    ASSUME SessionAssumption, NEW e \in Ends
    PROVE  OfOwnSalt(e, NewSession(e))
<1> DEFINE n == NewSession(e)
           root == << >>
           secret == Dh(<<e, 0>>, <<Peer(e), 0>>)
           sends == IF e = Initiator THEN "send" ELSE "recv"
           hears == IF e = Initiator THEN "recv" ELSE "send"
           out == Chain(root, secret, sends)
           in == Chain(root, secret, hears)
<1>1. Peer(e) \in Ends
  BY TwoEnds
<1>2. <<e, 0>> \in PrivateKeys /\ <<Peer(e), 0>> \in PrivateKeys
  BY <1>1 DEF PrivateKeys
<1>3. root \in Seq(Terms) /\ secret \in SUBSET PrivateKeys
  BY <1>2, Secrets
<1>4. out \in Chains /\ in \in Chains
  BY <1>3, ChainIsChain
<1>5. n = [salt |-> Salt(e), root_key |-> root, send_chain_key |-> out,
           recv_chain_key |-> in, send_ratchet |-> <<e, 0>>,
           recv_ratchet_public |-> <<Peer(e), 0>>, send_count |-> 0,
           recv_count |-> 0, prev_recv_chain |-> 0, skipped_keys |-> {}]
  BY DEF NewSession
<1> HIDE DEF n, root, out, in
<1>6. n \in States /\ n.salt = Salt(e)
  BY <1>2, <1>3, <1>4, <1>5 DEF States, Salt
<1> QED BY <1>6 DEF OfOwnSalt, n

\* get_message_key leaves the salt alone.
LEMMA GetKeepsSalt ==
    ASSUME NEW e, NEW s, OfOwnSalt(e, s), NEW m, Shaped(m)
    PROVE  OfOwnSalt(e, GetMessageKey(s, m).state)
<1> DEFINE r == GetMessageKey(s, m)
           t == SkipMessageKeys(s, m.num)
<1>1. CASE SkippedFor(s, m) # {}
  <2> DEFINE d == [s EXCEPT !.skipped_keys = s.skipped_keys \ SkippedFor(s, m)]
  <2>1. r.state = d
    BY <1>1 DEF GetMessageKey, Opening
  <2>2. d \in States /\ d.salt = s.salt
    BY DEF OfOwnSalt, States
  <2> HIDE DEF r, d
  <2> QED BY <2>1, <2>2 DEF OfOwnSalt, r
<1>2. CASE SkippedFor(s, m) = {} /\ TooMany(s, m.num)
  <2>1. r.state = s
    BY <1>2 DEF GetMessageKey, Opening
  <2> QED BY <2>1
<1>3. CASE SkippedFor(s, m) = {} /\ ~ TooMany(s, m.num)
  <2> DEFINE chain == Advanced(t.recv_chain_key)
             d == [t EXCEPT !.recv_chain_key = chain, !.recv_count = m.num + 1]
  <2>1. r.state = d
    BY <1>3 DEF GetMessageKey, Opening
  <2>2. s \in States /\ m.num \in Nat /\ m.num + 1 \in Nat
    BY DEF OfOwnSalt, Shaped
  <2>3. t \in States /\ t.salt = s.salt
    BY <2>2, SkipFrame
  <2> HIDE DEF t
  <2>4. t.recv_chain_key \in Chains
    BY <2>3 DEF States
  <2>5. chain \in Chains
    BY <2>4, AdvancedChain
  <2> HIDE DEF chain
  <2>6. d \in States /\ d.salt = t.salt
    BY <2>2, <2>3, <2>5 DEF States
  <2> HIDE DEF r, d
  <2> QED BY <2>1, <2>3, <2>6 DEF OfOwnSalt, r
<1> QED BY <1>1, <1>2, <1>3

\* decrypt up to the comparison of the tag leaves it alone.
LEMMA OpenedKeepsSalt ==
    ASSUME NEW e, NEW s, OfOwnSalt(e, s), NEW m, Shaped(m)
    PROVE  OfOwnSalt(e, Opened(s, m).state)
<1>1. CASE m.dh = s.recv_ratchet_public
  BY <1>1, GetKeepsSalt DEF Opened
<1>2. CASE m.dh # s.recv_ratchet_public /\ TooMany(s, m.prev)
  <2>1. Opened(s, m).state = s
    BY <1>2 DEF Opened, Opening
  <2> QED BY <2>1
<1>3. CASE m.dh # s.recv_ratchet_public /\ ~ TooMany(s, m.prev)
  <2> DEFINE t == SkipMessageKeys(s, m.prev)
             u == AdvanceRecvRatchet(t, m.dh)
  <2>1. Opened(s, m) = GetMessageKey(u, m)
    BY <1>3 DEF Opened
  <2>2. t \in States /\ t.salt = s.salt /\ m.dh \in PrivateKeys
    BY SkipFrame DEF OfOwnSalt, Shaped
  <2> HIDE DEF t
  <2>3. u \in States /\ u.salt = t.salt
    BY <2>2, AdvancedRecv
  <2> HIDE DEF u
  <2>4. OfOwnSalt(e, u)
    BY <2>2, <2>3 DEF OfOwnSalt
  <2> QED BY <2>1, <2>4, GetKeepsSalt
<1> QED BY <1>1, <1>2, <1>3

\* encrypt: the salt of the session goes with the message.
LEMMA EncryptKeepsSalt ==
    ASSUME SessionAssumption, ApartInv, NEW e \in Ends, Encrypt(e)
    PROVE  ApartInv'
<1> DEFINE s == session[e]
           c == Counted(s)
           fresh == <<e, past.keys[e] + 1>>
           d == AdvanceSendRatchet(c, fresh)
           new == Sealed(e)
<1>1. /\ PastShape /\ s \in States /\ s.salt = Salt(e)
      /\ session \in [Ends -> States \cup {NoSession}]
  BY DEF ApartInv, OfOwnSalt, Encrypt
<1>2. c \in States /\ c.salt = s.salt
  <2> HIDE DEF s
  <2> QED BY <1>1, CountedFields
<1>3. d \in States /\ d.salt = s.salt
  <2>1. fresh \in PrivateKeys
    BY <1>1 DEF PastShape, PrivateKeys
  <2> HIDE DEF c, fresh
  <2> QED BY <1>2, <2>1, RatchetedFields
<1>4. Shaped(new) /\ new.from = e /\ new.salt = s.salt
  <2>1. /\ s.send_ratchet \in PrivateKeys /\ s.prev_recv_chain \in Nat
        /\ s.send_count \in Nat /\ s.send_chain_key \in Chains
    BY <1>1 DEF States
  <2>2. MessageKey(s.send_chain_key, s.send_count) \in MessageKeys
    BY <2>1 DEF MessageKey, MessageKeys
  <2> QED BY <2>1, <2>2 DEF new, Sealed, Shaped
<1>5. /\ sent' = sent \cup {new} /\ stored' = stored /\ opened' = opened
      /\ \E x \in {c, d} : session' = [session EXCEPT ![e] = x]
      /\ PastShape'
  <2>1. sent' = sent \cup {new} /\ stored' = stored /\ opened' = opened
    BY DEF Encrypt
  <2>2. CASE /\ session' = [session EXCEPT ![e] = c] /\ past' = past
    BY <1>1, <2>1, <2>2 DEF PastShape
  <2>3. CASE /\ session' = [session EXCEPT ![e] = d]
             /\ past' = [past EXCEPT !.keys[e] = past.keys[e] + 1,
                            !.disturbed = past.disturbed \/ past.keys[Peer(e)] > Heard(e)]
    <3>1. past.keys[e] + 1 \in Nat
      BY <1>1 DEF PastShape
    <3>2. /\ DOMAIN past' = DOMAIN past
          /\ past'.keys = [past.keys EXCEPT ![e] = past.keys[e] + 1]
      BY <1>1, <2>3 DEF PastShape
    <3> QED BY <1>1, <2>1, <2>3, <3>1, <3>2 DEF PastShape
  <2> QED BY <2>2, <2>3 DEF Encrypt
<1> HIDE DEF s, c, d, new
<1>6. \A m \in sent' : Shaped(m) /\ m.salt = Salt(m.from)
  BY <1>1, <1>4, <1>5 DEF ApartInv
<1>7. PICK x \in {c, d} : session' = [session EXCEPT ![e] = x]
  BY <1>5
<1>8. \A f \in Ends : session'[f] = NoSession \/ OfOwnSalt(f, session'[f])
  BY <1>1, <1>2, <1>3, <1>7 DEF ApartInv, OfOwnSalt
<1>9. session' \in [Ends -> States \cup {NoSession}]
  BY <1>1, <1>2, <1>3, <1>7
<1> QED BY <1>5, <1>6, <1>8, <1>9 DEF ApartInv, PastShape

\* decrypt: the session of the receiver has the other salt.
LEMMA DeliverOpensNothing ==
    ASSUME SessionAssumption, ApartInv,
           NEW m \in sent, NEW intact \in BOOLEAN, Deliver(m, intact)
    PROVE  ApartInv'
<1> DEFINE e == Peer(m.from)
           r == Opened(session[e], m)
<1>1. Shaped(m) /\ m.salt = Salt(m.from)
  BY DEF ApartInv
<1>2. e \in Ends /\ Salt(e) # Salt(m.from)
  <2>1. e \in Ends /\ e # m.from /\ (e = Initiator \/ m.from = Initiator)
    BY <1>1, TwoEnds DEF SessionAssumption, Shaped
  <2> QED BY <2>1 DEF Salt
<1>3. OfOwnSalt(e, session[e])
  BY <1>2 DEF ApartInv, Deliver
<1>4. OfOwnSalt(e, r.state)
  <2> HIDE DEF e
  <2> QED BY <1>1, <1>3, OpenedKeepsSalt
<1>5. session[e].salt # m.salt
  BY <1>1, <1>2, <1>3 DEF OfOwnSalt
<1>6. /\ session' = [session EXCEPT ![e] = r.state]
      /\ stored' = stored /\ sent' = sent /\ opened' = opened
  <2>1. /\ session' = [session EXCEPT ![e] = r.state]
        /\ stored' = stored /\ sent' = sent
        /\ opened' = IF (intact /\ r.key = m.key) /\ session[e].salt = m.salt
                     THEN opened \cup {m} ELSE opened
    BY DEF Deliver
  <2> HIDE DEF r, e
  <2> QED BY <1>5, <2>1
<1>7. DOMAIN past' = DOMAIN past /\ past'.keys = past.keys
  BY DEF Deliver, ApartInv, PastShape
<1> HIDE DEF e, r
<1>8. \A f \in Ends : session'[f] = NoSession \/ OfOwnSalt(f, session'[f])
  BY <1>4, <1>6 DEF ApartInv
<1>9. session' \in [Ends -> States \cup {NoSession}]
  BY <1>4, <1>6 DEF ApartInv, OfOwnSalt
<1> QED BY <1>6, <1>7, <1>8, <1>9 DEF ApartInv, PastShape

\* save_to_nvs: what is stored is a session without its skipped keys.
LEMMA SaveKeepsSalt ==
    ASSUME ApartInv, NEW e \in Ends, SaveSession(e)
    PROVE  ApartInv'
<1> DEFINE s == session[e]
           q == Reloaded(s)
<1>1. s = NoSession \/ OfOwnSalt(e, s)
  BY DEF ApartInv
<1>2. OfOwnSalt(e, s) => OfOwnSalt(e, q)
  <2> HIDE DEF s
  <2> QED BY DEF OfOwnSalt, Reloaded, States
<1>3. stored' = [stored EXCEPT ![e] = IF s = NoSession THEN NoSession ELSE q]
  BY DEF SaveSession
<1> HIDE DEF s, q
<1>4. \A f \in Ends : stored'[f] = NoSession \/ OfOwnSalt(f, stored'[f])
  BY <1>1, <1>2, <1>3 DEF ApartInv
<1>5. stored' \in [Ends -> States \cup {NoSession}]
  BY <1>1, <1>2, <1>3 DEF ApartInv, OfOwnSalt
<1> QED BY <1>4, <1>5 DEF ApartInv, SaveSession, PastShape

\* load_from_nvs, create_session and remove_session
LEMMA ReplaceKeepsSalt ==
    ASSUME ApartInv, NEW e \in Ends, NEW s, s = NoSession \/ OfOwnSalt(e, s), Replace(e, s)
    PROVE  ApartInv'
<1>1. /\ session' = [session EXCEPT ![e] = s]
      /\ stored' = stored /\ sent' = sent /\ opened' = opened
  BY DEF Replace
<1>2. DOMAIN past' = DOMAIN past /\ past'.keys = past.keys
  BY DEF Replace, ApartInv, PastShape
<1>3. \A f \in Ends : session'[f] = NoSession \/ OfOwnSalt(f, session'[f])
  BY <1>1 DEF ApartInv
<1>4. session' \in [Ends -> States \cup {NoSession}]
  BY <1>1 DEF ApartInv, OfOwnSalt
<1> QED BY <1>1, <1>2, <1>3, <1>4 DEF ApartInv, PastShape

(***************************************************************************)
(* Session::new gives the two roles two salts, and the ends never decrypt  *)
(* anything of each other: not in any order, not after any number of       *)
(* ratchets, new sessions or reloads.                                      *)
(***************************************************************************)
THEOREM SaltsKeepEndsApart == SessionSpec => [](opened = {})
<1>1. SessionInit => ApartInv
  <2> SUFFICES ASSUME SessionInit PROVE ApartInv
    OBVIOUS
  <2>1. \A e \in Ends : session[e] = NewSession(e) /\ stored[e] = NoSession
    BY DEF SessionInit
  <2>2. PastShape
    BY DEF SessionInit, PastShape
  <2>3. /\ session \in [Ends -> States \cup {NoSession}]
        /\ stored \in [Ends -> States \cup {NoSession}]
    BY SessionAssumption, NewIsOfOwnSalt DEF SessionInit, OfOwnSalt
  <2>4. sent = {} /\ opened = {}
    BY DEF SessionInit
  <2> QED BY SessionAssumption, NewIsOfOwnSalt, <2>1, <2>2, <2>3, <2>4 DEF ApartInv
<1>2. ApartInv /\ [SessionNext]_sessionVars => ApartInv'
  <2> SUFFICES ASSUME ApartInv, [SessionNext]_sessionVars PROVE ApartInv'
    OBVIOUS
  <2>1. ASSUME NEW e \in Ends, Encrypt(e) PROVE ApartInv'
    BY <2>1, SessionAssumption, EncryptKeepsSalt
  <2>2. ASSUME NEW m \in sent, NEW intact \in BOOLEAN, Deliver(m, intact) PROVE ApartInv'
    BY <2>2, SessionAssumption, DeliverOpensNothing
  <2>3. ASSUME NEW e \in Ends, SaveSession(e) PROVE ApartInv'
    BY <2>3, SaveKeepsSalt
  <2>4. ASSUME NEW e \in Ends, Reload(e) PROVE ApartInv'
    <3>1. stored[e] = NoSession \/ OfOwnSalt(e, stored[e])
      BY <2>4 DEF ApartInv
    <3> QED BY <2>4, <3>1, ReplaceKeepsSalt DEF Reload
  <2>5. ASSUME NEW e \in Ends, CreateSession(e) PROVE ApartInv'
    BY <2>5, SessionAssumption, NewIsOfOwnSalt, ReplaceKeepsSalt DEF CreateSession
  <2>6. ASSUME NEW e \in Ends, RemoveSession(e) PROVE ApartInv'
    BY <2>6, ReplaceKeepsSalt DEF RemoveSession
  <2>7. CASE UNCHANGED sessionVars
    BY <2>7 DEF sessionVars, ApartInv, PastShape
  <2> QED BY <2>1, <2>2, <2>3, <2>4, <2>5, <2>6, <2>7 DEF SessionNext
<1>3. ApartInv => opened = {}
  BY DEF ApartInv
<1> QED BY <1>1, <1>2, <1>3, PTL DEF SessionSpec
-----------------------------------------------------------------------------
\* A session of an end within the limits of its counters, with keys of the end
\* and of its peer.
Bounded(e, s) ==
    /\ s \in States
    /\ s.send_count < RatchetAfter
    /\ s.recv_count <= RatchetAfter /\ s.prev_recv_chain <= RatchetAfter
    /\ s.send_ratchet[1] = e /\ s.recv_ratchet_public[1] = Peer(e)
    /\ \A k \in s.skipped_keys : k.num < RatchetAfter

BoundedMessage(m) ==
    Shaped(m) /\ m.dh[1] = m.from /\ m.prev <= RatchetAfter /\ m.num < RatchetAfter

\* What comes into a session is within the limits, whatever it forgets.
SessionTypesInv ==
    /\ DOMAIN past = {"keys", "faults", "rewound", "disturbed", "rematched",
                    "astray", "refused"}
    /\ past.keys \in [Ends -> Nat] /\ past.faults \in 0 .. MaxFaults
    /\ DOMAIN session = Ends /\ DOMAIN stored = Ends
    /\ \A e \in Ends : /\ session[e] = NoSession \/ Bounded(e, session[e])
                       /\ stored[e] = NoSession \/ Bounded(e, stored[e])
    /\ \A m \in sent : BoundedMessage(m)
    /\ opened \subseteq matched /\ matched \subseteq arrived /\ arrived \subseteq sent

\* skip_message_keys puts by numbers before `until`.
LEMMA SkipIsBounded ==
    ASSUME SessionAssumption, NEW e, NEW s, Bounded(e, s),
           NEW until \in Nat, until <= RatchetAfter
    PROVE  LET t == SkipMessageKeys(s, until)
           IN  Bounded(e, t)
<1> DEFINE t == SkipMessageKeys(s, until)
           gap == {n \in 0 .. until - 1 : n >= s.recv_count}
           key(n) == MessageKey([s.recv_chain_key EXCEPT !.index = @ + n - s.recv_count], n)
           put == {[dh |-> s.recv_ratchet_public, num |-> n, key |-> key(n)] : n \in gap}
           kept == put \cup {k \in s.skipped_keys : \A p \in put :
                                  <<k.dh, k.num>> # <<p.dh, p.num>>}
           chain == [s.recv_chain_key EXCEPT !.index = @ + Cardinality(gap)]
           count == s.recv_count + Cardinality(gap)
<1>1. s \in States /\ s.recv_count \in Nat /\ s.recv_count <= RatchetAfter
  BY DEF Bounded, States
<1>2. t \in States
  BY <1>1, SkipFrame
<1>3. count <= RatchetAfter
  <2>1. count = IF until <= s.recv_count THEN s.recv_count ELSE until
    BY <1>1, Gap
  <2> QED BY <1>1, <2>1
<1>4. \A k \in kept : k.num < RatchetAfter
  <2>1. \A n \in gap : n < RatchetAfter
    BY DEF SessionAssumption
  <2>2. \A k \in s.skipped_keys : k.num < RatchetAfter
    BY DEF Bounded
  <2> HIDE DEF key, gap
  <2>3. \A k \in put : k.num < RatchetAfter
    BY <2>1
  <2> QED BY <2>2, <2>3
<1>5. t = [s EXCEPT !.recv_chain_key = chain, !.recv_count = count, !.skipped_keys = kept]
  BY DEF SkipMessageKeys, key
<1> HIDE DEF t, gap, put, kept, chain, count
<1>6. /\ t.send_count = s.send_count /\ t.recv_count = count
      /\ t.prev_recv_chain = s.prev_recv_chain /\ t.send_ratchet = s.send_ratchet
      /\ t.recv_ratchet_public = s.recv_ratchet_public /\ t.skipped_keys = kept
  BY <1>1, <1>5 DEF States
<1> QED BY <1>2, <1>3, <1>4, <1>6 DEF Bounded, t

\* get_message_key
LEMMA GetIsBounded ==
    ASSUME SessionAssumption, NEW e, NEW s, Bounded(e, s), NEW m, BoundedMessage(m)
    PROVE  Bounded(e, GetMessageKey(s, m).state)
<1> DEFINE r == GetMessageKey(s, m)
           t == SkipMessageKeys(s, m.num)
<1>1. CASE SkippedFor(s, m) # {}
  <2> DEFINE d == [s EXCEPT !.skipped_keys = s.skipped_keys \ SkippedFor(s, m)]
  <2>1. r.state = d
    BY <1>1 DEF GetMessageKey, Opening
  <2>2. s \in States
    BY DEF Bounded
  <2>3. /\ d \in States /\ d.send_count = s.send_count /\ d.recv_count = s.recv_count
        /\ d.prev_recv_chain = s.prev_recv_chain /\ d.send_ratchet = s.send_ratchet
        /\ d.recv_ratchet_public = s.recv_ratchet_public
        /\ d.skipped_keys \subseteq s.skipped_keys
    BY <2>2 DEF States
  <2> HIDE DEF r, d
  <2> QED BY <2>1, <2>3 DEF Bounded, r
<1>2. CASE SkippedFor(s, m) = {} /\ TooMany(s, m.num)
  <2>1. r.state = s
    BY <1>2 DEF GetMessageKey, Opening
  <2> QED BY <2>1
<1>3. CASE SkippedFor(s, m) = {} /\ ~ TooMany(s, m.num)
  <2> DEFINE chain == Advanced(t.recv_chain_key)
             d == [t EXCEPT !.recv_chain_key = chain, !.recv_count = m.num + 1]
  <2>1. r.state = d
    BY <1>3 DEF GetMessageKey, Opening
  <2>2. m.num \in Nat /\ m.num < RatchetAfter /\ RatchetAfter \in Nat
    BY DEF BoundedMessage, Shaped, SessionAssumption
  <2>3. m.num <= RatchetAfter /\ m.num + 1 <= RatchetAfter /\ m.num + 1 \in Nat
    BY <2>2
  <2>4. Bounded(e, t)
    BY <2>2, <2>3, SkipIsBounded
  <2> HIDE DEF t
  <2>5. t \in States /\ t.recv_chain_key \in Chains
    BY <2>4 DEF Bounded, States
  <2>6. chain \in Chains
    BY <2>5, AdvancedChain
  <2> HIDE DEF chain
  <2>7. /\ d \in States /\ d.send_count = t.send_count /\ d.recv_count = m.num + 1
        /\ d.prev_recv_chain = t.prev_recv_chain /\ d.send_ratchet = t.send_ratchet
        /\ d.recv_ratchet_public = t.recv_ratchet_public /\ d.skipped_keys = t.skipped_keys
    BY <2>3, <2>5, <2>6 DEF States
  <2> HIDE DEF r, d
  <2> QED BY <2>1, <2>3, <2>4, <2>7 DEF Bounded, r
<1> QED BY <1>1, <1>2, <1>3

\* decrypt up to the comparison of the tag.
LEMMA OpenedIsBounded ==
    ASSUME SessionAssumption, NEW e, NEW s, Bounded(e, s), NEW m, BoundedMessage(m),
           m.from = Peer(e)
    PROVE  Bounded(e, Opened(s, m).state)
<1>1. CASE m.dh = s.recv_ratchet_public
  BY <1>1, GetIsBounded DEF Opened
<1>2. CASE m.dh # s.recv_ratchet_public /\ TooMany(s, m.prev)
  BY <1>2 DEF Opened, Opening
<1>3. CASE m.dh # s.recv_ratchet_public /\ ~ TooMany(s, m.prev)
  <2> DEFINE t == SkipMessageKeys(s, m.prev)
             u == AdvanceRecvRatchet(t, m.dh)
  <2>1. Opened(s, m) = GetMessageKey(u, m)
    BY <1>3 DEF Opened
  <2>2. m.dh \in PrivateKeys /\ m.dh[1] = Peer(e) /\ m.prev \in Nat /\ m.prev <= RatchetAfter
    BY DEF BoundedMessage, Shaped
  <2>3. Bounded(e, t)
    BY <2>2, SkipIsBounded
  <2> HIDE DEF t
  <2>4. t \in States
    BY <2>3 DEF Bounded
  <2>5. /\ u \in States /\ u.send_ratchet = t.send_ratchet
        /\ u.send_count = t.send_count /\ u.prev_recv_chain = t.prev_recv_chain
        /\ u.recv_ratchet_public = m.dh /\ u.recv_count = 0
        /\ u.skipped_keys = t.skipped_keys
    BY <2>2, <2>4, AdvancedRecv
  <2> HIDE DEF u
  <2>6. Bounded(e, u)
    BY <2>2, <2>3, <2>5 DEF Bounded, SessionAssumption
  <2> QED BY <2>1, <2>6, GetIsBounded
<1> QED BY <1>1, <1>2, <1>3

\* encrypt
LEMMA EncryptIsBounded ==
    ASSUME SessionAssumption, SessionTypesInv, NEW e \in Ends, Encrypt(e)
    PROVE  SessionTypesInv'
<1> DEFINE s == session[e]
           c == Counted(s)
           fresh == <<e, past.keys[e] + 1>>
           d == AdvanceSendRatchet(c, fresh)
           new == Sealed(e)
<1>1. Bounded(e, s) /\ s \in States
  BY DEF SessionTypesInv, Encrypt, Bounded
<1>2. /\ c \in States /\ c.send_ratchet = s.send_ratchet
      /\ c.recv_ratchet_public = s.recv_ratchet_public
      /\ c.recv_count = s.recv_count /\ c.skipped_keys = s.skipped_keys
      /\ c.prev_recv_chain = s.prev_recv_chain /\ c.send_count = s.send_count + 1
  <2> HIDE DEF s
  <2> QED BY <1>1, CountedFields
<1>3. fresh \in PrivateKeys /\ fresh[1] = e
  BY DEF SessionTypesInv, PrivateKeys
<1>4. BoundedMessage(new)
  <2>1. /\ s.send_ratchet \in PrivateKeys /\ s.prev_recv_chain \in Nat
        /\ s.send_count \in Nat /\ s.send_chain_key \in Chains
    BY <1>1 DEF States
  <2>2. MessageKey(s.send_chain_key, s.send_count) \in MessageKeys
    BY <2>1 DEF MessageKey, MessageKeys
  <2>3. /\ new.from = e /\ new.dh = s.send_ratchet /\ new.prev = s.prev_recv_chain
        /\ new.num = s.send_count /\ new.key = MessageKey(s.send_chain_key, s.send_count)
    BY DEF Sealed
  <2> HIDE DEF s, new
  <2> QED BY <1>1, <2>1, <2>2, <2>3 DEF Bounded, BoundedMessage, Shaped
<1>5. ~ ShouldRatchet(c) => Bounded(e, c)
  <2>1. c.send_count \in Nat
    BY <1>2 DEF States
  <2> HIDE DEF s, c
  <2> QED BY <1>1, <1>2, <2>1 DEF Bounded, ShouldRatchet, SessionAssumption
<1>6. Bounded(e, d)
  <2> HIDE DEF s, c, fresh
  <2>1. /\ d \in States /\ d.send_ratchet = fresh
        /\ d.recv_ratchet_public = c.recv_ratchet_public
        /\ d.recv_count = c.recv_count /\ d.skipped_keys = c.skipped_keys
        /\ d.prev_recv_chain = c.recv_count /\ d.send_count = 0
    BY <1>2, <1>3, RatchetedFields
  <2> HIDE DEF d
  <2> QED BY <1>1, <1>2, <1>3, <2>1 DEF Bounded, SessionAssumption
<1>7. /\ sent' = sent \cup {new} /\ stored' = stored /\ arrived' = arrived
      /\ matched' = matched /\ opened' = opened
      /\ \E x : session' = [session EXCEPT ![e] = x] /\ Bounded(e, x)
      /\ DOMAIN past' = DOMAIN past /\ past'.faults = past.faults
      /\ past'.keys \in [Ends -> Nat]
  <2>1. /\ sent' = sent \cup {new} /\ stored' = stored /\ opened' = opened
        /\ matched' = matched /\ arrived' = arrived
    BY DEF Encrypt
  <2>2. CASE /\ ~ ShouldRatchet(c)
             /\ session' = [session EXCEPT ![e] = c] /\ past' = past
    BY <1>5, <2>1, <2>2 DEF SessionTypesInv
  <2>3. CASE /\ session' = [session EXCEPT ![e] = d]
             /\ past' = [past EXCEPT !.keys[e] = past.keys[e] + 1,
                            !.disturbed = past.disturbed \/ past.keys[Peer(e)] > Heard(e)]
    <3>1. past.keys[e] + 1 \in Nat
      BY DEF SessionTypesInv
    <3>2. /\ DOMAIN past' = DOMAIN past /\ past'.faults = past.faults
          /\ past'.keys = [past.keys EXCEPT ![e] = past.keys[e] + 1]
      BY <2>3 DEF SessionTypesInv
    <3>3. past'.keys \in [Ends -> Nat]
      BY <3>1, <3>2 DEF SessionTypesInv
    <3> QED BY <1>6, <2>1, <2>3, <3>2, <3>3
  <2> QED BY <2>2, <2>3 DEF Encrypt
<1> HIDE DEF s, c, d, new
<1>8. PICK x : session' = [session EXCEPT ![e] = x] /\ Bounded(e, x)
  BY <1>7
<1>9. /\ DOMAIN session' = Ends
      /\ \A f \in Ends : session'[f] = NoSession \/ Bounded(f, session'[f])
  BY <1>8 DEF SessionTypesInv
<1> QED BY <1>4, <1>7, <1>9 DEF SessionTypesInv

\* decrypt
LEMMA DeliverIsBounded ==
    ASSUME SessionAssumption, SessionTypesInv, NEW m \in sent, NEW intact \in BOOLEAN,
           Deliver(m, intact)
    PROVE  SessionTypesInv'
<1> DEFINE e == Peer(m.from)
           r == Opened(session[e], m)
           cost == IF m \in arrived \/ ~ intact THEN 1 ELSE 0
<1>1. BoundedMessage(m) /\ m.from \in Ends
  BY DEF SessionTypesInv, BoundedMessage, Shaped
<1>2. e \in Ends /\ m.from = Peer(e)
  BY <1>1, TwoEnds
<1>3. Bounded(e, r.state)
  <2>1. Bounded(e, session[e])
    BY <1>2 DEF SessionTypesInv, Deliver
  <2> HIDE DEF e
  <2> QED BY <1>1, <1>2, <2>1, OpenedIsBounded
<1>4. /\ session' = [session EXCEPT ![e] = r.state]
      /\ stored' = stored /\ sent' = sent /\ arrived' = arrived \cup {m}
      /\ \/ matched' = matched /\ opened' = opened
         \/ matched' = matched \cup {m} /\ opened' \subseteq opened \cup {m}
  BY DEF Deliver
<1>5. /\ DOMAIN past' = DOMAIN past /\ past'.keys = past.keys
      /\ past'.faults = past.faults + cost /\ past.faults + cost <= MaxFaults
  BY DEF Deliver, SessionTypesInv
<1>6. past'.faults \in 0 .. MaxFaults
  <2>1. cost \in {0, 1} /\ past.faults \in 0 .. MaxFaults
    BY DEF SessionTypesInv
  <2> HIDE DEF cost
  <2> QED BY <1>5, <2>1 DEF SessionAssumption
<1> HIDE DEF e, r, cost
<1>7. /\ DOMAIN session' = Ends
      /\ \A f \in Ends : session'[f] = NoSession \/ Bounded(f, session'[f])
  BY <1>3, <1>4 DEF SessionTypesInv
<1> QED BY <1>4, <1>5, <1>6, <1>7 DEF SessionTypesInv

\* save_to_nvs
LEMMA SaveIsBounded ==
    ASSUME SessionTypesInv, NEW e \in Ends, SaveSession(e)
    PROVE  SessionTypesInv'
<1> DEFINE s == session[e]
           q == Reloaded(s)
<1>1. s = NoSession \/ Bounded(e, s)
  BY DEF SessionTypesInv
<1>2. Bounded(e, s) => Bounded(e, q)
  <2> SUFFICES ASSUME Bounded(e, s) PROVE Bounded(e, q)
    OBVIOUS
  <2>1. s \in States
    BY DEF Bounded
  <2> HIDE DEF s
  <2>2. /\ q \in States /\ q.send_count = s.send_count /\ q.recv_count = s.recv_count
        /\ q.prev_recv_chain = s.prev_recv_chain /\ q.send_ratchet = s.send_ratchet
        /\ q.recv_ratchet_public = s.recv_ratchet_public /\ q.skipped_keys = {}
    BY <2>1 DEF Reloaded, States
  <2> HIDE DEF q
  <2> QED BY <2>2 DEF Bounded
<1>3. stored' = [stored EXCEPT ![e] = IF s = NoSession THEN NoSession ELSE q]
  BY DEF SaveSession
<1> HIDE DEF s, q
<1>4. /\ DOMAIN stored' = Ends
      /\ \A f \in Ends : stored'[f] = NoSession \/ Bounded(f, stored'[f])
  BY <1>1, <1>2, <1>3 DEF SessionTypesInv
<1> QED BY <1>4 DEF SessionTypesInv, SaveSession

\* Session::new
LEMMA NewIsBounded ==
    ASSUME SessionAssumption, NEW e \in Ends
    PROVE  Bounded(e, NewSession(e))
<1> DEFINE n == NewSession(e)
<1>1. n \in States
  BY NewIsOfOwnSalt DEF OfOwnSalt
<1>2. /\ n.send_count = 0 /\ n.recv_count = 0 /\ n.prev_recv_chain = 0
      /\ n.send_ratchet = <<e, 0>> /\ n.recv_ratchet_public = <<Peer(e), 0>>
      /\ n.skipped_keys = {}
  BY DEF NewSession
<1> HIDE DEF n
<1> QED BY <1>1, <1>2 DEF Bounded, SessionAssumption, n

\* load_from_nvs, create_session and remove_session
LEMMA ReplaceIsBounded ==
    ASSUME SessionAssumption, SessionTypesInv, NEW e \in Ends, NEW s,
           s = NoSession \/ Bounded(e, s), Replace(e, s)
    PROVE  SessionTypesInv'
<1>1. /\ session' = [session EXCEPT ![e] = s]
      /\ stored' = stored /\ sent' = sent /\ arrived' = arrived
      /\ matched' = matched /\ opened' = opened /\ past.faults < MaxFaults
  BY DEF Replace
<1>2. /\ DOMAIN past' = DOMAIN past /\ past'.keys = past.keys
      /\ past'.faults = past.faults + 1
  BY DEF Replace, SessionTypesInv
<1>3. past'.faults \in 0 .. MaxFaults
  BY <1>1, <1>2 DEF SessionTypesInv, SessionAssumption
<1>4. /\ DOMAIN session' = Ends
      /\ \A f \in Ends : session'[f] = NoSession \/ Bounded(f, session'[f])
  BY <1>1 DEF SessionTypesInv
<1> QED BY <1>1, <1>2, <1>3, <1>4 DEF SessionTypesInv

\* The counters of a session and the numbers of its skipped keys keep their
\* limits, in sessions that are reloaded or made again too.
LEMMA SessionKeepsTypes == SessionSpec => []SessionTypeOK
<1>1. SessionInit => SessionTypesInv
  <2> SUFFICES ASSUME SessionInit PROVE SessionTypesInv
    OBVIOUS
  <2>1. \A e \in Ends : Bounded(e, NewSession(e))
    BY SessionAssumption, NewIsBounded
  <2>2. 0 \in 0 .. MaxFaults
    BY SessionAssumption DEF SessionAssumption
  <2> QED BY <2>1, <2>2 DEF SessionInit, SessionTypesInv
<1>2. SessionTypesInv /\ [SessionNext]_sessionVars => SessionTypesInv'
  <2> SUFFICES ASSUME SessionTypesInv, [SessionNext]_sessionVars PROVE SessionTypesInv'
    OBVIOUS
  <2>1. ASSUME NEW e \in Ends, Encrypt(e) PROVE SessionTypesInv'
    BY <2>1, SessionAssumption, EncryptIsBounded
  <2>2. ASSUME NEW m \in sent, NEW intact \in BOOLEAN, Deliver(m, intact)
        PROVE  SessionTypesInv'
    BY <2>2, SessionAssumption, DeliverIsBounded
  <2>3. ASSUME NEW e \in Ends, SaveSession(e) PROVE SessionTypesInv'
    BY <2>3, SaveIsBounded
  <2>4. ASSUME NEW e \in Ends, Reload(e) PROVE SessionTypesInv'
    <3>1. stored[e] = NoSession \/ Bounded(e, stored[e])
      BY <2>4 DEF SessionTypesInv
    <3> QED BY <2>4, <3>1, SessionAssumption, ReplaceIsBounded DEF Reload
  <2>5. ASSUME NEW e \in Ends, CreateSession(e) PROVE SessionTypesInv'
    BY <2>5, SessionAssumption, NewIsBounded, ReplaceIsBounded DEF CreateSession
  <2>6. ASSUME NEW e \in Ends, RemoveSession(e) PROVE SessionTypesInv'
    BY <2>6, SessionAssumption, ReplaceIsBounded DEF RemoveSession
  <2>7. CASE UNCHANGED sessionVars
    BY <2>7 DEF sessionVars, SessionTypesInv
  <2> QED BY <2>1, <2>2, <2>3, <2>4, <2>5, <2>6, <2>7 DEF SessionNext
<1>3. SessionTypesInv => SessionTypeOK
  <2> SUFFICES ASSUME SessionTypesInv, NEW e \in Ends, session[e] # NoSession
               PROVE  /\ session[e].send_count \in 0 .. RatchetAfter - 1
                      /\ session[e].recv_count \in 0 .. RatchetAfter
                      /\ session[e].prev_recv_chain \in 0 .. RatchetAfter
                      /\ session[e].send_ratchet \in {e} \X Nat
                      /\ session[e].recv_ratchet_public \in {Peer(e)} \X Nat
                      /\ \A k \in session[e].skipped_keys : k.num \in 0 .. RatchetAfter - 1
    BY DEF SessionTypesInv, SessionTypeOK
  <2> DEFINE s == session[e]
  <2>1. Bounded(e, s)
    BY DEF SessionTypesInv
  <2> HIDE DEF s
  <2>2. /\ s.send_count \in Nat /\ s.recv_count \in Nat /\ s.prev_recv_chain \in Nat
        /\ s.send_ratchet \in PrivateKeys /\ s.recv_ratchet_public \in PrivateKeys
        /\ \A k \in s.skipped_keys : k.num \in Nat
    BY <2>1 DEF Bounded, States, SkippedKeys
  <2>3. /\ s.send_ratchet \in {e} \X Nat /\ s.recv_ratchet_public \in {Peer(e)} \X Nat
    BY <2>1, <2>2, KeyPair DEF Bounded
  <2>4. /\ s.send_count \in 0 .. RatchetAfter - 1 /\ s.recv_count \in 0 .. RatchetAfter
        /\ s.prev_recv_chain \in 0 .. RatchetAfter
        /\ \A k \in s.skipped_keys : k.num \in 0 .. RatchetAfter - 1
    BY <2>1, <2>2, SessionAssumption DEF Bounded, SessionAssumption
  <2> QED BY <2>3, <2>4 DEF s
<1> QED BY <1>1, <1>2, <1>3, PTL DEF SessionSpec
=============================================================================
