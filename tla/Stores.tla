-------------------------------- MODULE Stores --------------------------------
(***************************************************************************)
(* The two tables the program keeps in NVS (contact.rs, ContactStore;      *)
(* session.rs, SessionManager): records by key in RAM, saved as a count    *)
(* and one blob per index, and loaded again after a restart.  They are     *)
(* written alike and differ in the order they are saved in; a behaviour is *)
(* about one of them.                                                      *)
(*                                                                         *)
(* NVS writes each value when it is set and an interrupted save leaves the *)
(* values set so far; no value is ever erased.  A record is its key and the*)
(* number of the change that made it.  A contact card is modelled by the   *)
(* lengths of its two variable fields.                                     *)
(***************************************************************************)
EXTENDS Integers, Sequences, FiniteSets, SequencesExt

CONSTANTS
    Keys,           \* fingerprints of contacts, prefixes of session peers
    DidLength,      \* per key: bytes of the contact's did
    NameLength,     \* per key: bytes of its name
    MaxContacts,    \* MAX_CONTACTS
    MaxPersisted,   \* MAX_PERSISTED_SESSIONS
    NoRecord,       \* no blob, or one that was never written
    MaxChanges      \* bound: records made in a behaviour

Record == [key : Keys, version : 1 .. MaxChanges]

ASSUME StoresAssumption ==
    /\ IsFiniteSet(Keys) /\ NoRecord \notin Record
    /\ MaxContacts \in Nat /\ MaxPersisted \in Nat /\ MaxChanges \in Nat

VARIABLES
    kind,           \* the table this behaviour is about
    table,          \* the records in RAM, in the order of iteration
    blobs,          \* NVS: the count, and the blob under each index
    saving,         \* what a save has still to write, and at which index
    history         \* changes - made so far; saved - the records of the last
                    \* finished save, in its order; torn - a save was begun
                    \* since; shuffled - a save ever put a key under an index
                    \* NVS did not have it under; failed - a value was ever refused by NVS;
                    \* lost - a load after a restart missed something

storesVars == <<kind, table, blobs, saving, history>>

Indices == 0 .. Cardinality(Keys) - 1
-----------------------------------------------------------------------------
(***************************************************************************)
(* encode_for_signing: the fields in their order, a buffer of 256 bytes,   *)
(* and a field that does not fit is left out whole.  decode reads by the   *)
(* lengths the card names, so that it runs into the signature and past the *)
(* end when one was left out.                                              *)
(***************************************************************************)
Packed(fields) ==
    FoldLeft(LAMBDA size, f : IF size + f <= 256 THEN size + f ELSE size, 0, fields)

SigningSize(k) ==
    Packed(<<1, 8, 2, DidLength[k], 32, 32, 1, NameLength[k], 32>>)

EncodedSize(k) == SigningSize(k) + 64

Decodes(k) == 1 + 8 + 2 + DidLength[k] + 32 + 32 + 1 + NameLength[k] + 32 + 64
                  <= EncodedSize(k)

Readable(k) == kind = "contacts" => Decodes(k)
-----------------------------------------------------------------------------
Has(t, k)   == \E i \in DOMAIN t : t[i].key = k
Place(t, k) == CHOOSE i \in DOMAIN t : t[i].key = k

\* ContactStore::add and SessionManager::create_session: a full table of
\* contacts refuses a new one and says nothing.
Insert(t, r) ==
    IF Has(t, r.key) THEN [t EXCEPT ![Place(t, r.key)] = r]
    ELSE IF kind = "contacts" /\ Len(t) >= MaxContacts THEN t
    ELSE Append(t, r)

\* FnvIndexMap::remove: the last entry takes the place of the removed one.
SwapRemove(t, i) ==
    [j \in 1 .. Len(t) - 1 |-> IF j = i THEN t[Len(t)] ELSE t[j]]

StoresInit ==
    /\ kind \in {"contacts", "sessions"}
    /\ table = << >>
    /\ blobs = [count |-> 0, at |-> [i \in Indices |-> NoRecord]]
    /\ saving = [left |-> << >>, index |-> 0, open |-> FALSE]
    /\ history = [changes |-> 0, saved |-> << >>, torn |-> FALSE,
                  shuffled |-> FALSE, failed |-> FALSE, lost |-> FALSE]

StoresTypeOK ==
    /\ \A i \in DOMAIN table : table[i] \in Record
    /\ \A i, j \in DOMAIN table : table[i].key = table[j].key => i = j
    /\ kind = "contacts" => Len(table) <= MaxContacts
    /\ blobs.count \in 0 .. Cardinality(Keys)
    /\ \A i \in Indices : blobs.at[i] \in Record \cup {NoRecord}

Change(k) ==
    LET n == history.changes + 1
    IN  /\ ~ saving.open /\ n <= MaxChanges
        /\ table' = Insert(table, [key |-> k, version |-> n])
        /\ history' = [history EXCEPT !.changes = n]
        /\ UNCHANGED <<kind, blobs, saving>>

RemoveRecord(k) ==
    /\ ~ saving.open /\ Has(table, k)
    /\ table' = SwapRemove(table, Place(table, k))
    /\ UNCHANGED <<kind, blobs, saving, history>>
-----------------------------------------------------------------------------
\* Of what NVS has, each key stays under its index.
KeepsPlaces(order) ==
    /\ Len(history.saved) <= Len(order)
    /\ \A i \in DOMAIN order, j \in Indices :
          blobs.at[j] # NoRecord => (order[i].key = blobs.at[j].key <=> i = j + 1)

\* Both saves open the namespace, or give up, and write the count first.
BeginSave(order) ==
    /\ ~ saving.open
    /\ saving' = [left |-> order, index |-> 0, open |-> TRUE]
    /\ blobs' = [blobs EXCEPT !.count = Len(order)]
    /\ history' = [history EXCEPT !.torn = TRUE,
                                  !.shuffled = @ \/ ~ KeepsPlaces(order)]
    /\ UNCHANGED <<kind, table>>

SaveContacts == kind = "contacts" /\ BeginSave(table)

\* A HashMap is iterated in an order of its own.
SaveSessions ==
    /\ kind = "sessions"
    /\ \E order \in [1 .. Len(table) -> ToSet(table)] :
          IsInjective(order) /\ BeginSave(order)

\* nvs_set_blob, whose result is not looked at.
WriteRecord(ok) ==
    /\ saving.open /\ saving.left # << >>
    /\ blobs' = IF ok THEN [blobs EXCEPT !.at[saving.index] = Head(saving.left)]
                ELSE blobs
    /\ saving' = [saving EXCEPT !.left = Tail(@), !.index = @ + 1]
    /\ history' = [history EXCEPT !.failed = @ \/ ~ ok]
    /\ UNCHANGED <<kind, table>>

CommitSave ==
    /\ saving.open /\ saving.left = << >>
    /\ saving' = [saving EXCEPT !.open = FALSE, !.index = 0]
    /\ history' = [history EXCEPT !.torn = FALSE, !.saved = table]
    /\ UNCHANGED <<kind, table, blobs>>
-----------------------------------------------------------------------------
IsStored(i) == blobs.at[i] # NoRecord /\ Readable(blobs.at[i].key)

\* The indices a load looks at: `limit` of them at most.
LastLoaded(limit) == IF blobs.count < limit THEN blobs.count ELSE limit

\* The bug of a load that ends at the first record it cannot read.
LoadedUpToGap(limit) ==
    LET upTo[i \in 0 .. LastLoaded(limit)] ==
            IF i = 0 THEN table
            ELSE IF \A j \in 0 .. i - 1 : IsStored(j) THEN Insert(upTo[i - 1], blobs.at[i - 1])
            ELSE upTo[i - 1]
    IN  upTo[LastLoaded(limit)]

\* load_from_nvs inserts into the table as it is.
Loaded(limit) ==
    LET upTo[i \in 0 .. LastLoaded(limit)] ==
            IF i = 0 THEN table
            ELSE IF IsStored(i - 1) THEN Insert(upTo[i - 1], blobs.at[i - 1])
            ELSE upTo[i - 1]
    IN  upTo[LastLoaded(limit)]

\* What a load after a restart must bring back.
Misses(after, limit) ==
    LET due == {r \in ToSet(history.saved) : Readable(r.key)}
    IN  IF history.failed THEN FALSE
        ELSE IF ~ history.torn
        THEN \/ ~ (ToSet(after) \subseteq due)
             \/ Len(history.saved) <= limit /\ ToSet(after) # due
        ELSE /\ kind = "contacts" /\ ~ history.shuffled
             /\ \E r \in due : \A s \in ToSet(after) :
                   s.key = r.key => s.version < r.version

LoadTable(limit) ==
    LET after == Loaded(limit)
    IN  /\ ~ saving.open
        /\ table' = after
        /\ history' = [history EXCEPT
                          !.lost = @ \/ (table = << >> /\ Misses(after, limit))]
        /\ UNCHANGED <<kind, blobs, saving>>

LoadContacts == kind = "contacts" /\ LoadTable(MaxContacts)

LoadSessions == kind = "sessions" /\ LoadTable(MaxPersisted)

Restart ==
    /\ table' = << >>
    /\ saving' = [left |-> << >>, index |-> 0, open |-> FALSE]
    /\ UNCHANGED <<kind, blobs, history>>

StoresNext ==
    \/ \E k \in Keys : Change(k)
    \/ \E k \in Keys : RemoveRecord(k)
    \/ SaveContacts
    \/ SaveSessions
    \/ \E ok \in BOOLEAN : WriteRecord(ok)
    \/ CommitSave
    \/ LoadContacts
    \/ LoadSessions
    \/ Restart

StoresSpec == StoresInit /\ [][StoresNext]_storesVars
-----------------------------------------------------------------------------
(***************************************************************************)
(* A restart brings back what was saved.  After a save that was finished   *)
(* the next load restores exactly its records, but for contacts whose did  *)
(* and name together pass 148 bytes, and of a table of more than 32        *)
(* sessions only some.  After one that was interrupted no contact is       *)
(* missing or older than in the save before, as long as every save kept    *)
(* each contact under the index that NVS has it under: a removal moves the *)
(* last contact to another index and leaves a blob behind that a later     *)
(* count takes in again, and so does a save before the load of a restart.  *)
(***************************************************************************)
StoresSurvive == ~ history.lost
=============================================================================
