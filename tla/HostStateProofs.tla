--------------------------- MODULE HostStateProofs ---------------------------
(***************************************************************************)
(* Proofs about what the host keeps for its sandboxes: the master keys,    *)
(* the import of tokens.json into the vault, the registry's rows and the   *)
(* proxy's sweeper, and the masking of results; for any number of          *)
(* processes, connections and columns, any intervals and any clock.  Then  *)
(* what these parts are together with egress monitoring and the broker's   *)
(* requests.                                                               *)
(***************************************************************************)
EXTENDS MCHostState, BrokerDaemonProofs, BrokerRequestsProofs, TLAPS

-----------------------------------------------------------------------------
(* Keys: types *)

LEMMA KeyRange == 0 \in 0 .. MaxKeys /\ 0 \in -1 .. MaxKeys /\ 0 .. MaxKeys \subseteq -1 .. MaxKeys
BY KeyAssumption

LEMMA KeyTypeStep ==
  ASSUME KeyTypeOK, [KeyNext]_keyVars
  PROVE  KeyTypeOK'
<1> USE KeyAssumption, KeyRange DEF KeyTypeOK, registryData, KeyGoto, KeyStages
<1>1. ASSUME NEW p \in KeyUsers, LookAtData(p) PROVE KeyTypeOK'
  BY <1>1 DEF LookAtData
<1>2. ASSUME NEW p \in KeyUsers, LoadKey(p) PROVE KeyTypeOK'
  <2>1. proc[p] \in [at : KeyStages, key : 0 .. MaxKeys, saw : 0 .. MaxKeys]
    OBVIOUS
  <2>2. proc'[p] \in [at : KeyStages, key : 0 .. MaxKeys, saw : 0 .. MaxKeys]
    BY <1>2, <2>1 DEF LoadKey, ClosedDb
  <2>3. QED
    BY <1>2, <2>2 DEF LoadKey
<1>3. ASSUME NEW p \in KeyUsers, CreateKey(p) PROVE KeyTypeOK'
  <2>1. keyFile' \in 0 .. MaxKeys /\ published' \in 0 .. MaxKeys
    BY <1>3 DEF CreateKey
  <2>2. QED
    BY <1>3, <2>1 DEF CreateKey
<1>4. ASSUME NEW p \in KeyUsers, CheckKey(p) PROVE KeyTypeOK'
  BY <1>4 DEF CheckKey
<1>5. ASSUME NEW p \in KeyUsers, EncryptLegacyRows(p) PROVE KeyTypeOK'
  <2>1. proc[p].key \in -1 .. MaxKeys
    OBVIOUS
  <2>2. rows' \in [Rows -> -1 .. MaxKeys]
    BY <1>5, <2>1 DEF EncryptLegacyRows
  <2>3. scrub' \in BOOLEAN /\ residue' \in BOOLEAN
    BY <1>5 DEF EncryptLegacyRows
  <2>4. QED
    BY <1>5, <2>2, <2>3 DEF EncryptLegacyRows
<1>6. ASSUME NEW p \in KeyUsers, ScrubIfPending(p) PROVE KeyTypeOK'
  <2>1. proc' \in [KeyUsers -> [at : KeyStages, key : 0 .. MaxKeys, saw : 0 .. MaxKeys]]
    BY <1>6 DEF ScrubIfPending
  <2>2. residue' \in BOOLEAN
    BY <1>6 DEF ScrubIfPending
  <2>3. QED
    BY <1>6, <2>1, <2>2 DEF ScrubIfPending
<1>7. ASSUME NEW p \in KeyUsers, ClearScrubFlag(p) PROVE KeyTypeOK'
  BY <1>7 DEF ClearScrubFlag
<1>8. ASSUME NEW p \in KeyUsers, PutSecret(p) \/ DeleteScope(p) PROVE KeyTypeOK'
  BY <1>8 DEF PutSecret, DeleteScope
<1>9. ASSUME NEW p \in KeyUsers, CloseOrDie(p) PROVE KeyTypeOK'
  BY <1>9 DEF CloseOrDie, ClosedDb
<1>10. ASSUME NEW p \in KeyUsers, NEW r \in Rows, WriteRow(p, r) \/ DeleteRow(p, r)
       PROVE  KeyTypeOK'
  <2>1. proc[p].key \in -1 .. MaxKeys
    OBVIOUS
  <2>2. QED
    BY <1>10, <2>1 DEF WriteRow, DeleteRow, NoRow
<1>11. CASE LoseKey
  <2>1. disturbed' \in BOOLEAN
    BY <1>11 DEF LoseKey
  <2>2. QED
    BY <1>11, <2>1 DEF LoseKey
<1>12. CASE UNCHANGED keyVars
  BY <1>12 DEF keyVars
<1>13. QED
  BY <1>1, <1>2, <1>3, <1>4, <1>5, <1>6, <1>7, <1>8, <1>9, <1>10, <1>11, <1>12
  DEF KeyNext

LEMMA KeyInitTypes == KeyInit => KeyTypeOK
<1> SUFFICES ASSUME KeyInit PROVE KeyTypeOK
  OBVIOUS
<1>1. {NoRow, PlainText} \subseteq -1 .. MaxKeys
  BY KeyAssumption DEF NoRow, PlainText
<1>2. rows \in [Rows -> -1 .. MaxKeys]
  BY <1>1 DEF KeyInit
<1>3. ClosedDb \in [at : KeyStages, key : 0 .. MaxKeys, saw : 0 .. MaxKeys]
  BY KeyRange DEF ClosedDb, KeyStages
<1>4. QED
  BY <1>2, <1>3, KeyRange DEF KeyInit, KeyTypeOK

\* Whatever processes open the databases, in whatever order, every key number, row and
\* step stays one there is.
THEOREM KeyTypeCorrect == KeySpec => []KeyTypeOK
BY KeyInitTypes, KeyTypeStep, PTL DEF KeySpec

-----------------------------------------------------------------------------
(* Before the key file is lost there is one key. *)

\* The stages at which a process holds a key it has loaded or published.
Holding == {"check", "migrate", "scrub", "unflag", "open"}

HoldersShareTheFile == \A p \in KeyUsers : proc[p].at \in Holding => proc[p].key = keyFile /\ keyFile # 0

OneKey ==
  ~lost => /\ HoldersShareTheFile
           /\ check \in {0, keyFile} /\ secret \in {0, keyFile}
           /\ \A r \in Rows : rows[r] \in {NoRow, PlainText, keyFile}

LEMMA OneKeyStep ==
  ASSUME KeyTypeOK, OneKey, [KeyNext]_keyVars
  PROVE  OneKey'
<1> SUFFICES ASSUME ~lost' PROVE OneKey'
  BY DEF OneKey
<1>0. ~lost
  BY DEF KeyNext, LookAtData, LoadKey, CreateKey, CheckKey, EncryptLegacyRows, ScrubIfPending,
     ClearScrubFlag, PutSecret, DeleteScope, CloseOrDie, WriteRow, DeleteRow, LoseKey, keyVars
<1> USE <1>0 DEF KeyTypeOK, OneKey, HoldersShareTheFile, Holding, registryData, KeyGoto
<1>1. ASSUME NEW p \in KeyUsers, LookAtData(p) PROVE OneKey'
  BY <1>1 DEF LookAtData
<1>2. ASSUME NEW p \in KeyUsers, LoadKey(p) PROVE OneKey'
  BY <1>2 DEF LoadKey, ClosedDb
<1>3. ASSUME NEW p \in KeyUsers, CreateKey(p) PROVE OneKey'
  <2>1. keyFile # 0 => keyFile' = keyFile
    BY <1>3 DEF CreateKey
  <2>2. keyFile' # 0 /\ proc'[p].key = keyFile'
    BY <1>3 DEF CreateKey
  <2>3. \A q \in KeyUsers \ {p} : proc'[q] = proc[q]
    BY <1>3 DEF CreateKey
  <2>4. HoldersShareTheFile'
    BY <2>1, <2>2, <2>3
  <2>5. check' \in {0, keyFile'} /\ secret' \in {0, keyFile'}
    BY <1>3, <2>1 DEF CreateKey
  <2>6. \A r \in Rows : rows'[r] \in {NoRow, PlainText, keyFile'}
    BY <1>3, <2>1 DEF CreateKey, NoRow
  <2>7. QED
    BY <2>4, <2>5, <2>6
<1>4. ASSUME NEW p \in KeyUsers, CheckKey(p) PROVE OneKey'
  BY <1>4 DEF CheckKey
<1>5. ASSUME NEW p \in KeyUsers, EncryptLegacyRows(p) PROVE OneKey'
  BY <1>5 DEF EncryptLegacyRows
<1>6. ASSUME NEW p \in KeyUsers, ScrubIfPending(p) PROVE OneKey'
  BY <1>6 DEF ScrubIfPending
<1>7. ASSUME NEW p \in KeyUsers, ClearScrubFlag(p) PROVE OneKey'
  BY <1>7 DEF ClearScrubFlag
<1>8. ASSUME NEW p \in KeyUsers, PutSecret(p) \/ DeleteScope(p) PROVE OneKey'
  BY <1>8 DEF PutSecret, DeleteScope
<1>9. ASSUME NEW p \in KeyUsers, CloseOrDie(p) PROVE OneKey'
  BY <1>9 DEF CloseOrDie, ClosedDb
<1>10. ASSUME NEW p \in KeyUsers, NEW r \in Rows, WriteRow(p, r) \/ DeleteRow(p, r)
       PROVE  OneKey'
  BY <1>10 DEF WriteRow, DeleteRow
<1>11. CASE LoseKey
  BY <1>11 DEF LoseKey
<1>12. CASE UNCHANGED keyVars
  BY <1>12 DEF keyVars
<1>13. QED
  BY <1>1, <1>2, <1>3, <1>4, <1>5, <1>6, <1>7, <1>8, <1>9, <1>10, <1>11, <1>12
  DEF KeyNext

\* "Concurrent first starts agree on one key": link never replaces a file, so what any
\* process seals before the file is lost opens with the key in it, for any number of
\* processes that race, die and come back.
THEOREM OneKeyForEverything == KeySpec => []OneKeySealsEverything
<1>1. KeyInit => KeyTypeOK /\ OneKey
  BY KeyInitTypes DEF KeyInit, OneKey, HoldersShareTheFile, Holding, ClosedDb
<1>2. OneKey => OneKeySealsEverything
  BY DEF OneKey, OneKeySealsEverything, Sealed, NoRow
<1>3. QED
  BY <1>1, <1>2, KeyTypeStep, OneKeyStep, PTL DEF KeySpec

-----------------------------------------------------------------------------
(* The check value, before and after a loss. *)

Opening == {"load", "create", "check"}
InUse == {"migrate", "scrub", "unflag", "open"}

\* A process that is still opening and has a key has the one in the file, unless the
\* file went meanwhile.
OpenersHaveTheFile ==
  ~disturbed => \A p \in KeyUsers :
    proc[p].at = "check" => proc[p].key = keyFile

HoldersHaveAKey == \A p \in KeyUsers : proc[p].at \in Holding => proc[p].key # 0

\* What an opener saw of the check value: it is still so, or it was stored meanwhile,
\* with the key in the file.
CheckIsAsSeen ==
  \A p \in Registries : proc[p].at \in Opening =>
    IF proc[p].saw # 0 THEN check = proc[p].saw
    ELSE ~disturbed => check \in {0, keyFile}

CheckIsTheirs ==
  ~disturbed => \A p \in Registries : proc[p].at \in InUse => check = proc[p].key

CheckInv ==
  KeyTypeOK /\ OpenersHaveTheFile /\ HoldersHaveAKey /\ CheckIsAsSeen /\ CheckIsTheirs

LEMMA CheckStep ==
  ASSUME CheckInv, [KeyNext]_keyVars
  PROVE  CheckInv'
<1> USE KeyAssumption
<1> USE DEF CheckInv, OpenersHaveTheFile, HoldersHaveAKey, CheckIsAsSeen,
            CheckIsTheirs, Opening, InUse, Holding, KeyUsers, registryData, KeyGoto
<1>0. KeyTypeOK'
  BY KeyTypeStep
<1> USE DEF KeyTypeOK
<1>1. ASSUME NEW p \in KeyUsers, LookAtData(p) PROVE CheckInv'
  <2>1. \A q \in KeyUsers \ {p} : proc'[q] = proc[q]
    BY <1>1 DEF LookAtData
  <2>2. proc'[p].at = "load" /\ (p \in Registries => proc'[p].saw = check)
    BY <1>1 DEF LookAtData
  <2>3. QED
    BY <1>0, <1>1, <2>1, <2>2 DEF LookAtData
<1>2. ASSUME NEW p \in KeyUsers, LoadKey(p) PROVE CheckInv'
  <2>1. \A q \in KeyUsers \ {p} : proc'[q] = proc[q]
    BY <1>2 DEF LoadKey
  <2>2. \/ proc'[p].at = "closed"
        \/ proc'[p].at = "create" /\ proc'[p].saw = proc[p].saw
        \/ /\ proc'[p].at = (IF p \in Registries THEN "check" ELSE "open")
           /\ proc'[p].key = keyFile /\ keyFile # 0 /\ proc'[p].saw = proc[p].saw
    BY <1>2 DEF LoadKey, ClosedDb
  <2>3. QED
    BY <1>0, <1>2, <2>1, <2>2 DEF LoadKey
<1>3. ASSUME NEW p \in KeyUsers, CreateKey(p) PROVE CheckInv'
  <2>1. keyFile # 0 => keyFile' = keyFile
    BY <1>3 DEF CreateKey
  <2>2. /\ keyFile' # 0 /\ proc'[p].key = keyFile' /\ proc'[p].saw = proc[p].saw
        /\ proc'[p].at = (IF p \in Registries THEN "check" ELSE "open")
    BY <1>3 DEF CreateKey
  <2>3. \A q \in KeyUsers \ {p} : proc'[q] = proc[q]
    BY <1>3 DEF CreateKey
  <2>4. OpenersHaveTheFile' /\ HoldersHaveAKey'
    BY <1>3, <2>1, <2>2, <2>3 DEF CreateKey
  <2>5. CheckIsAsSeen' /\ CheckIsTheirs'
    BY <1>3, <2>1, <2>2, <2>3 DEF CreateKey
  <2>6. QED
    BY <1>0, <2>4, <2>5
<1>4. ASSUME NEW p \in KeyUsers, CheckKey(p) PROVE CheckInv'
  <2>1. \A q \in KeyUsers \ {p} : proc'[q] = proc[q]
    BY <1>4 DEF CheckKey
  <2>2. proc'[p].key = proc[p].key /\ proc'[p].at \in {"closed", "migrate"}
    BY <1>4 DEF CheckKey
  <2>3. proc[p].key # 0 /\ (~disturbed => proc[p].key = keyFile)
    BY <1>4 DEF CheckKey
  <2>4. check # 0 => check' = check
    BY <1>4 DEF CheckKey
  <2>5. check = 0 => check' \in {0, proc[p].key}
    BY <1>4 DEF CheckKey
  <2>6. OpenersHaveTheFile' /\ HoldersHaveAKey'
    BY <1>4, <2>1, <2>2, <2>3 DEF CheckKey
  <2>7. CheckIsAsSeen'
    BY <1>4, <2>1, <2>2, <2>3, <2>4, <2>5 DEF CheckKey
  <2>8. CheckIsTheirs'
    <3>1. ASSUME ~disturbed, p \in Registries, proc'[p].at = "migrate"
          PROVE  check' = proc[p].key
      BY <1>4, <2>3, <3>1 DEF CheckKey
    <3>2. QED
      BY <1>4, <2>1, <2>2, <2>4, <3>1 DEF CheckKey
  <2>9. QED
    BY <1>0, <2>6, <2>7, <2>8
<1>5. ASSUME NEW p \in KeyUsers, EncryptLegacyRows(p) PROVE CheckInv'
  BY <1>0, <1>5 DEF EncryptLegacyRows
<1>6. ASSUME NEW p \in KeyUsers, ScrubIfPending(p) PROVE CheckInv'
  BY <1>0, <1>6 DEF ScrubIfPending
<1>7. ASSUME NEW p \in KeyUsers, ClearScrubFlag(p) PROVE CheckInv'
  BY <1>0, <1>7 DEF ClearScrubFlag
<1>8. ASSUME NEW p \in KeyUsers, PutSecret(p) \/ DeleteScope(p) PROVE CheckInv'
  BY <1>0, <1>8 DEF PutSecret, DeleteScope
<1>9. ASSUME NEW p \in KeyUsers, CloseOrDie(p) PROVE CheckInv'
  BY <1>0, <1>9 DEF CloseOrDie, ClosedDb
<1>10. ASSUME NEW p \in KeyUsers, NEW r \in Rows, WriteRow(p, r) \/ DeleteRow(p, r)
       PROVE  CheckInv'
  BY <1>0, <1>10 DEF WriteRow, DeleteRow
<1>11. CASE LoseKey
  <2>1. ~disturbed' => ~disturbed /\ \A p \in KeyUsers : proc[p].at \in {"closed", "open"}
    BY <1>11 DEF LoseKey, OpeningDb
  <2>2. QED
    BY <1>0, <1>11, <2>1 DEF LoseKey
<1>12. CASE UNCHANGED keyVars
  BY <1>0, <1>12 DEF keyVars
<1>13. QED
  BY <1>1, <1>2, <1>3, <1>4, <1>5, <1>6, <1>7, <1>8, <1>9, <1>10, <1>11, <1>12
  DEF KeyNext

\* A lost key is an error, never a second key over the first one's registry: initKey
\* reads the check value before the file and only stores one where it saw none, so
\* every open registry is used with the key its check value was sealed with.
THEOREM OpenRegistryKey == KeySpec => []OpenRegistryHasItsKey
<1>1. KeyInit => CheckInv
  BY KeyInitTypes
  DEF KeyInit, CheckInv, OpenersHaveTheFile, HoldersHaveAKey, CheckIsAsSeen, CheckIsTheirs,
      Opening, InUse, Holding, KeyUsers, ClosedDb
<1>2. CheckInv => OpenRegistryHasItsKey
  BY DEF CheckInv, CheckIsTheirs, InUse, OpenRegistryHasItsKey
<1>3. QED
  BY <1>1, <1>2, CheckStep, PTL DEF KeySpec

-----------------------------------------------------------------------------
(* The scrub flag *)

\* Once a process has migrated, no row is ever plain text again, so the flag it clears
\* after its own scrub is not the flag of a later migration.
MigratedForGood ==
  /\ (\E p \in KeyUsers : proc[p].at \in {"scrub", "unflag"})
       => \A r \in Rows : rows[r] # PlainText
  /\ (\E p \in KeyUsers : proc[p].at = "unflag") => ~residue

ScrubInv == KeyTypeOK /\ HoldersHaveAKey /\ MigratedForGood /\ ScrubFlagTellsResidue

LEMMA ScrubStep ==
  ASSUME ScrubInv, [KeyNext]_keyVars
  PROVE  ScrubInv'
<1> USE KeyAssumption
<1> USE DEF ScrubInv, HoldersHaveAKey, Holding, MigratedForGood, ScrubFlagTellsResidue,
            registryData, KeyGoto
<1>0. KeyTypeOK'
  BY KeyTypeStep
<1> USE DEF KeyTypeOK
<1>1. ASSUME NEW p \in KeyUsers, LookAtData(p) PROVE ScrubInv'
  BY <1>0, <1>1 DEF LookAtData
<1>2. ASSUME NEW p \in KeyUsers, LoadKey(p) PROVE ScrubInv'
  BY <1>0, <1>2 DEF LoadKey, ClosedDb
<1>3. ASSUME NEW p \in KeyUsers, CreateKey(p) PROVE ScrubInv'
  BY <1>0, <1>3 DEF CreateKey
<1>4. ASSUME NEW p \in KeyUsers, CheckKey(p) PROVE ScrubInv'
  BY <1>0, <1>4 DEF CheckKey
<1>5. ASSUME NEW p \in KeyUsers, EncryptLegacyRows(p) PROVE ScrubInv'
  <2>1. proc[p].key \in 1 .. MaxKeys
    BY <1>5 DEF EncryptLegacyRows
  <2>2. \A r \in Rows : rows'[r] # PlainText
    BY <1>5, <2>1 DEF EncryptLegacyRows, PlainText
  <2>3. HoldersHaveAKey'
    BY <1>5 DEF EncryptLegacyRows
  <2>4. (\E q \in KeyUsers : proc'[q].at = "unflag") => ~residue'
    BY <1>5 DEF EncryptLegacyRows
  <2>5. residue' => scrub'
    BY <1>5 DEF EncryptLegacyRows
  <2>6. QED
    BY <1>0, <2>2, <2>3, <2>4, <2>5
<1>6. ASSUME NEW p \in KeyUsers, ScrubIfPending(p) PROVE ScrubInv'
  BY <1>0, <1>6 DEF ScrubIfPending
<1>7. ASSUME NEW p \in KeyUsers, ClearScrubFlag(p) PROVE ScrubInv'
  BY <1>0, <1>7 DEF ClearScrubFlag
<1>8. ASSUME NEW p \in KeyUsers, PutSecret(p) \/ DeleteScope(p) PROVE ScrubInv'
  BY <1>0, <1>8 DEF PutSecret, DeleteScope
<1>9. ASSUME NEW p \in KeyUsers, CloseOrDie(p) PROVE ScrubInv'
  BY <1>0, <1>9 DEF CloseOrDie, ClosedDb
<1>10. ASSUME NEW p \in KeyUsers, NEW r \in Rows, WriteRow(p, r) \/ DeleteRow(p, r)
       PROVE  ScrubInv'
  <2>1. proc[p].at = "open" /\ proc[p].key \in 1 .. MaxKeys
    BY <1>10 DEF WriteRow, DeleteRow
  <2>2. \A s \in Rows : rows'[s] = PlainText => rows[s] = PlainText
    BY <1>10, <2>1 DEF WriteRow, DeleteRow, PlainText, NoRow
  <2>3. QED
    BY <1>0, <1>10, <2>2 DEF WriteRow, DeleteRow
<1>11. CASE LoseKey
  BY <1>0, <1>11 DEF LoseKey
<1>12. CASE UNCHANGED keyVars
  BY <1>0, <1>12 DEF keyVars
<1>13. QED
  BY <1>1, <1>2, <1>3, <1>4, <1>5, <1>6, <1>7, <1>8, <1>9, <1>10, <1>11, <1>12
  DEF KeyNext

\* A process killed between migrating the rows and finishing the scrub, or several of
\* them at once, never leaves plaintext in the files without the flag that makes a later
\* Open scrub it.
THEOREM ScrubFlagIsTrue == KeySpec => []ScrubFlagTellsResidue
<1>1. KeyInit => ScrubInv
  BY KeyInitTypes
  DEF KeyInit, ScrubInv, HoldersHaveAKey, Holding, MigratedForGood, ScrubFlagTellsResidue,
      ClosedDb
<1>2. QED
  BY <1>1, ScrubStep, PTL DEF KeySpec, ScrubInv

-----------------------------------------------------------------------------
(* The import of tokens.json *)

ClientState ==
  [at : {"rest", "open", "copy", "act"}, left : SUBSET Slots, op : {"list", "set", "clear"},
   slot : SUBSET Slots]

\* Looking at the tokens is about no slot.
ListsNothing == \A c \in Clients : client[c].op = "list" => client[c].slot = {}

ImportTypes == ImportTypeOK /\ ListsNothing

\* Whoever acts has the marker behind it, and so has every slot the user changed.
ImportedFirst ==
  /\ \A c \in Clients : client[c].at = "act" => imported
  /\ \A s \in Slots : chosen[s] # "none" => imported

\* What an import has yet to copy the user has not changed, or changed in its middle.
CopiesAreUntouched ==
  \A c \in Clients : client[c].at = "copy" =>
    \A s \in client[c].left \ crossed : chosen[s] = "none"

ImportInv == ImportTypes /\ ImportedFirst /\ CopiesAreUntouched /\ ImportUndoesNothing

\* It is enough to know what the client that moves becomes.
LEMMA ClientMoves ==
  ASSUME ImportTypes, NEW c \in Clients, NEW t \in ClientState,
         t.op = "list" => t.slot = {}, client' = [client EXCEPT ![c] = t]
  PROVE  /\ client' \in [Clients -> ClientState] /\ ListsNothing'
         /\ client'[c] = t /\ \A d \in Clients : d # c => client'[d] = client[d]
BY DEF ImportTypes, ImportTypeOK, ListsNothing, ClientState

LEMMA RestingType == Resting \in ClientState /\ Resting.at = "rest" /\ Resting.op = "list"
                     /\ Resting.slot = {}
BY DEF Resting, ClientState

\* A client that begins has nothing to copy and looks, sets one slot or clears them all.
LEMMA OpenedType ==
  ASSUME NEW c \in Clients, BeginTokens(c)
  PROVE  \E t \in ClientState : /\ client' = [client EXCEPT ![c] = t]
                                /\ t.at = "open" /\ (t.op = "list" => t.slot = {})
<1>1. PICK o \in TokenOps :
        client' = [client EXCEPT ![c] = [at |-> "open", left |-> {}, op |-> o.op, slot |-> o.slot]]
  BY DEF BeginTokens
<1>2. o.op \in {"list", "set", "clear"} /\ o.slot \subseteq Slots /\ (o.op = "list" => o.slot = {})
  <2>1. CASE o = [op |-> "list", slot |-> {}]
    BY <2>1
  <2>2. CASE o = [op |-> "clear", slot |-> Slots]
    BY <2>2
  <2>3. CASE \E s \in Slots : o = [op |-> "set", slot |-> {s}]
    BY <2>3
  <2>4. QED
    BY <2>1, <2>2, <2>3 DEF TokenOps
<1> DEFINE t == [at |-> "open", left |-> {}, op |-> o.op, slot |-> o.slot]
<1>3. t \in ClientState /\ t.at = "open" /\ (t.op = "list" => t.slot = {})
  BY <1>2 DEF ClientState
<1>4. QED
  BY <1>1, <1>3

\* What a client that opens, copies or marks becomes.
LEMMA ImporterGoes ==
  ASSUME ImportTypes, NEW c \in Clients,
         \/ ReadLegacy(c) \/ MarkImported(c) \/ \E s \in Slots : CopyToken(c, s)
  PROVE  \E t \in ClientState :
           /\ client' = [client EXCEPT ![c] = t]
           /\ t.op = "list" => t.slot = {}
           /\ t.at = "act" => imported'
           /\ t.at = "copy" => ~imported \/ (client[c].at = "copy" /\ t.left \subseteq client[c].left)
<1>0. client[c] \in ClientState /\ (client[c].op = "list" => client[c].slot = {})
  BY DEF ImportTypes, ImportTypeOK, ListsNothing, ClientState
<1>1. CASE ReadLegacy(c)
  <2>1. CASE imported
    <3> DEFINE t == [client[c] EXCEPT !.at = "act"]
    <3>1. t \in ClientState /\ t.at = "act" /\ t.op = client[c].op /\ t.slot = client[c].slot
      BY <1>0 DEF ClientState
    <3>2. client' = [client EXCEPT ![c] = t] /\ imported'
      BY <1>1, <2>1 DEF ReadLegacy
    <3>3. QED
      BY <1>0, <3>1, <3>2
  <2>2. CASE ~imported /\ legacy = Garbled
    BY <1>1, <2>2, RestingType DEF ReadLegacy
  <2>3. CASE ~imported /\ legacy # Garbled
    <3> DEFINE t == [client[c] EXCEPT !.at = "copy", !.left = legacy]
    <3>1. legacy \subseteq Slots
      BY <2>3 DEF ImportTypes, ImportTypeOK
    <3>2. t \in ClientState /\ t.at = "copy" /\ t.op = client[c].op /\ t.slot = client[c].slot
      BY <1>0, <3>1 DEF ClientState
    <3>3. client' = [client EXCEPT ![c] = t]
      BY <1>1, <2>3 DEF ReadLegacy
    <3>4. QED
      BY <1>0, <2>3, <3>2, <3>3
  <2>4. QED
    BY <2>1, <2>2, <2>3
<1>2. CASE MarkImported(c)
  <2> DEFINE t == [client[c] EXCEPT !.at = "act"]
  <2>1. t \in ClientState /\ t.at = "act" /\ t.op = client[c].op /\ t.slot = client[c].slot
    BY <1>0 DEF ClientState
  <2>2. client' = [client EXCEPT ![c] = t] /\ imported'
    BY <1>2 DEF MarkImported
  <2>3. QED
    BY <1>0, <2>1, <2>2
<1>3. ASSUME NEW s \in Slots, CopyToken(c, s)
      PROVE  \E t \in ClientState :
               /\ client' = [client EXCEPT ![c] = t]
               /\ t.op = "list" => t.slot = {}
               /\ t.at = "act" => imported'
               /\ t.at = "copy" => client[c].at = "copy" /\ t.left \subseteq client[c].left
  <2> DEFINE t == [client[c] EXCEPT !.left = client[c].left \ {s}]
  <2>1. /\ t \in ClientState /\ t.at = "copy" /\ t.op = client[c].op /\ t.slot = client[c].slot
        /\ t.left \subseteq client[c].left
    BY <1>0, <1>3 DEF ClientState, CopyToken
  <2>2. client' = [client EXCEPT ![c] = t] /\ client[c].at = "copy"
    BY <1>3 DEF CopyToken
  <2>3. QED
    BY <1>0, <2>1, <2>2
<1>4. QED
  BY <1>1, <1>2, <1>3

LEMMA ImportTypeStep ==
  ASSUME ImportTypes, [ImportNext]_importVars
  PROVE  ImportTypes'
<1> USE DEF ImportTypeOK
<1>0. ImportTypeOK /\ ListsNothing
  BY DEF ImportTypes
<1>cl. [at : {"rest", "open", "copy", "act"}, left : SUBSET Slots,
        op : {"list", "set", "clear"}, slot : SUBSET Slots] = ClientState
  BY DEF ClientState
<1>1. ASSUME NEW c \in Clients, NEW t \in ClientState, t.op = "list" => t.slot = {},
             client' = [client EXCEPT ![c] = t],
             legacy' \in (SUBSET Slots) \cup {Garbled},
             token' \in [Slots -> {"none", "legacy", "user"}], imported' \in BOOLEAN,
             chosen' \in [Slots -> {"none", "set", "clear"}], crossed' \subseteq Slots
      PROVE  ImportTypes'
  BY <1>cl, <1>1, ClientMoves DEF ImportTypes
<1>2. ASSUME NEW c \in Clients, BeginTokens(c) PROVE ImportTypes'
  BY <1>0, <1>1, <1>2, OpenedType DEF BeginTokens, tokenHistory
<1>3. ASSUME NEW c \in Clients,
             ReadLegacy(c) \/ MarkImported(c) \/ \E s \in Slots : CopyToken(c, s)
      PROVE  ImportTypes'
  <2>1. \E t \in ClientState :
          client' = [client EXCEPT ![c] = t] /\ (t.op = "list" => t.slot = {})
    BY <1>3, ImporterGoes
  <2>2. /\ legacy' = legacy /\ token' \in [Slots -> {"none", "legacy", "user"}]
        /\ imported' \in BOOLEAN /\ UNCHANGED <<chosen, crossed>>
    BY <1>0, <1>3 DEF ReadLegacy, MarkImported, CopyToken, tokenHistory
  <2>3. QED
    BY <1>0, <1>1, <2>1, <2>2
<1>4. ASSUME NEW c \in Clients, ActOnTokens(c) PROVE ImportTypes'
  <2>1. client[c].op \in {"list", "set", "clear"} /\ client[c].slot \subseteq Slots
    BY <1>0
  <2>2. chosen' \in [Slots -> {"none", "set", "clear"}]
    <3>1. \A s \in client[c].slot : client[c].op \in {"set", "clear"}
      BY <1>0, <2>1 DEF ListsNothing
    <3>2. chosen' = [s \in Slots |-> IF s \in client[c].slot THEN client[c].op ELSE chosen[s]]
      BY <1>4 DEF ActOnTokens
    <3>3. QED
      BY <1>0, <3>1, <3>2
  <2>3. token' \in [Slots -> {"none", "legacy", "user"}] /\ crossed' \subseteq Slots
    BY <1>0, <1>4, <2>1 DEF ActOnTokens
  <2>4. client' = [client EXCEPT ![c] = Resting] /\ UNCHANGED <<legacy, imported>>
    BY <1>4 DEF ActOnTokens
  <2>5. QED
    BY <1>0, <1>1, <2>2, <2>3, <2>4, RestingType
<1>5. ASSUME NEW c \in Clients, AbandonTokens(c) PROVE ImportTypes'
  BY <1>0, <1>1, <1>5, RestingType DEF AbandonTokens, tokenHistory
<1>6. CASE ChangeTokensFile
  BY <1>0, <1>6 DEF ChangeTokensFile, tokenHistory, ListsNothing, ImportTypes
<1>7. CASE UNCHANGED importVars
  BY <1>0, <1>7 DEF importVars, ListsNothing, ImportTypes
<1>8. QED
  BY <1>2, <1>3, <1>4, <1>5, <1>6, <1>7 DEF ImportNext

LEMMA ImportInitTypes ==
  ASSUME ImportInit
  PROVE  ImportTypes /\ \A c \in Clients : client[c].at = "rest"
<1>1. client = [c \in Clients |-> Resting]
  BY DEF ImportInit
<1>2. client \in [Clients -> ClientState] /\ \A c \in Clients : client[c] = Resting
  BY <1>1, RestingType
<1>3. QED
  BY <1>2, RestingType DEF ImportInit, ImportTypes, ImportTypeOK, ListsNothing, ClientState

\* Whatever tokens.json holds, and whenever it changes, the vault holds tokens of slots.
THEOREM ImportTypeCorrect == ImportSpec => []ImportTypeOK
<1>1. ImportInit => ImportTypes
  BY ImportInitTypes
<1>2. ImportTypes => ImportTypeOK
  BY DEF ImportTypes
<1>3. QED
  BY <1>1, <1>2, ImportTypeStep, PTL DEF ImportSpec

LEMMA ImportStep ==
  ASSUME ImportInv, [ImportNext]_importVars
  PROVE  ImportInv'
<1> DEFINE Kept == ImportedFirst' /\ CopiesAreUntouched' /\ ImportUndoesNothing'
<1>0. ImportTypes /\ ImportTypes' /\ ImportTypeOK
  BY ImportTypeStep DEF ImportInv, ImportTypes
\* A step that leaves the tokens alone and brings nothing new to copy.
<1>1. ASSUME NEW c \in Clients, NEW t \in ClientState, t.op = "list" => t.slot = {},
             client' = [client EXCEPT ![c] = t], t.at \in {"rest", "open"},
             UNCHANGED <<token, imported, chosen, crossed>>
      PROVE  Kept
  <2>1. client'[c] = t /\ \A d \in Clients : d # c => client'[d] = client[d]
    BY <1>0, <1>1, ClientMoves
  <2>2. QED
    BY <1>1, <2>1
    DEF ImportInv, ImportedFirst, CopiesAreUntouched, ImportUndoesNothing
<1>2. ASSUME NEW c \in Clients, BeginTokens(c) PROVE Kept
  BY <1>1, <1>2, OpenedType DEF BeginTokens, tokenHistory
<1>3. ASSUME NEW c \in Clients, AbandonTokens(c) PROVE Kept
  BY <1>1, <1>3, RestingType DEF AbandonTokens, tokenHistory
<1>4. ASSUME NEW c \in Clients,
             ReadLegacy(c) \/ MarkImported(c) \/ \E s \in Slots : CopyToken(c, s)
      PROVE  Kept
  <2>1. PICK t \in ClientState :
           /\ client' = [client EXCEPT ![c] = t]
           /\ t.op = "list" => t.slot = {}
           /\ t.at = "act" => imported'
           /\ t.at = "copy" => ~imported \/ (client[c].at = "copy" /\ t.left \subseteq client[c].left)
    BY <1>0, <1>4, ImporterGoes
  <2>2. client'[c] = t /\ \A d \in Clients : d # c => client'[d] = client[d]
    BY <1>0, <2>1, ClientMoves
  <2>3. (imported => imported') /\ UNCHANGED <<chosen, crossed>>
    BY <1>4 DEF ReadLegacy, MarkImported, CopyToken, tokenHistory
  <2>4. ImportedFirst'
    BY <2>1, <2>2, <2>3 DEF ImportInv, ImportedFirst
  \* Before the marker the user has changed nothing.
  <2>5. ~imported => \A s \in Slots : chosen[s] = "none"
    BY DEF ImportInv, ImportedFirst
  <2>6. CopiesAreUntouched'
    <3>1. t.left \subseteq Slots
      BY DEF ClientState
    <3>2. QED
      BY <2>1, <2>2, <2>3, <2>5, <3>1 DEF ImportInv, CopiesAreUntouched
  <2>7. ImportUndoesNothing'
    <3>1. CASE token' = token
      BY <2>3, <3>1 DEF ImportInv, ImportUndoesNothing
    <3>2. ASSUME NEW s \in Slots, CopyToken(c, s) PROVE ImportUndoesNothing'
      <4>1. s \notin crossed => chosen[s] = "none"
        BY <3>2 DEF ImportInv, CopiesAreUntouched, CopyToken
      <4>2. \A r \in Slots : r # s => token'[r] = token[r]
        BY <1>0, <3>2 DEF CopyToken, ImportTypeOK
      <4>3. QED
        BY <2>3, <4>1, <4>2 DEF ImportInv, ImportUndoesNothing
    <3>3. QED
      BY <1>4, <3>1, <3>2 DEF ReadLegacy, MarkImported
  <2>8. QED
    BY <2>4, <2>6, <2>7
<1>5. ASSUME NEW c \in Clients, ActOnTokens(c) PROVE Kept
  <2> DEFINE S == client[c].slot
             others == \E d \in Clients \ {c} : client[d].at = "copy"
  <2>1. /\ token' = [s \in Slots |-> IF s \notin S THEN token[s]
                                     ELSE IF client[c].op = "set" THEN "user" ELSE "none"]
        /\ chosen' = [s \in Slots |-> IF s \in S THEN client[c].op ELSE chosen[s]]
        /\ crossed' = IF others THEN crossed \cup S ELSE crossed \ S
        /\ client' = [client EXCEPT ![c] = Resting]
        /\ client[c].at = "act" /\ imported' = imported
    BY <1>5 DEF ActOnTokens
  <2>2. /\ \A s \in Slots \ S : token'[s] = token[s] /\ chosen'[s] = chosen[s]
        /\ \A s \in S \cap Slots : /\ chosen'[s] = client[c].op
                                   /\ client[c].op = "set" => token'[s] = "user"
                                   /\ client[c].op = "clear" => token'[s] = "none"
    BY <2>1
  <2>3. client'[c].at = "rest" /\ \A d \in Clients : d # c => client'[d] = client[d]
    BY <1>0, <2>1, ClientMoves, RestingType
  <2>4. imported
    BY <2>1 DEF ImportInv, ImportedFirst
  <2>5. ImportedFirst'
    BY <2>1, <2>4 DEF ImportedFirst
  <2>6. CopiesAreUntouched'
    <3>1. CASE others
      <4>1. crossed' = crossed \cup S
        BY <2>1, <3>1
      <4>2. \A d \in Clients : client[d].left \subseteq Slots
        BY <1>0 DEF ImportTypeOK
      <4> HIDE DEF S, others
      <4>3. QED
        BY <2>2, <2>3, <4>1, <4>2 DEF ImportInv, CopiesAreUntouched
    <3>2. CASE ~others
      BY <2>3, <3>2 DEF CopiesAreUntouched
    <3>3. QED
      BY <3>1, <3>2
  <2>7. ImportUndoesNothing'
    <3>1. \A s \in Slots \ S : s \notin crossed' => s \notin crossed
      BY <2>1
    <3>2. QED
      BY <2>2, <3>1 DEF ImportInv, ImportUndoesNothing
  <2>8. QED
    BY <2>5, <2>6, <2>7
<1>6. ASSUME UNCHANGED <<token, imported, client, chosen, crossed>> PROVE Kept
  BY <1>6 DEF ImportInv, ImportedFirst, CopiesAreUntouched, ImportUndoesNothing
<1>7. Kept
  <2>1. CASE ChangeTokensFile
    BY <1>6, <2>1 DEF ChangeTokensFile, tokenHistory
  <2>2. CASE UNCHANGED importVars
    BY <1>6, <2>2 DEF importVars
  <2> HIDE DEF Kept
  <2>3. QED
    BY <1>2, <1>3, <1>4, <1>5, <2>1, <2>2 DEF ImportNext
<1>8. QED
  BY <1>0, <1>7 DEF ImportInv

\* No import brings back a token the user has replaced or removed, for any number of
\* processes and slots and any number of deaths, edits and later imports, except what
\* the user did in the middle of another process's import.
THEOREM TokensStay == ImportSpec => []ImportUndoesNothing
<1>1. ImportInit => ImportInv
  <2>1. ASSUME ImportInit PROVE \A s \in Slots : chosen[s] = "none"
    BY <2>1 DEF ImportInit
  <2>2. QED
    BY <2>1, ImportInitTypes
    DEF ImportInv, ImportedFirst, CopiesAreUntouched, ImportUndoesNothing
<1>2. ImportInv => ImportUndoesNothing
  BY DEF ImportInv
<1>3. QED
  BY <1>1, <1>2, ImportStep, PTL DEF ImportSpec

-----------------------------------------------------------------------------
(* The registry: the parts of the inductive invariant *)

\* A row that is there was numbered by the counter, which has not reached later ids.
IdsAreIssued == \A c \in Ids : row[c].there => c <= lastId

\* The sweeper works with a time that has come, and knows of nothing before its scan.
SweepHasBegun ==
  /\ sweep.began <= now
  /\ sweep.at # "rotate" => sweep.due = {}

\* What the scan found due still is as it was found, unless somebody touched it.
FoundStaysDue ==
  \A c \in sweep.due : c \notin touched => row[c].there /\ Due(c, sweep.began)

RegistryInv == RegistryTypeOK /\ IdsAreIssued /\ SweepHasBegun /\ FoundStaysDue

-----------------------------------------------------------------------------
(* The registry: types *)

LEMMA GivenTypes == Given \subseteq Nat /\ Never \in Given
BY RegistryAssumption DEF Given, Never

LEMMA DeadlineTypes ==
  ASSUME RegistryTypeOK, NEW ttl \in Given
  PROVE  Deadline(ttl) \in Nat
BY GivenTypes, RegistryAssumption DEF RegistryTypeOK, Deadline, Never

LEMMA GoneType ==
  Gone \in [there : BOOLEAN, every : Intervals \cup {Never}, rotated : Nat, expires : Nat]
BY DEF Gone, Never

LEMMA TypeStep ==
  ASSUME RegistryTypeOK, [RegistryNext]_registryVars
  PROVE  RegistryTypeOK'
<1> USE RegistryAssumption DEF RegistryTypeOK, Given
<1>1. ASSUME NEW in \in handleCreate \cup connAdd, Create(in) PROVE RegistryTypeOK'
  <2>1. in.every \in Intervals \cup {Never} /\ in.expires \in Nat
    BY DeadlineTypes DEF handleCreate, connAdd, Never
  <2>2. now \in Nat /\ lastId + 1 \in Ids /\ lastId + 1 \in 0 .. MaxConns
    BY <1>1 DEF Create, Ids
  <2>3. [there |-> TRUE, every |-> in.every, rotated |-> now, expires |-> in.expires]
          \in [there : BOOLEAN, every : Intervals \cup {Never}, rotated : Nat, expires : Nat]
    BY <2>1, <2>2
  <2>4. QED
    BY <1>1, <2>2, <2>3 DEF Create
<1>2. ASSUME NEW c \in Ids, NEW in \in handleUpdate(c), UpdateConn(c, in)
      PROVE  RegistryTypeOK'
  <2>1. in.every \in Intervals \cup {Never} /\ in.expires \in Nat
    BY DeadlineTypes DEF handleUpdate
  <2>2. row' \in [Ids -> [there : BOOLEAN, every : Intervals \cup {Never}, rotated : Nat,
                         expires : Nat]]
    <3>1. row' = [row EXCEPT ![c] = [row[c] EXCEPT !.every = in.every, !.expires = in.expires]]
      BY <1>2 DEF UpdateConn
    <3> DEFINE RegistryRows == [there : BOOLEAN, every : Intervals \cup {Never}, rotated : Nat,
                        expires : Nat]
    <3>2. ASSUME NEW r \in RegistryRows, NEW e \in Intervals \cup {Never}, NEW x \in Nat
          PROVE  [r EXCEPT !.every = e, !.expires = x] \in RegistryRows
      OBVIOUS
    <3>3. QED
      BY <2>1, <3>1, <3>2
  <2>3. QED
    BY <1>2, <2>2 DEF UpdateConn
<1>3. ASSUME NEW c \in Ids, RotateConn(c) PROVE RegistryTypeOK'
  <2>1. now \in Nat
    OBVIOUS
  <2>2. QED
    BY <1>3, <2>1 DEF RotateConn
<1>4. ASSUME NEW c \in Ids, DeleteConn(c) PROVE RegistryTypeOK'
  BY <1>4, GoneType DEF DeleteConn
<1>5. ASSUME NEW c \in Ids, RotateNext(c) PROVE RegistryTypeOK'
  <2>1. row' \in [Ids -> [there : BOOLEAN, every : Intervals \cup {Never}, rotated : Nat,
                         expires : Nat]]
    BY <1>5 DEF RotateNext
  <2>2. QED
    BY <1>5, <2>1 DEF RotateNext
<1>6. CASE DeleteExpired
  BY <1>6, GoneType DEF DeleteExpired
<1>7. CASE ScanDue \/ SweepEnds \/ TimePasses
  <2>1. CASE ScanDue
    BY <2>1 DEF ScanDue
  <2>2. CASE SweepEnds
    BY <2>2 DEF SweepEnds, Asleep
  <2>3. CASE TimePasses
    BY <2>3 DEF TimePasses
  <2>4. QED
    BY <1>7, <2>1, <2>2, <2>3
<1>8. CASE UNCHANGED registryVars
  BY <1>8 DEF registryVars
<1>9. QED
  BY <1>1, <1>2, <1>3, <1>4, <1>5, <1>6, <1>7, <1>8 DEF RegistryNext

\* Operators and the sweeper keep every variable within its type: no expiry, interval
\* or id out of range, whatever intervals are given.
THEOREM RegistryTypeCorrect == RegistrySpec => []RegistryTypeOK
<1>1. RegistryInit => RegistryTypeOK
  BY RegistryAssumption DEF RegistryInit, RegistryTypeOK, Gone, Asleep, Never
<1>2. QED
  BY <1>1, TypeStep, PTL DEF RegistrySpec

-----------------------------------------------------------------------------
(* The sweep *)

LEMMA SweepStep ==
  ASSUME RegistryInv, [RegistryNext]_registryVars
  PROVE  RegistryInv'
<1> USE RegistryAssumption
<1> USE DEF RegistryInv, RegistryTypeOK, IdsAreIssued, SweepHasBegun, FoundStaysDue, Due
<1>1. RegistryTypeOK'
  BY TypeStep
<1>2. ASSUME NEW in \in handleCreate \cup connAdd, Create(in) PROVE RegistryInv'
  <2>1. lastId + 1 \in Ids /\ lastId' = lastId + 1
    BY <1>2 DEF Create, Ids
  <2>2. \A c \in Ids : c # lastId + 1 => row'[c] = row[c]
    BY <1>2 DEF Create
  <2>3. ~row[lastId + 1].there
    BY <2>1
  <2>4. IdsAreIssued'
    <3>1. lastId \in Nat /\ \A c \in Ids : c \in Nat
      BY DEF Ids
    <3>2. ASSUME NEW c \in Ids, row'[c].there PROVE c <= lastId'
      <4>1. CASE c = lastId + 1
        BY <2>1, <3>1, <4>1
      <4>2. CASE c # lastId + 1
        <5>1. c <= lastId
          BY <2>2, <3>2, <4>2
        <5>2. QED
          BY <2>1, <3>1, <5>1
      <4>3. QED
        BY <4>1, <4>2
    <3> HIDE DEF RegistryInv, RegistryTypeOK
    <3>3. QED
      BY <3>2
  <2>5. FoundStaysDue'
    <3>1. \A c \in sweep.due : c \notin touched => c \in Ids /\ c # lastId + 1
      BY <2>3
    <3>2. UNCHANGED <<sweep, touched>>
      BY <1>2 DEF Create
    <3>3. \A c \in sweep.due : c \notin touched => row'[c] = row[c]
      BY <2>2, <3>1
    <3>4. QED
      BY <3>2, <3>3
  <2>6. SweepHasBegun'
    BY <1>2 DEF Create
  <2> HIDE DEF RegistryTypeOK, IdsAreIssued, SweepHasBegun, FoundStaysDue
  <2>7. QED
    BY <1>1, <2>4, <2>5, <2>6
<1>3. ASSUME NEW c \in Ids, NEW in \in handleUpdate(c), UpdateConn(c, in)
      PROVE  RegistryInv'
  BY <1>1, <1>3 DEF UpdateConn
<1>4. ASSUME NEW c \in Ids, RotateConn(c) PROVE RegistryInv'
  BY <1>1, <1>4 DEF RotateConn
<1>5. ASSUME NEW c \in Ids, DeleteConn(c) PROVE RegistryInv'
  BY <1>1, <1>5 DEF DeleteConn, Gone
<1>6. ASSUME NEW c \in Ids, RotateNext(c) PROVE RegistryInv'
  <2>1. \A d \in Ids : d # c => row'[d] = row[d]
    BY <1>6 DEF RotateNext
  <2>2. row'[c].there = row[c].there
    BY <1>6 DEF RotateNext
  <2>3. sweep'.due = sweep.due \ {c} /\ sweep'.began = sweep.began /\ sweep'.at = "rotate"
    BY <1>6 DEF RotateNext
  <2>4. QED
    BY <1>1, <1>6, <2>1, <2>2, <2>3 DEF RotateNext
<1>7. CASE DeleteExpired
  BY <1>1, <1>7 DEF DeleteExpired, Gone
<1>8. CASE ScanDue
  <2>1. sweep'.began = sweep.began /\ sweep'.at = "rotate" /\ touched' = {}
        /\ sweep'.due = {c \in Ids : row[c].there /\ Due(c, sweep.began)}
    BY <1>8 DEF ScanDue
  <2>2. QED
    BY <1>1, <1>8, <2>1 DEF ScanDue
<1>9. CASE SweepEnds
  BY <1>1, <1>9 DEF SweepEnds, Asleep
<1>10. CASE TimePasses
  BY <1>1, <1>10 DEF TimePasses
<1>11. CASE UNCHANGED registryVars
  BY <1>1, <1>11 DEF registryVars
<1>12. QED
  BY <1>2, <1>3, <1>4, <1>5, <1>6, <1>7, <1>8, <1>9, <1>10, <1>11 DEF RegistryNext

\* RotateDue replaces no password before its time: what it rotates was due when the
\* sweep began, so is due now, and its schedule only moves forward, unless somebody
\* changed the connection after the scan.
THEOREM SweepIsDue == RegistrySpec => SweepRotatesOnlyWhatIsDue
<1>1. RegistryInit => RegistryInv
  BY RegistryAssumption
  DEF RegistryInit, RegistryInv, RegistryTypeOK, IdsAreIssued, SweepHasBegun, FoundStaysDue,
      Gone, Asleep, Never
<1>2. ASSUME RegistryInv, NEW c \in Ids, RotateNext(c), row' # row, c \notin touched
      PROVE  Due(c, now) /\ row'[c].rotated >= row[c].rotated
  <2>1. Due(c, sweep.began) /\ sweep.began <= now
    BY <1>2 DEF RegistryInv, SweepHasBegun, FoundStaysDue, RotateNext
  <2>2. row'[c].rotated = sweep.began
    BY <1>2 DEF RotateNext, RegistryInv, RegistryTypeOK
  <2>3. /\ row[c].rotated \in Nat /\ row[c].every \in Nat
        /\ now \in Nat /\ sweep.began \in Nat
    <3>1. /\ row[c] \in [there : BOOLEAN, every : Intervals \cup {Never}, rotated : Nat,
                         expires : Nat]
          /\ now \in 0 .. MaxTime /\ sweep.began \in Nat
      BY <1>2 DEF RegistryInv, RegistryTypeOK
    <3>2. row[c].every \in Intervals \cup {Never} /\ row[c].rotated \in Nat
      BY <3>1
    <3>3. row[c].every \in Nat
      <4>1. row[c].every \in Given
        BY <3>2 DEF Given
      <4>2. QED
        BY <4>1, GivenTypes
    <3>4. now \in Nat
      BY <3>1, RegistryAssumption
    <3>5. QED
      BY <3>1, <3>2, <3>3, <3>4
  <2>4. QED
    BY <2>1, <2>2, <2>3 DEF Due
<1>3. RegistryInv /\ [RegistryNext]_registryVars
        => [\A c \in Ids : RotateNext(c) /\ row' # row /\ c \notin touched
              => Due(c, now) /\ row'[c].rotated >= row[c].rotated]_registryVars
  BY <1>2
<1>4. QED
  BY <1>1, <1>3, SweepStep, PTL DEF RegistrySpec, SweepRotatesOnlyWhatIsDue

-----------------------------------------------------------------------------
(* Masking: types *)

Names == Columns \cup Relations \cup Forms \cup {"own"} \cup Aliases
Outputs == [origin : SUBSET (Relations \X Columns), name : Names, shows : SUBSET Columns]
Statements == [at : {"checking", "allowed", "sent"}, text : Texts,
               excused : SUBSET Relations, masked : SUBSET Outputs]
Snapshots == [known : BOOLEAN, schema : [Relations -> SUBSET Columns], age : Ages, kept : BOOLEAN]

\* A statement is being worked on, and is about a relation there is.
MaskingTypes ==
  /\ MaskingTypeOK
  /\ query \in {NoQuery} \cup Statements
  /\ query \in Statements => schema[query.text.from] # {}

LEMMA CatalogType ==
  ASSUME MaskingTypes
  PROVE  Fresh \in Snapshots /\ NoSnapshot \in Snapshots /\ snapshot \in Snapshots
         /\ \A cat \in Snapshots : [cat EXCEPT !.kept = TRUE] \in Snapshots
<1>1. Fresh \in Snapshots /\ snapshot \in Snapshots
  BY DEF MaskingTypes, MaskingTypeOK, Fresh, Snapshots, Ages
<1>2. NoSnapshot \in Snapshots
  BY DEF NoSnapshot, Empty, Snapshots, Ages
<1>3. QED
  BY <1>1, <1>2 DEF Snapshots

LEMMA ChosenCatalogType ==
  ASSUME MaskingTypes, NEW young, NEW cat \in CatalogFor(young)
  PROVE  cat \in Snapshots
BY CatalogType DEF CatalogFor

\* What a result shows are columns of the statement's relation.
LEMMA ResultType ==
  ASSUME schema \in [Relations -> SUBSET Columns], NEW q \in Texts, NEW out \in Result(q)
  PROVE  out \in Outputs /\ out.shows \subseteq schema[q.from]
<1> DEFINE own == schema[q.from]
<1>1. /\ q.from \in Relations /\ q.form \in Forms /\ q.column \in Columns
      /\ q.name \in {"own"} \cup Aliases /\ q.setOp \in BOOLEAN /\ own \subseteq Columns
      /\ Written(q) \in Columns \cup Aliases
  BY DEF Texts, Written
<1>2. ASSUME NEW c \in own, NEW name \in Names, out = Output(q, q.from, c, name)
      PROVE  out \in Outputs /\ out.shows \subseteq own
  BY <1>1, <1>2 DEF Output, Outputs
<1>3. ASSUME NEW name \in Names, NEW shows \in SUBSET own, out \in Computed(q, name, shows)
      PROVE  out \in Outputs /\ out.shows \subseteq own
  <2>1. out = [origin |-> {}, name |-> IF q.name = "own" THEN name ELSE q.name, shows |-> shows]
    BY <1>3 DEF Computed
  <2>2. (IF q.name = "own" THEN name ELSE q.name) \in Names
    BY <1>1 DEF Names
  <2>3. QED
    BY <1>1, <2>1, <2>2 DEF Outputs
<1>n. Columns \subseteq Names /\ Relations \subseteq Names /\ Forms \subseteq Names /\ Aliases \subseteq Names
  BY DEF Names
<1>4. CASE q.form = "column"
  <2>1. q.column \in own /\ out = Output(q, q.from, q.column, IF q.name = "own" THEN Written(q) ELSE q.name)
    BY <1>4 DEF Result
  <2>2. QED
    BY <1>1, <1>2, <1>n, <2>1
<1>5. CASE q.form = "star"
  BY <1>1, <1>2, <1>5, <1>n DEF Result
<1>6. CASE q.form = "row"
  BY <1>1, <1>3, <1>6, <1>n DEF Result
<1>7. CASE q.form \in {"count", "constant"}
  BY <1>1, <1>3, <1>7, <1>n DEF Result
<1>8. CASE q.form \notin {"column", "star", "row", "count", "constant"}
  BY <1>1, <1>3, <1>8, <1>n DEF Result
<1>9. QED
  BY <1>4, <1>5, <1>6, <1>7, <1>8

LEMMA MaskingTypeStep ==
  ASSUME MaskingTypes, [MaskingNext]_maskingVars
  PROVE  MaskingTypes'
<1> USE DEF MaskingTypeOK
<1>0. MaskingTypeOK /\ snapshot \in Snapshots
  BY CatalogType DEF MaskingTypes
<1>sn. Snapshots = [known : BOOLEAN, schema : [Relations -> SUBSET Columns], age : Ages, kept : BOOLEAN]
  BY DEF Snapshots
<1>no. NoQuery.at = "none"
  BY DEF NoQuery
<1>st. \A s \in Statements : s.at \in {"checking", "allowed", "sent"} /\ s.text.from \in Relations
  BY DEF Statements, Texts
<1>1. CASE SendStatement
  <2>1. PICK q \in Texts :
          /\ schema[q.from] # {}
          /\ query' = [at |-> "checking", text |-> q, excused |-> {}, masked |-> {}]
    BY <1>1 DEF SendStatement
  <2>2. query' \in Statements /\ query'.text = q
    BY <2>1 DEF Statements
  <2>3. UNCHANGED <<schema, snapshot, settings>>
    BY <1>1 DEF SendStatement
  <2>4. QED
    BY <1>0, <1>st, <2>1, <2>2, <2>3 DEF MaskingTypes
<1>2. ASSUME query \in Statements, query' \in {NoQuery} \cup Statements,
             query' \in Statements => query'.text = query.text,
             snapshot' \in Snapshots, UNCHANGED <<schema, settings>>
      PROVE  MaskingTypes'
  BY <1>0, <1>2, <1>sn, <1>no, <1>st DEF MaskingTypes
<1>3. ASSUME query.at # "none" PROVE query \in Statements
  BY <1>3, <1>no DEF MaskingTypes
<1>4. CASE CheckStatement
  <2>1. query \in Statements
    BY <1>3, <1>4 DEF CheckStatement
  <2>2. PICK first \in CatalogFor({"under 5 s", "under 1 min"}) :
          LET stored == IF first.known THEN first ELSE snapshot
          IN \E cat \in IF Unknown(first, query.text) = {} \/ first.age = "under 5 s" THEN {first}
                        ELSE {Fresh, [first EXCEPT !.kept = TRUE]} :
               /\ snapshot' = IF cat.known THEN cat ELSE stored
               /\ query' = IF Severity(cat, query.text) = "allow"
                           THEN [query EXCEPT !.at = "allowed", !.excused = Excused(cat)]
                           ELSE NoQuery
    BY <1>4 DEF CheckStatement
  <2>3. PICK cat \in {first, Fresh, [first EXCEPT !.kept = TRUE]} :
          /\ snapshot' = IF cat.known THEN cat ELSE IF first.known THEN first ELSE snapshot
          /\ query' \in {NoQuery, [query EXCEPT !.at = "allowed", !.excused = Excused(cat)]}
    BY <2>2
  <2>4. first \in Snapshots /\ cat \in Snapshots
    BY <2>2, <2>3, ChosenCatalogType, CatalogType DEF MaskingTypes
  <2>5. [query EXCEPT !.at = "allowed", !.excused = Excused(cat)] \in Statements
    <3>1. Excused(cat) \subseteq Relations
      BY DEF Excused
    <3>2. QED
      BY <2>1, <3>1 DEF Statements
  <2>6. [query EXCEPT !.at = "allowed", !.excused = Excused(cat)].text = query.text
    BY <2>1 DEF Statements
  <2>7. UNCHANGED <<schema, settings>>
    BY <1>4 DEF CheckStatement
  <2>8. QED
    BY <1>0, <1>2, <1>no, <1>st, <2>1, <2>3, <2>4, <2>5, <2>6, <2>7
<1>5. CASE StreamResult
  <2>1. query \in Statements
    BY <1>3, <1>5 DEF StreamResult
  <2>2. PICK cat \in CatalogFor({"under 5 s", "under 1 min"}) :
          /\ snapshot' = IF cat.known THEN cat ELSE snapshot
          /\ query' = [query EXCEPT !.at = "sent",
                         !.excused = IF cat.known THEN @ ELSE Relations,
                         !.masked = {out \in Result(query.text) : actionForField(cat, out)}]
    BY <1>5 DEF StreamResult
  <2>3. cat \in Snapshots
    BY <2>2, ChosenCatalogType
  <2>4. {out \in Result(query.text) : actionForField(cat, out)} \in SUBSET Outputs
    BY <1>0, <2>1, ResultType DEF Statements
  <2>5. query' \in Statements /\ query'.text = query.text
    BY <2>1, <2>2, <2>4 DEF Statements
  <2>6. UNCHANGED <<schema, settings>>
    BY <1>5 DEF StreamResult
  <2>7. QED
    BY <1>0, <1>2, <2>1, <2>2, <2>3, <2>5, <2>6
<1>6. CASE NextStatement
  BY <1>0, <1>2, <1>3, <1>6, <1>no, <1>st DEF NextStatement
<1>7. ASSUME NEW r \in Relations, ChangeSchema(r) PROVE MaskingTypes'
  <2>1. /\ schema' = [schema EXCEPT ![r] = Columns] /\ UNCHANGED <<snapshot, settings>>
        /\ query' = [query EXCEPT !.excused = IF query.at = "allowed" THEN query.excused \cup {r}
                                              ELSE query.excused]
    BY <1>7 DEF ChangeSchema
  <2>2. schema' \in [Relations -> SUBSET Columns] /\ \A s \in Relations : schema[s] # {} => schema'[s] # {}
    BY <1>0, <2>1 DEF Columns
  <2>3. CASE query = NoQuery
    <3>1. query' = NoQuery
      BY <2>1, <2>3 DEF NoQuery
    <3>2. NoQuery \notin Statements
      BY <1>no, <1>st
    <3>3. QED
      BY <1>0, <1>no, <2>1, <2>2, <3>1, <3>2 DEF MaskingTypes
  <2>4. CASE query \in Statements
    <3>1. query' \in Statements /\ query'.text = query.text
      BY <2>1, <2>4 DEF Statements
    <3>2. schema[query.text.from] # {} /\ query.text.from \in Relations
      BY <1>st, <2>4 DEF MaskingTypes
    <3>3. QED
      BY <1>0, <1>st, <2>1, <2>2, <3>1, <3>2 DEF MaskingTypes
  <2>5. QED
    BY <2>3, <2>4 DEF MaskingTypes
<1>8. CASE SnapshotAges
  <2>1. snapshot' = [snapshot EXCEPT !.age = IF snapshot.age = "under 5 s" THEN "under 1 min"
                                             ELSE "older"]
        /\ UNCHANGED <<schema, settings, query>>
    BY <1>8 DEF SnapshotAges
  <2>2. snapshot' \in Snapshots
    BY <1>0, <2>1 DEF Snapshots, Ages
  <2>3. QED
    BY <1>0, <1>sn, <2>1, <2>2 DEF MaskingTypes
<1>9. CASE UNCHANGED maskingVars
  BY <1>0, <1>9 DEF maskingVars, MaskingTypes
<1>10. QED
  BY <1>1, <1>4, <1>5, <1>6, <1>7, <1>8, <1>9 DEF MaskingNext

LEMMA MaskingInitTypes == MaskingInit => MaskingTypes
<1> SUFFICES ASSUME MaskingInit PROVE MaskingTypes
  OBVIOUS
<1>1. schema \in [Relations -> SUBSET Columns]
  <2>1. CASE schema = [users |-> Columns, orders |-> {"id"}, recent |-> {}]
    BY <2>1 DEF Relations, Columns
  <2>2. CASE schema = [users |-> Columns, orders |-> {"id"}, recent |-> Columns]
    BY <2>2 DEF Relations, Columns
  <2>3. QED
    BY <2>1, <2>2 DEF MaskingInit
<1>2. snapshot \in Snapshots
  BY DEF MaskingInit, NoSnapshot, Empty, Snapshots, Ages
<1>3. settings \in [rules : SUBSET Masks, strictAll : BOOLEAN, safe : SUBSET Relations, gated : BOOLEAN]
  <2>1. Mask("any", TRUE) \in Masks /\ Mask("users", TRUE) \in Masks /\ Mask("orders", FALSE) \in Masks
    BY DEF Mask, Masks, Relations, Columns
  <2>2. /\ settings \in [rules : {{Mask("any", TRUE)}, {Mask("users", TRUE)},
                                 {Mask("any", TRUE), Mask("orders", FALSE)}},
                        strictAll : BOOLEAN, safe : {{}, {"orders"}}, gated : BOOLEAN]
        /\ {"orders"} \subseteq Relations
    BY DEF MaskingInit, Relations
  <2>3. QED
    BY <2>1, <2>2
<1>4. query = NoQuery /\ NoQuery.at = "none" /\ NoQuery \notin Statements
  BY DEF MaskingInit, NoQuery, Statements
<1>5. QED
  BY <1>1, <1>2, <1>3, <1>4 DEF MaskingTypes, MaskingTypeOK, Snapshots

\* Whatever the schema does meanwhile, snapshots and statements keep their types.
THEOREM MaskingTypeCorrect == MaskingSpec => []MaskingTypeOK
<1>1. MaskingTypes => MaskingTypeOK
  BY DEF MaskingTypes
<1>2. QED
  BY <1>1, MaskingInitTypes, MaskingTypeStep, PTL DEF MaskingSpec

-----------------------------------------------------------------------------
(* Masking: what leaves the proxy *)

\* What a rule masks is shown, if at all, by a plain column of its own.
Plain(q) ==
  \A out \in Result(q) : \A c \in out.shows :
    ActionForOrigin(q.from, c) => out.origin = {<<q.from, c>>}

\* An allowed statement was judged by its relation's schema, and that is the snapshot's.
AllowedIsPlain ==
  query.at = "allowed" /\ query.text.from \notin settings.safe \cup query.excused
      /\ ~RenamedAway(query.text) =>
    /\ Plain(query.text)
    /\ snapshot.known => snapshot.schema[query.text.from] = schema[query.text.from]

MaskingInv == MaskingTypes /\ AllowedIsPlain /\ PIILeavesMasked

\* A rule for one relation is also a rule for the name.
LEMMA OriginImpliesName ==
  ASSUME NEW r, NEW c, ActionForOrigin(r, c)
  PROVE  ActionFor(c)
BY DEF ActionForOrigin, ActionFor, RulesFor

\* Short of a renaming that no rule follows, the guard lets nothing through that would
\* show a masked column in another form.
LEMMA AllowedStatement ==
  ASSUME MaskingTypes, NEW q \in Texts, NEW cat \in Snapshots,
         schema[q.from] # {}, q.from \notin settings.safe, ~RenamedAway(q),
         cat.known => cat.schema[q.from] = schema[q.from],
         Severity(cat, q) = "allow"
  PROVE  Plain(q)
<1>1. /\ q.from \in Relations /\ q.form \in Forms /\ q.column \in Columns /\ q.setOp \in BOOLEAN
      /\ schema \in [Relations -> SUBSET Columns]
  BY DEF Texts, MaskingTypes, MaskingTypeOK
<1>2. CASE ~Strict(cat, q)
  <2>1. cat.known /\ q.from \in Touched(q) \ Unknown(cat, q)
    BY <1>2 DEF Strict, Touched, Unknown
  <2>2. ~relationIsStrict(cat, q.from)
    BY <1>2, <2>1 DEF Strict
  <2>3. \A c \in schema[q.from] : ~ActionForOrigin(q.from, c)
    BY <2>1, <2>2 DEF relationIsStrict
  <2>4. QED
    BY <1>1, <2>3, ResultType DEF Plain
<1>3. CASE Strict(cat, q)
  <2>1. ~TargetRefused(cat, q)
    BY <1>3 DEF Severity
  <2>2. \A c \in Columns : ActionForOrigin(q.from, c) => c \in protected(cat, q)
    BY OriginImpliesName DEF protected
  \* The name written is the column's own, or one that a rule names.
  <2>w. ASSUME q.setOp \/ q.form = "lower", ActionForOrigin(q.from, q.column)
        PROVE  Written(q) \in protected(cat, q)
    <3>1. CASE q.derived \in {"no", q.column}
      BY <1>1, <2>2, <2>w, <3>1 DEF Written
    <3>2. CASE q.derived \notin {"no", q.column}
      <4>1. ActionFor(q.derived) /\ Written(q) = q.derived
        BY <2>w, <3>2 DEF RenamedAway, Written
      <4>2. PICK m \in settings.rules : m.column = q.derived /\ m.masks
        BY <4>1 DEF ActionFor
      <4>3. q.derived \in Columns
        BY <4>2 DEF MaskingTypes, MaskingTypeOK, Masks
      <4>4. QED
        BY <4>1, <4>3 DEF protected
    <3>3. QED
      BY <3>1, <3>2
  <2>3. CASE q.form = "column"
    <3>1. \A out \in Result(q) :
            out = Output(q, q.from, q.column, IF q.name = "own" THEN Written(q) ELSE q.name)
      BY <2>3 DEF Result
    <3>2. q.setOp => Written(q) \notin protected(cat, q)
      BY <2>1, <2>3 DEF TargetRefused
    <3>3. QED
      BY <1>1, <2>w, <3>1, <3>2 DEF Plain, Output
  <2>4. CASE q.form = "star"
    <3>1. ~q.setOp
      BY <2>1, <2>4 DEF TargetRefused
    <3>2. \A out \in Result(q) : \E c \in Columns : out = Output(q, q.from, c, c)
      BY <1>1, <2>4 DEF Result
    <3>3. QED
      BY <3>1, <3>2 DEF Plain, Output
  <2>5. CASE q.form \in {"count", "constant"}
    <3>1. \A out \in Result(q) : out.shows = {}
      BY <2>5 DEF Result, Computed
    <3>2. QED
      BY <3>1 DEF Plain
  <2>6. CASE q.form = "lower"
    <3>1. Written(q) \notin protected(cat, q)
      BY <2>1, <2>6 DEF TargetRefused
    <3>2. \A out \in Result(q) : out.shows \subseteq {q.column}
      BY <2>6 DEF Result, Computed
    <3>3. QED
      BY <1>1, <2>6, <2>w, <3>1, <3>2 DEF Plain
  <2>7. q.form \in {"column", "star", "count", "constant", "lower"}
    BY <2>1 DEF TargetRefused
  <2>8. QED
    BY <2>3, <2>4, <2>5, <2>6, <2>7
<1>4. QED
  BY <1>2, <1>3

\* A result is that of the schema of the statement's relation, whatever the others do.
LEMMA PlainStays ==
  ASSUME MaskingTypes, MaskingTypes', NEW q \in Texts, Plain(q),
         schema'[q.from] = schema[q.from], settings' = settings
  PROVE  Plain(q)'
BY DEF Plain, Result, Output, Computed, Written, ActionForOrigin, RulesFor

\* The rules do not change, and with them what they name.
LEMMA RenamedStays ==
  ASSUME NEW q \in Texts, settings' = settings
  PROVE  RenamedAway(q)' = RenamedAway(q)
BY DEF RenamedAway, ActionFor

LEMMA MaskingStep ==
  ASSUME MaskingInv, [MaskingNext]_maskingVars
  PROVE  MaskingInv'
<1> DEFINE Masked == AllowedIsPlain' /\ PIILeavesMasked'
<1>0. MaskingTypes /\ MaskingTypes'
  BY MaskingTypeStep DEF MaskingInv
<1>st. \A s \in Statements : /\ s.at \in {"checking", "allowed", "sent"}
                             /\ s.text \in Texts /\ s.text.from \in Relations
  BY DEF Statements, Texts
<1>no. NoQuery.at = "none"
  BY DEF NoQuery
<1>at. query.at # "none" => query \in Statements
  BY <1>0, <1>no DEF MaskingTypes
<1>1. ASSUME query'.at \in {"none", "checking"} PROVE Masked
  BY <1>1 DEF AllowedIsPlain, PIILeavesMasked
<1>2. ASSUME CheckStatement PROVE Masked
  <2>1. query \in Statements
    BY <1>2, <1>at DEF CheckStatement
  <2>q. PICK q \in Texts, r \in Relations : q = query.text /\ r = q.from
    BY <1>st, <2>1
  <2>2. PICK first \in CatalogFor({"under 5 s", "under 1 min"}) :
          LET stored == IF first.known THEN first ELSE snapshot
          IN \E cat \in IF Unknown(first, query.text) = {} \/ first.age = "under 5 s" THEN {first}
                        ELSE {Fresh, [first EXCEPT !.kept = TRUE]} :
               /\ snapshot' = IF cat.known THEN cat ELSE stored
               /\ query' = IF Severity(cat, query.text) = "allow"
                           THEN [query EXCEPT !.at = "allowed", !.excused = Excused(cat)]
                           ELSE NoQuery
    BY <1>2 DEF CheckStatement
  <2>3. PICK cat \in IF Unknown(first, q) = {} \/ first.age = "under 5 s" THEN {first}
                     ELSE {Fresh, [first EXCEPT !.kept = TRUE]} :
          /\ snapshot' = IF cat.known THEN cat ELSE IF first.known THEN first ELSE snapshot
          /\ query' = IF Severity(cat, q) = "allow"
                      THEN [query EXCEPT !.at = "allowed", !.excused = Excused(cat)]
                      ELSE NoQuery
    BY <2>2, <2>q
  <2>4. first \in Snapshots /\ cat \in Snapshots
    BY <1>0, <2>2, <2>3, ChosenCatalogType, CatalogType
  <2>5. UNCHANGED <<schema, settings>> /\ schema[r] # {}
    BY <1>0, <1>2, <2>1, <2>q DEF CheckStatement, MaskingTypes
  <2>6. CASE Severity(cat, q) # "allow"
    BY <1>1, <1>no, <2>3, <2>6
  <2>7. CASE Severity(cat, q) = "allow"
    <3>1. query'.at = "allowed" /\ query'.text = q /\ query'.excused = Excused(cat)
      BY <2>1, <2>3, <2>7, <2>q DEF Statements
    \* A relation the snapshot does not know is looked up again.
    <3>2. ASSUME cat.known, r \notin Excused(cat) PROVE cat.schema[r] = schema[r]
      <4>1. SUFFICES ASSUME cat.schema[r] # schema[r] PROVE FALSE
        OBVIOUS
      <4>2. cat.schema[r] = {} /\ cat.age # "under 5 s" /\ ~cat.kept
        BY <2>5, <3>2, <4>1 DEF Excused
      <4>3. r \in Unknown(cat, q)
        BY <2>q, <3>2, <4>2 DEF Unknown, Touched
      <4>4. cat # Fresh
        <5>1. Fresh.schema = schema
          BY DEF Fresh
        <5>2. QED
          BY <4>1, <5>1
      <4>5. cat # [first EXCEPT !.kept = TRUE]
        BY <2>4, <4>2 DEF Snapshots
      <4>6. QED
        BY <2>3, <4>2, <4>3, <4>4, <4>5
    \* Without a schema to judge by, the proxy had none before.
    <3>3. ASSUME ~cat.known PROVE ~snapshot'.known
      <4>1. Fresh.known
        BY DEF Fresh
      <4>2. ~first.known
        <5>1. [first EXCEPT !.kept = TRUE].known = first.known
          BY <2>4 DEF Snapshots
        <5>2. cat = first \/ cat = Fresh \/ cat = [first EXCEPT !.kept = TRUE]
          BY <2>3
        <5>3. QED
          BY <3>3, <4>1, <5>1, <5>2
      <4>3. [snapshot EXCEPT !.kept = TRUE].known = snapshot.known
        BY <1>0, CatalogType DEF Snapshots
      <4>4. ~snapshot.known
        BY <2>2, <4>1, <4>2, <4>3 DEF CatalogFor
      <4>5. QED
        BY <2>3, <3>3, <4>2, <4>4
    <3>4. ASSUME r \notin settings.safe \cup Excused(cat), ~RenamedAway(q) PROVE Plain(q)
      BY <1>0, <2>4, <2>5, <2>7, <2>q, <3>2, <3>4, AllowedStatement
    <3>5. AllowedIsPlain'
      <4>1. SUFFICES ASSUME r \notin settings.safe \cup Excused(cat), ~RenamedAway(q)
                     PROVE  Plain(q)' /\ (snapshot'.known => snapshot'.schema[r] = schema[r])
        BY <2>5, <2>q, <3>1, RenamedStays DEF AllowedIsPlain
      <4>2. Plain(q)'
        BY <1>0, <2>5, <2>q, <3>4, <4>1, PlainStays
      <4>3. snapshot'.known => snapshot'.schema[r] = schema[r]
        BY <2>3, <3>2, <3>3, <4>1
      <4>4. QED
        BY <4>2, <4>3
    <3>6. PIILeavesMasked'
      BY <3>1 DEF PIILeavesMasked
    <3>7. QED
      BY <3>5, <3>6
  <2>8. QED
    BY <2>6, <2>7
<1>3. ASSUME StreamResult PROVE Masked
  <2>1. query \in Statements /\ query.at = "allowed"
    BY <1>3, <1>at DEF StreamResult
  <2>q. PICK q \in Texts, r \in Relations : q = query.text /\ r = q.from
    BY <1>st, <2>1
  <2>2. PICK cat \in CatalogFor({"under 5 s", "under 1 min"}) :
          query' = [query EXCEPT !.at = "sent",
                      !.excused = IF cat.known THEN query.excused ELSE Relations,
                      !.masked = {out \in Result(q) : actionForField(cat, out)}]
    BY <1>3, <2>q DEF StreamResult
  <2>3. /\ query'.at = "sent" /\ query'.text = q
        /\ query'.excused = IF cat.known THEN query.excused ELSE Relations
        /\ query'.masked = {out \in Result(q) : actionForField(cat, out)}
    BY <2>1, <2>2, <2>q DEF Statements
  <2>4. UNCHANGED <<schema, settings>>
    BY <1>3 DEF StreamResult
  <2>5. ASSUME r \notin settings.safe \cup query'.excused, ~RenamedAway(q),
               NEW out \in Result(q), out \notin query'.masked, NEW c \in out.shows
        PROVE  ~ActionForOrigin(r, c)
    <3>1. cat.known /\ r \notin settings.safe \cup query.excused
      BY <2>3, <2>5
    <3>2. Plain(q) /\ (snapshot.known => snapshot.schema[r] = schema[r])
      BY <2>1, <2>5, <2>q, <3>1 DEF MaskingInv, AllowedIsPlain
    <3>3. cat.schema[r] = schema[r]
      <4>1. Fresh.schema = schema /\ ~NoSnapshot.known
        BY DEF Fresh, NoSnapshot
      <4>2. [snapshot EXCEPT !.kept = TRUE].schema = snapshot.schema
        BY <1>0, CatalogType DEF Snapshots
      <4>3. QED
        BY <2>2, <3>1, <3>2, <4>1, <4>2 DEF CatalogFor
    <3>4. SUFFICES ASSUME ActionForOrigin(r, c) PROVE FALSE
      OBVIOUS
    <3>5. out.origin = {<<r, c>>} /\ c \in schema[r]
      BY <1>0, <2>5, <2>q, <3>2, <3>4, ResultType DEF Plain, MaskingTypes, MaskingTypeOK
    <3>6. actionForField(cat, out)
      <4>1. {o \in out.origin : o[2] \in cat.schema[o[1]]} = {<<r, c>>}
        <5>1. <<r, c>>[1] = r /\ <<r, c>>[2] = c
          OBVIOUS
        <5>2. \A o \in out.origin : o[2] \in cat.schema[o[1]]
          BY <3>3, <3>5, <5>1
        <5>3. QED
          BY <3>5, <5>2
      <4>2. \E o \in {<<r, c>>} : ActionForOrigin(o[1], o[2])
        BY <3>4
      <4>3. QED
        BY <4>1, <4>2 DEF actionForField
    <3>7. QED
      BY <2>3, <2>5, <3>6
  <2>6. PIILeavesMasked'
    <3>1. Result(q)' = Result(q)
      BY <2>4 DEF Result, Output, Computed, Written
    <3>2. \A c : ActionForOrigin(r, c)' = ActionForOrigin(r, c)
      BY <2>4 DEF ActionForOrigin, RulesFor
    <3>3. query'.text = q /\ settings' = settings
      BY <2>3, <2>4
    <3>4. ASSUME r \notin settings.safe \cup query'.excused, ~RenamedAway(q)
          PROVE  \A out \in Result(q)' \ query'.masked : \A c \in out.shows : ~ActionForOrigin(r, c)'
      BY <2>5, <3>1, <3>2, <3>4
    <3>5. QED
      BY <2>4, <2>q, <3>3, <3>4, RenamedStays DEF PIILeavesMasked
  <2>7. AllowedIsPlain'
    BY <2>3 DEF AllowedIsPlain
  <2>8. QED
    BY <2>6, <2>7
<1>4. ASSUME NEW s \in Relations, ChangeSchema(s) PROVE Masked
  <2>1. /\ schema' = [schema EXCEPT ![s] = Columns] /\ UNCHANGED <<snapshot, settings>>
        /\ query' = [query EXCEPT !.excused = IF query.at = "allowed" THEN query.excused \cup {s}
                                              ELSE query.excused]
        /\ query.at # "sent"
    BY <1>4 DEF ChangeSchema
  <2>2. CASE query \notin Statements
    <3>1. query' = NoQuery
      BY <1>0, <2>1, <2>2 DEF MaskingTypes, NoQuery
    <3>2. QED
      BY <1>1, <1>no, <3>1
  <2>3. CASE query \in Statements
    <3>1. query'.at = query.at /\ query'.text = query.text
      BY <2>1, <2>3 DEF Statements
    <3>2. CASE query.at # "allowed"
      BY <1>1, <1>st, <2>1, <2>3, <3>1, <3>2
    <3>3. CASE query.at = "allowed"
      <4>1. query'.excused = query.excused \cup {s}
        BY <2>1, <2>3, <3>3 DEF Statements
      <4> DEFINE r == query.text.from
      <4>r. query.text \in Texts
        BY <1>st, <2>3
      <4>2. ASSUME r \notin settings.safe \cup query'.excused, ~RenamedAway(query.text)
            PROVE  Plain(query.text)' /\ (snapshot'.known => snapshot'.schema[r] = schema'[r])
        <5>1. r # s /\ r \in Relations /\ query.text \in Texts
          BY <1>st, <2>3, <4>1, <4>2
        <5>2. schema'[r] = schema[r]
          BY <1>0, <2>1, <5>1 DEF MaskingTypes, MaskingTypeOK
        <5>3. Plain(query.text) /\ (snapshot.known => snapshot.schema[r] = schema[r])
          BY <3>3, <4>1, <4>2 DEF MaskingInv, AllowedIsPlain
        <5>4. QED
          BY <1>0, <2>1, <3>1, <5>1, <5>2, <5>3, PlainStays
      <4>3. QED
        BY <2>1, <3>1, <3>3, <4>2, <4>r, RenamedStays DEF AllowedIsPlain, PIILeavesMasked
    <3>4. QED
      BY <3>2, <3>3
  <2>4. QED
    BY <2>2, <2>3
<1>5. ASSUME SnapshotAges PROVE Masked
  <2>1. snapshot'.known = snapshot.known /\ snapshot'.schema = snapshot.schema
    BY <1>0, <1>5, CatalogType DEF SnapshotAges, Snapshots
  <2>2. UNCHANGED <<schema, settings, query>>
    BY <1>5 DEF SnapshotAges
  <2>3. QED
    BY <2>1, <2>2
    DEF MaskingInv, AllowedIsPlain, PIILeavesMasked, Plain, Result, Output, Computed, Written,
        ActionForOrigin, RulesFor, RenamedAway, ActionFor
<1>6. ASSUME UNCHANGED maskingVars PROVE Masked
  BY <1>6
  DEF maskingVars, MaskingInv, AllowedIsPlain, PIILeavesMasked, Plain, Result, Output, Computed,
      Written, ActionForOrigin, RulesFor, RenamedAway, ActionFor
<1>7. ASSUME SendStatement \/ NextStatement PROVE Masked
  <2>1. query'.at \in {"none", "checking"}
    BY <1>7, <1>no DEF SendStatement, NextStatement
  <2>2. QED
    BY <1>1, <2>1
<1>8. Masked
  BY <1>2, <1>3, <1>4, <1>5, <1>6, <1>7 DEF MaskingNext
<1>9. QED
  BY <1>0, <1>8 DEF MaskingInv

\* Whatever a statement selects, in whatever form, with a snapshot of any age the cache
\* allows and any other names for its columns, what a rule masks reaches the agent
\* masked; except as the property says, and where a derived table renames the column to
\* what no rule names before it is computed on or goes through a set operation.
THEOREM ResultsAreMasked == MaskingSpec => []PIILeavesMasked
<1>1. MaskingInit => MaskingInv
  <2>1. MaskingInit => query.at = "none"
    BY DEF MaskingInit, NoQuery
  <2>2. QED
    BY <2>1, MaskingInitTypes DEF MaskingInv, AllowedIsPlain, PIILeavesMasked
<1>2. MaskingInv => PIILeavesMasked
  BY DEF MaskingInv
<1>3. QED
  BY <1>1, <1>2, MaskingStep, PTL DEF MaskingSpec

-----------------------------------------------------------------------------
(* The parts together *)

\* A behaviour of the host's six parts side by side is a behaviour of each of them, so
\* that what is proved of one holds of the whole.
THEOREM HostRunsItsParts ==
  HostSpec => KeySpec /\ ImportSpec /\ RegistrySpec /\ EgressSpec /\ RequestsSpec /\ MaskingSpec
<1>1. HostInit => /\ KeyInit /\ ImportInit /\ RegistryInit /\ EgressInit
                  /\ RequestsInit /\ MaskingInit
  BY DEF HostInit
<1>2. [HostNext]_hostVars => [KeyNext]_keyVars
  BY DEF HostNext, hostVars
<1>3. [HostNext]_hostVars => [ImportNext]_importVars
  BY DEF HostNext, hostVars
<1>4. [HostNext]_hostVars => [RegistryNext]_registryVars
  BY DEF HostNext, hostVars
<1>5. [HostNext]_hostVars => [EgressNext]_egressVars
  BY DEF HostNext, hostVars
<1>6. [HostNext]_hostVars => [RequestsNext]_requestVars
  BY DEF HostNext, hostVars
<1>7. [HostNext]_hostVars => [MaskingNext]_maskingVars
  BY DEF HostNext, hostVars
<1>8. QED
  BY <1>1, <1>2, <1>3, <1>4, <1>5, <1>6, <1>7, PTL
  DEF HostSpec, KeySpec, ImportSpec, RegistrySpec, EgressSpec, RequestsSpec, MaskingSpec

\* Every part of the host's state keeps its types while the others run.
THEOREM HostTypeCorrect == HostSpec => []HostTypeOK
<1>1. KeyTypeOK /\ ImportTypeOK /\ RegistryTypeOK /\ EgressTypeOK /\ MaskingTypeOK => HostTypeOK
  BY DEF HostTypeOK
<1>2. QED
  BY <1>1, HostRunsItsParts, KeyTypeCorrect, ImportTypeCorrect, RegistryTypeCorrect,
     EgressTypeCorrect, MaskingTypeCorrect, PTL

\* So the host is safe as a whole: one key seals all secrets, an open registry has its
\* key, the scrub flag tells what is left to scrub, no import undoes what the user did,
\* rules follow policies and traffic its owner, requests and results are what they may
\* be, and no sweep comes early.
THEOREM HostIsSafe ==
  HostSpec => /\ [](/\ OneKeySealsEverything /\ OpenRegistryHasItsKey /\ ScrubFlagTellsResidue
                   /\ ImportUndoesNothing
                   /\ RulesFollowPolicy /\ TrafficIsAttributed
                   /\ ForwardedRequestsAreAllowed /\ PIILeavesMasked)
              /\ SweepRotatesOnlyWhatIsDue
BY HostRunsItsParts, OneKeyForEverything, OpenRegistryKey, ScrubFlagIsTrue, TokensStay,
   RulesAreFollowed, TrafficIsOnesOwn, RequestsSafety, ResultsAreMasked, SweepIsDue, PTL
=============================================================================
