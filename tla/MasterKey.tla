----------------------------- MODULE MasterKey -----------------------------
(***************************************************************************)
(* The master key file, and the two databases whose secrets it seals: the  *)
(* connection registry (store.Open) and the vault (vault.Open).  Both keep *)
(* it at the same path.  Processes open and close them at any time and may *)
(* die at any step; the user may lose the key file.                        *)
(*                                                                         *)
(* Keys are numbered in the order they are published.  A sealed value is   *)
(* the number of the key it was sealed with.                               *)
(***************************************************************************)
EXTENDS Integers, FiniteSets

CONSTANTS
  Registries,   \* processes that open the connection registry
  Vaults,       \* processes that open the vault
  Rows,         \* rows of the registry
  MaxKeys       \* bound on the keys published

ASSUME KeyAssumption ==
  /\ MaxKeys \in Nat \ {0}
  /\ Registries \cap Vaults = {}

VARIABLES
  keyFile,    \* the key in the file, 0 if there is none
  published,  \* keys published so far
  check,      \* the registry's key_check, 0 if not stored
  rows,       \* the secrets of each registry row
  scrub,      \* the registry's scrub_pending flag
  residue,    \* plaintext of migrated rows is left in free pages or the WAL
  secret,     \* the vault's secret, 0 if it holds none
  proc,       \* the process: where it is, the key it holds, what it saw first
  lost,       \* history: the key file has been lost
  disturbed   \* history: it was lost while a process was opening a database

keyVars == <<keyFile, published, check, rows, scrub, residue, secret, proc, lost, disturbed>>

KeyUsers == Registries \cup Vaults
Keys == 1 .. MaxKeys
PlainText == -1                        \* written before there was a master key
NoRow == 0

KeyStages == {"closed", "load", "create", "check", "migrate", "scrub", "unflag", "open"}
ClosedDb == [at |-> "closed", key |-> 0, saw |-> 0]

KeyTypeOK ==
  /\ keyFile \in 0 .. MaxKeys
  /\ published \in 0 .. MaxKeys
  /\ check \in 0 .. MaxKeys
  /\ rows \in [Rows -> -1 .. MaxKeys]
  /\ secret \in 0 .. MaxKeys
  /\ {scrub, residue, lost, disturbed} \subseteq BOOLEAN
  /\ proc \in [KeyUsers -> [at : KeyStages, key : 0 .. MaxKeys, saw : 0 .. MaxKeys]]

\* A new installation, or a registry an older version has written.
KeyInit ==
  /\ keyFile = 0 /\ published = 0 /\ check = 0 /\ secret = 0
  /\ rows \in [Rows -> {NoRow, PlainText}]
  /\ scrub = FALSE /\ residue = FALSE /\ lost = FALSE /\ disturbed = FALSE
  /\ proc = [p \in KeyUsers |-> ClosedDb]

registryData == <<check, rows, scrub, residue>>

KeyGoto(p, stage) == proc' = [proc EXCEPT ![p].at = stage]

----------------------------------------------------------------------------
\* initKey reads the check value, and the vault counts its rows, before the file is read.
LookAtData(p) ==
  /\ proc[p].at = "closed"
  /\ proc' = [proc EXCEPT ![p] = [at |-> "load", key |-> 0,
                saw |-> IF p \in Registries THEN check ELSE secret]]
  /\ UNCHANGED <<keyFile, published, registryData, secret, lost, disturbed>>

\* LoadKey. No file: an error where there is data, else a key is to be created.
LoadKey(p) ==
  /\ proc[p].at = "load"
  /\ proc' = [proc EXCEPT ![p] =
       IF keyFile # 0
       THEN [@ EXCEPT !.key = keyFile, !.at = IF p \in Registries THEN "check" ELSE "open"]
       ELSE IF @.saw # 0 THEN ClosedDb ELSE [@ EXCEPT !.at = "create"]]
  /\ UNCHANGED <<keyFile, published, registryData, secret, lost, disturbed>>

\* Mutant: the new key is renamed to the path, over one that is there.
CreateKeyOver(p) ==
  /\ proc[p].at = "create" /\ published < MaxKeys
  /\ keyFile' = published + 1 /\ published' = published + 1
  /\ proc' = [proc EXCEPT ![p].key = published + 1,
                          ![p].at = IF p \in Registries THEN "check" ELSE "open"]
  /\ UNCHANGED <<registryData, secret, lost, disturbed>>

\* CreateKey writes a new key to a temporary file and links it to the path. If the
\* path exists the link fails and the winner's key is loaded.
CreateKey(p) ==
  /\ proc[p].at = "create"
  /\ keyFile = 0 => published < MaxKeys
  /\ LET new == IF keyFile = 0 THEN published + 1 ELSE keyFile
     IN /\ keyFile' = new
        /\ published' = IF keyFile = 0 THEN published + 1 ELSE published
        /\ proc' = [proc EXCEPT ![p].key = new,
                                ![p].at = IF p \in Registries THEN "check" ELSE "open"]
  /\ UNCHANGED <<registryData, secret, lost, disturbed>>

\* Mutant: the check value is stored and never unsealed.
CheckKeyUnread(p) ==
  /\ proc[p].at = "check"
  /\ KeyGoto(p, "migrate")
  /\ check' = IF check = 0 THEN proc[p].key ELSE check
  /\ UNCHANGED <<keyFile, published, rows, scrub, residue, secret, lost, disturbed>>

\* initKey's end: unseal the check value it read, or store one (INSERT OR IGNORE).
CheckKey(p) ==
  /\ proc[p].at = "check"
  /\ IF proc[p].saw # 0
     THEN /\ KeyGoto(p, IF proc[p].saw = proc[p].key THEN "migrate" ELSE "closed")
          /\ UNCHANGED check
     ELSE /\ KeyGoto(p, "migrate")
          /\ check' = IF check = 0 THEN proc[p].key ELSE check
  /\ UNCHANGED <<keyFile, published, rows, scrub, residue, secret, lost, disturbed>>

\* encryptLegacyRows: one transaction.
EncryptLegacyRows(p) ==
  /\ proc[p].at = "migrate"
  /\ KeyGoto(p, "scrub")
  /\ rows' = [r \in Rows |-> IF rows[r] = PlainText THEN proc[p].key ELSE rows[r]]
  /\ LET migrated == \E r \in Rows : rows[r] = PlainText
     IN /\ scrub' = (scrub \/ migrated)
        /\ residue' = (residue \/ migrated)
  /\ UNCHANGED <<keyFile, published, check, secret, lost, disturbed>>

\* Mutant: a checkpoint that was prevented counts.
ScrubAnyway(p) ==
  /\ proc[p].at = "scrub"
  /\ KeyGoto(p, "unflag")
  /\ residue' = FALSE \/ UNCHANGED residue
  /\ UNCHANGED <<keyFile, published, check, rows, scrub, secret, lost, disturbed>>

\* scrubIfPending: VACUUM and a full checkpoint, which other processes can prevent.
ScrubIfPending(p) ==
  /\ proc[p].at = "scrub"
  /\ \/ /\ scrub
        /\ residue' = FALSE
        /\ KeyGoto(p, "unflag")
     \/ /\ KeyGoto(p, "open")
        /\ UNCHANGED residue
  /\ UNCHANGED <<keyFile, published, check, rows, scrub, secret, lost, disturbed>>

ClearScrubFlag(p) ==
  /\ proc[p].at = "unflag"
  /\ scrub' = FALSE
  /\ KeyGoto(p, "open")
  /\ UNCHANGED <<keyFile, published, check, rows, residue, secret, lost, disturbed>>

\* Create, Update or rotate seals a row; a row is deleted.
WriteRow(p, r) ==
  /\ p \in Registries /\ proc[p].at = "open"
  /\ rows' = [rows EXCEPT ![r] = proc[p].key]
  /\ UNCHANGED <<keyFile, published, check, scrub, residue, secret, proc, lost, disturbed>>

DeleteRow(p, r) ==
  /\ p \in Registries /\ proc[p].at = "open" /\ rows[r] # NoRow
  /\ rows' = [rows EXCEPT ![r] = NoRow]
  /\ UNCHANGED <<keyFile, published, check, scrub, residue, secret, proc, lost, disturbed>>

\* Vault.Put and DeleteScope.
PutSecret(p) ==
  /\ p \in Vaults /\ proc[p].at = "open"
  /\ secret' = proc[p].key
  /\ UNCHANGED <<keyFile, published, registryData, proc, lost, disturbed>>

DeleteScope(p) ==
  /\ p \in Vaults /\ proc[p].at = "open" /\ secret # 0
  /\ secret' = 0
  /\ UNCHANGED <<keyFile, published, registryData, proc, lost, disturbed>>

\* A process closes the database, or dies.
CloseOrDie(p) ==
  /\ proc[p].at # "closed"
  /\ proc' = [proc EXCEPT ![p] = ClosedDb]
  /\ UNCHANGED <<keyFile, published, registryData, secret, lost, disturbed>>

OpeningDb(p) == proc[p].at \notin {"closed", "open"}

LoseKey ==
  /\ keyFile # 0
  /\ keyFile' = 0
  /\ lost' = TRUE
  /\ disturbed' = (disturbed \/ \E p \in KeyUsers : OpeningDb(p))
  /\ UNCHANGED <<published, registryData, secret, proc>>

KeyNext ==
  \/ \E p \in KeyUsers :
       \/ LookAtData(p) \/ LoadKey(p) \/ CreateKey(p) \/ CheckKey(p) \/ EncryptLegacyRows(p) \/ ScrubIfPending(p)
       \/ ClearScrubFlag(p) \/ PutSecret(p) \/ DeleteScope(p) \/ CloseOrDie(p)
       \/ \E r \in Rows : WriteRow(p, r) \/ DeleteRow(p, r)
  \/ LoseKey

KeySpec == KeyInit /\ [][KeyNext]_keyVars

----------------------------------------------------------------------------
(* Properties *)

Sealed == ({check, secret} \cup {rows[r] : r \in Rows}) \ {0, PlainText}

\* "Concurrent first starts agree on one key": while the key file has not been lost,
\* everything either database has sealed, by whichever process and after whatever
\* crash, opens with the key in the file.
OneKeySealsEverything == ~lost => Sealed \subseteq {keyFile}

\* A registry that has been opened is used with the key its check value was sealed
\* with, before and after a loss, unless the file went while something was opening;
\* so a lost key is an error and never a second key over the first one's data.
OpenRegistryHasItsKey ==
  \A p \in Registries :
    proc[p].at \in {"migrate", "scrub", "unflag", "open"} /\ ~disturbed
      => check = proc[p].key

\* As long as plaintext of migrated rows may be in the database files, the flag says
\* so, whatever step a process died at, so a later Open scrubs it.
ScrubFlagTellsResidue == residue => scrub
=============================================================================
