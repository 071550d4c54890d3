---------------------------- MODULE TokenImport ----------------------------
(***************************************************************************)
(* The upstream tokens in the vault, and their one-time import from the    *)
(* tokens.json an older build kept.  tokensMu lets each process run one    *)
(* token operation at a time; the command line and the daemon are          *)
(* different processes, and every operation begins by opening the vault,   *)
(* which imports.  A slot is the token of one service in one profile.      *)
(***************************************************************************)
EXTENDS FiniteSets

CONSTANTS
  Clients,   \* processes that use the tokens
  Slots      \* (profile, service) pairs, all of one profile

Unparsable == "does not parse"
ASSUME ImportAssumption == IsFiniteSet(Slots) /\ Unparsable \notin Slots

Garbled == {Unparsable}   \* a tokens.json that is not JSON

VARIABLES
  legacy,     \* tokens.json: the slots it fills, or Garbled
  token,      \* the vault's value of each slot: nobody's, the file's or the user's
  imported,   \* the vault's tokens_imported marker
  client,     \* what each process is doing
  chosen,     \* history: what the user last did to the slot, if anything
  crossed     \* history: slots the user changed while another process was importing

importVars == <<legacy, token, imported, client, chosen, crossed>>

Resting == [at |-> "rest", left |-> {}, op |-> "list", slot |-> {}]
TokenOps == {[op |-> "list", slot |-> {}], [op |-> "clear", slot |-> Slots]}
              \cup {[op |-> "set", slot |-> {s}] : s \in Slots}

ImportTypeOK ==
  /\ legacy \in (SUBSET Slots) \cup {Garbled}
  /\ token \in [Slots -> {"none", "legacy", "user"}]
  /\ imported \in BOOLEAN
  /\ client \in [Clients -> [at : {"rest", "open", "copy", "act"}, left : SUBSET Slots,
                             op : {"list", "set", "clear"}, slot : SUBSET Slots]]
  /\ chosen \in [Slots -> {"none", "set", "clear"}]
  /\ crossed \subseteq Slots

\* An installation an older build has used, or a new one.
ImportInit ==
  /\ legacy \in (SUBSET Slots) \cup {Garbled}
  /\ token = [s \in Slots |-> "none"]
  /\ imported = FALSE
  /\ client = [c \in Clients |-> Resting]
  /\ chosen = [s \in Slots |-> "none"]
  /\ crossed = {}

tokenHistory == <<chosen, crossed>>

\* `colimander tokens`, the API and creation jobs: get, set or clear.
BeginTokens(c) ==
  /\ client[c].at = "rest"
  /\ \E o \in TokenOps :
       client' = [client EXCEPT ![c] = [at |-> "open", left |-> {}, op |-> o.op, slot |-> o.slot]]
  /\ UNCHANGED <<legacy, token, imported, tokenHistory>>

\* Mutant: what could be read of a broken file is imported.
ReadGarbled(c) ==
  /\ client[c].at = "open"
  /\ client' = [client EXCEPT ![c] = IF imported THEN [@ EXCEPT !.at = "act"]
                                     ELSE [@ EXCEPT !.at = "copy", !.left = legacy]]
  /\ UNCHANGED <<legacy, token, imported, tokenHistory>>

\* importLegacyTokens reads the marker and, without it, the file. A file that does
\* not parse fails the operation, this one and every later one.
ReadLegacy(c) ==
  /\ client[c].at = "open"
  /\ client' = [client EXCEPT ![c] =
       IF imported THEN [@ EXCEPT !.at = "act"]
       ELSE IF legacy = Garbled THEN Resting
       ELSE [@ EXCEPT !.at = "copy", !.left = legacy]]
  /\ UNCHANGED <<legacy, token, imported, tokenHistory>>

\* One Put of the import; Go visits the profiles in any order.
CopyToken(c, s) ==
  /\ client[c].at = "copy" /\ s \in client[c].left
  /\ token' = [token EXCEPT ![s] = "legacy"]
  /\ client' = [client EXCEPT ![c].left = @ \ {s}]
  /\ UNCHANGED <<legacy, imported, tokenHistory>>

\* Mutant: the file is imported each time.
MarkNothing(c) ==
  /\ client[c].at = "copy" /\ client[c].left = {}
  /\ client' = [client EXCEPT ![c].at = "act"]
  /\ UNCHANGED <<legacy, token, imported, tokenHistory>>

MarkImported(c) ==
  /\ client[c].at = "copy" /\ client[c].left = {}
  /\ imported' = TRUE
  /\ client' = [client EXCEPT ![c].at = "act"]
  /\ UNCHANGED <<legacy, token, tokenHistory>>

\* The operation itself: Get changes nothing, set puts one slot, clear deletes the scope.
ActOnTokens(c) ==
  /\ client[c].at = "act"
  /\ LET S == client[c].slot
         others == \E d \in Clients \ {c} : client[d].at = "copy"
     IN /\ token' = [s \in Slots |-> IF s \notin S THEN token[s]
                                     ELSE IF client[c].op = "set" THEN "user" ELSE "none"]
        /\ chosen' = [s \in Slots |-> IF s \in S THEN client[c].op ELSE chosen[s]]
        /\ crossed' = IF others THEN crossed \cup S ELSE crossed \ S
  /\ client' = [client EXCEPT ![c] = Resting]
  /\ UNCHANGED <<legacy, imported>>

\* The process dies or the vault reports an error, at any step.
AbandonTokens(c) ==
  /\ client[c].at # "rest"
  /\ client' = [client EXCEPT ![c] = Resting]
  /\ UNCHANGED <<legacy, token, imported, tokenHistory>>

\* The user deletes the file or repairs it; an older build rewrites it.
ChangeTokensFile ==
  /\ \E f \in (SUBSET Slots) \cup {Garbled} : f # legacy /\ legacy' = f
  /\ UNCHANGED <<token, imported, client, tokenHistory>>

ImportNext ==
  \/ \E c \in Clients :
       \/ BeginTokens(c) \/ ReadLegacy(c) \/ MarkImported(c) \/ ActOnTokens(c)
       \/ AbandonTokens(c)
       \/ \E s \in Slots : CopyToken(c, s)
  \/ ChangeTokensFile

ImportSpec == ImportInit /\ [][ImportNext]_importVars

----------------------------------------------------------------------------
\* The import never undoes what the user has done: a slot set holds the user's token
\* and a cleared one stays empty, whatever tokens.json says, whoever opens the vault
\* next and wherever an earlier import died, except for what the user did while
\* another process was in the middle of its import.
ImportUndoesNothing ==
  \A s \in Slots \ crossed :
    /\ chosen[s] = "set" => token[s] = "user"
    /\ chosen[s] = "clear" => token[s] = "none"
=============================================================================
