----------------------------- MODULE MCHostState -----------------------------
(***************************************************************************)
(* The rest of what the host keeps for its sandboxes: keys and secrets,    *)
(* imported tokens, database connections, traffic monitoring, and what the *)
(* two proxies decide about one request or one statement.  The parts share *)
(* no state, so one run checks them side by side: `part` says which of     *)
(* them moves in a behaviour, and the others stay where they started.      *)
(***************************************************************************)
EXTENDS MasterKey, TokenImport, Registry, EgressMonitoring, BrokerRequests,
        ResultMasking, TLC

VARIABLE part

hostVars == <<part, keyVars, importVars, registryVars, egressVars, requestVars, maskingVars>>

HostTypeOK ==
  /\ KeyTypeOK /\ ImportTypeOK /\ RegistryTypeOK /\ EgressTypeOK /\ MaskingTypeOK

\* A part that does not move starts in one of its initial states.  A bound: mutations
\* are gated where everything is strict.
HostInit ==
  /\ part \in {"key", "import", "registry", "egress", "requests", "masking"}
  /\ KeyInit /\ ImportInit /\ RegistryInit /\ EgressInit /\ RequestsInit /\ MaskingInit
  /\ part # "key" => \A r \in Rows : rows[r] = NoRow
  /\ part # "import" => legacy = {}
  /\ part # "masking" => /\ schema.recent = {} /\ settings.safe = {}
                         /\ ~settings.strictAll
                         /\ settings.rules = {Mask("any", TRUE)}
  /\ settings.gated = settings.strictAll

HostNext ==
  \/ /\ part = "key" /\ KeyNext
     /\ UNCHANGED <<part, importVars, registryVars, egressVars, requestVars, maskingVars>>
  \/ /\ part = "import" /\ ImportNext
     /\ UNCHANGED <<part, keyVars, registryVars, egressVars, requestVars, maskingVars>>
  \/ /\ part = "registry" /\ RegistryNext
     /\ UNCHANGED <<part, keyVars, importVars, egressVars, requestVars, maskingVars>>
  \/ /\ part = "egress" /\ EgressNext
     /\ UNCHANGED <<part, keyVars, importVars, registryVars, requestVars, maskingVars>>
  \/ /\ part = "requests" /\ RequestsNext
     /\ UNCHANGED <<part, keyVars, importVars, registryVars, egressVars, maskingVars>>
  \/ /\ part = "masking" /\ MaskingNext
     /\ UNCHANGED <<part, keyVars, importVars, registryVars, egressVars, requestVars>>

HostSpec == HostInit /\ [][HostNext]_hostVars

\* The processes that run egress commands are interchangeable, and so are the sandboxes
\* they run on.
Interchangeable == Permutations(Enablers) \cup Permutations(Sandboxes)
=============================================================================
