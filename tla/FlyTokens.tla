----------------------------- MODULE FlyTokens -----------------------------
(***************************************************************************)
(* Short-lived Fly tokens: requests on the daemon's control socket, served *)
(* concurrently, which run the fly command with the person's login and     *)
(* keep fly-tokens.json, the list the person revokes from.  flyTokensMu is *)
(* held for each load and save of the list and never while fly runs, so a  *)
(* step here is what one request does under the lock, or one run of fly.   *)
(*                                                                         *)
(* Fly.io is external: it creates, lists, revokes and expires tokens.      *)
(***************************************************************************)
EXTENDS FiniteSets

CONSTANTS
  Requests,   \* requests the daemon serves at a time
  Tokens,     \* tokens that can be created; each has a name of its own
  Orgs        \* organizations

ASSUME FlyAssumption == IsFiniteSet(Tokens)

VARIABLES
  listed,     \* fly-tokens.json: the tokens it holds
  live,       \* tokens Fly accepts
  made,       \* tokens Fly has ever created
  stale,      \* tokens whose ExpiresAt has passed on this machine
  visible,    \* organizations Fly lists for the login
  orgCache,   \* flyOrgCache: the last list, and is it younger than a minute
  shown,      \* tokens whose value the person has been given
  req         \* what each request is doing

flyVars == <<listed, live, made, stale, visible, orgCache, shown, req>>

NoToken == "no token"
NoOrg == "no org"
Waiting == [at |-> "idle", token |-> NoToken, org |-> NoOrg]

FlyTypeOK ==
  /\ {listed, live, made, stale, shown} \subseteq SUBSET Tokens
  /\ visible \subseteq Orgs
  /\ orgCache \in [orgs : SUBSET Orgs, young : BOOLEAN]
  /\ req \in [Requests ->
       [at : {"idle", "org", "create", "record", "show", "find", "revoke", "forget"},
        token : Tokens \cup {NoToken}, org : Orgs \cup {NoOrg}]]

FlyInit ==
  /\ listed = {} /\ live = {} /\ made = {} /\ stale = {} /\ shown = {}
  /\ visible \in SUBSET Orgs
  /\ orgCache = [orgs |-> {}, young |-> FALSE]
  /\ req = [r \in Requests |-> Waiting]

FlyAt(r, stage) == req' = [req EXCEPT ![r].at = stage]
Answer(r) == req' = [req EXCEPT ![r] = Waiting]

\* loadFlyTokens leaves out what has expired, so every save drops it.
Loaded == listed \ stale

----------------------------------------------------------------------------
(* Creating *)

\* POST /v1/fly/tokens: the type and the lifetime are checked, which is not modelled.
AskForToken(r, o) ==
  /\ req[r].at = "idle"
  /\ req' = [req EXCEPT ![r] = [Waiting EXCEPT !.at = "org", !.org = o]]
  /\ UNCHANGED <<listed, live, made, stale, visible, orgCache, shown>>

\* flyOrgListed: a young list is enough, anything else asks fly.
OrgCached(r) ==
  /\ req[r].at = "org"
  /\ orgCache.young /\ req[r].org \in orgCache.orgs
  /\ FlyAt(r, "create")
  /\ UNCHANGED <<listed, live, made, stale, visible, orgCache, shown>>

\* flyOrgs, and the same call made by GET /v1/fly/orgs.
OrgAsked(r) ==
  /\ req[r].at = "org"
  /\ ~(orgCache.young /\ req[r].org \in orgCache.orgs)
  /\ orgCache' = [orgs |-> visible, young |-> TRUE]
  /\ IF req[r].org \in visible THEN FlyAt(r, "create") ELSE Answer(r)
  /\ UNCHANGED <<listed, live, made, stale, visible, shown>>

GetOrgs ==
  /\ orgCache' = [orgs |-> visible, young |-> TRUE]
  /\ UNCHANGED <<listed, live, made, stale, visible, shown, req>>

\* Mutant: an answer without a token is recorded too.
FlyCreatesUnread(r) ==
  /\ req[r].at = "create" /\ req[r].org \in visible
  /\ \E t \in Tokens \ made :
       /\ made' = made \cup {t}
       /\ live' = live \cup {t}
       /\ FlyAt(r, "record")
  /\ UNCHANGED <<listed, stale, visible, orgCache, shown>>

\* `fly tokens create`: Fly makes the token. The command may then fail or be killed
\* after 45 seconds, or its answer may not parse; the request ends with an error.
FlyCreates(r) ==
  /\ req[r].at = "create" /\ req[r].org \in visible
  /\ \E t \in Tokens \ made :
       /\ made' = made \cup {t}
       /\ live' = live \cup {t}
       /\ \/ req' = [req EXCEPT ![r].at = "record", ![r].token = t]
          \/ Answer(r)
  /\ UNCHANGED <<listed, stale, visible, orgCache, shown>>

\* Under the lock: load the list, append, save. If that fails the value is not shown.
RecordToken(r) ==
  /\ req[r].at = "record"
  /\ \/ /\ listed' = Loaded \cup {req[r].token}
        /\ FlyAt(r, "show")
     \/ /\ Answer(r)
        /\ UNCHANGED listed
  /\ UNCHANGED <<live, made, stale, visible, orgCache, shown>>

ShowToken(r) ==
  /\ req[r].at = "show"
  /\ shown' = shown \cup {req[r].token}
  /\ Answer(r)
  /\ UNCHANGED <<listed, live, made, stale, visible, orgCache>>

----------------------------------------------------------------------------
(* Revoking *)

\* POST .../revoke for an id on the list.
AskToRevoke(r, t) ==
  /\ req[r].at = "idle" /\ t \in Loaded
  /\ req' = [req EXCEPT ![r] = [Waiting EXCEPT !.at = "find", !.token = t]]
  /\ UNCHANGED <<listed, live, made, stale, visible, orgCache, shown>>

\* `fly tokens list` and findFlyTokenID: Fly lists live tokens only.
FindFlyID(r) ==
  /\ req[r].at = "find"
  /\ IF req[r].token \in live THEN FlyAt(r, "revoke") ELSE Answer(r)
  /\ UNCHANGED <<listed, live, made, stale, visible, orgCache, shown>>

\* Mutant: the exit status is believed.
FlyRevokesByStatus(r) ==
  /\ req[r].at = "revoke"
  /\ live' = live \ {req[r].token} \/ UNCHANGED live
  /\ FlyAt(r, "forget")
  /\ UNCHANGED <<listed, made, stale, visible, orgCache, shown>>

\* `fly tokens revoke`: it exits 0 even if it failed, so the request goes on only when
\* the output says Revoked. Killed late, it has revoked and the request has failed.
FlyRevokes(r) ==
  /\ req[r].at = "revoke"
  /\ live' = live \ {req[r].token}
  /\ FlyAt(r, "forget") \/ Answer(r)
  /\ UNCHANGED <<listed, made, stale, visible, orgCache, shown>>

\* Under the lock again: the list is loaded a second time, filtered and saved, or that fails.
ForgetToken(r) ==
  /\ req[r].at = "forget"
  /\ listed' = Loaded \ {req[r].token} \/ UNCHANGED listed
  /\ Answer(r)
  /\ UNCHANGED <<live, made, stale, visible, orgCache, shown>>

----------------------------------------------------------------------------
(* The world *)

\* fly fails before it has done anything, at any point where it runs.
FlyFails(r) ==
  /\ req[r].at \in {"org", "create", "find", "revoke"}
  /\ Answer(r)
  /\ UNCHANGED <<listed, live, made, stale, visible, orgCache, shown>>

\* The daemon dies and is started again: its requests and its cache are gone.
DaemonDies ==
  /\ req' = [r \in Requests |-> Waiting]
  /\ orgCache' = [orgs |-> {}, young |-> FALSE]
  /\ UNCHANGED <<listed, live, made, stale, visible, shown>>

\* ExpiresAt passes here; the token expires at Fly, on Fly's clock; it is revoked elsewhere.
ExpiresHere(t) ==
  /\ t \in made /\ t \notin stale
  /\ stale' = stale \cup {t}
  /\ UNCHANGED <<listed, live, made, visible, orgCache, shown, req>>

EndsAtFly(t) ==
  /\ t \in live
  /\ live' = live \ {t}
  /\ UNCHANGED <<listed, made, stale, visible, orgCache, shown, req>>

CacheAges ==
  /\ orgCache.young
  /\ orgCache' = [orgCache EXCEPT !.young = FALSE]
  /\ UNCHANGED <<listed, live, made, stale, visible, shown, req>>

\* The login joins or leaves an organization.
LoginChanges(o) ==
  /\ visible' = IF o \in visible THEN visible \ {o} ELSE visible \cup {o}
  /\ UNCHANGED <<listed, live, made, stale, orgCache, shown, req>>

FlyNext ==
  \/ \E r \in Requests :
       \/ OrgCached(r) \/ OrgAsked(r) \/ FlyCreates(r) \/ RecordToken(r) \/ ShowToken(r)
       \/ FindFlyID(r) \/ FlyRevokes(r) \/ ForgetToken(r) \/ FlyFails(r)
       \/ \E o \in Orgs : AskForToken(r, o)
       \/ \E t \in Tokens : AskToRevoke(r, t)
  \/ GetOrgs \/ DaemonDies \/ CacheAges
  \/ \E t \in Tokens : ExpiresHere(t) \/ EndsAtFly(t)
  \/ \E o \in Orgs : LoginChanges(o)

FlySpec == FlyInit /\ [][FlyNext]_flyVars

----------------------------------------------------------------------------
\* A token the person was given stays on the list they can revoke it from for as long
\* as Fly accepts it and its lifetime has not passed here, however creations and
\* revocations overlap, fail half-way or are cut off by the daemon's death.
ShownTokensCanBeRevoked == (shown \cap live) \ stale \subseteq listed
=============================================================================
