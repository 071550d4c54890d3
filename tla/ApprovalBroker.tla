--------------------------- MODULE ApprovalBroker ---------------------------
(***************************************************************************)
(* The dashboard approver of internal/pgproxy/approval/broker.go.          *)
(*                                                                         *)
(* Three kinds of goroutine share it:                                      *)
(*   - a session inside Approve, which registers its request, blocks in a  *)
(*     select and unregisters in a deferred function;                      *)
(*   - an admin handler inside Decide, which looks the request up under    *)
(*     the mutex, releases it, and only then sends into the request's      *)
(*     one-slot channel;                                                   *)
(*   - an admin handler inside Watch, the long poll behind the dashboard's *)
(*     pending count.                                                      *)
(* Every section between a Lock and its Unlock is one action; so is every  *)
(* channel operation.                                                      *)
(***************************************************************************)
EXTENDS Naturals, FiniteSets

CONSTANTS
  Requests,     \* the calls of Approve; NewID gives each its own id
  Deciders,     \* admin handlers that call Decide
  Watchers,     \* dashboards that keep a pending count through Watch
  NoRequest     \* the request of a decider that has not been called yet

ASSUME RequestsAreFinite == IsFiniteSet(Requests)
ASSUME NoRequestIsNone == NoRequest \notin Requests

VARIABLES
  pending,      \* Broker.pending: the ids in the map
  version,      \* Broker.version
  approve,      \* the control state of each Approve call
  decided,      \* the content of pendingReq.decided, a channel of one slot
  result,       \* the Decision each Approve call has picked
  decide,       \* the control state of each Decide call
  endorsed,     \* history: the ids passed to Decide with approved = true
  watch         \* each dashboard's Watch call and what it displays

reqVars == <<approve, result>>
vars == <<pending, version, approve, decided, result, decide, endorsed, watch>>

-----------------------------------------------------------------------------
Verdict(approved) == IF approved THEN "approved" ELSE "denied"

Verdicts == {"approved", "denied"}
ApproveState == {"idle", "waiting", "leaving", "done"}
Outcome == Verdicts \cup {"none"}

DecideCall ==
  [pc : {"idle", "found", "replied"}, id : Requests \cup {NoRequest},
   approved : BOOLEAN, ok : BOOLEAN]

\* known and shown are the dashboard's: the version it last got and the count
\* it displays.  count is what a blocked Watch sampled, 0 outside Watch.
WatchCall ==
  [pc : {"call", "blocked"}, known : Nat, shown : Nat, count : Nat]

TypeOK ==
  /\ pending \subseteq Requests
  /\ version \in Nat
  /\ approve \in [Requests -> ApproveState]
  /\ decided \in [Requests -> Outcome]
  /\ result \in [Requests -> Outcome]
  /\ decide \in [Deciders -> DecideCall]
  /\ endorsed \subseteq Requests
  /\ watch \in [Watchers -> WatchCall]

Init ==
  /\ pending = {}
  /\ version = 0
  /\ approve = [r \in Requests |-> "idle"]
  /\ decided = [r \in Requests |-> "none"]
  /\ result = [r \in Requests |-> "none"]
  /\ decide = [d \in Deciders |->
                 [pc |-> "idle", id |-> NoRequest, approved |-> FALSE, ok |-> FALSE]]
  /\ endorsed = {}
  /\ watch = [w \in Watchers |->
                [pc |-> "call", known |-> 0, shown |-> 0, count |-> 0]]

-----------------------------------------------------------------------------
(* Approve *)

\* Mutant: bumpLocked forgets to count.
BumpSilently == version' = version

\* bumpLocked.  Closing the changed channel and replacing it is what makes
\* every Watch that holds the old channel wakeable; a channel is known by the
\* version at which it was made.
Bump == version' = version + 1

\* Mutant: the request waits without being listed.
RegisterUnlisted(r) ==
  /\ approve[r] = "idle"
  /\ approve' = [approve EXCEPT ![r] = "waiting"]
  /\ Bump
  /\ UNCHANGED <<pending, decided, result, decide, endorsed, watch>>

Register(r) ==
  /\ approve[r] = "idle"
  /\ approve' = [approve EXCEPT ![r] = "waiting"]
  /\ pending' = pending \cup {r}
  /\ Bump
  /\ UNCHANGED <<decided, result, decide, endorsed, watch>>

\* Mutant: a call that has already returned picks another decision.
LeaveAgain(r, outcome) ==
  /\ approve[r] # "idle"
  /\ approve' = [approve EXCEPT ![r] = "leaving"]
  /\ result' = [result EXCEPT ![r] = outcome]
  /\ UNCHANGED <<pending, version, decide, endorsed, watch>>

\* Leaving the select with a Decision, of which only Approved is kept: the
\* reasons are texts for the agent.
Leave(r, outcome) ==
  /\ approve[r] = "waiting"
  /\ approve' = [approve EXCEPT ![r] = "leaving"]
  /\ result' = [result EXCEPT ![r] = outcome]
  /\ UNCHANGED <<pending, version, decide, endorsed, watch>>

ReceiveDecision(r) ==
  /\ decided[r] # "none"
  /\ Leave(r, decided[r])
  /\ decided' = [decided EXCEPT ![r] = "none"]

\* Mutant: the zero Decision of an abandoned wait counts as a third answer.
GiveUpUndecided(r) ==
  /\ Leave(r, "timeout")
  /\ UNCHANGED decided

\* Mutant: an unanswered request is let through.
GiveUpOpen(r) ==
  /\ Leave(r, "approved")
  /\ UNCHANGED decided

\* Mutant: no timer; only an answered request leaves.
GiveUpAnswered(r) ==
  /\ decided[r] # "none"
  /\ Leave(r, "denied")
  /\ UNCHANGED decided

\* The timer fires or the server's context ends, at any moment of the wait.  It
\* may win over a buffered decision: Go picks any ready case of the select.
GiveUp(r) ==
  /\ Leave(r, "denied")
  /\ UNCHANGED decided

\* Mutant: the deferred function deletes without waking the dashboards.
UnregisterQuietly(r) ==
  /\ approve[r] = "leaving"
  /\ approve' = [approve EXCEPT ![r] = "done"]
  /\ pending' = pending \ {r}
  /\ UNCHANGED <<version, decided, result, decide, endorsed, watch>>

\* The deferred function, which runs before Approve returns.
Unregister(r) ==
  /\ approve[r] = "leaving"
  /\ approve' = [approve EXCEPT ![r] = "done"]
  /\ pending' = pending \ {r}
  /\ Bump
  /\ UNCHANGED <<decided, result, decide, endorsed, watch>>

-----------------------------------------------------------------------------
(* Decide *)

\* An operator answers a request the dashboard has listed, perhaps long ago.
\* Its Decide looks the id up and keeps the pendingReq past the unlock.
Lookup(d, r, approved) ==
  /\ decide[d].pc # "found"
  /\ approve[r] # "idle"
  /\ endorsed' = IF approved THEN endorsed \cup {r} ELSE endorsed
  /\ decide' = [decide EXCEPT ![d] =
                  [pc |-> IF r \in pending THEN "found" ELSE "replied",
                   id |-> r, approved |-> approved, ok |-> FALSE]]
  /\ UNCHANGED <<pending, version, reqVars, decided, watch>>

\* The non-blocking send: the slot is taken or Decide reports false.
Send(d) ==
  LET r == decide[d].id
      free == decided[r] = "none"
  IN /\ decide[d].pc = "found"
     /\ decide' = [decide EXCEPT ![d].pc = "replied", ![d].ok = free]
     /\ decided' = IF free
                   THEN [decided EXCEPT ![r] = Verdict(decide[d].approved)]
                   ELSE decided
     /\ UNCHANGED <<pending, version, reqVars, endorsed, watch>>

-----------------------------------------------------------------------------
(* Watch *)

\* The versions Watch hands out start at 1, so a client's first 0 always differs.
Current == version + 1

\* One turn of the loop in Watch: sample version, count and channel under the
\* mutex, then answer or block.
Sample(w) ==
  LET count == Cardinality(pending)
  IN /\ watch[w].pc = "call"
     /\ watch' = [watch EXCEPT ![w] =
          IF Current # @.known
          THEN [@ EXCEPT !.known = Current, !.shown = count]
          ELSE [@ EXCEPT !.pc = "blocked", !.count = count]]
     /\ UNCHANGED <<pending, version, reqVars, decided, decide, endorsed>>

\* The channel sampled at version known - 1 is closed: go round the loop.
Wake(w) ==
  /\ watch[w].pc = "blocked"
  /\ Current # watch[w].known
  /\ watch' = [watch EXCEPT ![w].pc = "call", ![w].count = 0]
  /\ UNCHANGED <<pending, version, reqVars, decided, decide, endorsed>>

\* The 25 seconds of handleApprovalsWatch are over: answer with the sample.
PollTimeout(w) ==
  /\ watch[w].pc = "blocked"
  /\ watch' = [watch EXCEPT ![w] =
                 [@ EXCEPT !.pc = "call", !.shown = watch[w].count, !.count = 0]]
  /\ UNCHANGED <<pending, version, reqVars, decided, decide, endorsed>>

\* watchApprovals in the desktop app: a failed poll, its reply lost included,
\* clears the badge and starts over from version 0.
PollFails(w) ==
  /\ watch' = [watch EXCEPT ![w] =
                 [pc |-> "call", known |-> 0, shown |-> 0, count |-> 0]]
  /\ UNCHANGED <<pending, version, reqVars, decided, decide, endorsed>>

-----------------------------------------------------------------------------
Select(r) == ReceiveDecision(r) \/ GiveUp(r)

Next ==
  \/ \E r \in Requests : Register(r) \/ Select(r) \/ Unregister(r)
  \/ \E d \in Deciders :
       \/ Send(d)
       \/ \E r \in Requests, approved \in BOOLEAN : Lookup(d, r, approved)
  \/ \E w \in Watchers : Sample(w) \/ Wake(w) \/ PollTimeout(w) \/ PollFails(w)

\* The timer always fires, so a select never stays blocked; goroutines that can
\* run do run.  Nothing forces an operator to answer or a session to ask.
Fairness ==
  /\ \A r \in Requests : WF_vars(Select(r)) /\ WF_vars(Unregister(r))
  /\ \A d \in Deciders : WF_vars(Send(d))
  /\ \A w \in Watchers : WF_vars(Sample(w)) /\ WF_vars(Wake(w))

Spec == Init /\ [][Next]_vars /\ Fairness

-----------------------------------------------------------------------------
(* Safety *)

\* A gated statement is let through only if an operator sent an approval for
\* that very request: no timeout, shutdown, late answer or second operator can
\* turn into one (Approve and Decide; approval.go's "must fail closed").
FailClosed ==
  \A r \in Requests : result[r] = "approved" => r \in endorsed

\* Decide says false ("no such request", a 404 in the admin API) only if the
\* request was answered or has left its select: an operator is never turned
\* away from a statement that is still waiting for a first answer.
RefusalJustified ==
  \A d \in Deciders :
    (decide[d].pc = "replied" /\ ~decide[d].ok) =>
      \/ approve[decide[d].id] \in {"leaving", "done"}
      \/ decided[decide[d].id] # "none"

\* A client that holds the current version displays the current count, so a
\* Watch that blocks on it hides no request from the operator (Watch reads
\* version, count and channel in one critical section; every change bumps).
BadgeMatchesVersion ==
  \A w \in Watchers :
    watch[w].known = Current => watch[w].shown = Cardinality(pending)

\* Decide's own comment: it "returns false if no such request is waiting (e.g.
\* it already timed out)".  Then a Decide that returned true named the outcome.
AcceptedDecisionTakesEffect ==
  \A d \in Deciders :
    (decide[d].pc = "replied" /\ decide[d].ok) =>
      result[decide[d].id] \in {"none", Verdict(decide[d].approved)}

-----------------------------------------------------------------------------
(* Liveness *)

\* Every gated statement gets an answer: the session blocked in Approve goes on
\* even if no operator ever looks (the timer case of the select).
ApproveReturns ==
  \A r \in Requests : approve[r] = "waiting" ~> approve[r] = "done"

\* The dashboard's count ends up right, whatever wake-ups, timeouts and failed
\* polls it went through (Watch's loop and the client's use of after).
DashboardCatchesUp ==
  \A w \in Watchers : <>[](watch[w].shown = Cardinality(pending))

-----------------------------------------------------------------------------
(* The broker implements the gate every Approver promises. *)

GateStatus(r) ==
  CASE approve[r] = "idle" -> "idle"
    [] approve[r] = "waiting" -> "waiting"
    [] OTHER -> IF result[r] = "approved" THEN "approved" ELSE "denied"

Gate == INSTANCE ApprovalGate
          WITH status <- [r \in Requests |-> GateStatus(r)], endorsed <- endorsed

\* Each Approve ends exactly once, with a grant only after an approving vote,
\* and Decide and Watch add nothing else to the gate's behaviour.
ImplementsGate == Gate!GateSpec

=============================================================================
