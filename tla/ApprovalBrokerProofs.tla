------------------------ MODULE ApprovalBrokerProofs ------------------------
(***************************************************************************)
(* Proofs about the dashboard approver for any number of requests,         *)
(* operators and dashboards.                                               *)
(***************************************************************************)
EXTENDS ApprovalBroker, FiniteSetTheorems, TLAPS

-----------------------------------------------------------------------------
(* The parts of the inductive invariant. *)

\* The map holds exactly the requests between registration and the deferred
\* delete; nothing is decided or picked before it can be.
Lifecycle ==
  \A r \in Requests :
    /\ r \in pending <=> approve[r] \in {"waiting", "leaving"}
    /\ approve[r] = "idle" => decided[r] = "none"
    /\ approve[r] \in {"idle", "waiting"} => result[r] = "none"
    /\ approve[r] \in {"leaving", "done"} => result[r] # "none"

\* An approval on its way from an operator to a request was sent for it.
ApprovalsAreEndorsed ==
  /\ \A r \in Requests : decided[r] = "approved" => r \in endorsed
  /\ \A d \in Deciders :
       (decide[d].pc = "found" /\ decide[d].approved) => decide[d].id \in endorsed

\* A Decide that has looked a request up holds one that was registered.
LookupsAreOfRequests ==
  \A d \in Deciders :
    decide[d].pc # "idle" =>
      /\ decide[d].id \in Requests
      /\ approve[decide[d].id] # "idle"

\* No client is ahead of the broker, and what a blocked Watch sampled is the
\* count at the version its client holds.
SamplesAreCurrent ==
  \A w \in Watchers :
    /\ watch[w].known <= Current
    /\ (watch[w].pc = "blocked" /\ watch[w].known = Current) =>
         watch[w].count = Cardinality(pending)

DecisionInv == Lifecycle /\ ApprovalsAreEndorsed /\ LookupsAreOfRequests /\ FailClosed

-----------------------------------------------------------------------------
LEMMA PendingIsFinite ==
  ASSUME NEW S, S \subseteq Requests
  PROVE  IsFiniteSet(S) /\ Cardinality(S) \in Nat
BY RequestsAreFinite, FS_Subset, FS_CardinalityType

\* The goroutines of the broker keep every variable within its type.
THEOREM TypeCorrect == Spec => []TypeOK
<1>1. Init => TypeOK
  BY DEF Init, TypeOK, Outcome, Verdicts, ApproveState, DecideCall, WatchCall
<1>2. TypeOK /\ [Next]_vars => TypeOK'
  <2> SUFFICES ASSUME TypeOK, [Next]_vars PROVE TypeOK'
    OBVIOUS
  <2> USE DEF TypeOK, Outcome, Verdicts, ApproveState
  <2>1. ASSUME NEW r \in Requests, Register(r) PROVE TypeOK'
    BY <2>1 DEF Register, Bump
  <2>2. ASSUME NEW r \in Requests, ReceiveDecision(r) PROVE TypeOK'
    BY <2>2 DEF ReceiveDecision, Leave
  <2>3. ASSUME NEW r \in Requests, GiveUp(r) PROVE TypeOK'
    BY <2>3 DEF GiveUp, Leave
  <2>4. ASSUME NEW r \in Requests, Unregister(r) PROVE TypeOK'
    BY <2>4 DEF Unregister, Bump
  <2>5. ASSUME NEW d \in Deciders, NEW r \in Requests, NEW approved \in BOOLEAN,
               Lookup(d, r, approved)
        PROVE TypeOK'
    BY <2>5 DEF Lookup, DecideCall, reqVars
  <2>6. ASSUME NEW d \in Deciders, Send(d) PROVE TypeOK'
    <3> DEFINE free == decided[decide[d].id] = "none"
    <3>1. decide' = [decide EXCEPT ![d] =
                       [@ EXCEPT !.pc = "replied", !.ok = free]]
      BY <2>6 DEF Send
    <3>2. free \in BOOLEAN
      OBVIOUS
    <3>3. ASSUME NEW call \in DecideCall, NEW ok \in BOOLEAN
          PROVE  [call EXCEPT !.pc = "replied", !.ok = ok] \in DecideCall
      BY DEF DecideCall
    <3>4. decide' \in [Deciders -> DecideCall]
      BY <3>1, <3>2, <3>3
    <3>5. decided' \in [Requests -> Outcome]
      BY <2>6 DEF Send, Verdict
    <3>6. QED
      BY <2>6, <3>4, <3>5 DEF Send, reqVars
  <2>7. ASSUME NEW w \in Watchers, Sample(w) PROVE TypeOK'
    <3>1. Cardinality(pending) \in Nat /\ Current \in Nat
      BY PendingIsFinite DEF Current
    <3>2. watch'[w] \in WatchCall
      BY <2>7, <3>1 DEF Sample, WatchCall
    <3>3. watch' \in [Watchers -> WatchCall]
      BY <2>7, <3>2 DEF Sample
    <3>4. QED
      BY <2>7, <3>3 DEF Sample, reqVars
  <2>8. ASSUME NEW w \in Watchers, Wake(w) PROVE TypeOK'
    <3>1. watch' = [watch EXCEPT ![w] = [@ EXCEPT !.pc = "call", !.count = 0]]
      BY <2>8 DEF Wake
    <3>2. ASSUME NEW call \in WatchCall
          PROVE  [call EXCEPT !.pc = "call", !.count = 0] \in WatchCall
      BY DEF WatchCall
    <3>3. watch' \in [Watchers -> WatchCall]
      BY <3>1, <3>2
    <3>4. QED
      BY <2>8, <3>3 DEF Wake, reqVars
  <2>9. ASSUME NEW w \in Watchers, PollTimeout(w) PROVE TypeOK'
    BY <2>9 DEF PollTimeout, WatchCall, reqVars
  <2>10. ASSUME NEW w \in Watchers, PollFails(w) PROVE TypeOK'
    BY <2>10 DEF PollFails, WatchCall, reqVars
  <2>11. CASE UNCHANGED vars
    BY <2>11 DEF vars
  <2>12. QED
    BY <2>1, <2>2, <2>3, <2>4, <2>5, <2>6, <2>7, <2>8, <2>9, <2>10, <2>11
       DEF Next, Select
<1>3. QED
  BY <1>1, <1>2, PTL DEF Spec

-----------------------------------------------------------------------------
(* Decisions *)

LEMMA DecisionInvInit == Init => DecisionInv
BY DEF Init, DecisionInv, Lifecycle, ApprovalsAreEndorsed, LookupsAreOfRequests,
       FailClosed

LEMMA DecisionInvStep ==
  ASSUME TypeOK, DecisionInv, [Next]_vars
  PROVE  DecisionInv'
<1> USE DEF TypeOK, Outcome, Verdicts, ApproveState
<1> USE DEF DecisionInv, Lifecycle, ApprovalsAreEndorsed, LookupsAreOfRequests, FailClosed
<1>1. ASSUME NEW r \in Requests, Register(r) PROVE DecisionInv'
  BY <1>1 DEF Register, DecideCall
<1>2. ASSUME NEW r \in Requests, ReceiveDecision(r) PROVE DecisionInv'
  BY <1>2 DEF ReceiveDecision, Leave
<1>3. ASSUME NEW r \in Requests, GiveUp(r) PROVE DecisionInv'
  BY <1>3 DEF GiveUp, Leave
<1>4. ASSUME NEW r \in Requests, Unregister(r) PROVE DecisionInv'
  BY <1>4 DEF Unregister
<1>5. ASSUME NEW d \in Deciders, NEW r \in Requests, NEW approved \in BOOLEAN,
             Lookup(d, r, approved)
      PROVE DecisionInv'
  BY <1>5 DEF Lookup, reqVars
<1>6. ASSUME NEW d \in Deciders, Send(d) PROVE DecisionInv'
  BY <1>6 DEF Send, reqVars, Verdict
<1>7. ASSUME UNCHANGED <<pending, reqVars, decided, decide, endorsed>>
      PROVE DecisionInv'
  BY <1>7 DEF reqVars
<1>8. ASSUME NEW w \in Watchers, Sample(w) \/ Wake(w) \/ PollTimeout(w) \/ PollFails(w)
      PROVE DecisionInv'
  BY <1>7, <1>8 DEF Sample, Wake, PollTimeout, PollFails
<1>9. CASE UNCHANGED vars
  BY <1>7, <1>9 DEF vars, reqVars
<1>10. QED
  BY <1>1, <1>2, <1>3, <1>4, <1>5, <1>6, <1>8, <1>9 DEF Next, Select

LEMMA DecisionsCorrect == Spec => []DecisionInv
BY TypeCorrect, DecisionInvInit, DecisionInvStep, PTL DEF Spec

\* No gated statement is released without an operator's approval of that very
\* request, for any number of sessions and operators (FailClosed).
THEOREM NeverOpensUnasked == Spec => []FailClosed
<1>1. DecisionInv => FailClosed
  BY DEF DecisionInv
<1>2. QED
  BY <1>1, DecisionsCorrect, PTL

\* A request whose Decide was refused has been answered or is being left, and
\* neither is ever undone: an answered slot empties only as the select leaves.
LEMMA RefusalStep ==
  ASSUME TypeOK, DecisionInv, RefusalJustified, [Next]_vars
  PROVE  RefusalJustified'
<1> USE DEF TypeOK, Outcome, Verdicts, ApproveState
<1> USE DEF DecisionInv, Lifecycle, LookupsAreOfRequests, RefusalJustified
<1>1. ASSUME NEW r \in Requests, Register(r) PROVE RefusalJustified'
  BY <1>1 DEF Register
<1>2. ASSUME NEW r \in Requests, ReceiveDecision(r) PROVE RefusalJustified'
  BY <1>2 DEF ReceiveDecision, Leave
<1>3. ASSUME NEW r \in Requests, GiveUp(r) PROVE RefusalJustified'
  BY <1>3 DEF GiveUp, Leave
<1>4. ASSUME NEW r \in Requests, Unregister(r) PROVE RefusalJustified'
  BY <1>4 DEF Unregister
<1>5. ASSUME NEW d \in Deciders, NEW r \in Requests, NEW approved \in BOOLEAN,
             Lookup(d, r, approved)
      PROVE RefusalJustified'
  BY <1>5 DEF Lookup, reqVars
<1>6. ASSUME NEW d \in Deciders, Send(d) PROVE RefusalJustified'
  BY <1>6 DEF Send, reqVars, Verdict
<1>7. ASSUME UNCHANGED <<reqVars, decided, decide>> PROVE RefusalJustified'
  BY <1>7 DEF reqVars
<1>8. ASSUME NEW w \in Watchers, Sample(w) \/ Wake(w) \/ PollTimeout(w) \/ PollFails(w)
      PROVE RefusalJustified'
  BY <1>7, <1>8 DEF Sample, Wake, PollTimeout, PollFails
<1>9. CASE UNCHANGED vars
  BY <1>7, <1>9 DEF vars, reqVars
<1>10. QED
  BY <1>1, <1>2, <1>3, <1>4, <1>5, <1>6, <1>8, <1>9 DEF Next, Select

\* Decide never answers "no such request" about a statement that still waits
\* for its first answer (RefusalJustified).
THEOREM RefusalsAreJustified == Spec => []RefusalJustified
<1>1. Init => RefusalJustified
  BY DEF Init, RefusalJustified
<1>2. QED
  BY <1>1, RefusalStep, TypeCorrect, DecisionsCorrect, PTL DEF Spec

-----------------------------------------------------------------------------
(* Watch *)

BadgeInv == SamplesAreCurrent /\ BadgeMatchesVersion

\* A bump makes every version already handed out an old one.
LEMMA BumpOutdatesClients ==
  ASSUME TypeOK, BadgeInv, Bump, UNCHANGED watch
  PROVE  BadgeInv'
<1> USE DEF TypeOK, WatchCall, Current
<1>1. ASSUME NEW w \in Watchers
      PROVE  /\ watch'[w].known <= Current'
             /\ watch'[w].known # Current'
  BY DEF Bump, BadgeInv, SamplesAreCurrent
<1>2. QED
  BY <1>1 DEF BadgeInv, SamplesAreCurrent, BadgeMatchesVersion

LEMMA BadgeInvStep ==
  ASSUME TypeOK, BadgeInv, [Next]_vars
  PROVE  BadgeInv'
<1> USE DEF TypeOK
<1>1. ASSUME NEW r \in Requests, Register(r) \/ Unregister(r) PROVE BadgeInv'
  BY <1>1, BumpOutdatesClients DEF Register, Unregister
<1>2. ASSUME UNCHANGED <<pending, version, watch>> PROVE BadgeInv'
  BY <1>2 DEF BadgeInv, SamplesAreCurrent, BadgeMatchesVersion, Current
<1>3. ASSUME NEW r \in Requests, Select(r) PROVE BadgeInv'
  BY <1>2, <1>3 DEF Select, ReceiveDecision, GiveUp, Leave
<1>4. ASSUME NEW d \in Deciders,
             Send(d) \/ \E r \in Requests, approved \in BOOLEAN : Lookup(d, r, approved)
      PROVE BadgeInv'
  BY <1>2, <1>4 DEF Send, Lookup
<1>5. ASSUME NEW w \in Watchers,
             UNCHANGED <<pending, version>>,
             watch' = [watch EXCEPT ![w] = watch'[w]],
             watch'[w].known <= Current,
             watch'[w].known = Current => watch'[w].shown = Cardinality(pending),
             (watch'[w].pc = "blocked" /\ watch'[w].known = Current) =>
                watch'[w].count = Cardinality(pending)
      PROVE BadgeInv'
  BY <1>5 DEF BadgeInv, SamplesAreCurrent, BadgeMatchesVersion, Current
<1>6. ASSUME NEW w \in Watchers, Sample(w) PROVE BadgeInv'
  <2>1. Current \in Nat
    BY DEF Current
  <2>2. /\ UNCHANGED <<pending, version>>
        /\ watch' = [watch EXCEPT ![w] = watch'[w]]
    BY <1>6 DEF Sample
  <2>3. CASE Current # watch[w].known
    <3>1. /\ watch'[w].known = Current
          /\ watch'[w].shown = Cardinality(pending)
          /\ watch'[w].pc = "call"
      BY <1>6, <2>3 DEF Sample, WatchCall
    <3>2. QED
      BY <2>1, <2>2, <3>1, <1>5
  <2>4. CASE Current = watch[w].known
    <3>1. /\ watch'[w].known = Current
          /\ watch'[w].shown = watch[w].shown
          /\ watch'[w].count = Cardinality(pending)
      BY <1>6, <2>4 DEF Sample, WatchCall
    <3>2. watch[w].shown = Cardinality(pending)
      BY <2>4 DEF BadgeInv, BadgeMatchesVersion
    <3>3. QED
      BY <2>1, <2>2, <3>1, <3>2, <1>5
  <2>5. QED
    BY <2>3, <2>4
<1>7. ASSUME NEW w \in Watchers, Wake(w) PROVE BadgeInv'
  <2>1. /\ UNCHANGED <<pending, version>>
        /\ watch' = [watch EXCEPT ![w] = watch'[w]]
        /\ watch'[w].pc = "call"
        /\ watch'[w].known = watch[w].known
        /\ watch'[w].known # Current
    BY <1>7 DEF Wake, WatchCall
  <2>2. watch[w].known <= Current
    BY DEF BadgeInv, SamplesAreCurrent
  <2>3. QED
    BY <2>1, <2>2, <1>5
<1>8. ASSUME NEW w \in Watchers, PollTimeout(w) PROVE BadgeInv'
  <2>1. /\ UNCHANGED <<pending, version>>
        /\ watch' = [watch EXCEPT ![w] = watch'[w]]
        /\ watch'[w].pc = "call"
        /\ watch'[w].known = watch[w].known
        /\ watch'[w].shown = watch[w].count
        /\ watch[w].pc = "blocked"
    BY <1>8 DEF PollTimeout, WatchCall
  <2>2. /\ watch[w].known <= Current
        /\ watch[w].known = Current => watch[w].count = Cardinality(pending)
    BY <2>1 DEF BadgeInv, SamplesAreCurrent
  <2>3. QED
    BY <2>1, <2>2, <1>5
<1>9. ASSUME NEW w \in Watchers, PollFails(w) PROVE BadgeInv'
  <2>1. /\ UNCHANGED <<pending, version>>
        /\ watch' = [watch EXCEPT ![w] = watch'[w]]
        /\ watch'[w].pc = "call"
        /\ watch'[w].known = 0
    BY <1>9 DEF PollFails, WatchCall
  <2>2. 0 <= Current /\ 0 # Current
    BY DEF Current
  <2>3. QED
    BY <2>1, <2>2, <1>5
<1>10. CASE UNCHANGED vars
  BY <1>2, <1>10 DEF vars
<1>11. QED
  BY <1>1, <1>3, <1>4, <1>6, <1>7, <1>8, <1>9, <1>10 DEF Next

\* A client that holds the current version displays the current number of
\* waiting requests, so blocking it hides none (BadgeMatchesVersion).
THEOREM NoLostWakeup == Spec => []BadgeMatchesVersion
<1>1. Init => BadgeInv
  BY DEF Init, BadgeInv, SamplesAreCurrent, BadgeMatchesVersion, Current
<1>2. BadgeInv => BadgeMatchesVersion
  BY DEF BadgeInv
<1>3. QED
  BY <1>1, <1>2, BadgeInvStep, TypeCorrect, PTL DEF Spec

-----------------------------------------------------------------------------
(* Refinement *)

LEMMA StepRefinesGate ==
  ASSUME TypeOK, DecisionInv, [Next]_vars
  PROVE  [Gate!GateNext]_(Gate!gateVars)
<1> USE DEF TypeOK, Outcome, Verdicts, ApproveState
<1> USE DEF Gate!GateNext, Gate!gateVars
<1>1. ASSUME NEW r \in Requests, Register(r) PROVE Gate!Submit(r)
  BY <1>1 DEF Register, Gate!Submit, GateStatus
<1>2. ASSUME NEW r \in Requests, ReceiveDecision(r)
      PROVE Gate!Grant(r) \/ Gate!Deny(r)
  <2>1. CASE decided[r] = "approved"
    <3>1. r \in endorsed
      BY <2>1 DEF DecisionInv, ApprovalsAreEndorsed
    <3>2. Gate!Grant(r)
      BY <1>2, <2>1, <3>1 DEF ReceiveDecision, Leave, Gate!Grant, GateStatus
    <3>3. QED
      BY <3>2
  <2>2. CASE decided[r] = "denied"
    BY <1>2, <2>2 DEF ReceiveDecision, Leave, Gate!Deny, GateStatus
  <2>3. QED
    BY <1>2, <2>1, <2>2 DEF ReceiveDecision
<1>3. ASSUME NEW r \in Requests, GiveUp(r) PROVE Gate!Deny(r)
  BY <1>3 DEF GiveUp, Leave, Gate!Deny, GateStatus
<1>4. ASSUME NEW r \in Requests, Unregister(r) PROVE UNCHANGED Gate!gateVars
  BY <1>4 DEF Unregister, GateStatus
<1>5. ASSUME NEW d \in Deciders, NEW r \in Requests, NEW approved \in BOOLEAN,
             Lookup(d, r, approved)
      PROVE Gate!Endorse(r) \/ UNCHANGED Gate!gateVars
  <2>1. GateStatus(r) # "idle"
    BY <1>5 DEF Lookup, GateStatus
  <2>2. UNCHANGED [q \in Requests |-> GateStatus(q)]
    BY <1>5 DEF Lookup, reqVars, GateStatus
  <2>3. QED
    BY <1>5, <2>1, <2>2 DEF Lookup, Gate!Endorse
<1>6. ASSUME UNCHANGED <<reqVars, endorsed>> PROVE UNCHANGED Gate!gateVars
  BY <1>6 DEF reqVars, GateStatus
<1>7. ASSUME NEW d \in Deciders, Send(d) PROVE UNCHANGED Gate!gateVars
  BY <1>6, <1>7 DEF Send
<1>8. ASSUME NEW w \in Watchers, Sample(w) \/ Wake(w) \/ PollTimeout(w) \/ PollFails(w)
      PROVE UNCHANGED Gate!gateVars
  BY <1>6, <1>8 DEF Sample, Wake, PollTimeout, PollFails
<1>9. CASE UNCHANGED vars
  BY <1>6, <1>9 DEF vars, reqVars
<1>10. QED
  BY <1>1, <1>2, <1>3, <1>4, <1>5, <1>7, <1>8, <1>9 DEF Next, Select

\* The dashboard broker keeps the promise every Approver makes: each request
\* ends once, and approved only if an operator approved it (ImplementsGate).
THEOREM BrokerImplementsGate == Spec => ImplementsGate
<1>1. Init => Gate!GateInit
  BY DEF Init, Gate!GateInit, GateStatus
<1>2. QED
  BY <1>1, StepRefinesGate, TypeCorrect, DecisionsCorrect, PTL
     DEF Spec, ImplementsGate, Gate!GateSpec

=============================================================================
