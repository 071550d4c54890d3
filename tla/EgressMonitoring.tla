-------------------------- MODULE EgressMonitoring --------------------------
(***************************************************************************)
(* Recording a sandbox's web traffic.  `egress enable` chooses a pair of   *)
(* ports, saves it in the policy, waits until something listens there and  *)
(* puts firewall rules into the VM that send the traffic to it; `disable`  *)
(* takes the rules out and clears the policy.  The daemon reads all        *)
(* policies every few seconds and opens and closes listeners, one pair per *)
(* sandbox, each recording for its profile.                                *)
(*                                                                         *)
(* A pair of ports is one number here.  Loading and saving a policy are    *)
(* single steps (SandboxAccess has their interleavings), but a policy may  *)
(* be unreadable for a time: whoever saves it, here or in another command, *)
(* first empties the file, and may die before it is whole again.           *)
(***************************************************************************)
EXTENDS Integers, FiniteSets

CONSTANTS
  Sandboxes,   \* sandboxes with a policy
  Enablers,    \* processes that run egress commands
  MaxPort      \* bound on the port pairs

ASSUME EgressAssumption == IsFiniteSet(Sandboxes) /\ MaxPort \in Nat \ {0}

VARIABLES
  egressPort,  \* the port in each policy, 0 if monitoring is off
  torn,        \* sandboxes whose policy cannot be parsed at the moment
  rules,       \* the port the rules in each VM send traffic to, 0 if there are none
  listening,   \* is the daemon up, and its pairs <<sandbox, port>> of open listeners
  tick,        \* reconcileEgress: wanted pairs it has not come to yet
  foreign,     \* the port another program holds, 0 if none does
  enabler,     \* the command each process runs
  overlapped,  \* history: sandboxes two commands ran on at once
  mixed,       \* history: sandboxes that chose a port together with another, that
               \* share one chosen while the other's policy was unreadable, or
               \* whose policy was saved during a tick
  stuck        \* history: sandboxes whose VM kept its rules when nft refused to
               \* take them out and nobody noticed

egressVars ==
  <<egressPort, torn, rules, listening, tick, foreign, enabler, overlapped, mixed, stuck>>

Ports == 1 .. MaxPort
Pairs == Sandboxes \X Ports
NoCommand == [at |-> "rest", box |-> "none", port |-> 0, undo |-> FALSE]

EgressTask ==
  [at : {"rest", "load", "save", "start", "wait", "rules", "remove", "clear"},
   box : Sandboxes \cup {"none"}, port : 0 .. MaxPort, undo : BOOLEAN]

EgressTypeOK ==
  /\ egressPort \in [Sandboxes -> 0 .. MaxPort]
  /\ torn \subseteq Sandboxes
  /\ rules \in [Sandboxes -> 0 .. MaxPort]
  /\ listening \in [up : BOOLEAN, open : SUBSET Pairs]
  /\ tick \subseteq Pairs
  /\ foreign \in 0 .. MaxPort
  /\ enabler \in [Enablers -> EgressTask]
  /\ overlapped \subseteq Sandboxes /\ mixed \subseteq Sandboxes /\ stuck \subseteq Sandboxes

EgressInit ==
  /\ egressPort = [s \in Sandboxes |-> 0]
  /\ torn = {}
  /\ rules = [s \in Sandboxes |-> 0]
  /\ listening = [up |-> FALSE, open |-> {}]
  /\ tick = {}
  /\ foreign = 0
  /\ enabler = [e \in Enablers |-> NoCommand]
  /\ overlapped = {} /\ mixed = {} /\ stuck = {}

EgressGoto(e, stage) == enabler' = [enabler EXCEPT ![e].at = stage]

\* enableEgress fails: a creation job's hook disables again, if it can load the
\* policy; the command line does not.
EnableFails(e) == enabler' = [enabler EXCEPT ![e] =
  IF @.undo /\ @.box \notin torn THEN [@ EXCEPT !.at = "remove", !.undo = FALSE]
  ELSE NoCommand]

PortsListening == {pair[2] : pair \in listening.open} \cup {foreign}

----------------------------------------------------------------------------
(* Commands *)

\* A bound: once two commands got mixed up, those that run end and no more begin.
\* disableEgress has loaded the policy before it does anything.
BeginEgress(e, s) ==
  /\ enabler[e].at = "rest" /\ overlapped \cup mixed = {}
  /\ \E c \in {[at |-> "load", undo |-> FALSE], [at |-> "load", undo |-> TRUE],
               [at |-> "remove", undo |-> FALSE]} :
       /\ c.at = "remove" => s \notin torn
       /\ enabler' = [enabler EXCEPT ![e] =
                        [at |-> c.at, box |-> s, port |-> 0, undo |-> c.undo]]
  /\ overlapped' = IF \E d \in Enablers : enabler[d].box = s
                   THEN overlapped \cup {s} ELSE overlapped
  /\ UNCHANGED <<egressPort, torn, rules, listening, tick, foreign, mixed, stuck>>

\* Mutant: a pair that nothing listens on is free, whoever's policy names it.
IsSilentPort(p) ==
  p \notin PortsListening /\ \A q \in 1 .. p - 1 : q \in PortsListening

\* nextEgressPort: the first pair that nothing holds and no policy names, those
\* that cannot be read passed over.
IsNextPort(p) ==
  LET free(q) == q \notin {egressPort[s] : s \in Sandboxes \ torn} \cup PortsListening
  IN free(p) /\ \A q \in 1 .. p - 1 : ~free(q)

\* Sandboxes whose port p may be or become, unseen by who chooses it for s.
ChoosingWith(s, p) ==
  ({enabler[d].box : d \in {d \in Enablers : enabler[d].at = "save"}} \ {s})
    \cup {t \in torn : egressPort[t] = p}

Choose(e) ==
  LET s == enabler[e].box
  IN \E p \in Ports :
       /\ IsNextPort(p)
       /\ enabler' = [enabler EXCEPT ![e].at = "save", ![e].port = p]
       /\ mixed' = IF ChoosingWith(s, p) = {} THEN mixed
                   ELSE mixed \cup ChoosingWith(s, p) \cup {s}

\* Mutant: a sandbox that is monitored already gets another pair of ports.
LoadAndChooseAgain(e) ==
  /\ enabler[e].at = "load" /\ enabler[e].box \notin torn
  /\ Choose(e)
  /\ UNCHANGED <<egressPort, torn, rules, listening, tick, foreign, overlapped, stuck>>

LoadAndChoose(e) ==
  /\ enabler[e].at = "load" /\ enabler[e].box \notin torn
  /\ IF egressPort[enabler[e].box] # 0
     THEN /\ enabler' = [enabler EXCEPT ![e].at = "start",
                                       ![e].port = egressPort[enabler[e].box]]
          /\ UNCHANGED mixed
     ELSE Choose(e)
  /\ UNCHANGED <<egressPort, torn, rules, listening, tick, foreign, overlapped, stuck>>

SavePolicy(e, port) ==
  /\ egressPort' = [egressPort EXCEPT ![enabler[e].box] = port]
  /\ torn' = torn \ {enabler[e].box}
  /\ mixed' = IF tick = {} THEN mixed ELSE mixed \cup {enabler[e].box}

SavePort(e) ==
  /\ enabler[e].at = "save"
  /\ SavePolicy(e, enabler[e].port)
  /\ EgressGoto(e, "start")
  /\ UNCHANGED <<rules, listening, tick, foreign, overlapped, stuck>>

\* ensureBrokerRunning
StartDaemon(e) ==
  /\ enabler[e].at = "start"
  /\ listening' = [listening EXCEPT !.up = TRUE]
  /\ EgressGoto(e, "wait")
  /\ UNCHANGED <<egressPort, torn, rules, tick, foreign, overlapped, mixed, stuck>>

\* waitForPort: anything that accepts a connection will do; else it times out.
WaitForPort(e) ==
  /\ enabler[e].at = "wait"
  /\ \/ enabler[e].port \in PortsListening /\ EgressGoto(e, "rules")
     \/ EnableFails(e)
  /\ UNCHANGED <<egressPort, torn, rules, listening, tick, foreign, overlapped, mixed, stuck>>

PutRules(s, port) ==
  /\ rules' = [rules EXCEPT ![s] = port]
  /\ stuck' = stuck \ {s}

\* The rules are written in the VM, then applied; either can fail, the second also
\* after the rules are in.
ApplyRules(e) ==
  /\ enabler[e].at = "rules"
  /\ \/ /\ PutRules(enabler[e].box, enabler[e].port)
        /\ enabler' = [enabler EXCEPT ![e] = NoCommand] \/ EnableFails(e)
     \/ EnableFails(e) /\ UNCHANGED <<rules, stuck>>
  /\ UNCHANGED <<egressPort, torn, listening, tick, foreign, overlapped, mixed>>

\* disableEgress: the rules go first.  Its script ends in a command of its own, so
\* when nft refuses, the rules stay and it goes on as if they had gone; only the
\* failure of `colima ssh` stops it, perhaps when they have.  A bound: rules stay in one
\* VM at a time, and in none once two commands got mixed up.
RemoveRules(e) ==
  /\ enabler[e].at = "remove"
  /\ \/ /\ PutRules(enabler[e].box, 0)
        /\ EgressGoto(e, "clear") \/ enabler' = [enabler EXCEPT ![e] = NoCommand]
     \/ /\ rules[enabler[e].box] # 0 /\ stuck \cup overlapped \cup mixed = {}
        /\ stuck' = stuck \cup {enabler[e].box}
        /\ EgressGoto(e, "clear")
        /\ UNCHANGED rules
  /\ UNCHANGED <<egressPort, torn, listening, tick, foreign, overlapped, mixed>>

ClearPort(e) ==
  /\ enabler[e].at = "clear"
  /\ SavePolicy(e, 0)
  /\ enabler' = [enabler EXCEPT ![e] = NoCommand]
  /\ UNCHANGED <<rules, listening, tick, foreign, overlapped, stuck>>

\* The process is killed, a policy cannot be read or saved, the daemon does not
\* start, the VM does not answer.
EgressFails(e) ==
  /\ enabler[e].at # "rest"
  /\ \/ enabler' = [enabler EXCEPT ![e] = NoCommand]
     \/ enabler[e].at \in {"load", "save", "start"} /\ EnableFails(e)
  /\ UNCHANGED <<egressPort, torn, rules, listening, tick, foreign, overlapped, mixed, stuck>>

----------------------------------------------------------------------------
(* The daemon *)

\* egressPorts passes over a policy it cannot read.
Wanted == {pair \in Pairs : pair[1] \notin torn /\ egressPort[pair[1]] = pair[2]}

\* reconcileEgress reads the policies and closes what is not wanted ...
Tick ==
  /\ listening.up /\ tick = {}
  /\ listening' = [listening EXCEPT !.open = @ \cap Wanted]
  /\ tick' = Wanted \ listening.open
  /\ UNCHANGED <<egressPort, torn, rules, foreign, enabler, overlapped, mixed, stuck>>

\* ... then opens the rest in the order of a Go map; a port that is taken is tried
\* again on the next tick.
Listen(pair) ==
  /\ listening.up /\ pair \in tick
  /\ tick' = tick \ {pair}
  /\ listening' = IF pair[2] \in PortsListening THEN listening
                  ELSE [listening EXCEPT !.open = @ \cup {pair}]
  /\ UNCHANGED <<egressPort, torn, rules, foreign, enabler, overlapped, mixed, stuck>>

\* The daemon stops or dies, and every listener with it.
ListenersGo ==
  /\ listening.up
  /\ listening' = [up |-> FALSE, open |-> {}]
  /\ tick' = {}
  /\ UNCHANGED <<egressPort, torn, rules, foreign, enabler, overlapped, mixed, stuck>>

\* Another program takes a port or gives it back.  A bound: none takes one once two
\* commands got mixed up.
ForeignPort(p) ==
  /\ \/ foreign = 0 /\ overlapped \cup mixed = {} /\ p \notin PortsListening /\ foreign' = p
     \/ foreign = p /\ foreign' = 0
  /\ UNCHANGED <<egressPort, torn, rules, listening, tick, enabler, overlapped, mixed, stuck>>

\* Some command is in the middle of saving a policy, which then cannot be parsed until
\* it, or after its death somebody else, has put the rest there.  A bound: one policy
\* at a time, and none once two commands got mixed up or rules stayed in a VM.
WritePolicy(s) ==
  /\ \/ torn = {} /\ overlapped \cup mixed \cup stuck = {} /\ torn' = {s}
     \/ s \in torn /\ torn' = torn \ {s}
  /\ UNCHANGED <<egressPort, rules, listening, tick, foreign, enabler, overlapped, mixed, stuck>>

EgressNext ==
  \/ \E e \in Enablers :
       \/ LoadAndChoose(e) \/ SavePort(e) \/ StartDaemon(e) \/ WaitForPort(e)
       \/ ApplyRules(e) \/ RemoveRules(e) \/ ClearPort(e) \/ EgressFails(e)
       \/ \E s \in Sandboxes : BeginEgress(e, s)
  \/ Tick \/ ListenersGo
  \/ \E pair \in Pairs : Listen(pair)
  \/ \E p \in Ports : ForeignPort(p)
  \/ \E s \in Sandboxes : WritePolicy(s)

EgressSpec == EgressInit /\ [][EgressNext]_egressVars

----------------------------------------------------------------------------
(* Properties *)

\* While a VM has rules its policy names their port, so the daemon serves them again
\* after any failure, undo or restart, and no other sandbox is given that port; unless
\* two commands ran on that sandbox at once, or nft kept the rules and nobody noticed.
RulesFollowPolicy ==
  \A s \in Sandboxes \ (overlapped \cup stuck) : rules[s] # 0 => egressPort[s] = rules[s]

\* Traffic is recorded under the sandbox it came from: whoever listens where the rules
\* of a VM point does so for that VM's profile, unless nft kept those rules, or the
\* sandboxes chose their ports together, one of them while the other's policy could
\* not be read, or changed theirs during a tick.
TrafficIsAttributed ==
  \A s, t \in Sandboxes \ (overlapped \cup mixed \cup stuck) :
    rules[s] # 0 /\ <<t, rules[s]>> \in listening.open => t = s
=============================================================================
