--------------------------- MODULE MCBrokerState ---------------------------
(***************************************************************************)
(* The broker's daemon seen from outside: who gets in, which process is    *)
(* the daemon, what its audit log adds up to and which Fly tokens it has   *)
(* handed out.  The four share no state, so one run checks them side by    *)
(* side: `part` says which of them moves in a behaviour, and the others    *)
(* stay where they started.                                                *)
(***************************************************************************)
EXTENDS SandboxAccess, BrokerDaemon, EgressTotals, FlyTokens, TLC

VARIABLE part

brokerVars == <<part, accessVars, daemonVars, totalsVars, flyVars>>

BrokerTypeOK == AccessTypeOK /\ DaemonTypeOK /\ TotalsTypeOK /\ FlyTypeOK

BrokerInit ==
  /\ part \in {"access", "daemon", "totals", "fly"}
  /\ AccessInit /\ DaemonInit /\ TotalsInit /\ FlyInit
  /\ part # "access" => policy.handle = 0   \* one of the initial policies will do
  /\ part # "fly" => visible = {}

BrokerNext ==
  \/ part = "access" /\ AccessNext /\ UNCHANGED <<part, daemonVars, totalsVars, flyVars>>
  \/ part = "daemon" /\ DaemonNext /\ UNCHANGED <<part, accessVars, totalsVars, flyVars>>
  \/ part = "totals" /\ TotalsNext /\ UNCHANGED <<part, accessVars, daemonVars, flyVars>>
  \/ part = "fly" /\ FlyNext /\ UNCHANGED <<part, accessVars, daemonVars, totalsVars>>

BrokerSpec == BrokerInit /\ [][BrokerNext]_brokerVars

\* Actors are interchangeable, and so are requests.
Interchangeable == Permutations(Actors) \cup Permutations(Requests)
=============================================================================
