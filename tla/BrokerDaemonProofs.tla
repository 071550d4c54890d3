-------------------------- MODULE BrokerDaemonProofs --------------------------
(***************************************************************************)
(* Proofs about the daemon of the credential broker: how it is found by    *)
(* its pid file, its egress monitoring and the running totals of what that *)
(* records, for any number of daemons, sandboxes and connections.          *)
(***************************************************************************)
EXTENDS BrokerDaemon, EgressMonitoring, EgressTotals,
        FiniteSetTheorems, SequenceTheorems, TLAPS

-----------------------------------------------------------------------------
(* The daemon *)

LEMMA DaemonTypeStep ==
  ASSUME DaemonTypeOK, [DaemonNext]_daemonVars
  PROVE  DaemonTypeOK'
<1> USE DaemonAssumption DEF DaemonTypeOK, Reach, Ends, Owner, Starting, Ending
<1>1. ASSUME NEW d \in Daemons, Launch(d) PROVE DaemonTypeOK'
  BY <1>1 DEF Launch
<1>2. ASSUME NEW d \in Daemons, CheckPidFile(d) PROVE DaemonTypeOK'
  BY <1>2 DEF CheckPidFile
<1>3. ASSUME NEW d \in Daemons, WritePidFile(d) \/ UnlinkSocket(d) \/ CloseControl(d)
      PROVE  DaemonTypeOK'
  BY <1>3 DEF WritePidFile, UnlinkSocket, CloseControl
<1>4. ASSUME NEW d \in Daemons, ListenSocket(d) \/ Bind(d) PROVE DaemonTypeOK'
  BY <1>4 DEF ListenSocket, Bind
<1>5. ASSUME NEW d \in Daemons, TidyPidFile(d) \/ DaemonKilled(d) \/ Recycle(d)
      PROVE  DaemonTypeOK'
  <2>1. CASE TidyPidFile(d)
    BY <2>1 DEF TidyPidFile
  <2>2. CASE DaemonKilled(d)
    BY <2>2 DEF DaemonKilled
  <2>3. CASE Recycle(d)
    BY <2>3 DEF Recycle
  <2>4. QED
    BY <1>5, <2>1, <2>2, <2>3
<1>6. CASE ReadPidToStop
  BY <1>6 DEF ReadPidToStop
<1>7. CASE Terminate
  <2>1. UNCHANGED <<pidFile, socketFile, recycled>>
    BY <1>7 DEF Terminate
  <2>2. CASE Alive(stopper.pid)
    <3>1. stopper' = [stopper EXCEPT !.at = "wait"] /\ Ends(stopper.pid, stopper')
      BY <1>7, <2>2 DEF Terminate
    <3>2. QED
      BY <2>1, <3>1
  <2>3. CASE ~Alive(stopper.pid)
    <3>1. /\ stopper' = NoStop \/ stopper' = [stopper EXCEPT !.at = "wait"]
          /\ UNCHANGED <<stage, tcpPort, raced>>
      BY <1>7, <2>3 DEF Terminate
    <3>2. QED
      BY <2>1, <3>1 DEF NoStop
  <2>4. QED
    BY <2>2, <2>3
<1>8. CASE RemoveStoppedPid
  BY <1>8 DEF RemoveStoppedPid, NoStop
<1>9. CASE UNCHANGED daemonVars
  BY <1>9 DEF daemonVars
<1>10. QED
  BY <1>1, <1>2, <1>3, <1>4, <1>5, <1>6, <1>7, <1>8, <1>9 DEF DaemonNext

LEMMA DaemonInitTypes == DaemonInit => DaemonTypeOK
<1>1. NoStop \in [at : {"rest", "kill", "wait"}, pid : Owner] /\ Nobody \in Owner
  BY DEF NoStop, Owner
<1>2. [d \in Daemons |-> "off"] \in [Daemons -> {"off", "serving", "gone"} \cup Starting \cup Ending]
  OBVIOUS
<1>3. QED
  BY <1>1, <1>2 DEF DaemonInit, DaemonTypeOK

\* However starts, stops and deaths interleave, every file and port is some daemon's or
\* nobody's.
THEOREM DaemonTypeCorrect == DaemonSpec => []DaemonTypeOK
<1>1. DaemonInit => DaemonTypeOK
  BY DaemonInitTypes
<1>2. QED
  BY <1>1, DaemonTypeStep, PTL DEF DaemonSpec

\* A daemon that has passed the check of the pid file.
Claiming(d) == stage[d] \notin {"off", "gone", "check"}

\* `broker stop` knows a process, and only that one may still be there.
StopKnowsWhom ==
  stopper.at # "rest" =>
    /\ stopper.pid \in Daemons
    /\ ~raced => \A d \in Daemons : Claiming(d) =>
         stopper.at = "kill" /\ stopper.pid = d /\ stage[d] \notin Starting

\* One daemon at a time claims the files, and those it has claimed are its own.
OneClaims ==
  ~raced => \A d \in Daemons : Claiming(d) =>
    /\ \A e \in Daemons : Claiming(e) => e = d
    /\ stage[d] # "write" => pidFile = d
    /\ stage[d] \in {"bind", "serving"} => socketFile = d

DaemonInv == DaemonTypeOK /\ StopKnowsWhom /\ OneClaims

\* A process that ends leaves the others as they were, or nobody at all.
LEMMA EndsClaims ==
  ASSUME DaemonTypeOK, NEW d \in Daemons, NEW rest, Ends(d, rest)
  PROVE  /\ stage'[d] = "gone" /\ \A e \in Daemons : e # d => stage'[e] = stage[e]
         /\ ~raced' => ~raced \/ \A e \in Daemons : ~Claiming(e)'
<1>1. stage' = [stage EXCEPT ![d] = "gone"]
  BY DEF Ends, Reach
<1>2. stage'[d] = "gone" /\ \A e \in Daemons : e # d => stage'[e] = stage[e]
  BY <1>1 DEF DaemonTypeOK
<1>3. ASSUME ~raced', raced, NEW e \in Daemons PROVE ~Claiming(e)'
  BY <1>2, <1>3 DEF Ends, Others, Alive, Claiming
<1>4. QED
  BY <1>2, <1>3 DEF Claiming

LEMMA DaemonStep ==
  ASSUME DaemonInv, [DaemonNext]_daemonVars
  PROVE  DaemonInv'
<1> DEFINE Found == StopKnowsWhom' /\ OneClaims'
<1>0. DaemonTypeOK /\ DaemonTypeOK'
  BY DaemonTypeStep DEF DaemonInv
<1>fn. ASSUME NEW d \in Daemons, NEW where, Reach(d, where)
       PROVE  stage'[d] = where /\ \A e \in Daemons : e # d => stage'[e] = stage[e]
  BY <1>0, <1>fn DEF DaemonTypeOK, Reach
\* A process that ends and changes no file but, at most, its own.
<1>end. ASSUME NEW d \in Daemons, Ends(d, stopper), UNCHANGED <<stopper, socketFile>>,
               pidFile' = pidFile \/ Claiming(d)
        PROVE  Found
  <2>1. /\ stage'[d] = "gone" /\ \A e \in Daemons : e # d => stage'[e] = stage[e]
        /\ ~raced' => ~raced \/ \A e \in Daemons : ~Claiming(e)'
    BY <1>0, <1>end, EndsClaims
  <2>2. StopKnowsWhom'
    BY <1>end, <2>1 DEF DaemonInv, StopKnowsWhom, Claiming
  <2>3. OneClaims'
    BY <1>end, <2>1 DEF DaemonInv, OneClaims, Claiming
  <2>4. QED
    BY <2>2, <2>3
<1>1. ASSUME NEW d \in Daemons, Launch(d) PROVE Found
  BY <1>1, <1>fn DEF Launch, DaemonInv, StopKnowsWhom, OneClaims, Claiming
<1>2. ASSUME NEW d \in Daemons, CheckPidFile(d) PROVE Found
  <2>1. CASE PidFileAlive
    BY <1>2, <1>end, <2>1 DEF CheckPidFile
  <2>2. CASE ~PidFileAlive
    <3>1. /\ stage'[d] = "write" /\ \A e \in Daemons : e # d => stage'[e] = stage[e]
          /\ raced' = (raced \/ stopper.at # "rest"
                             \/ \E e \in Others(d) : stage[e] \in Starting \ {"check"})
          /\ UNCHANGED <<pidFile, socketFile, stopper>>
      BY <1>2, <1>fn, <2>2 DEF CheckPidFile
    <3>2. ASSUME ~raced' PROVE \A e \in Daemons : e # d => ~Claiming(e)
      <4>1. ~raced /\ \A e \in Others(d) : stage[e] \notin Starting \ {"check"}
        BY <3>1, <3>2
      <4>2. ASSUME NEW e \in Daemons, e # d, Claiming(e) PROVE FALSE
        <5>1. stage[e] # "write" /\ Alive(e)
          BY <4>1, <4>2 DEF Others, Alive, Claiming, Starting
        <5>2. pidFile = e
          BY <4>1, <4>2, <5>1 DEF DaemonInv, OneClaims
        <5>3. QED
          BY <2>2, <5>1, <5>2, DaemonAssumption DEF PidFileAlive
      <4>3. QED
        BY <4>2
    <3>3. OneClaims'
      BY <3>1, <3>2 DEF OneClaims, Claiming
    <3>4. StopKnowsWhom'
      BY <3>1 DEF DaemonInv, StopKnowsWhom
    <3>5. QED
      BY <3>3, <3>4
  <2>3. QED
    BY <2>1, <2>2
\* A daemon that goes on claiming, or giving up, what is its own.
<1>3. ASSUME NEW d \in Daemons, Claiming(d), NEW where, Reach(d, where),
             where \notin Starting => stage[d] # "write",
             stage[d] \in Starting \/ where \notin Starting,
             UNCHANGED <<stopper, raced>>,
             where # "write" => pidFile' = d \/ (stage[d] # "write" /\ pidFile' = pidFile),
             where \in {"bind", "serving"} =>
               socketFile' = d \/ (stage[d] \in {"bind", "serving"} /\ socketFile' = socketFile)
      PROVE  Found
  <2>1. stage'[d] = where /\ \A e \in Daemons : e # d => stage'[e] = stage[e]
    BY <1>3, <1>fn
  <2>2. StopKnowsWhom'
    BY <1>3, <2>1 DEF DaemonInv, StopKnowsWhom, Claiming
  <2>3. OneClaims'
    BY <1>3, <2>1 DEF DaemonInv, OneClaims, Claiming
  <2>4. QED
    BY <2>2, <2>3
<1>4. ASSUME NEW d \in Daemons, WritePidFile(d) PROVE Found
  BY <1>3, <1>4 DEF WritePidFile, Claiming, Starting
<1>5. ASSUME NEW d \in Daemons, UnlinkSocket(d) PROVE Found
  BY <1>3, <1>5 DEF UnlinkSocket, Claiming, Starting
<1>6. ASSUME NEW d \in Daemons, ListenSocket(d) PROVE Found
  <2>1. stage[d] = "listen" /\ UNCHANGED <<pidFile, stopper, raced>>
    BY <1>6 DEF ListenSocket
  <2>2. CASE socketFile = Nobody
    <3>1. Reach(d, "bind") /\ socketFile' = d
      BY <1>6, <2>2 DEF ListenSocket
    <3>2. QED
      BY <1>3, <2>1, <3>1 DEF Claiming, Starting
  <2>3. CASE socketFile # Nobody
    <3>1. Reach(d, "tidy")
      BY <1>6, <2>3 DEF ListenSocket
    <3>2. QED
      BY <1>3, <2>1, <3>1 DEF Claiming, Starting
  <2>4. QED
    BY <2>2, <2>3
<1>7. ASSUME NEW d \in Daemons, Bind(d) PROVE Found
  BY <1>3, <1>7 DEF Bind, Claiming, Starting
<1>8. ASSUME NEW d \in Daemons, CloseControl(d) PROVE Found
  BY <1>3, <1>8 DEF CloseControl, Claiming, Starting
<1>9. ASSUME NEW d \in Daemons, TidyPidFile(d) \/ DaemonKilled(d) PROVE Found
  BY <1>9, <1>end DEF TidyPidFile, DaemonKilled, Claiming
<1>10. ASSUME ReadPidToStop PROVE Found
  <2>1. /\ pidFile # Nobody /\ stopper' = [at |-> "kill", pid |-> pidFile]
        /\ raced' = (raced \/ \E d \in Daemons : stage[d] \in Starting \ {"check"})
        /\ UNCHANGED <<pidFile, socketFile, stage>>
    BY <1>10 DEF ReadPidToStop
  <2>2. pidFile \in Daemons
    BY <1>0, <2>1 DEF DaemonTypeOK, Owner
  <2>3. OneClaims'
    BY <2>1 DEF DaemonInv, OneClaims, Claiming
  <2>4. ASSUME ~raced', NEW d \in Daemons, Claiming(d)
        PROVE  pidFile = d /\ stage[d] \notin Starting
    <3>1. ~raced /\ stage[d] \notin Starting
      BY <2>1, <2>4 DEF Claiming, Starting
    <3>2. QED
      BY <2>4, <3>1 DEF DaemonInv, OneClaims, Starting
  <2>5. StopKnowsWhom'
    BY <2>1, <2>2, <2>4 DEF StopKnowsWhom, Claiming
  <2>6. QED
    BY <2>3, <2>5
<1>11. ASSUME Terminate PROVE Found
  <2>1. stopper.at = "kill" /\ stopper.pid \in Daemons /\ UNCHANGED <<pidFile, socketFile>>
    BY <1>11 DEF Terminate, DaemonInv, StopKnowsWhom
  <2>2. CASE Alive(stopper.pid)
    <3>1. stopper' = [stopper EXCEPT !.at = "wait"] /\ Ends(stopper.pid, stopper')
      BY <1>11, <2>2 DEF Terminate
    <3>2. stopper'.at = "wait" /\ stopper'.pid = stopper.pid
      BY <1>0, <3>1 DEF DaemonTypeOK
    <3>3. PICK p \in Daemons : p = stopper.pid
      BY <2>1
    <3>4. /\ stage'[p] = "gone" /\ \A e \in Daemons : e # p => stage'[e] = stage[e]
          /\ ~raced' => ~raced \/ \A e \in Daemons : ~Claiming(e)'
      BY <1>0, <3>1, <3>3, EndsClaims
    <3>5. ~raced => \A e \in Daemons : e # p => ~Claiming(e)
      BY <2>1, <3>3 DEF DaemonInv, StopKnowsWhom
    <3>6. ~raced' => \A e \in Daemons : ~Claiming(e)'
      BY <3>4, <3>5 DEF Claiming
    <3>7. QED
      BY <2>1, <3>2, <3>6 DEF StopKnowsWhom, OneClaims, Claiming
  <2>3. CASE ~Alive(stopper.pid)
    <3>1. /\ stopper' = NoStop \/ stopper' = [stopper EXCEPT !.at = "wait"]
          /\ UNCHANGED <<stage, raced>>
      BY <1>11, <2>3 DEF Terminate
    <3>2. stopper'.at = "rest" \/ (stopper'.at = "wait" /\ stopper'.pid = stopper.pid)
      BY <1>0, <3>1 DEF DaemonTypeOK, NoStop
    <3>3. ~raced => \A e \in Daemons : ~Claiming(e)
      BY <2>1, <2>3 DEF DaemonInv, StopKnowsWhom, Claiming, Alive
    <3>4. QED
      BY <2>1, <3>1, <3>2, <3>3 DEF StopKnowsWhom, OneClaims, Claiming
  <2>4. QED
    BY <2>2, <2>3
<1>12. ASSUME RemoveStoppedPid PROVE Found
  <2>1. /\ stopper.at = "wait" /\ stopper'.at = "rest"
        /\ raced' = (raced /\ \E d \in Daemons : Alive(d))
        /\ UNCHANGED <<socketFile, stage>>
    BY <1>12 DEF RemoveStoppedPid, NoStop
  <2>2. ~raced' => \A e \in Daemons : ~Claiming(e)
    BY <2>1 DEF DaemonInv, StopKnowsWhom, Claiming, Alive
  <2>3. QED
    BY <2>1, <2>2 DEF StopKnowsWhom, OneClaims, Claiming
<1>13. ASSUME UNCHANGED <<pidFile, socketFile, stage, stopper, raced>> PROVE Found
  BY <1>13 DEF DaemonInv, StopKnowsWhom, OneClaims, Claiming
<1>14. Found
  <2>1. ASSUME NEW d \in Daemons, Recycle(d) PROVE Found
    BY <1>13, <2>1 DEF Recycle
  <2>2. ASSUME UNCHANGED daemonVars PROVE Found
    BY <1>13, <2>2 DEF daemonVars
  <2> HIDE DEF Found
  <2>3. QED
    BY <1>1, <1>2, <1>4, <1>5, <1>6, <1>7, <1>8, <1>9, <1>10, <1>11, <1>12, <2>1, <2>2
    DEF DaemonNext
<1>15. QED
  BY <1>0, <1>14 DEF DaemonInv

\* The daemon that serves is the one the pid file and the control socket lead to, for
\* any number of starts, stops and deaths, and whatever earlier daemons left behind,
\* unless a start met another start or a stop.
THEOREM DaemonIsFound == DaemonSpec => []ServingDaemonCanBeFound
<1>1. DaemonInit => DaemonInv
  <2>1. ASSUME DaemonInit PROVE stopper.at = "rest" /\ \A d \in Daemons : stage[d] = "off"
    BY <2>1 DEF DaemonInit, NoStop
  <2>2. DaemonInit => DaemonTypeOK
    BY DaemonInitTypes
  <2>3. QED
    BY <2>1, <2>2 DEF DaemonInv, StopKnowsWhom, OneClaims, Claiming
<1>2. DaemonInv => ServingDaemonCanBeFound
  BY DEF DaemonInv, OneClaims, Claiming, ServingDaemonCanBeFound
<1>3. QED
  BY <1>1, <1>2, DaemonStep, PTL DEF DaemonSpec

-----------------------------------------------------------------------------
(* Monitoring: types *)

EgressStages == {"load", "save", "start", "wait", "rules", "remove", "clear"}

\* A command that runs is about a sandbox.
NamedTask == {t \in EgressTask : t.at # "rest" => t.box \in Sandboxes}

EgressTypes == EgressTypeOK /\ enabler \in [Enablers -> NamedTask]

LEMMA NoCommandType == NoCommand \in NamedTask /\ NoCommand.at = "rest"
BY EgressAssumption DEF NoCommand, EgressTask, NamedTask

\* A command goes on to another stage, keeping what it is about.
LEMMA TaskAtStage ==
  ASSUME NEW t \in NamedTask, t.at # "rest", NEW next \in EgressStages
  PROVE  LET u == [t EXCEPT !.at = next]
         IN u \in NamedTask /\ u.at = next /\ u.box = t.box /\ u.port = t.port /\ u.undo = t.undo
BY DEF EgressTask, NamedTask, EgressStages

\* A failing enable ends, or goes on to remove the rules.
LEMMA EnableFailsTo ==
  ASSUME EgressTypes, NEW e \in Enablers, enabler[e].at # "rest", EnableFails(e)
  PROVE  \E t \in NamedTask :
           /\ enabler' = [enabler EXCEPT ![e] = t]
           /\ t.at = "rest" \/ (t.at = "remove" /\ t.box = enabler[e].box)
<1>1. enabler[e] \in NamedTask
  BY DEF EgressTypes
<1>2. CASE enabler[e].undo /\ enabler[e].box \notin torn
  <2> DEFINE t == [enabler[e] EXCEPT !.at = "remove", !.undo = FALSE]
  <2>1. t \in NamedTask /\ t.at = "remove" /\ t.box = enabler[e].box
    BY <1>1 DEF EgressTask, NamedTask
  <2>2. enabler' = [enabler EXCEPT ![e] = t]
    BY <1>2 DEF EnableFails
  <2>3. QED
    BY <2>1, <2>2
<1>3. CASE ~(enabler[e].undo /\ enabler[e].box \notin torn)
  <2>1. enabler' = [enabler EXCEPT ![e] = NoCommand]
    BY <1>3 DEF EnableFails
  <2>2. QED
    BY <2>1, NoCommandType
<1>4. QED
  BY <1>2, <1>3

\* What a step of a command does to the command: it is at the stage the action asks
\* for, and goes where the action sends it.
LEMMA CommandGoes ==
  ASSUME EgressTypes, NEW e \in Enablers,
         \/ LoadAndChoose(e) \/ SavePort(e) \/ StartDaemon(e) \/ WaitForPort(e)
         \/ ApplyRules(e) \/ RemoveRules(e) \/ ClearPort(e) \/ EgressFails(e)
  PROVE  /\ enabler[e].at # "rest" /\ enabler[e].box \in Sandboxes
         /\ \E t \in NamedTask :
              /\ enabler' = [enabler EXCEPT ![e] = t]
              /\ t.at = "rest" \/ t.box = enabler[e].box
<1>0. enabler[e] \in NamedTask
  BY DEF EgressTypes
<1>1. enabler[e].at # "rest"
  BY DEF LoadAndChoose, SavePort, StartDaemon, WaitForPort, ApplyRules, RemoveRules, ClearPort,
         EgressFails
<1>2. enabler[e].box \in Sandboxes
  BY <1>0, <1>1 DEF NamedTask
<1> DEFINE Goes == \E t \in NamedTask : /\ enabler' = [enabler EXCEPT ![e] = t]
                                        /\ t.at = "rest" \/ t.box = enabler[e].box
<1>s. /\ "start" \in EgressStages /\ "wait" \in EgressStages
      /\ "rules" \in EgressStages /\ "clear" \in EgressStages
  BY DEF EgressStages
<1>3. ASSUME NEW next \in EgressStages, EgressGoto(e, next) PROVE Goes
  <2> DEFINE u == [enabler[e] EXCEPT !.at = next]
  <2>1. enabler' = [enabler EXCEPT ![e] = u]
    BY <1>3 DEF EgressGoto
  <2>2. u \in NamedTask /\ u.box = enabler[e].box
    BY <1>0, <1>1, TaskAtStage
  <2>3. QED
    BY <2>1, <2>2
<1>4. ASSUME EnableFails(e) PROVE Goes
  BY <1>1, <1>4, EnableFailsTo
<1>5. ASSUME enabler' = [enabler EXCEPT ![e] = NoCommand] PROVE Goes
  BY <1>5, NoCommandType
<1> HIDE DEF Goes
<1>6. ASSUME LoadAndChoose(e) PROVE Goes
  <2>1. PICK next \in EgressStages, p \in 0 .. MaxPort :
          enabler' = [enabler EXCEPT ![e].at = next, ![e].port = p]
    <3>1. egressPort[enabler[e].box] \in 0 .. MaxPort
      BY <1>2 DEF EgressTypes, EgressTypeOK
    <3>2. Ports \subseteq 0 .. MaxPort
      BY EgressAssumption DEF Ports
    <3>3. QED
      BY <1>6, <3>1, <3>2 DEF LoadAndChoose, Choose, EgressStages
  <2> DEFINE u == [enabler[e] EXCEPT !.at = next, !.port = p]
  <2>2. enabler' = [enabler EXCEPT ![e] = u]
    BY <2>1
  <2>3. next \in EgressStages /\ p \in 0 .. MaxPort
    BY <2>1
  <2>4. u \in NamedTask /\ u.box = enabler[e].box
    BY <1>0, <1>1, <2>3 DEF EgressTask, NamedTask, EgressStages
  <2>5. QED
    BY <2>2, <2>4 DEF Goes
<1>7. ASSUME SavePort(e) \/ StartDaemon(e) \/ RemoveRules(e) PROVE Goes
  <2>1. \/ EgressGoto(e, "start") \/ EgressGoto(e, "wait") \/ EgressGoto(e, "clear")
        \/ enabler' = [enabler EXCEPT ![e] = NoCommand]
    BY <1>7 DEF SavePort, StartDaemon, RemoveRules
  <2>2. QED
    BY <1>s, <1>3, <1>5, <2>1
<1>8. ASSUME WaitForPort(e) \/ ApplyRules(e) \/ ClearPort(e) \/ EgressFails(e) PROVE Goes
  <2>1. EgressGoto(e, "rules") \/ EnableFails(e) \/ enabler' = [enabler EXCEPT ![e] = NoCommand]
    BY <1>8 DEF WaitForPort, ApplyRules, ClearPort, EgressFails
  <2>2. QED
    BY <1>s, <1>3, <1>4, <1>5, <2>1
<1>9. QED
  BY <1>1, <1>2, <1>6, <1>7, <1>8 DEF Goes

LEMMA BegunAs ==
  ASSUME NEW e \in Enablers, NEW s \in Sandboxes, BeginEgress(e, s)
  PROVE  \E at \in {"load", "remove"}, undo \in BOOLEAN :
           enabler' = [enabler EXCEPT ![e] = [at |-> at, box |-> s, port |-> 0, undo |-> undo]]
<1>1. PICK c \in {[at |-> "load", undo |-> FALSE], [at |-> "load", undo |-> TRUE],
                  [at |-> "remove", undo |-> FALSE]} :
        enabler' = [enabler EXCEPT ![e] =
                      [at |-> c.at, box |-> s, port |-> 0, undo |-> c.undo]]
  BY DEF BeginEgress
<1>2. c.at \in {"load", "remove"} /\ c.undo \in BOOLEAN
  <2>1. CASE c = [at |-> "load", undo |-> FALSE]
    BY <2>1
  <2>2. CASE c = [at |-> "load", undo |-> TRUE]
    BY <2>2
  <2>3. CASE c = [at |-> "remove", undo |-> FALSE]
    BY <2>3
  <2>4. QED
    BY <1>1, <2>1, <2>2, <2>3
<1>3. QED
  BY <1>1, <1>2, Zenon

LEMMA EgressTypeStep ==
  ASSUME EgressTypes, [EgressNext]_egressVars
  PROVE  EgressTypes'
<1> USE EgressAssumption DEF EgressTypeOK
<1>0. NamedTask \subseteq EgressTask
  BY DEF NamedTask
<1>1. ASSUME NEW e \in Enablers, NEW s \in Sandboxes, BeginEgress(e, s) PROVE EgressTypes'
  <2>1. PICK at \in {"load", "remove"}, undo \in BOOLEAN :
          enabler' = [enabler EXCEPT ![e] = [at |-> at, box |-> s, port |-> 0, undo |-> undo]]
    BY <1>1, BegunAs
  <2>2. [at |-> at, box |-> s, port |-> 0, undo |-> undo] \in NamedTask
    BY <2>1 DEF EgressTask, NamedTask
  <2>3. QED
    BY <1>0, <1>1, <2>1, <2>2 DEF BeginEgress, EgressTypes
<1>2. ASSUME NEW e \in Enablers,
             \/ LoadAndChoose(e) \/ SavePort(e) \/ StartDaemon(e) \/ WaitForPort(e)
             \/ ApplyRules(e) \/ RemoveRules(e) \/ ClearPort(e) \/ EgressFails(e)
      PROVE  EgressTypes'
  <2>1. enabler[e] \in NamedTask /\ enabler[e].box \in Sandboxes /\ enabler' \in [Enablers -> NamedTask]
    BY <1>2, CommandGoes DEF EgressTypes
  <2>2. enabler[e].port \in 0 .. MaxPort /\ enabler' \in [Enablers -> EgressTask]
    BY <1>0, <2>1 DEF EgressTask
  <2>3. \A d \in Enablers : enabler[d].at = "save" => enabler[d].box \in Sandboxes
    BY DEF EgressTypes, NamedTask
  <2>4. CASE LoadAndChoose(e)
    <3>1. UNCHANGED <<egressPort, torn, rules, listening, tick, foreign, overlapped, stuck>>
      BY <2>4 DEF LoadAndChoose
    <3>2. PICK p, choosing :
            /\ choosing = ChoosingWith(enabler[e].box, p)
            /\ mixed' \in {mixed, mixed \cup choosing \cup {enabler[e].box}}
      BY <2>4 DEF LoadAndChoose, Choose
    <3>3. choosing \subseteq Sandboxes
      BY <2>3, <3>2 DEF ChoosingWith, EgressTypes
    <3>4. mixed' \subseteq Sandboxes
      BY <2>1, <3>2, <3>3 DEF EgressTypes
    <3>5. QED
      BY <2>1, <2>2, <3>1, <3>4 DEF EgressTypes
  <2>5. CASE SavePort(e) \/ ClearPort(e)
    BY <2>1, <2>2, <2>5 DEF SavePort, ClearPort, SavePolicy, EgressTypes
  <2>6. CASE StartDaemon(e)
    BY <2>1, <2>2, <2>6 DEF StartDaemon, EgressTypes
  <2>7. CASE ApplyRules(e) \/ RemoveRules(e)
    BY <2>1, <2>2, <2>7 DEF ApplyRules, RemoveRules, PutRules, EgressTypes
  <2>8. CASE WaitForPort(e) \/ EgressFails(e)
    BY <2>1, <2>2, <2>8 DEF WaitForPort, EgressFails, EgressTypes
  <2>9. QED
    BY <1>2, <2>4, <2>5, <2>6, <2>7, <2>8
<1>3. CASE Tick
  BY <1>3 DEF Tick, Wanted, EgressTypes
<1>4. ASSUME NEW pair \in Pairs, Listen(pair) PROVE EgressTypes'
  BY <1>4 DEF Listen, EgressTypes
<1>5. CASE ListenersGo
  BY <1>5 DEF ListenersGo, EgressTypes
<1>6. ASSUME NEW p \in Ports, ForeignPort(p) PROVE EgressTypes'
  BY <1>6 DEF ForeignPort, Ports, EgressTypes
<1>7. ASSUME NEW s \in Sandboxes, WritePolicy(s) PROVE EgressTypes'
  BY <1>7 DEF WritePolicy, EgressTypes
<1>8. CASE UNCHANGED egressVars
  BY <1>8 DEF egressVars, EgressTypes
<1>9. QED
  BY <1>1, <1>2, <1>3, <1>4, <1>5, <1>6, <1>7, <1>8 DEF EgressNext

LEMMA InitTypes == EgressInit => EgressTypes
BY EgressAssumption, NoCommandType DEF EgressInit, EgressTypes, EgressTypeOK, NamedTask

\* Commands and the daemon keep every variable within its type: no port is given out
\* beyond the pairs there are, and every listener is that of a sandbox.
THEOREM EgressTypeCorrect == EgressSpec => []EgressTypeOK
<1>1. EgressInit => EgressTypes
  BY InitTypes
<1>2. EgressTypes => EgressTypeOK
  BY DEF EgressTypes
<1>3. QED
  BY <1>1, <1>2, EgressTypeStep, PTL DEF EgressSpec

-----------------------------------------------------------------------------
(* Monitoring: the rules in a VM and its policy *)

\* Two commands that run on one sandbox are recorded as overlapping.
RunsAlone ==
  \A d, e \in Enablers :
    /\ d # e /\ enabler[d].box = enabler[e].box
    /\ enabler[d].at # "rest" /\ enabler[e].at # "rest"
    => enabler[e].box \in overlapped

\* What a command read of its sandbox still holds when it acts on it: a sandbox it
\* chooses a port for has none, rules are made for the port in the policy, and the
\* policy is cleared once the rules are gone, or believed to be.
ReadHolds ==
  \A e \in Enablers :
    enabler[e].at # "rest" /\ enabler[e].box \notin overlapped =>
      /\ enabler[e].at = "save" => /\ egressPort[enabler[e].box] = 0
                                   /\ enabler[e].port # 0
      /\ enabler[e].at \in {"start", "wait", "rules"} =>
           /\ egressPort[enabler[e].box] = enabler[e].port
           /\ enabler[e].port # 0
      /\ enabler[e].at = "clear" => rules[enabler[e].box] = 0 \/ enabler[e].box \in stuck

RulesInv == EgressTypes /\ RunsAlone /\ ReadHolds /\ RulesFollowPolicy

LEMMA RunsAloneStep ==
  ASSUME EgressTypes, RunsAlone, [EgressNext]_egressVars
  PROVE  RunsAlone'
<1>1. ASSUME NEW e \in Enablers, NEW s \in Sandboxes, BeginEgress(e, s) PROVE RunsAlone'
  <2>1. PICK at \in {"load", "remove"}, undo \in BOOLEAN :
          enabler' = [enabler EXCEPT ![e] = [at |-> at, box |-> s, port |-> 0, undo |-> undo]]
    BY <1>1, BegunAs
  <2>2. enabler'[e].box = s /\ \A d \in Enablers : d # e => enabler'[d] = enabler[d]
    BY <2>1 DEF EgressTypes, EgressTypeOK
  <2>3. /\ overlapped \subseteq overlapped'
        /\ \A d \in Enablers : enabler[d].box = s => s \in overlapped'
    BY <1>1 DEF BeginEgress
  <2>4. QED
    BY <2>2, <2>3 DEF RunsAlone
<1>2. ASSUME NEW e \in Enablers,
             \/ LoadAndChoose(e) \/ SavePort(e) \/ StartDaemon(e) \/ WaitForPort(e)
             \/ ApplyRules(e) \/ RemoveRules(e) \/ ClearPort(e) \/ EgressFails(e)
      PROVE  RunsAlone'
  <2>1. PICK t \in NamedTask : /\ enabler' = [enabler EXCEPT ![e] = t]
                               /\ t.at = "rest" \/ t.box = enabler[e].box
    BY <1>2, CommandGoes
  <2>2. enabler[e].at # "rest"
    BY <1>2, CommandGoes
  <2>3. overlapped' = overlapped
    BY <1>2 DEF LoadAndChoose, SavePort, StartDaemon, WaitForPort, ApplyRules, RemoveRules,
                ClearPort, EgressFails
  <2>4. enabler'[e] = t /\ \A d \in Enablers : d # e => enabler'[d] = enabler[d]
    BY <2>1 DEF EgressTypes, EgressTypeOK
  <2>5. QED
    BY <2>1, <2>2, <2>3, <2>4 DEF RunsAlone
<1>3. ASSUME UNCHANGED <<enabler, overlapped>> PROVE RunsAlone'
  BY <1>3 DEF RunsAlone
<1>4. QED
  BY <1>1, <1>2, <1>3
  DEF EgressNext, Tick, Listen, ListenersGo, ForeignPort, WritePolicy, egressVars

\* A command alone on its sandbox changes only that sandbox's policy and rules.
LEMMA OthersKeep ==
  ASSUME RulesInv, NEW e \in Enablers, NEW d \in Enablers, d # e,
         enabler[e].at # "rest", enabler[d].at # "rest", enabler[d].box \notin overlapped
  PROVE  enabler[d].box # enabler[e].box
BY DEF RulesInv, RunsAlone

\* It is enough to know what a step leaves the command at, and that it changes the
\* policy and the rules of its own sandbox only, and rightly.
LEMMA CommandKeepsRules ==
  ASSUME RulesInv, NEW e \in Enablers, enabler[e].at # "rest", enabler[e].box \in Sandboxes,
         overlapped' = overlapped,
         NEW t \in NamedTask, enabler' = [enabler EXCEPT ![e] = t],
         t.at # "rest" => t.box = enabler[e].box,
         \A s \in Sandboxes : s # enabler[e].box =>
           /\ egressPort'[s] = egressPort[s] /\ rules'[s] = rules[s]
           /\ s \in stuck' <=> s \in stuck,
         enabler[e].box \notin overlapped =>
           LET s == enabler[e].box
           IN /\ rules'[s] # 0 => egressPort'[s] = rules'[s] \/ s \in stuck'
              /\ t.at = "save" => egressPort'[s] = 0 /\ t.port # 0
              /\ t.at \in {"start", "wait", "rules"} => egressPort'[s] = t.port /\ t.port # 0
              /\ t.at = "clear" => rules'[s] = 0 \/ s \in stuck'
  PROVE  ReadHolds' /\ RulesFollowPolicy'
<1>1. enabler'[e] = t /\ \A d \in Enablers : d # e => enabler'[d] = enabler[d]
  BY DEF RulesInv, EgressTypes, EgressTypeOK
<1>2. RulesFollowPolicy'
  BY DEF RulesInv, RulesFollowPolicy
<1>3. ASSUME NEW d \in Enablers, enabler'[d].at # "rest", enabler'[d].box \notin overlapped'
      PROVE
        /\ enabler'[d].at = "save" => egressPort'[enabler'[d].box] = 0 /\ enabler'[d].port # 0
        /\ enabler'[d].at \in {"start", "wait", "rules"} =>
             egressPort'[enabler'[d].box] = enabler'[d].port /\ enabler'[d].port # 0
        /\ enabler'[d].at = "clear" =>
             rules'[enabler'[d].box] = 0 \/ enabler'[d].box \in stuck'
  <2>1. CASE d = e
    BY <1>1, <1>3, <2>1
  <2>2. CASE d # e
    <3>1. enabler'[d] = enabler[d] /\ enabler[d].box # enabler[e].box
      BY <1>1, <1>3, <2>2, OthersKeep
    <3>2. enabler[d].box \in Sandboxes
      BY <1>3, <3>1 DEF RulesInv, EgressTypes, NamedTask
    <3>3. /\ egressPort'[enabler[d].box] = egressPort[enabler[d].box]
          /\ rules'[enabler[d].box] = rules[enabler[d].box]
          /\ enabler[d].box \in stuck' <=> enabler[d].box \in stuck
      BY <3>1, <3>2
    <3>4. QED
      BY <1>3, <3>1, <3>3 DEF RulesInv, ReadHolds
  <2>3. QED
    BY <2>1, <2>2
<1>4. QED
  BY <1>2, <1>3 DEF ReadHolds

LEMMA RulesStep ==
  ASSUME RulesInv, [EgressNext]_egressVars
  PROVE  RulesInv'
<1> USE EgressAssumption
<1>0. EgressTypes' /\ RunsAlone'
  BY EgressTypeStep, RunsAloneStep DEF RulesInv
<1> DEFINE Kept == ReadHolds' /\ RulesFollowPolicy'
<1>1. ASSUME NEW e \in Enablers, NEW s \in Sandboxes, BeginEgress(e, s) PROVE Kept
  <2>1. PICK at \in {"load", "remove"}, undo \in BOOLEAN :
          enabler' = [enabler EXCEPT ![e] = [at |-> at, box |-> s, port |-> 0, undo |-> undo]]
    BY <1>1, BegunAs
  <2>2. /\ enabler'[e].at \in {"load", "remove"}
        /\ \A d \in Enablers : d # e => enabler'[d] = enabler[d]
    BY <2>1 DEF RulesInv, EgressTypes, EgressTypeOK
  <2>3. /\ overlapped \subseteq overlapped' /\ stuck' = stuck
        /\ egressPort' = egressPort /\ rules' = rules
    BY <1>1 DEF BeginEgress
  <2>4. RulesFollowPolicy'
    BY <2>3 DEF RulesInv, RulesFollowPolicy
  <2>5. ReadHolds'
    BY <2>2, <2>3 DEF RulesInv, ReadHolds
  <2>6. QED
    BY <2>4, <2>5
<1>2. ASSUME NEW e \in Enablers,
             \/ LoadAndChoose(e) \/ SavePort(e) \/ StartDaemon(e) \/ WaitForPort(e)
             \/ ApplyRules(e) \/ RemoveRules(e) \/ ClearPort(e) \/ EgressFails(e)
      PROVE  Kept
  <2> DEFINE s == enabler[e].box
  <2>1. enabler[e] \in NamedTask /\ enabler[e].at # "rest" /\ s \in Sandboxes
    BY <1>2, CommandGoes DEF RulesInv, EgressTypes
  <2>2. overlapped' = overlapped
    BY <1>2 DEF LoadAndChoose, SavePort, StartDaemon, WaitForPort, ApplyRules, RemoveRules,
                ClearPort, EgressFails
  <2>3. s \notin overlapped =>
          /\ rules[s] # 0 => egressPort[s] = rules[s] \/ s \in stuck
          /\ enabler[e].at = "save" => egressPort[s] = 0 /\ enabler[e].port # 0
          /\ enabler[e].at \in {"start", "wait", "rules"} =>
               egressPort[s] = enabler[e].port /\ enabler[e].port # 0
          /\ enabler[e].at = "clear" => rules[s] = 0 \/ s \in stuck
    BY <2>1 DEF RulesInv, ReadHolds, RulesFollowPolicy
  <2>4. egressPort \in [Sandboxes -> 0 .. MaxPort] /\ rules \in [Sandboxes -> 0 .. MaxPort]
    BY DEF RulesInv, EgressTypes, EgressTypeOK
  <2>stages. /\ "start" \in EgressStages /\ "wait" \in EgressStages /\ "save" \in EgressStages
             /\ "rules" \in EgressStages /\ "clear" \in EgressStages
    BY DEF EgressStages
  \* Whoever ends, or goes on to remove the rules, leaves rules the policy names.
  <2>5. ASSUME egressPort' = egressPort,
               \A r \in Sandboxes : r # s =>
                 rules'[r] = rules[r] /\ (r \in stuck' <=> r \in stuck),
               s \notin overlapped =>
                 (rules'[s] # 0 => egressPort[s] = rules'[s] \/ s \in stuck'),
               EnableFails(e) \/ enabler' = [enabler EXCEPT ![e] = NoCommand]
        PROVE  Kept
    <3>1. PICK t \in NamedTask : /\ enabler' = [enabler EXCEPT ![e] = t]
                                 /\ t.at = "rest" \/ (t.at = "remove" /\ t.box = s)
      BY <2>1, <2>5, EnableFailsTo, NoCommandType DEF RulesInv
    <3>2. QED
      BY <2>1, <2>2, <2>5, <3>1, CommandKeepsRules
  \* Whoever goes on to a stage keeps its sandbox and port.
  <2>6. ASSUME NEW next \in EgressStages, EgressGoto(e, next),
               \A r \in Sandboxes : r # s =>
                 /\ egressPort'[r] = egressPort[r] /\ rules'[r] = rules[r]
                 /\ r \in stuck' <=> r \in stuck,
               s \notin overlapped =>
                 /\ rules'[s] # 0 => egressPort'[s] = rules'[s] \/ s \in stuck'
                 /\ next = "save" => egressPort'[s] = 0 /\ enabler[e].port # 0
                 /\ next \in {"start", "wait", "rules"} =>
                      egressPort'[s] = enabler[e].port /\ enabler[e].port # 0
                 /\ next = "clear" => rules'[s] = 0 \/ s \in stuck'
        PROVE  Kept
    <3> DEFINE t == [enabler[e] EXCEPT !.at = next]
    <3>1. t \in NamedTask /\ t.at = next /\ t.box = s /\ t.port = enabler[e].port
      BY <2>1, <2>6, TaskAtStage
    <3>2. enabler' = [enabler EXCEPT ![e] = t]
      BY <2>6 DEF EgressGoto
    <3> HIDE DEF t
    <3>3. QED
      BY <2>1, <2>2, <2>6, <3>1, <3>2, CommandKeepsRules
  <2>7. CASE LoadAndChoose(e)
    <3>1. PICK next \in {"start", "save"}, p \in 1 .. MaxPort :
            /\ enabler' = [enabler EXCEPT ![e].at = next, ![e].port = p]
            /\ next = "start" => egressPort[s] = p
            /\ next = "save" => egressPort[s] = 0
      <4>1. CASE egressPort[s] # 0
        BY <2>1, <2>4, <2>7, <4>1 DEF LoadAndChoose
      <4>2. CASE egressPort[s] = 0
        BY <2>7, <4>2 DEF LoadAndChoose, Choose, Ports
      <4>3. QED
        BY <4>1, <4>2
    <3> DEFINE t == [enabler[e] EXCEPT !.at = next, !.port = p]
    <3>2. t \in NamedTask /\ t.box = s /\ t.at = next /\ t.port = p
      <4>1. next \in EgressStages /\ p \in 0 .. MaxPort
        BY <2>stages, <3>1, EgressAssumption
      <4>2. QED
        BY <2>1, <4>1 DEF EgressTask, NamedTask, EgressStages
    <3>3. enabler' = [enabler EXCEPT ![e] = t]
      BY <3>1
    <3> HIDE DEF t
    <3>4. UNCHANGED <<egressPort, rules, stuck>>
      BY <2>7 DEF LoadAndChoose
    <3>5. s \notin overlapped =>
            /\ rules'[s] # 0 => egressPort'[s] = rules'[s] \/ s \in stuck'
            /\ t.at = "save" => egressPort'[s] = 0 /\ t.port # 0
            /\ t.at \in {"start", "wait", "rules"} => egressPort'[s] = t.port /\ t.port # 0
            /\ t.at = "clear" => rules'[s] = 0 \/ s \in stuck'
      BY <2>3, <3>1, <3>2, <3>4
    <3>6. QED
      BY <2>1, <2>2, <3>2, <3>3, <3>4, <3>5, CommandKeepsRules
  <2>8. CASE SavePort(e)
    <3>1. egressPort' = [egressPort EXCEPT ![s] = enabler[e].port] /\ UNCHANGED <<rules, stuck>>
      BY <2>8 DEF SavePort, SavePolicy
    <3>2. /\ egressPort'[s] = enabler[e].port
          /\ \A r \in Sandboxes : r # s => egressPort'[r] = egressPort[r]
      BY <2>1, <2>4, <3>1
    <3>3. EgressGoto(e, "start") /\ enabler[e].at = "save"
      BY <2>8 DEF SavePort
    <3>4. s \notin overlapped => rules[s] = 0 \/ s \in stuck
      BY <2>3, <3>3
    <3>5. QED
      BY <2>3, <2>6, <2>stages, <3>1, <3>2, <3>3, <3>4
  <2>9. CASE StartDaemon(e)
    <3>1. EgressGoto(e, "wait") /\ enabler[e].at = "start" /\ UNCHANGED <<egressPort, rules, stuck>>
      BY <2>9 DEF StartDaemon
    <3>2. QED
      BY <2>3, <2>6, <2>stages, <3>1
  <2>10. CASE WaitForPort(e)
    <3>1. /\ EgressGoto(e, "rules") \/ EnableFails(e)
          /\ enabler[e].at = "wait" /\ UNCHANGED <<egressPort, rules, stuck>>
      BY <2>10 DEF WaitForPort
    <3>2. QED
      BY <2>3, <2>5, <2>6, <2>stages, <3>1
  \* New rules in a VM leave those of the others alone.
  <2>put. ASSUME NEW p, PutRules(s, p)
          PROVE  /\ rules'[s] = p
                 /\ \A r \in Sandboxes : r # s =>
                      rules'[r] = rules[r] /\ (r \in stuck' <=> r \in stuck)
    BY <2>1, <2>4, <2>put DEF PutRules
  <2>11. CASE ApplyRules(e)
    <3>1. enabler[e].at = "rules" /\ egressPort' = egressPort
      BY <2>11 DEF ApplyRules
    <3>2. CASE EnableFails(e) /\ UNCHANGED <<rules, stuck>>
      BY <2>3, <2>5, <3>1, <3>2
    <3>3. CASE /\ PutRules(s, enabler[e].port)
               /\ enabler' = [enabler EXCEPT ![e] = NoCommand] \/ EnableFails(e)
      BY <2>3, <2>5, <2>put, <3>1, <3>3
    <3>4. QED
      BY <2>11, <3>2, <3>3 DEF ApplyRules
  <2>12. CASE RemoveRules(e)
    <3>1. egressPort' = egressPort
      BY <2>12 DEF RemoveRules
    <3>2. CASE PutRules(s, 0) /\ EgressGoto(e, "clear")
      BY <2>6, <2>stages, <2>put, <3>1, <3>2
    <3>3. CASE PutRules(s, 0) /\ enabler' = [enabler EXCEPT ![e] = NoCommand]
      BY <2>5, <2>put, <3>1, <3>3
    <3>4. CASE stuck' = stuck \cup {s} /\ EgressGoto(e, "clear") /\ UNCHANGED rules
      BY <2>6, <2>stages, <3>1, <3>4
    <3>5. QED
      BY <2>12, <3>2, <3>3, <3>4 DEF RemoveRules
  <2>13. CASE ClearPort(e)
    <3>1. /\ egressPort' = [egressPort EXCEPT ![s] = 0] /\ UNCHANGED <<rules, stuck>>
          /\ enabler' = [enabler EXCEPT ![e] = NoCommand] /\ enabler[e].at = "clear"
      BY <2>13 DEF ClearPort, SavePolicy
    <3>2. \A r \in Sandboxes : r # s => egressPort'[r] = egressPort[r]
      BY <2>1, <2>4, <3>1
    <3>3. QED
      BY <2>1, <2>2, <2>3, <3>1, <3>2, NoCommandType, CommandKeepsRules
  <2>14. CASE EgressFails(e)
    <3>1. UNCHANGED <<egressPort, rules, stuck>>
      BY <2>14 DEF EgressFails
    <3>2. QED
      BY <2>3, <2>5, <2>14, <3>1 DEF EgressFails
  <2>15. QED
    BY <1>2, <2>7, <2>8, <2>9, <2>10, <2>11, <2>12, <2>13, <2>14
<1>3. ASSUME UNCHANGED <<egressPort, rules, enabler, overlapped, stuck>> PROVE Kept
  BY <1>3 DEF RulesInv, ReadHolds, RulesFollowPolicy
<1>4. Kept
  BY <1>1, <1>2, <1>3
  DEF EgressNext, Tick, Listen, ListenersGo, ForeignPort, WritePolicy, egressVars
<1>5. QED
  BY <1>0, <1>4 DEF RulesInv

LEMMA InitRules == EgressInit => RulesInv
<1>1. ASSUME EgressInit
      PROVE  (\A e \in Enablers : enabler[e].at = "rest") /\ \A s \in Sandboxes : rules[s] = 0
  BY <1>1, NoCommandType DEF EgressInit
<1>2. QED
  BY <1>1, InitTypes DEF RulesInv, RunsAlone, ReadHolds, RulesFollowPolicy

\* After any failure, undo or restart, the policy of a sandbox names the port its VM's
\* rules point to, so the daemon serves them again and gives that port to no one else;
\* unless two commands ran on the sandbox at once, or nft kept rules it was to take out.
THEOREM RulesAreFollowed == EgressSpec => []RulesFollowPolicy
<1>1. EgressInit => RulesInv
  BY InitRules
<1>2. RulesInv => RulesFollowPolicy
  BY DEF RulesInv
<1>3. QED
  BY <1>1, <1>2, RulesStep, PTL DEF EgressSpec

-----------------------------------------------------------------------------
(* Monitoring: whose traffic a listener records *)

Clean == Sandboxes \ (overlapped \cup mixed)

\* The wanted pairs a tick has yet to come to are still wanted.
TickIsCurrent == \A pair \in tick : pair[1] \in Clean => egressPort[pair[1]] = pair[2]

\* The port of one sandbox is neither in the policy of another nor recorded for it.
PortsDiffer ==
  \A s, t \in Clean : s # t /\ egressPort[s] # 0 =>
    egressPort[t] # egressPort[s] /\ <<t, egressPort[s]>> \notin listening.open

\* Nor is a port that was chosen and not saved yet, and nobody else is choosing one.
ChoicesDiffer ==
  \A e \in Enablers, t \in Clean :
    enabler[e].at = "save" /\ enabler[e].box \in Clean /\ enabler[e].box # t =>
      /\ egressPort[t] # enabler[e].port
      /\ <<t, enabler[e].port>> \notin listening.open
      /\ \A d \in Enablers : enabler[d].at = "save" => enabler[d].box # t

TrafficInv == RulesInv /\ TickIsCurrent /\ PortsDiffer /\ ChoicesDiffer

\* A step that opens nothing, chooses nothing and gives no policy a port keeps ports apart.
LEMMA NothingGiven ==
  ASSUME TrafficInv,
         overlapped \cup mixed \subseteq overlapped' \cup mixed',
         listening'.open \subseteq listening.open,
         \A e \in Enablers : enabler'[e].at = "save" => enabler'[e] = enabler[e],
         \A s \in Sandboxes : egressPort'[s] = egressPort[s] \/ egressPort'[s] = 0
  PROVE  PortsDiffer' /\ ChoicesDiffer'
<1>1. Clean' \subseteq Clean /\ Clean \subseteq Sandboxes
  BY DEF Clean
<1>2. PortsDiffer'
  BY <1>1 DEF TrafficInv, PortsDiffer
<1>3. ASSUME NEW e \in Enablers, NEW t \in Clean',
             enabler'[e].at = "save", enabler'[e].box \in Clean', enabler'[e].box # t
      PROVE  /\ egressPort'[t] # enabler'[e].port
             /\ <<t, enabler'[e].port>> \notin listening'.open
             /\ \A d \in Enablers : enabler'[d].at = "save" => enabler'[d].box # t
  <2>1. enabler'[e] = enabler[e] /\ t \in Clean /\ enabler[e].box \in Clean
    BY <1>1, <1>3
  <2>2. /\ egressPort[t] # enabler[e].port
        /\ <<t, enabler[e].port>> \notin listening.open
        /\ \A d \in Enablers : enabler[d].at = "save" => enabler[d].box # t
    BY <1>3, <2>1 DEF TrafficInv, ChoicesDiffer
  <2>3. enabler[e].port # 0
    BY <1>3, <2>1 DEF TrafficInv, RulesInv, ReadHolds, Clean
  <2>4. egressPort'[t] # enabler[e].port
    BY <1>1, <2>2, <2>3
  <2>5. QED
    BY <2>1, <2>2, <2>4
<1>4. QED
  BY <1>2, <1>3 DEF ChoicesDiffer

LEMMA ChoosingKeepsApart ==
  ASSUME TrafficInv, NEW e \in Enablers, LoadAndChoose(e)
  PROVE  TickIsCurrent' /\ PortsDiffer' /\ ChoicesDiffer'
<1> DEFINE s == enabler[e].box
<1>1. enabler[e] \in NamedTask /\ enabler[e].at # "rest" /\ s \in Sandboxes
  BY CommandGoes DEF TrafficInv, RulesInv, EgressTypes
<1>2. UNCHANGED <<egressPort, torn, tick, listening, overlapped>>
  BY DEF LoadAndChoose
<1>3. mixed \subseteq mixed'
  BY <1>1 DEF LoadAndChoose, Choose
<1>4. TickIsCurrent'
  BY <1>2, <1>3 DEF TrafficInv, TickIsCurrent, Clean
<1>5. enabler \in [Enablers -> EgressTask]
  BY DEF TrafficInv, RulesInv, EgressTypes, EgressTypeOK
<1>6. CASE egressPort[s] # 0
  <2>1. enabler' = [enabler EXCEPT ![e].at = "start", ![e].port = egressPort[s]]
    BY <1>6 DEF LoadAndChoose
  <2>2. enabler'[e].at = "start" /\ \A d \in Enablers : d # e => enabler'[d] = enabler[d]
    BY <1>5, <2>1 DEF EgressTask
  <2>3. QED
    BY <1>2, <1>3, <1>4, <2>2, NothingGiven
<1>7. CASE egressPort[s] = 0
  <2>1. PICK p \in Ports :
          /\ IsNextPort(p)
          /\ enabler' = [enabler EXCEPT ![e].at = "save", ![e].port = p]
          /\ mixed' = IF ChoosingWith(s, p) = {} THEN mixed
                      ELSE mixed \cup ChoosingWith(s, p) \cup {s}
    BY <1>7 DEF LoadAndChoose, Choose
  <2>2. /\ enabler'[e].at = "save" /\ enabler'[e].box = s /\ enabler'[e].port = p
        /\ \A d \in Enablers : d # e => enabler'[d] = enabler[d]
    BY <1>5, <2>1 DEF EgressTask
  <2>3. p \notin {egressPort[t] : t \in Sandboxes \ torn} \cup PortsListening
    BY <2>1 DEF IsNextPort
  <2>5. Clean' \subseteq Clean /\ Clean \subseteq Sandboxes
    BY <1>2, <1>3 DEF Clean
  \* A port an unreadable policy names makes both sandboxes unclean.
  <2>4. \A t \in Sandboxes : /\ <<t, p>> \notin listening.open
                             /\ egressPort[t] # p \/ (t \notin Clean' /\ s \notin Clean')
    <3>1. ASSUME NEW t \in Sandboxes PROVE <<t, p>> \notin listening.open
      BY <2>3 DEF PortsListening
    <3>2. ASSUME NEW t \in Sandboxes, egressPort[t] = p
          PROVE  t \notin Clean' /\ s \notin Clean'
      <4>1. t \in torn
        BY <2>3, <3>2
      <4>2. t \in ChoosingWith(s, p)
        BY <3>2, <4>1 DEF ChoosingWith
      <4>3. t \in mixed' /\ s \in mixed'
        BY <2>1, <4>2
      <4>4. QED
        BY <4>3 DEF Clean
    <3>3. QED
      BY <3>1, <3>2
  <2>6. PortsDiffer'
    BY <1>2, <2>5 DEF TrafficInv, PortsDiffer
  \* Whoever else is choosing makes the sandbox unclean, and is unclean itself.
  <2>7. \A d \in Enablers : d # e /\ enabler[d].at = "save" /\ enabler[d].box # s
          => enabler[d].box \notin Clean' /\ s \notin Clean'
    <3>1. ASSUME NEW d \in Enablers, enabler[d].at = "save", enabler[d].box # s
          PROVE  enabler[d].box \in mixed' /\ s \in mixed'
      <4>1. enabler[d].box \in ChoosingWith(s, p)
        BY <3>1 DEF ChoosingWith
      <4>2. QED
        BY <2>1, <4>1
    <3>2. QED
      BY <3>1 DEF Clean
  <2> HIDE DEF s
  <2>8. ASSUME NEW d \in Enablers, NEW t \in Clean',
               enabler'[d].at = "save", enabler'[d].box \in Clean', enabler'[d].box # t
        PROVE  /\ egressPort'[t] # enabler'[d].port
               /\ <<t, enabler'[d].port>> \notin listening'.open
               /\ \A f \in Enablers : enabler'[f].at = "save" => enabler'[f].box # t
    <3>1. CASE d = e
      BY <1>2, <2>2, <2>4, <2>5, <2>7, <2>8, <3>1
    <3>2. CASE d # e
      <4>1. /\ egressPort[t] # enabler[d].port
            /\ <<t, enabler[d].port>> \notin listening.open
            /\ \A f \in Enablers : enabler[f].at = "save" => enabler[f].box # t
        BY <2>2, <2>5, <2>8, <3>2 DEF TrafficInv, ChoicesDiffer
      <4>2. s # t
        BY <2>2, <2>7, <2>8, <3>2
      <4>3. QED
        BY <1>2, <2>2, <3>2, <4>1, <4>2
    <3>3. QED
      BY <3>1, <3>2
  <2>9. QED
    BY <1>4, <2>6, <2>8 DEF ChoicesDiffer
<1>8. QED
  BY <1>6, <1>7

LEMMA SavingKeepsApart ==
  ASSUME TrafficInv, NEW e \in Enablers, SavePort(e)
  PROVE  TickIsCurrent' /\ PortsDiffer' /\ ChoicesDiffer'
<1> DEFINE s == enabler[e].box
           p == enabler[e].port
<1>1. enabler[e].at = "save" /\ s \in Sandboxes
  BY CommandGoes DEF SavePort, TrafficInv, RulesInv
<1>2. UNCHANGED <<tick, listening, overlapped>> /\ mixed \subseteq mixed'
  BY DEF SavePort, SavePolicy
<1>3. Clean' \subseteq Clean /\ Clean \subseteq Sandboxes
  BY <1>2 DEF Clean
<1>4. egressPort'[s] = p /\ \A t \in Sandboxes : t # s => egressPort'[t] = egressPort[t]
  BY <1>1 DEF SavePort, SavePolicy, TrafficInv, RulesInv, EgressTypes, EgressTypeOK
<1>5. enabler'[e].at = "start" /\ \A d \in Enablers : d # e => enabler'[d] = enabler[d]
  BY DEF SavePort, EgressGoto, TrafficInv, RulesInv, EgressTypes, EgressTypeOK, EgressTask
<1>6. tick = {} \/ s \notin Clean'
  BY DEF SavePort, SavePolicy, Clean
<1>7. TickIsCurrent'
  <2>1. \A pair \in tick : pair[1] \in Clean' => pair[1] # s /\ pair[1] \in Clean
    BY <1>3, <1>6
  <2>2. QED
    BY <1>2, <1>3, <1>4, <2>1 DEF TrafficInv, TickIsCurrent
<1>8. ASSUME s \in Clean', NEW t \in Clean', t # s
      PROVE  egressPort[t] # p /\ <<t, p>> \notin listening.open
  BY <1>1, <1>3, <1>8 DEF TrafficInv, ChoicesDiffer
<1>9. \A t \in Clean' : <<s, egressPort[t]>> \notin listening.open \/ egressPort[t] = 0
                         \/ t = s \/ s \notin Clean'
  BY <1>3 DEF TrafficInv, PortsDiffer
<1>10. PortsDiffer'
  <2>1. ASSUME NEW u \in Clean', NEW t \in Clean', u # t, egressPort'[u] # 0
        PROVE  egressPort'[t] # egressPort'[u] /\ <<t, egressPort'[u]>> \notin listening'.open
    <3>1. CASE u = s
      BY <1>2, <1>3, <1>4, <1>8, <2>1, <3>1
    <3>2. CASE t = s
      BY <1>2, <1>3, <1>4, <1>8, <1>9, <2>1, <3>2
    <3>3. CASE u # s /\ t # s
      <4>1. egressPort'[u] = egressPort[u] /\ egressPort'[t] = egressPort[t]
        BY <1>3, <1>4, <3>3
      <4>2. QED
        BY <1>2, <1>3, <2>1, <4>1 DEF TrafficInv, PortsDiffer
    <3>4. QED
      BY <3>1, <3>2, <3>3
  <2>2. QED
    BY <2>1 DEF PortsDiffer
<1>11. ASSUME NEW d \in Enablers, NEW t \in Clean',
              enabler'[d].at = "save", enabler'[d].box \in Clean', enabler'[d].box # t
       PROVE  /\ egressPort'[t] # enabler'[d].port
              /\ <<t, enabler'[d].port>> \notin listening'.open
              /\ \A f \in Enablers : enabler'[f].at = "save" => enabler'[f].box # t
  <2>1. d # e /\ enabler'[d] = enabler[d] /\ enabler[d].box \in Clean /\ t \in Clean
    BY <1>3, <1>5, <1>11
  <2>2. /\ egressPort[t] # enabler[d].port
        /\ <<t, enabler[d].port>> \notin listening.open
        /\ \A f \in Enablers : enabler[f].at = "save" => enabler[f].box # t
    BY <1>11, <2>1 DEF TrafficInv, ChoicesDiffer
  \* The sandbox that saves is the one chosen for, which nobody else is.
  <2>3. t # s
    BY <1>1, <2>2
  <2>4. QED
    BY <1>2, <1>3, <1>4, <1>5, <2>1, <2>2, <2>3
<1>12. QED
  BY <1>7, <1>10, <1>11 DEF ChoicesDiffer

LEMMA TrafficStep ==
  ASSUME TrafficInv, [EgressNext]_egressVars
  PROVE  TrafficInv'
<1> DEFINE Apart == TickIsCurrent' /\ PortsDiffer' /\ ChoicesDiffer'
<1>0. RulesInv' /\ EgressTypes
  BY RulesStep DEF TrafficInv, RulesInv
<1>fn. enabler \in [Enablers -> NamedTask]
  BY <1>0 DEF EgressTypes
<1>1. ASSUME NEW e \in Enablers, NEW s \in Sandboxes, BeginEgress(e, s) PROVE Apart
  <2>1. PICK at \in {"load", "remove"}, undo \in BOOLEAN :
          enabler' = [enabler EXCEPT ![e] = [at |-> at, box |-> s, port |-> 0, undo |-> undo]]
    BY <1>1, BegunAs
  <2>2. enabler'[e].at # "save" /\ \A d \in Enablers : d # e => enabler'[d] = enabler[d]
    BY <1>fn, <2>1
  <2>3. /\ UNCHANGED <<egressPort, listening, tick>>
        /\ overlapped \subseteq overlapped' /\ mixed' = mixed
    BY <1>1 DEF BeginEgress
  <2>4. TickIsCurrent'
    BY <2>3 DEF TrafficInv, TickIsCurrent, Clean
  <2>5. QED
    BY <2>2, <2>3, <2>4, NothingGiven
<1>2. ASSUME NEW e \in Enablers, LoadAndChoose(e) PROVE Apart
  BY <1>2, ChoosingKeepsApart
<1>3. ASSUME NEW e \in Enablers, SavePort(e) PROVE Apart
  BY <1>3, SavingKeepsApart
<1>4. ASSUME NEW e \in Enablers,
             \/ StartDaemon(e) \/ WaitForPort(e) \/ ApplyRules(e) \/ RemoveRules(e)
             \/ ClearPort(e) \/ EgressFails(e)
      PROVE  Apart
  <2>1. enabler[e] \in NamedTask /\ enabler[e].at # "rest" /\ enabler[e].box \in Sandboxes
    BY <1>0, <1>4, CommandGoes DEF EgressTypes
  <2>2. \/ \E next \in {"wait", "rules", "clear"} : EgressGoto(e, next)
        \/ EnableFails(e) \/ enabler' = [enabler EXCEPT ![e] = NoCommand]
    BY <1>4 DEF StartDaemon, WaitForPort, ApplyRules, RemoveRules, ClearPort, EgressFails
  <2>3. \E t \in NamedTask : enabler' = [enabler EXCEPT ![e] = t] /\ t.at # "save"
    <3>1. ASSUME NEW next \in {"wait", "rules", "clear"}, EgressGoto(e, next)
          PROVE  \E t \in NamedTask : enabler' = [enabler EXCEPT ![e] = t] /\ t.at # "save"
      <4> DEFINE t == [enabler[e] EXCEPT !.at = next]
      <4>1. next \in EgressStages /\ next # "save"
        BY <3>1 DEF EgressStages
      <4>2. t \in NamedTask /\ t.at = next
        BY <2>1, <4>1, TaskAtStage
      <4>3. QED
        BY <3>1, <4>1, <4>2 DEF EgressGoto
    <3>2. QED
      BY <1>0, <2>1, <2>2, <3>1, EnableFailsTo, NoCommandType
  <2>4. \A d \in Enablers : enabler'[d].at = "save" => enabler'[d] = enabler[d]
    BY <1>fn, <2>3
  <2>5. /\ listening'.open = listening.open /\ tick' = tick
        /\ overlapped' = overlapped /\ mixed \subseteq mixed'
    <3>1. CASE StartDaemon(e)
      BY <1>0, <3>1 DEF StartDaemon, EgressTypes, EgressTypeOK
    <3>2. CASE ~StartDaemon(e)
      BY <1>4, <3>2 DEF WaitForPort, ApplyRules, RemoveRules, ClearPort, SavePolicy, EgressFails
    <3>3. QED
      BY <3>1, <3>2
  <2>6. CASE ClearPort(e)
    <3>1. egressPort' = [egressPort EXCEPT ![enabler[e].box] = 0]
      BY <2>6 DEF ClearPort, SavePolicy
    <3>2. /\ egressPort'[enabler[e].box] = 0
          /\ \A s \in Sandboxes : s # enabler[e].box => egressPort'[s] = egressPort[s]
      BY <1>0, <2>1, <3>1 DEF EgressTypes, EgressTypeOK
    <3>3. tick = {} \/ enabler[e].box \in mixed'
      BY <2>6 DEF ClearPort, SavePolicy
    <3>4. TickIsCurrent'
      BY <2>5, <3>2, <3>3 DEF TrafficInv, TickIsCurrent, Clean
    <3>5. QED
      BY <2>4, <2>5, <3>2, <3>4, NothingGiven
  <2>7. CASE ~ClearPort(e)
    <3>1. UNCHANGED egressPort
      BY <1>4, <2>7 DEF StartDaemon, WaitForPort, ApplyRules, RemoveRules, EgressFails
    <3>2. TickIsCurrent'
      BY <2>5, <3>1 DEF TrafficInv, TickIsCurrent, Clean
    <3>3. QED
      BY <2>4, <2>5, <3>1, <3>2, NothingGiven
  <2>8. QED
    BY <2>6, <2>7
<1>5. ASSUME Tick PROVE Apart
  <2>1. /\ listening'.open = listening.open \cap Wanted /\ tick' = Wanted \ listening.open
        /\ UNCHANGED <<egressPort, enabler, overlapped, mixed>>
    BY <1>0, <1>5 DEF Tick, EgressTypes, EgressTypeOK
  <2>2. TickIsCurrent'
    BY <2>1 DEF TickIsCurrent, Wanted
  <2>3. PortsDiffer' /\ ChoicesDiffer'
    BY <2>1, NothingGiven
  <2>4. QED
    BY <2>2, <2>3
<1>6. ASSUME NEW pair \in Pairs, Listen(pair) PROVE Apart
  <2>1. /\ pair \in tick /\ tick' = tick \ {pair}
        /\ UNCHANGED <<egressPort, enabler, overlapped, mixed>>
    BY <1>6 DEF Listen
  <2>2. listening'.open \subseteq listening.open \cup {pair}
    BY <1>0, <1>6 DEF Listen, EgressTypes, EgressTypeOK
  <2>3. pair[1] \in Clean => egressPort[pair[1]] = pair[2]
    BY <2>1 DEF TrafficInv, TickIsCurrent
  <2>4. Clean' = Clean /\ TickIsCurrent'
    BY <2>1 DEF TrafficInv, TickIsCurrent, Clean
  <2>5. PortsDiffer'
    BY <2>1, <2>2, <2>3, <2>4 DEF TrafficInv, PortsDiffer
  <2>6. ChoicesDiffer'
    BY <2>1, <2>2, <2>3, <2>4 DEF TrafficInv, ChoicesDiffer
  <2>7. QED
    BY <2>4, <2>5, <2>6
<1>7. ASSUME ListenersGo PROVE Apart
  <2>1. /\ listening'.open = {} /\ tick' = {}
        /\ UNCHANGED <<egressPort, enabler, overlapped, mixed>>
    BY <1>7 DEF ListenersGo
  <2>2. TickIsCurrent'
    BY <2>1 DEF TickIsCurrent
  <2>3. PortsDiffer' /\ ChoicesDiffer'
    BY <2>1, NothingGiven
  <2>4. QED
    BY <2>2, <2>3
<1>8. ASSUME UNCHANGED <<egressPort, listening, tick, enabler, overlapped, mixed>> PROVE Apart
  BY <1>8 DEF TrafficInv, TickIsCurrent, PortsDiffer, ChoicesDiffer, Clean
<1>9. Apart
  <2>1. ASSUME NEW p \in Ports, ForeignPort(p) PROVE Apart
    BY <1>8, <2>1 DEF ForeignPort
  <2>p. ASSUME NEW s \in Sandboxes, WritePolicy(s) PROVE Apart
    BY <1>8, <2>p DEF WritePolicy
  <2>2. CASE UNCHANGED egressVars
    BY <1>8, <2>2 DEF egressVars
  <2> HIDE DEF Apart
  <2>3. ASSUME NEW e \in Enablers,
               \/ LoadAndChoose(e) \/ SavePort(e) \/ StartDaemon(e) \/ WaitForPort(e)
               \/ ApplyRules(e) \/ RemoveRules(e) \/ ClearPort(e) \/ EgressFails(e)
               \/ \E s \in Sandboxes : BeginEgress(e, s)
        PROVE  Apart
    BY <1>1, <1>2, <1>3, <1>4, <2>3
  <2>4. QED
    BY <1>5, <1>6, <1>7, <2>1, <2>p, <2>2, <2>3 DEF EgressNext
<1>10. QED
  BY <1>0, <1>9 DEF TrafficInv

\* Whoever listens where the rules of a VM point to records for that VM's profile,
\* whatever fails and whoever else takes a port, unless nft kept those rules, or the
\* sandboxes chose their ports together, one of them while the other's policy could not be
\* read, or changed theirs during a tick.
THEOREM TrafficIsOnesOwn == EgressSpec => []TrafficIsAttributed
<1>1. EgressInit => TrafficInv
  <2>1. EgressInit => RulesInv
    BY InitRules
  <2>2. ASSUME EgressInit
        PROVE  /\ tick = {} /\ \A s \in Sandboxes : egressPort[s] = 0
               /\ \A e \in Enablers : enabler[e].at = "rest"
    BY <2>2, NoCommandType DEF EgressInit
  <2>3. QED
    BY <2>1, <2>2 DEF TrafficInv, TickIsCurrent, PortsDiffer, ChoicesDiffer, Clean
<1>2. TrafficInv => TrafficIsAttributed
  BY DEF TrafficInv, RulesInv, RulesFollowPolicy, PortsDiffer, Clean, TrafficIsAttributed
<1>3. QED
  BY <1>1, <1>2, TrafficStep, PTL DEF EgressSpec

-----------------------------------------------------------------------------
(* The running totals: types *)

Lines == Seq(0 .. MaxFlows)
WriterStages == {"rest", "open", "data", "newline"}
WriterState == [at : WriterStages, flow : 1 .. MaxFlows + 1, files : 0 .. MaxFlows]
GetStages == {"rest", "first", "stat", "rest of old", "read"}
TotalsState == [at : GetStages, known : BOOLEAN, file : 0 .. MaxFlows, offset : 0 .. MaxFlows,
                info : 0 .. MaxFlows, seen : SUBSET Flows]

\* Every file but the current log has been filled, with one connection per line, and
\* the connection at hand is yet to come.
FilesAreFilled ==
  /\ writer.files + Len(log.lines) <= writer.flow
  /\ IF log.there THEN writer.files >= 1 ELSE writer.files + Len(log.lines) < writer.flow
  /\ writer.at # "rest" => writer.flow <= MaxFlows
  /\ writer.at = "newline" => log.unfinished # FinishedLine

TotalsTypes == TotalsTypeOK /\ FilesAreFilled

LEMMA FileFields ==
  ASSUME NEW file \in LogFile
  PROVE  /\ file.there \in BOOLEAN /\ file.id \in 0 .. MaxFlows /\ file.lines \in Lines
         /\ file.unfinished \in -1 .. MaxFlows /\ Len(file.lines) \in Nat
         /\ DOMAIN file.lines = 1 .. Len(file.lines)
         /\ \A i \in 1 .. Len(file.lines) : file.lines[i] \in 0 .. MaxFlows
<1>1. /\ file.there \in BOOLEAN /\ file.id \in 0 .. MaxFlows /\ file.lines \in Lines
      /\ file.unfinished \in -1 .. MaxFlows
  BY DEF LogFile, Lines
<1>2. QED
  BY <1>1, LenProperties, ElementOfSeq DEF Lines

\* No file, and one that has just been made.
LEMMA NoFileType ==
  /\ NoFile \in LogFile /\ ~NoFile.there /\ NoFile.id = 0
  /\ NoFile.lines = <<>> /\ Len(NoFile.lines) = 0
<1>1. 0 \in 0 .. MaxFlows /\ -1 \in -1 .. MaxFlows /\ <<>> \in Seq(0 .. MaxFlows)
  BY TotalsAssumption, EmptySeq
<1>2. NoFile \in LogFile
  BY <1>1 DEF NoFile, LogFile
<1>3. QED
  BY <1>2, EmptySeq DEF NoFile

LEMMA NewFileType ==
  ASSUME NEW id \in 0 .. MaxFlows
  PROVE  LET new == [NoFile EXCEPT !.there = TRUE, !.id = id]
         IN new \in LogFile /\ new.there /\ new.id = id /\ new.lines = <<>> /\ Len(new.lines) = 0
<1>1. ASSUME NEW file \in LogFile
      PROVE  LET new == [file EXCEPT !.there = TRUE, !.id = id]
             IN new \in LogFile /\ new.there /\ new.id = id /\ new.lines = file.lines
  BY <1>1 DEF LogFile
<1>2. QED
  BY <1>1, NoFileType

\* The two writes of a line.
LEMMA EntryType ==
  ASSUME NEW file \in LogFile, NEW v \in -1 .. MaxFlows
  PROVE  LET new == [file EXCEPT !.unfinished = v]
         IN /\ new \in LogFile /\ new.unfinished = v
            /\ new.there = file.there /\ new.id = file.id /\ new.lines = file.lines
BY DEF LogFile

LEMMA LineType ==
  ASSUME NEW file \in LogFile, NEW v \in 0 .. MaxFlows
  PROVE  LET new == [file EXCEPT !.lines = Append(file.lines, v), !.unfinished = FinishedLine]
         IN /\ new \in LogFile /\ new.there = file.there /\ new.id = file.id
            /\ Len(new.lines) = Len(file.lines) + 1
            /\ \A i \in 1 .. Len(file.lines) : new.lines[i] = file.lines[i]
            /\ new.lines[Len(file.lines) + 1] = v
<1>1. file.lines \in Seq(0 .. MaxFlows)
  BY DEF LogFile
<1>2. /\ Append(file.lines, v) \in Seq(0 .. MaxFlows)
      /\ Len(Append(file.lines, v)) = Len(file.lines) + 1
      /\ \A i \in 1 .. Len(file.lines) : Append(file.lines, v)[i] = file.lines[i]
      /\ Append(file.lines, v)[Len(file.lines) + 1] = v
  BY <1>1, AppendProperties
<1>p. PICK lines \in Seq(0 .. MaxFlows) : lines = Append(file.lines, v)
  BY <1>2
<1>3. -1 \in -1 .. MaxFlows
  BY TotalsAssumption
<1>4. LET new == [file EXCEPT !.lines = lines, !.unfinished = FinishedLine]
      IN new \in LogFile /\ new.there = file.there /\ new.id = file.id /\ new.lines = lines
  BY <1>3 DEF LogFile, FinishedLine
<1>5. QED
  BY <1>2, <1>p, <1>4

\* The writer goes to another stage.
LEMMA WriterAt ==
  ASSUME NEW w \in WriterState, NEW at \in WriterStages
  PROVE  LET new == [w EXCEPT !.at = at]
         IN new \in WriterState /\ new.at = at /\ new.flow = w.flow /\ new.files = w.files
BY DEF WriterState

LEMMA NewTotalsType == NewTotals \in TotalsState
<1>1. 0 \in 0 .. MaxFlows
  BY TotalsAssumption
<1>2. QED
  BY <1>1 DEF NewTotals, TotalsState, GetStages

LEMMA LinesFromType ==
  ASSUME NEW file \in LogFile, NEW n \in Nat
  PROVE  LinesFrom(file, n) \in Lines
<1>1. file.lines \in Lines
  BY DEF LogFile, Lines
<1> DEFINE first == IF Len(file.lines) < n THEN 1 ELSE n + 1
<1>2. Len(file.lines) \in Nat /\ \A i \in 1 .. Len(file.lines) : file.lines[i] \in 0 .. MaxFlows
  BY <1>1, LenProperties, ElementOfSeq DEF Lines
<1>f. first \in Int /\ first >= 1
  BY <1>2
<1>3. \A i \in first .. Len(file.lines) : file.lines[i] \in 0 .. MaxFlows
  <2> HIDE DEF first
  <2>1. QED
    BY <1>2, <1>f
<1>4. SubSeq(file.lines, first, Len(file.lines)) \in Seq(0 .. MaxFlows)
  <2> HIDE DEF first
  <2>1. QED
    BY <1>2, <1>3, <1>f, SubSeqProperties
<1>5. QED
  BY <1>4 DEF LinesFrom, Lines

\* How often a connection is in some lines.
LEMMA Occurrences ==
  ASSUME NEW lines \in Lines, NEW f
  PROVE  /\ IsFiniteSet({i \in DOMAIN lines : lines[i] = f})
         /\ Cardinality({i \in DOMAIN lines : lines[i] = f}) \in Nat
<1>1. DOMAIN lines = 1 .. Len(lines) /\ Len(lines) \in Nat
  BY LenProperties DEF Lines
<1>2. IsFiniteSet(1 .. Len(lines))
  BY <1>1, FS_Interval
<1>3. {i \in DOMAIN lines : lines[i] = f} \subseteq 1 .. Len(lines)
  BY <1>1
<1>4. QED
  BY <1>2, <1>3, FS_Subset, FS_CardinalityType

LEMMA CountType ==
  ASSUME counted \in [Flows -> 0 .. 2], NEW lines \in Lines, CountFlows(lines)
  PROVE  counted' \in [Flows -> 0 .. 2]
<1> DEFINE n(f) == Cardinality({i \in DOMAIN lines : lines[i] = f})
<1>1. counted' = [f \in Flows |-> IF counted[f] + n(f) > 2 THEN 2 ELSE counted[f] + n(f)]
  BY DEF CountFlows
<1>2. \A f \in Flows : n(f) \in Nat
  BY Occurrences
<1> HIDE DEF n
<1>3. QED
  BY <1>1, <1>2

LEMMA TotalsTypeStep ==
  ASSUME TotalsTypes, [TotalsNext]_totalsVars
  PROVE  TotalsTypes'
<1>z. MaxFlows \in Nat \ {0} /\ LogLimit \in Nat \ {0} /\ 0 \in 0 .. MaxFlows
  BY TotalsAssumption
<1>0. /\ log \in LogFile /\ rotated \in LogFile
      /\ writer \in WriterState
      /\ totals \in TotalsState
      /\ counted \in [Flows -> 0 .. 2] /\ owed \subseteq Flows /\ missed \in BOOLEAN
  BY DEF TotalsTypes, TotalsTypeOK, WriterState, WriterStages, TotalsState, GetStages
<1>len. /\ Len(log.lines) \in Nat /\ log.id \in 0 .. MaxFlows /\ log.lines \in Lines
        /\ rotated.lines \in Lines /\ log.there \in BOOLEAN
        /\ log.unfinished \in -1 .. MaxFlows
  BY <1>0, FileFields
<1>w. writer.flow \in 1 .. MaxFlows + 1 /\ writer.files \in 0 .. MaxFlows
      /\ writer.at \in WriterStages
  BY <1>0 DEF WriterState
<1>t. /\ totals.file \in 0 .. MaxFlows /\ totals.offset \in 0 .. MaxFlows
      /\ totals.info \in 0 .. MaxFlows /\ totals.seen \subseteq Flows /\ totals.known \in BOOLEAN
        /\ totals \in TotalsState /\ writer \in WriterState
  BY <1>0 DEF TotalsState
<1>at. writer.at # "rest" => writer.flow \in 1 .. MaxFlows /\ writer.flow + 1 \in 1 .. MaxFlows + 1
  <2>1. writer.at # "rest" => writer.flow <= MaxFlows
    BY DEF TotalsTypes, FilesAreFilled
  <2>2. QED
    BY <1>z, <1>w, <2>1
<1>fill. /\ writer.files + Len(log.lines) <= writer.flow
         /\ log.there => writer.files >= 1
         /\ ~log.there => writer.files + Len(log.lines) < writer.flow
         /\ writer.at # "rest" => writer.flow <= MaxFlows
         /\ writer.at = "newline" => log.unfinished # FinishedLine
  BY DEF TotalsTypes, FilesAreFilled
\* Steps of a get: the files and the writer stay.
<1>1. ASSUME UNCHANGED <<log, rotated, writer>>,
             totals' \in TotalsState,
             counted' \in [Flows -> 0 .. 2], owed' \subseteq Flows, missed' \in BOOLEAN
      PROVE  TotalsTypes'
  BY <1>0, <1>1 DEF TotalsTypes, TotalsTypeOK, TotalsState, GetStages, WriterState, WriterStages, FilesAreFilled
<1>2. CASE BeginGet
  <2>1. FlowsIn(log) \cup FlowsIn(rotated) \subseteq Flows
    <3>1. \A file \in LogFile : FlowsIn(file) \subseteq Flows
      <4>1. ASSUME NEW file \in LogFile PROVE \A i \in DOMAIN file.lines : file.lines[i] \in 0 .. MaxFlows
        BY <4>1, LenProperties, ElementOfSeq DEF LogFile
      <4>2. QED
        BY <4>1 DEF FlowsIn, Range, Flows, Corrupt
    <3>2. QED
      BY <1>0, <3>1
  <2>2. totals' \in TotalsState
    BY <1>z, <1>t, <1>2, <2>1 DEF BeginGet, TotalsState, GetStages
  <2>3. QED
    BY <1>0, <1>1, <1>2, <2>2 DEF BeginGet, auditFiles
<1>3. CASE ReadFirst
  <2>1. totals' \in TotalsState
    BY <1>z, <1>t, <1>3 DEF ReadFirst, TotalsState, GetStages
  <2>2. QED
    BY <1>0, <1>1, <1>3, <1>len, <2>1, CountType DEF ReadFirst, auditFiles
<1>4. CASE StatLog
  <2>1. totals' \in TotalsState
    BY <1>z, <1>t, <1>4, <1>len DEF StatLog, TotalsState, GetStages
  <2>2. QED
    BY <1>0, <1>1, <1>4, <2>1 DEF StatLog, auditFiles
<1>5. CASE ReadRest
  <2>1. totals' \in TotalsState
    BY <1>z, <1>t, <1>5 DEF ReadRest, TotalsState, GetStages
  <2>2. LinesFrom(rotated, totals.offset) \in Lines
    BY <1>0, <1>t, LinesFromType
  <2>3. QED
    BY <1>0, <1>1, <1>5, <2>1, <2>2, CountType DEF ReadRest, auditFiles
<1>6. CASE ReadLog
  <2>1. Len(log.lines) \in 0 .. MaxFlows
    <3>1. Len(log.lines) <= MaxFlows
      <4>1. CASE log.there
        BY <1>len, <1>w, <1>fill, <1>z, <4>1
      <4>2. CASE ~log.there
        BY <1>len, <1>w, <1>fill, <1>z, <4>2
      <4>3. QED
        BY <4>1, <4>2
    <3>2. QED
      BY <1>len, <1>z, <3>1
  <2>2. totals' \in TotalsState
    BY <1>z, <1>t, <1>6, <2>1 DEF ReadLog, TotalsState, GetStages
  <2>3. LinesFrom(log, totals.offset) \in Lines
    BY <1>0, <1>t, LinesFromType
  <2>4. QED
    BY <1>0, <1>1, <1>6, <1>t, <2>2, <2>3, CountType DEF ReadLog, auditFiles
<1>7. CASE GetFails
  <2>1. totals' \in TotalsState
    BY <1>z, <1>t, <1>7 DEF GetFails, TotalsState, GetStages
  <2>2. QED
    BY <1>0, <1>1, <1>7, <2>1 DEF GetFails, auditFiles
\* Steps of the writer: the totals stay.
<1>8. ASSUME UNCHANGED <<totals, counted, owed>>, missed' \in BOOLEAN,
             log' \in LogFile, rotated' \in LogFile,
             writer' \in WriterState,
             FilesAreFilled'
      PROVE  TotalsTypes'
  BY <1>0, <1>8 DEF TotalsTypes, TotalsTypeOK, WriterState, WriterStages, TotalsState, GetStages
<1>9. CASE RotateAudit
  <2>1. writer' = [writer EXCEPT !.at = "open"] /\ writer.at = "rest" /\ writer.flow <= MaxFlows
        /\ UNCHANGED <<totals, counted, owed>>
    BY <1>9 DEF RotateAudit, reading
  <2>2. /\ writer' \in WriterState
        /\ writer'.at = "open" /\ writer'.flow = writer.flow /\ writer'.files = writer.files
    BY <1>t, <2>1, WriterAt DEF WriterStages
  <2>3. CASE log.there /\ Len(log.lines) >= LogLimit
    <3>1. rotated' = log /\ log' = NoFile /\ missed' \in BOOLEAN
      BY <1>9, <2>3 DEF RotateAudit
    <3>2. Len(log'.lines) = 0 /\ ~log'.there
      BY <3>1, NoFileType
    <3>3. FilesAreFilled'
      BY <1>z, <1>len, <1>w, <1>fill, <2>1, <2>2, <2>3, <3>2 DEF FilesAreFilled
    <3>4. QED
      BY <1>0, <1>8, <2>1, <2>2, <3>1, <3>3, NoFileType
  <2>4. CASE ~(log.there /\ Len(log.lines) >= LogLimit)
    <3>1. UNCHANGED <<log, rotated, missed>>
      BY <1>9, <2>4 DEF RotateAudit, auditFiles
    <3>2. FilesAreFilled'
      BY <1>len, <1>w, <1>fill, <2>1, <2>2, <3>1 DEF FilesAreFilled
    <3>3. QED
      BY <1>0, <1>8, <2>1, <2>2, <3>1, <3>2
  <2>5. QED
    BY <2>3, <2>4
<1>10. CASE OpenLog
  <2>1. writer.at = "open" /\ UNCHANGED <<rotated, totals, counted, owed>>
    BY <1>10 DEF OpenLog, reading
  <2>2. CASE log.there
    <3>1. writer' = [writer EXCEPT !.at = "data"] /\ UNCHANGED <<log, missed>>
      BY <1>10, <2>2 DEF OpenLog
    <3>2. /\ writer' \in WriterState
          /\ writer'.at = "data" /\ writer'.flow = writer.flow /\ writer'.files = writer.files
      BY <1>t, <3>1, WriterAt DEF WriterStages
    <3>3. FilesAreFilled'
      BY <1>len, <1>w, <1>fill, <2>1, <3>1, <3>2 DEF FilesAreFilled
    <3>4. QED
      BY <1>0, <1>8, <2>1, <3>1, <3>2, <3>3
  <2>3. CASE ~log.there
    <3>1. /\ log' = [NoFile EXCEPT !.there = TRUE, !.id = writer.files + 1]
          /\ writer' = [writer EXCEPT !.at = "data", !.files = writer.files + 1]
          /\ missed' \in BOOLEAN
      BY <1>10, <2>3 DEF OpenLog
    <3>2. writer.files + 1 \in 1 .. MaxFlows
      BY <1>len, <1>w, <1>z, <1>fill, <2>1, <2>3
    <3>3. /\ writer' \in WriterState
          /\ writer'.at = "data" /\ writer'.flow = writer.flow /\ writer'.files = writer.files + 1
      <4>1. PICK files \in 0 .. MaxFlows : files = writer.files + 1
        BY <3>2
      <4>2. writer' = [writer EXCEPT !.at = "data", !.files = files]
        BY <3>1, <4>1
      <4>3. writer' \in WriterState /\ writer'.at = "data" /\ writer'.flow = writer.flow
            /\ writer'.files = files
        BY <1>t, <4>2 DEF WriterState, WriterStages
      <4>4. QED
        BY <4>1, <4>3
    <3>4. log' \in LogFile /\ Len(log'.lines) = 0 /\ log'.there
      <4>1. writer.files + 1 \in 0 .. MaxFlows
        BY <3>2
      <4>2. QED
        BY <3>1, <4>1, NewFileType
    <3>5. FilesAreFilled'
      BY <1>len, <1>w, <1>fill, <2>1, <2>3, <3>2, <3>3, <3>4 DEF FilesAreFilled
    <3>6. QED
      BY <1>0, <1>8, <2>1, <3>1, <3>3, <3>4, <3>5
  <2>4. QED
    BY <2>2, <2>3
<1>11. CASE WriteEntry
  <2>1. /\ writer.at = "data" /\ writer' = [writer EXCEPT !.at = "newline"]
        /\ log' = [log EXCEPT !.unfinished = IF log.unfinished = FinishedLine THEN writer.flow
                                             ELSE Corrupt]
        /\ UNCHANGED <<rotated, totals, counted, owed, missed>>
    BY <1>11 DEF WriteEntry, reading
  <2>2. /\ writer' \in WriterState
        /\ writer'.at = "newline" /\ writer'.flow = writer.flow /\ writer'.files = writer.files
    BY <1>t, <2>1, WriterAt DEF WriterStages
  <2>3. /\ log' \in LogFile /\ log'.lines = log.lines /\ log'.there = log.there
        /\ log'.unfinished \in {Corrupt, writer.flow}
    <3>1. PICK v \in 0 .. MaxFlows : /\ v \in {Corrupt, writer.flow}
                                     /\ log' = [log EXCEPT !.unfinished = v]
      BY <1>z, <1>at, <2>1 DEF Corrupt
    <3>2. v \in -1 .. MaxFlows
      BY <1>z, <3>1
    <3>3. QED
      BY <1>0, <3>1, <3>2, EntryType
  <2>4. FilesAreFilled'
    BY <1>len, <1>w, <1>fill, <2>1, <2>2, <2>3 DEF FilesAreFilled, Corrupt, FinishedLine
  <2>5. QED
    BY <1>0, <1>8, <2>1, <2>2, <2>3, <2>4
<1>12. CASE WriteNewline
  <2>1. /\ writer.at = "newline" /\ writer' = [writer EXCEPT !.at = "rest", !.flow = writer.flow + 1]
        /\ log' = [log EXCEPT !.lines = Append(log.lines, log.unfinished), !.unfinished = FinishedLine]
        /\ UNCHANGED <<rotated, totals, counted, owed, missed>>
    BY <1>12 DEF WriteNewline, reading
  <2>2. /\ writer' \in WriterState
        /\ writer'.at = "rest" /\ writer'.flow = writer.flow + 1 /\ writer'.files = writer.files
    <3>1. PICK flow \in 1 .. MaxFlows + 1 : flow = writer.flow + 1
      BY <1>at, <2>1
    <3>2. writer' = [writer EXCEPT !.at = "rest", !.flow = flow]
      BY <2>1, <3>1
    <3>3. writer' \in WriterState /\ writer'.at = "rest" /\ writer'.flow = flow
          /\ writer'.files = writer.files
      BY <1>t, <3>2 DEF WriterState, WriterStages
    <3>4. QED
      BY <3>1, <3>3
  <2>3. log.unfinished \in 0 .. MaxFlows
    BY <1>len, <1>fill, <2>1 DEF FinishedLine
  <2>5. log' \in LogFile /\ Len(log'.lines) = Len(log.lines) + 1 /\ log'.there = log.there
    BY <1>0, <2>1, <2>3, LineType
  <2>6. FilesAreFilled'
    BY <1>len, <1>w, <1>fill, <2>2, <2>5 DEF FilesAreFilled
  <2>7. QED
    BY <1>0, <1>8, <2>1, <2>2, <2>5, <2>6
<1>13. CASE TotalsLost
  <2>1. /\ writer' = [writer EXCEPT !.at = "rest",
                       !.flow = IF writer.at = "newline" THEN writer.flow + 1 ELSE writer.flow]
        /\ totals' = NewTotals /\ counted' = [f \in Flows |-> 0] /\ owed' = {} /\ missed' = FALSE
        /\ UNCHANGED <<log, rotated>>
    BY <1>13 DEF TotalsLost, auditFiles
  <2>2. /\ writer' \in WriterState
        /\ writer'.at = "rest" /\ writer'.flow >= writer.flow /\ writer'.files = writer.files
    <3>1. PICK flow \in 1 .. MaxFlows + 1 :
             flow >= writer.flow /\ writer' = [writer EXCEPT !.at = "rest", !.flow = flow]
      <4>1. ASSUME writer.at = "newline"
            PROVE  /\ writer.flow + 1 \in 1 .. MaxFlows + 1 /\ writer.flow + 1 >= writer.flow
                   /\ writer' = [writer EXCEPT !.at = "rest", !.flow = writer.flow + 1]
        BY <1>w, <1>at, <2>1, <4>1
      <4>2. ASSUME writer.at # "newline"
            PROVE  /\ writer.flow \in 1 .. MaxFlows + 1 /\ writer.flow >= writer.flow
                   /\ writer' = [writer EXCEPT !.at = "rest", !.flow = writer.flow]
        BY <1>w, <2>1, <4>2
      <4>3. QED
        BY <4>1, <4>2
    <3>2. QED
      <4>1. writer' \in WriterState /\ writer'.at = "rest" /\ writer'.flow = flow
            /\ writer'.files = writer.files
        BY <1>t, <3>1 DEF WriterState, WriterStages
      <4>2. QED
        BY <3>1, <4>1
  <2>3. FilesAreFilled'
    <3>1. writer'.flow \in 1 .. MaxFlows + 1
      BY <2>2 DEF WriterState
    <3>2. QED
      BY <1>len, <1>w, <1>fill, <2>1, <2>2, <3>1 DEF FilesAreFilled
  <2>4. NewTotals \in TotalsState
    BY NewTotalsType
  <2>5. counted' \in [Flows -> 0 .. 2]
    BY <2>1
  <2>6. QED
    BY <1>0, <2>1, <2>2, <2>3, <2>4, <2>5
    DEF TotalsTypes, TotalsTypeOK, WriterState, WriterStages, TotalsState, GetStages
<1>14. CASE UNCHANGED totalsVars
  BY <1>14 DEF totalsVars, TotalsTypes, TotalsTypeOK, FilesAreFilled
<1>15. QED
  BY <1>2, <1>3, <1>4, <1>5, <1>6, <1>7, <1>9, <1>10, <1>11, <1>12, <1>13, <1>14 DEF TotalsNext

LEMMA TotalsInitTypes == TotalsInit => TotalsTypes
<1> SUFFICES ASSUME TotalsInit PROVE TotalsTypes
  OBVIOUS
<1>1. Len(log.lines) = 0 /\ ~log.there
  BY NoFileType DEF TotalsInit
<1>2. TotalsTypeOK
  <2>1. writer \in WriterState
    <3>1. 1 \in 1 .. MaxFlows + 1 /\ 0 \in 0 .. MaxFlows
      BY TotalsAssumption
    <3>2. QED
      BY <3>1 DEF TotalsInit, WriterState, WriterStages
  <2>2. totals \in TotalsState
    BY NewTotalsType DEF TotalsInit
  <2>3. counted \in [Flows -> 0 .. 2] /\ owed \subseteq Flows /\ missed \in BOOLEAN
    <3>1. counted = [f \in Flows |-> 0] /\ owed = {} /\ missed = FALSE
      BY DEF TotalsInit
    <3>2. [f \in Flows |-> 0] \in [Flows -> 0 .. 2]
      OBVIOUS
    <3>3. QED
      BY <3>1, <3>2
  <2>4. QED
    BY <2>1, <2>2, <2>3, NoFileType
    DEF TotalsInit, TotalsTypeOK, WriterState, WriterStages, TotalsState, GetStages
<1>3. FilesAreFilled
  BY <1>1 DEF TotalsInit, FilesAreFilled
<1>4. QED
  BY <1>2, <1>3 DEF TotalsTypes

\* Writer and reader keep every variable within its type: no more files than
\* connections, and no offset beyond the lines there can be.
THEOREM TotalsTypeCorrect == TotalsSpec => []TotalsTypeOK
<1>1. TotalsTypes => TotalsTypeOK
  BY DEF TotalsTypes
<1>2. QED
  BY <1>1, TotalsInitTypes, TotalsTypeStep, PTL DEF TotalsSpec

-----------------------------------------------------------------------------
(* The running totals: every connection counted once *)

\* No connection has two lines, in one file or in two, and those without any are to come.
LinesDiffer ==
  /\ \A i, j \in 1 .. Len(log.lines) :
       log.lines[i] = log.lines[j] /\ log.lines[i] # Corrupt => i = j
  /\ \A i, j \in 1 .. Len(rotated.lines) :
       rotated.lines[i] = rotated.lines[j] /\ rotated.lines[i] # Corrupt => i = j
  /\ \A i \in 1 .. Len(log.lines), j \in 1 .. Len(rotated.lines) :
       log.lines[i] = rotated.lines[j] => log.lines[i] = Corrupt
  /\ \A i \in 1 .. Len(log.lines) : log.lines[i] < writer.flow
  /\ \A i \in 1 .. Len(rotated.lines) : rotated.lines[i] < writer.flow

\* The log is the latest file made, and only the connection at hand is half written.
FilesInOrder ==
  /\ IF log.there THEN log.id = writer.files /\ rotated.id < log.id
     ELSE log.id = 0 /\ Len(log.lines) = 0
  /\ rotated.id <= writer.files
  /\ writer.at \in {"data", "newline"} => log.there
  /\ writer.at = "newline" => log.unfinished \in {Corrupt, writer.flow}

\* How many lines of each file are in the totals.
ReadOfRotated ==
  IF ~totals.known THEN 0
  ELSE IF totals.file # 0 /\ totals.file = rotated.id THEN totals.offset
  ELSE Len(rotated.lines)

ReadOfLog == IF totals.file # 0 /\ totals.file = log.id THEN totals.offset ELSE 0

\* Those lines, and no others, have been counted, once.
ReadIsCounted ==
  /\ ReadOfRotated <= Len(rotated.lines) /\ ReadOfLog <= Len(log.lines)
  /\ \A i \in 1 .. Len(rotated.lines) : rotated.lines[i] # Corrupt =>
       counted[rotated.lines[i]] = IF i <= ReadOfRotated THEN 1 ELSE 0
  /\ \A i \in 1 .. Len(log.lines) : log.lines[i] # Corrupt =>
       counted[log.lines[i]] = IF i <= ReadOfLog THEN 1 ELSE 0
  /\ \A f \in Flows : counted[f] <= 1 /\ (f >= writer.flow => counted[f] = 0)
  /\ \A f \in owed : counted[f] = 1

\* The totals know which of the two files they are in, and a get sees no other log than
\* the one it began with.
GetKnowsFile ==
  /\ ~totals.known => totals.file = 0 /\ totals.at \in {"rest", "first"}
  /\ totals.at = "first" => ~totals.known
  /\ totals.file = 0 => totals.offset = 0
  /\ totals.file \in {0, log.id, rotated.id}
  /\ totals.at = "stat" /\ totals.file # 0 => log.there
  /\ totals.at = "rest of old" =>
       log.there /\ totals.file = rotated.id /\ totals.file # 0 /\ totals.info = log.id
  /\ totals.at = "read" => totals.file = log.id
  /\ totals.at # "rest" => totals.seen \subseteq FlowsIn(log) \cup FlowsIn(rotated)

TotalsInv ==
  /\ TotalsTypes /\ LinesDiffer /\ FilesInOrder
  /\ ~missed => ReadIsCounted /\ GetKnowsFile

\* Lines that differ, none of which was counted, are counted once.
LEMMA CountOnce ==
  ASSUME counted \in [Flows -> 0 .. 2], NEW lines \in Lines,
         \A i, j \in 1 .. Len(lines) : lines[i] = lines[j] /\ lines[i] # Corrupt => i = j,
         \A i \in 1 .. Len(lines) : lines[i] # Corrupt => counted[lines[i]] = 0,
         \A f \in Flows : counted[f] <= 1,
         CountFlows(lines)
  PROVE  \A f \in Flows :
           counted'[f] = IF \E i \in 1 .. Len(lines) : lines[i] = f THEN 1 ELSE counted[f]
<1> DEFINE at(f) == {i \in DOMAIN lines : lines[i] = f}
<1>1. DOMAIN lines = 1 .. Len(lines) /\ Len(lines) \in Nat
  BY LenProperties DEF Lines
<1>2. SUFFICES ASSUME NEW f \in Flows
      PROVE  counted'[f] = IF \E i \in 1 .. Len(lines) : lines[i] = f THEN 1 ELSE counted[f]
  OBVIOUS
<1>3. counted'[f] = IF counted[f] + Cardinality(at(f)) > 2 THEN 2
                    ELSE counted[f] + Cardinality(at(f))
  BY DEF CountFlows
<1>4. f # Corrupt /\ counted[f] \in 0 .. 1
  BY TotalsAssumption DEF Flows, Corrupt
<1>5. CASE \E i \in 1 .. Len(lines) : lines[i] = f
  <2>1. PICK i \in 1 .. Len(lines) : lines[i] = f
    BY <1>5
  <2>2. at(f) = {i}
    BY <1>1, <1>4, <2>1
  <2>3. Cardinality(at(f)) = 1
    <3> HIDE DEF at
    <3>1. QED
      BY <2>2, FS_Singleton
  <2>4. counted[f] = 0
    BY <1>4, <2>1
  <2>5. QED
    <3> HIDE DEF at
    <3>1. QED
      BY <1>3, <1>5, <2>3, <2>4
<1>6. CASE ~\E i \in 1 .. Len(lines) : lines[i] = f
  <2>1. at(f) = {}
    BY <1>1, <1>6
  <2>2. Cardinality(at(f)) = 0
    <3> HIDE DEF at
    <3>1. QED
      BY <2>1, FS_EmptySet
  <2>3. QED
    <3> HIDE DEF at
    <3>1. QED
      BY <1>3, <1>4, <1>6, <2>2
<1>7. QED
  BY <1>5, <1>6

\* The lines from an offset on.
LEMMA LinesLeft ==
  ASSUME NEW file \in LogFile, NEW n \in Nat, n <= Len(file.lines)
  PROVE  /\ LinesFrom(file, n) \in Lines
         /\ Len(LinesFrom(file, n)) = Len(file.lines) - n
         /\ \A i \in 1 .. Len(file.lines) - n : LinesFrom(file, n)[i] = file.lines[i + n]
<1>1. /\ file.lines \in Seq(0 .. MaxFlows) /\ Len(file.lines) \in Nat
      /\ \A i \in 1 .. Len(file.lines) : file.lines[i] \in 0 .. MaxFlows
  BY FileFields DEF Lines
<1>2. LinesFrom(file, n) = SubSeq(file.lines, n + 1, Len(file.lines))
  <2>1. ~(Len(file.lines) < n)
    BY <1>1
  <2>2. QED
    BY <2>1 DEF LinesFrom
<1>3. n + 1 \in Int /\ \A i \in n + 1 .. Len(file.lines) : file.lines[i] \in 0 .. MaxFlows
  BY <1>1
<1>4. /\ Len(SubSeq(file.lines, n + 1, Len(file.lines))) = Len(file.lines) - n
      /\ \A i \in 1 .. Len(file.lines) - n :
           SubSeq(file.lines, n + 1, Len(file.lines))[i] = file.lines[i + n]
  <2>1. PICK lines : lines = file.lines
    OBVIOUS
  <2>2. PICK m \in Nat : m = Len(file.lines)
    BY <1>1
  <2>3. lines \in Seq(0 .. MaxFlows) /\ m = Len(lines)
    BY <1>1, <2>1, <2>2
  <2>4. Len(SubSeq(lines, n + 1, m)) = m - n
        /\ \A i \in 1 .. m - n : SubSeq(lines, n + 1, m)[i] = lines[i + n]
    BY <1>3, <2>1, <2>2, <2>3, SubSeqProperties
  <2>5. QED
    BY <2>1, <2>2, <2>4
<1>5. QED
  BY <1>2, <1>4, LinesFromType

\* Counting the rest of a file makes all of it counted, and nothing else.
LEMMA RestIsCounted ==
  ASSUME counted \in [Flows -> 0 .. 2], NEW file \in LogFile, NEW n \in Nat,
         n <= Len(file.lines),
         \A i, j \in 1 .. Len(file.lines) :
           file.lines[i] = file.lines[j] /\ file.lines[i] # Corrupt => i = j,
         \A i \in 1 .. Len(file.lines) : file.lines[i] # Corrupt =>
           counted[file.lines[i]] = IF i <= n THEN 1 ELSE 0,
         \A f \in Flows : counted[f] <= 1,
         CountFlows(LinesFrom(file, n))
  PROVE  \A f \in Flows :
           counted'[f] = IF \E i \in 1 .. Len(file.lines) : file.lines[i] = f THEN 1
                         ELSE counted[f]
<1>0. Len(file.lines) \in Nat
  BY FileFields
<1>1. PICK rest \in Lines : rest = LinesFrom(file, n)
  BY LinesLeft
<1>2. /\ Len(rest) = Len(file.lines) - n
      /\ \A i \in 1 .. Len(rest) : rest[i] = file.lines[i + n] /\ i + n \in 1 .. Len(file.lines)
  BY <1>0, <1>1, LinesLeft
<1>3. ASSUME NEW i \in 1 .. Len(rest), NEW j \in 1 .. Len(rest),
             rest[i] = rest[j], rest[i] # Corrupt
      PROVE  i = j
  <2>1. /\ i + n \in 1 .. Len(file.lines) /\ rest[i] = file.lines[i + n]
        /\ j + n \in 1 .. Len(file.lines) /\ rest[j] = file.lines[j + n]
    BY <1>2
  <2>2. i + n = j + n
    BY <1>3, <2>1
  <2>3. QED
    BY <1>0, <1>2, <2>2
<1>4. ASSUME NEW i \in 1 .. Len(rest), rest[i] # Corrupt PROVE counted[rest[i]] = 0
  <2>1. PICK j \in 1 .. Len(file.lines) : j = i + n /\ rest[i] = file.lines[j]
    BY <1>2
  <2>2. ~(j <= n)
    BY <1>0, <1>2, <2>1
  <2>3. QED
    BY <1>4, <2>1, <2>2
<1>5. \A f \in Flows : counted'[f] = IF \E i \in 1 .. Len(rest) : rest[i] = f THEN 1 ELSE counted[f]
  <2>1. \A i, j \in 1 .. Len(rest) : rest[i] = rest[j] /\ rest[i] # Corrupt => i = j
    BY <1>3
  <2>2. \A i \in 1 .. Len(rest) : rest[i] # Corrupt => counted[rest[i]] = 0
    BY <1>4
  <2>3. QED
    BY <1>1, <2>1, <2>2, CountOnce
<1>6. ASSUME NEW f \in Flows
      PROVE  counted'[f] = IF \E i \in 1 .. Len(file.lines) : file.lines[i] = f THEN 1
                           ELSE counted[f]
  <2>1. f # Corrupt
    BY TotalsAssumption DEF Flows, Corrupt
  <2>2. CASE \E i \in 1 .. Len(rest) : rest[i] = f
    <3>1. PICK i \in 1 .. Len(rest) : rest[i] = f
      BY <2>2
    <3>2. i + n \in 1 .. Len(file.lines) /\ file.lines[i + n] = f
      BY <1>2, <3>1
    <3>3. \E j \in 1 .. Len(file.lines) : file.lines[j] = f
      BY <3>2
    <3>4. counted'[f] = 1
      BY <1>5, <2>2
    <3>5. QED
      BY <3>3, <3>4
  <2>3. ASSUME ~\E i \in 1 .. Len(rest) : rest[i] = f, NEW i \in 1 .. Len(file.lines), file.lines[i] = f
        PROVE  counted[f] = 1
    <3>1. i <= n
      <4>1. ASSUME i > n PROVE FALSE
        <5>1. i - n \in 1 .. Len(rest) /\ (i - n) + n = i
          BY <1>0, <1>2, <4>1
        <5>2. QED
          BY <1>2, <2>3, <5>1
      <4>2. QED
        BY <4>1
    <3>2. QED
      BY <2>1, <2>3, <3>1
  <2>4. QED
    BY <1>5, <2>2, <2>3
<1>7. QED
  BY <1>6

\* Lines and their numbers, as the provers need them.
LEMMA TotalsFields ==
  ASSUME TotalsTypes
  PROVE  /\ log \in LogFile /\ rotated \in LogFile
         /\ log.id \in Nat /\ rotated.id \in Nat
         /\ Len(log.lines) \in Nat /\ Len(rotated.lines) \in Nat
         /\ \A i \in 1 .. Len(log.lines) : log.lines[i] \in 0 .. MaxFlows
         /\ \A i \in 1 .. Len(rotated.lines) : rotated.lines[i] \in 0 .. MaxFlows
         /\ totals \in TotalsState /\ totals.file \in Nat /\ totals.offset \in Nat
         /\ totals.known \in BOOLEAN
         /\ writer.flow \in Nat /\ writer.files \in Nat
         /\ counted \in [Flows -> 0 .. 2] /\ owed \subseteq Flows
<1>1. /\ log \in LogFile /\ rotated \in LogFile /\ totals \in TotalsState
      /\ counted \in [Flows -> 0 .. 2] /\ owed \subseteq Flows /\ writer \in WriterState
  BY DEF TotalsTypes, TotalsTypeOK, TotalsState, GetStages, WriterState, WriterStages
<1>2. /\ totals.file \in 0 .. MaxFlows /\ totals.offset \in 0 .. MaxFlows /\ totals.known \in BOOLEAN
  BY <1>1 DEF TotalsState
<1>3. /\ writer.flow \in 1 .. MaxFlows + 1 /\ writer.files \in 0 .. MaxFlows
  BY <1>1 DEF WriterState
<1>4. /\ log.id \in 0 .. MaxFlows /\ rotated.id \in 0 .. MaxFlows
      /\ Len(log.lines) \in Nat /\ Len(rotated.lines) \in Nat
      /\ \A i \in 1 .. Len(log.lines) : log.lines[i] \in 0 .. MaxFlows
      /\ \A i \in 1 .. Len(rotated.lines) : rotated.lines[i] \in 0 .. MaxFlows
  BY <1>1, FileFields
<1>5. QED
  BY <1>1, <1>2, <1>3, <1>4

\* Line by line, what a file's connections are.
LEMMA FlowsInFile ==
  ASSUME NEW file \in LogFile
  PROVE  /\ \A i \in 1 .. Len(file.lines) : file.lines[i] # Corrupt => file.lines[i] \in Flows
         /\ \A f \in FlowsIn(file) : \E i \in 1 .. Len(file.lines) : file.lines[i] = f
         /\ Corrupt \notin FlowsIn(file)
         /\ \A i \in 1 .. Len(file.lines) : file.lines[i] # Corrupt => file.lines[i] \in FlowsIn(file)
<1>1. DOMAIN file.lines = 1 .. Len(file.lines)
      /\ \A i \in 1 .. Len(file.lines) : file.lines[i] \in 0 .. MaxFlows
  BY FileFields
<1>2. QED
  BY <1>1, TotalsAssumption DEF FlowsIn, Range, Flows, Corrupt

\* Files, writer and what is counted stay, and a get changes place without losing track.
LEMMA PlaceChanges ==
  ASSUME TotalsInv, ~missed, UNCHANGED <<log, rotated, writer, counted, owed>>,
         ReadOfRotated' = ReadOfRotated, ReadOfLog' = ReadOfLog
  PROVE  ReadIsCounted'
BY DEF TotalsInv, ReadIsCounted

\* The rotated log is in the totals as a whole, and of the log nothing.
LEMMA RotatedIsCounted ==
  ASSUME TotalsTypes, LinesDiffer, ReadIsCounted, UNCHANGED <<log, rotated, writer, owed>>,
         \A f \in Flows : counted'[f] =
           IF \E i \in 1 .. Len(rotated.lines) : rotated.lines[i] = f THEN 1 ELSE counted[f],
         ReadOfLog = 0, ReadOfRotated' = Len(rotated.lines), ReadOfLog' = 0
  PROVE  ReadIsCounted'
<1>1. /\ log \in LogFile /\ rotated \in LogFile /\ Len(log.lines) \in Nat
      /\ Len(rotated.lines) \in Nat /\ owed \subseteq Flows /\ writer.flow \in Nat
      /\ \A i \in 1 .. Len(rotated.lines) : rotated.lines[i] \in 0 .. MaxFlows
  BY TotalsFields
<1>2. \A i \in 1 .. Len(rotated.lines) : rotated.lines[i] # Corrupt => counted'[rotated.lines[i]] = 1
  BY <1>1, FlowsInFile
<1>3. ASSUME NEW i \in 1 .. Len(log.lines), log.lines[i] # Corrupt
      PROVE  counted'[log.lines[i]] = 0
  <2>1. log.lines[i] \in Flows /\ counted[log.lines[i]] = 0
    BY <1>1, <1>3, FlowsInFile DEF ReadIsCounted
  <2>2. ~\E j \in 1 .. Len(rotated.lines) : rotated.lines[j] = log.lines[i]
    BY <1>3 DEF LinesDiffer
  <2>3. QED
    BY <2>1, <2>2
<1>4. ASSUME NEW f \in Flows
      PROVE  counted'[f] <= 1 /\ (f >= writer.flow => counted'[f] = 0)
  <2>1. counted[f] <= 1 /\ (f >= writer.flow => counted[f] = 0)
    BY DEF ReadIsCounted
  <2>2. f >= writer.flow => ~\E i \in 1 .. Len(rotated.lines) : rotated.lines[i] = f
    BY <1>1 DEF LinesDiffer
  <2>3. QED
    BY <2>1, <2>2
<1>5. \A f \in owed : counted'[f] = 1
  BY <1>1 DEF ReadIsCounted
<1>6. QED
  BY <1>1, <1>2, <1>3, <1>4, <1>5 DEF ReadIsCounted

\* Both files are in the totals as a whole.
LEMMA LogIsCounted ==
  ASSUME TotalsTypes, LinesDiffer, ReadIsCounted, UNCHANGED <<log, rotated, writer>>,
         \A f \in Flows : counted'[f] =
           IF \E i \in 1 .. Len(log.lines) : log.lines[i] = f THEN 1 ELSE counted[f],
         owed' \subseteq FlowsIn(log) \cup FlowsIn(rotated),
         ReadOfRotated = Len(rotated.lines),
         ReadOfRotated' = Len(rotated.lines), ReadOfLog' = Len(log.lines)
  PROVE  ReadIsCounted'
<1>1. /\ log \in LogFile /\ rotated \in LogFile /\ Len(log.lines) \in Nat
      /\ Len(rotated.lines) \in Nat /\ writer.flow \in Nat
      /\ \A i \in 1 .. Len(log.lines) : log.lines[i] \in 0 .. MaxFlows
  BY TotalsFields
<1>2. \A i \in 1 .. Len(log.lines) : log.lines[i] # Corrupt => counted'[log.lines[i]] = 1
  BY <1>1, FlowsInFile
<1>3. ASSUME NEW i \in 1 .. Len(rotated.lines), rotated.lines[i] # Corrupt
      PROVE  counted'[rotated.lines[i]] = 1
  <2>1. rotated.lines[i] \in Flows /\ counted[rotated.lines[i]] = 1
    <3>1. i <= ReadOfRotated
      BY <1>1
    <3>2. QED
      BY <1>1, <1>3, <3>1, FlowsInFile DEF ReadIsCounted
  <2>2. QED
    BY <2>1
<1>4. ASSUME NEW f \in Flows
      PROVE  counted'[f] <= 1 /\ (f >= writer.flow => counted'[f] = 0)
  <2>1. counted[f] <= 1 /\ (f >= writer.flow => counted[f] = 0)
    BY DEF ReadIsCounted
  <2>2. f >= writer.flow => ~\E i \in 1 .. Len(log.lines) : log.lines[i] = f
    BY <1>1 DEF LinesDiffer
  <2>3. QED
    BY <2>1, <2>2
<1>5. ASSUME NEW f \in owed' PROVE counted'[f] = 1
  <2>1. CASE f \in FlowsIn(log)
    <3>1. PICK i \in 1 .. Len(log.lines) : log.lines[i] = f
      BY <1>1, <2>1, FlowsInFile
    <3>2. f # Corrupt
      BY <1>1, <2>1, FlowsInFile
    <3>3. QED
      BY <1>2, <3>1, <3>2
  <2>2. CASE f \in FlowsIn(rotated)
    <3>1. PICK i \in 1 .. Len(rotated.lines) : rotated.lines[i] = f
      BY <1>1, <2>2, FlowsInFile
    <3>2. f # Corrupt
      BY <1>1, <2>2, FlowsInFile
    <3>3. QED
      BY <1>3, <3>1, <3>2
  <2>3. QED
    BY <1>5, <2>1, <2>2
<1>6. QED
  BY <1>1, <1>2, <1>3, <1>4, <1>5 DEF ReadIsCounted

\* A get: neither files nor writer change.
LEMMA GetKeepsTrack ==
  ASSUME TotalsInv, ~missed',
         BeginGet \/ ReadFirst \/ StatLog \/ ReadRest \/ ReadLog \/ GetFails
  PROVE  ReadIsCounted' /\ GetKnowsFile'
<1>0. UNCHANGED <<log, rotated, writer>> /\ ~missed
  <2>1. UNCHANGED <<log, rotated, writer>>
    BY DEF BeginGet, ReadFirst, StatLog, ReadRest, ReadLog, GetFails, auditFiles
  <2>2. ~missed
    <3>1. CASE BeginGet
      BY <3>1 DEF BeginGet
    <3>2. CASE ReadFirst \/ StatLog \/ ReadRest \/ ReadLog \/ GetFails
      <4>1. UNCHANGED missed
        BY <3>2 DEF ReadFirst, StatLog, ReadRest, ReadLog, GetFails
      <4>2. QED
        BY <4>1
    <3>3. QED
      BY <3>1, <3>2
  <2>3. QED
    BY <2>1, <2>2
<1>1. ReadIsCounted /\ GetKnowsFile /\ LinesDiffer /\ FilesInOrder /\ TotalsTypes
  BY <1>0 DEF TotalsInv
<1>2. totals \in TotalsState /\ totals.file \in Nat /\ totals.offset \in Nat
      /\ log.id \in Nat /\ rotated.id \in Nat
      /\ Len(log.lines) \in Nat /\ Len(rotated.lines) \in Nat
      /\ log \in LogFile /\ rotated \in LogFile /\ counted \in [Flows -> 0 .. 2]
      /\ owed \subseteq Flows /\ totals.known \in BOOLEAN
  BY <1>1, TotalsFields
\* The logs that are there have different numbers.
<1>3. log.there => log.id # 0 /\ log.id # rotated.id
  BY <1>1, <1>2 DEF FilesInOrder
<1>4. ~log.there => log.id = 0 /\ Len(log.lines) = 0
  BY <1>1 DEF FilesInOrder
<1>5. CASE BeginGet
  <2>1. /\ totals.at = "rest" /\ (totals.file = 0 \/ log.there)
        /\ totals' = [totals EXCEPT !.at = IF totals.known THEN "stat" ELSE "first",
                                    !.seen = FlowsIn(log) \cup FlowsIn(rotated)]
        /\ UNCHANGED <<counted, owed>>
    BY <1>0, <1>5 DEF BeginGet
  <2>2. /\ totals'.at = IF totals.known THEN "stat" ELSE "first"
        /\ totals'.seen = FlowsIn(log) \cup FlowsIn(rotated)
        /\ totals'.known = totals.known /\ totals'.file = totals.file
        /\ totals'.offset = totals.offset
    BY <1>2, <2>1 DEF TotalsState
  <2>3. ReadOfRotated' = ReadOfRotated /\ ReadOfLog' = ReadOfLog
    BY <1>0, <2>2 DEF ReadOfRotated, ReadOfLog
  <2>4. GetKnowsFile'
    BY <1>0, <1>1, <1>2, <2>1, <2>2 DEF GetKnowsFile, FlowsIn
  <2>5. QED
    BY <1>0, <2>1, <2>3, <2>4, PlaceChanges
<1>6. CASE StatLog
  <2>1. /\ totals.at = "stat" /\ UNCHANGED <<counted, owed>>
        /\ totals' =
             IF log.there /\ totals.file \notin {0, log.id}
             THEN [totals EXCEPT !.at = "rest of old", !.info = log.id]
             ELSE [totals EXCEPT !.at = "read", !.file = IF log.there THEN log.id ELSE totals.file]
    BY <1>6 DEF StatLog
  <2>2. totals.known /\ (totals.file = 0 => totals.offset = 0) /\ totals.file \in {0, log.id, rotated.id}
        /\ (totals.file # 0 => log.there)
        /\ totals.seen \subseteq FlowsIn(log) \cup FlowsIn(rotated)
    BY <1>1, <1>2, <2>1 DEF GetKnowsFile
  <2>3. CASE log.there /\ totals.file \notin {0, log.id}
    <3>1. /\ totals'.at = "rest of old" /\ totals'.info = log.id
          /\ totals'.known = totals.known /\ totals'.file = totals.file
          /\ totals'.offset = totals.offset /\ totals'.seen = totals.seen
      BY <1>2, <2>1, <2>3 DEF TotalsState
    <3>2. ReadOfRotated' = ReadOfRotated /\ ReadOfLog' = ReadOfLog
      BY <1>0, <3>1 DEF ReadOfRotated, ReadOfLog
    <3>3. GetKnowsFile'
      BY <1>0, <2>2, <2>3, <3>1 DEF GetKnowsFile, FlowsIn
    <3>4. QED
      BY <1>0, <2>1, <3>2, <3>3, PlaceChanges
  <2>4. CASE ~(log.there /\ totals.file \notin {0, log.id})
    <3>1. /\ totals'.at = "read" /\ totals'.file = IF log.there THEN log.id ELSE totals.file
          /\ totals'.known = totals.known
          /\ totals'.offset = totals.offset /\ totals'.seen = totals.seen
      BY <1>2, <2>1, <2>4 DEF TotalsState
    <3>2. totals'.file = log.id /\ (totals.file = totals'.file \/ totals.file = 0)
      BY <1>4, <2>2, <2>4, <3>1
    <3>3. ReadOfRotated' = ReadOfRotated /\ ReadOfLog' = ReadOfLog
      BY <1>0, <1>3, <1>4, <2>2, <3>1, <3>2 DEF ReadOfRotated, ReadOfLog
    <3>4. GetKnowsFile'
      BY <1>0, <1>4, <2>2, <3>1, <3>2 DEF GetKnowsFile, FlowsIn
    <3>5. QED
      BY <1>0, <2>1, <3>3, <3>4, PlaceChanges
  <2>5. QED
    BY <2>3, <2>4
<1>7. CASE GetFails
  <2>1. /\ totals.at \in {"first", "rest of old", "read"} /\ UNCHANGED <<counted, owed>>
        /\ totals' = [totals EXCEPT !.at = "rest", !.info = 0, !.seen = {}]
    BY <1>7 DEF GetFails
  <2>2. /\ totals'.at = "rest" /\ totals'.seen = {}
        /\ totals'.known = totals.known /\ totals'.file = totals.file
        /\ totals'.offset = totals.offset
    BY <1>2, <2>1 DEF TotalsState
  <2>3. ReadOfRotated' = ReadOfRotated /\ ReadOfLog' = ReadOfLog
    BY <1>0, <2>2 DEF ReadOfRotated, ReadOfLog
  <2>4. GetKnowsFile'
    BY <1>0, <1>1, <2>2 DEF GetKnowsFile
  <2>5. QED
    BY <1>0, <2>1, <2>3, <2>4, PlaceChanges
\* The steps that count.
<1>8. CASE ReadFirst
  <2>1. /\ totals.at = "first" /\ UNCHANGED owed /\ CountFlows(rotated.lines)
        /\ totals' = [totals EXCEPT !.at = "stat", !.known = TRUE, !.file = 0, !.offset = 0]
    BY <1>8 DEF ReadFirst
  <2>2. /\ totals'.at = "stat" /\ totals'.known /\ totals'.file = 0 /\ totals'.offset = 0
        /\ totals'.seen = totals.seen
    BY <1>2, <2>1 DEF TotalsState
  <2>3. ~totals.known /\ totals.file = 0 /\ totals.seen \subseteq FlowsIn(log) \cup FlowsIn(rotated)
    BY <1>1, <2>1 DEF GetKnowsFile
  <2>4. GetKnowsFile'
    BY <1>0, <2>2, <2>3 DEF GetKnowsFile, FlowsIn
  <2>5. ReadOfRotated = 0 /\ ReadOfLog = 0 /\ ReadOfRotated' = Len(rotated.lines) /\ ReadOfLog' = 0
    BY <1>0, <2>2, <2>3 DEF ReadOfRotated, ReadOfLog
  <2>6. \A f \in Flows : counted'[f] =
          IF \E i \in 1 .. Len(rotated.lines) : rotated.lines[i] = f THEN 1 ELSE counted[f]
    <3>1. rotated.lines \in Lines
      BY <1>2, FileFields
    <3>2. \A i \in 1 .. Len(rotated.lines) : rotated.lines[i] # Corrupt => counted[rotated.lines[i]] = 0
      BY <1>1, <1>2, <2>5 DEF ReadIsCounted
    <3>3. QED
      BY <1>1, <1>2, <2>1, <3>1, <3>2, CountOnce DEF LinesDiffer, ReadIsCounted
  <2>7. ReadIsCounted'
    BY <1>0, <1>1, <1>2, <2>1, <2>5, <2>6, RotatedIsCounted
  <2>8. QED
    BY <2>4, <2>7
<1>9. CASE ReadRest
  <2>1. /\ totals.at = "rest of old" /\ UNCHANGED owed
        /\ CountFlows(LinesFrom(rotated, totals.offset))
        /\ totals' = [totals EXCEPT !.at = "read", !.offset = 0, !.file = totals.info, !.info = 0]
    BY <1>9 DEF ReadRest
  <2>2. /\ totals'.at = "read" /\ totals'.known = totals.known /\ totals'.file = totals.info
        /\ totals'.offset = 0 /\ totals'.seen = totals.seen
    BY <1>2, <2>1 DEF TotalsState
  <2>3. /\ totals.known /\ log.there /\ totals.file = rotated.id /\ totals.file # 0
        /\ totals.info = log.id /\ totals.seen \subseteq FlowsIn(log) \cup FlowsIn(rotated)
    BY <1>1, <2>1 DEF GetKnowsFile
  <2>4. GetKnowsFile'
    BY <1>0, <1>3, <2>2, <2>3 DEF GetKnowsFile, FlowsIn
  <2>5. /\ ReadOfRotated = totals.offset /\ ReadOfLog = 0
        /\ ReadOfRotated' = Len(rotated.lines) /\ ReadOfLog' = 0
    BY <1>0, <1>3, <2>2, <2>3 DEF ReadOfRotated, ReadOfLog
  <2>6. \A f \in Flows : counted'[f] =
          IF \E i \in 1 .. Len(rotated.lines) : rotated.lines[i] = f THEN 1 ELSE counted[f]
    <3>1. /\ totals.offset <= Len(rotated.lines)
          /\ \A i \in 1 .. Len(rotated.lines) : rotated.lines[i] # Corrupt =>
               counted[rotated.lines[i]] = IF i <= totals.offset THEN 1 ELSE 0
          /\ \A f \in Flows : counted[f] <= 1
      BY <1>1, <2>5 DEF ReadIsCounted
    <3>2. \A i, j \in 1 .. Len(rotated.lines) :
            rotated.lines[i] = rotated.lines[j] /\ rotated.lines[i] # Corrupt => i = j
      BY <1>1 DEF LinesDiffer
    <3>3. QED
      BY <1>2, <2>1, <3>1, <3>2, RestIsCounted
  <2>7. ReadIsCounted'
    BY <1>0, <1>1, <1>2, <2>1, <2>5, <2>6, RotatedIsCounted
  <2>8. QED
    BY <2>4, <2>7
<1>10. CASE ReadLog
  <2>1. /\ totals.at = "read" /\ owed' = totals.seen
        /\ CountFlows(LinesFrom(log, totals.offset))
        /\ totals' = [totals EXCEPT !.at = "rest", !.offset = Len(log.lines), !.seen = {}]
    BY <1>10 DEF ReadLog
  <2>2. /\ totals'.at = "rest" /\ totals'.known = totals.known /\ totals'.file = totals.file
        /\ totals'.offset = Len(log.lines) /\ totals'.seen = {}
    BY <1>2, <2>1 DEF TotalsState
  <2>3. /\ totals.known /\ totals.file = log.id /\ (totals.file = 0 => totals.offset = 0)
        /\ totals.seen \subseteq FlowsIn(log) \cup FlowsIn(rotated)
    BY <1>1, <2>1 DEF GetKnowsFile
  <2>4. GetKnowsFile'
    BY <1>0, <1>3, <1>4, <2>2, <2>3 DEF GetKnowsFile
  <2>5. /\ ReadOfLog = totals.offset /\ ReadOfRotated = Len(rotated.lines)
        /\ ReadOfRotated' = Len(rotated.lines) /\ ReadOfLog' = Len(log.lines)
    BY <1>0, <1>3, <1>4, <2>2, <2>3 DEF ReadOfRotated, ReadOfLog
  <2>6. \A f \in Flows : counted'[f] =
          IF \E i \in 1 .. Len(log.lines) : log.lines[i] = f THEN 1 ELSE counted[f]
    <3>1. /\ totals.offset <= Len(log.lines)
          /\ \A i \in 1 .. Len(log.lines) : log.lines[i] # Corrupt =>
               counted[log.lines[i]] = IF i <= totals.offset THEN 1 ELSE 0
          /\ \A f \in Flows : counted[f] <= 1
      BY <1>1, <2>5 DEF ReadIsCounted
    <3>2. \A i, j \in 1 .. Len(log.lines) :
            log.lines[i] = log.lines[j] /\ log.lines[i] # Corrupt => i = j
      BY <1>1 DEF LinesDiffer
    <3>3. QED
      BY <1>2, <2>1, <3>1, <3>2, RestIsCounted
  <2>7. ReadIsCounted'
    BY <1>0, <1>1, <1>2, <2>1, <2>3, <2>5, <2>6, LogIsCounted
  <2>8. QED
    BY <2>4, <2>7
<1>11. QED
  BY <1>5, <1>6, <1>7, <1>8, <1>9, <1>10

\* What the writer leaves of the totals: of the files, only unfinished lines change.
LEMMA LinesStay ==
  ASSUME TotalsInv,
         log'.there = log.there, log'.id = log.id, log'.lines = log.lines,
         UNCHANGED <<rotated, totals, counted, owed>>, writer'.flow = writer.flow
  PROVE  /\ LinesDiffer'
         /\ ~missed => ReadIsCounted' /\ GetKnowsFile'
<1>1. LinesDiffer'
  BY DEF TotalsInv, LinesDiffer
<1>2. ReadOfRotated' = ReadOfRotated /\ ReadOfLog' = ReadOfLog
  BY DEF ReadOfRotated, ReadOfLog
<1>3. FlowsIn(log') = FlowsIn(log)
  BY DEF FlowsIn
<1>4. ASSUME ~missed PROVE ReadIsCounted'
  BY <1>2, <1>4 DEF TotalsInv, ReadIsCounted
<1>5. ASSUME ~missed PROVE GetKnowsFile'
  <2>1. GetKnowsFile
    BY <1>5 DEF TotalsInv
  <2>2. FlowsIn(rotated') = FlowsIn(rotated)
    OBVIOUS
  <2>3. QED
    BY <1>3, <2>1, <2>2 DEF GetKnowsFile
<1>6. QED
  BY <1>1, <1>4, <1>5

\* The full log becomes the rotated one, as far as it was read.
LEMMA RotationKeepsTrack ==
  ASSUME TotalsInv, RotateAudit, log.there, Len(log.lines) >= LogLimit
  PROVE  /\ LinesDiffer' /\ FilesInOrder'
         /\ ~missed' => ReadIsCounted' /\ GetKnowsFile'
<1>1. /\ rotated' = log /\ log' = NoFile /\ UNCHANGED <<totals, counted, owed>>
      /\ writer' = [writer EXCEPT !.at = "open"]
      /\ missed' = (missed \/ totals.at # "rest" \/ (totals.known /\ totals.file # log.id))
  BY DEF RotateAudit, reading
<1>2. writer'.at = "open" /\ writer'.flow = writer.flow /\ writer'.files = writer.files
  <2>1. writer \in WriterState
    BY DEF TotalsInv, TotalsTypes, TotalsTypeOK, WriterState, WriterStages
  <2>2. QED
    BY <1>1, <2>1, WriterAt DEF WriterStages
<1>3. log'.id = 0 /\ Len(log'.lines) = 0 /\ ~log'.there
  BY <1>1, NoFileType
<1>4. TotalsTypes /\ LinesDiffer /\ FilesInOrder
  BY DEF TotalsInv
<1>5. log.id \in Nat /\ log.id # 0 /\ log.id <= writer.files /\ Len(log.lines) \in Nat
      /\ totals.known \in BOOLEAN
  BY <1>4, TotalsFields DEF FilesInOrder
<1>6. LinesDiffer'
  BY <1>1, <1>2, <1>3, <1>4 DEF LinesDiffer
<1>7. FilesInOrder'
  BY <1>1, <1>2, <1>3, <1>5 DEF FilesInOrder
<1>8. ASSUME ~missed' PROVE ReadIsCounted' /\ GetKnowsFile'
  <2>1. ~missed /\ totals.at = "rest" /\ (totals.known => totals.file = log.id)
    BY <1>1, <1>8
  <2>2. ReadIsCounted /\ GetKnowsFile
    BY <2>1 DEF TotalsInv
  <2>3. ~totals.known => totals.file = 0
    BY <2>2 DEF GetKnowsFile
  <2>4. ReadOfRotated' = ReadOfLog /\ ReadOfLog' = 0
    <3>1. CASE totals.known
      BY <1>1, <1>3, <1>5, <2>1, <3>1 DEF ReadOfRotated, ReadOfLog
    <3>2. CASE ~totals.known
      BY <1>1, <1>3, <1>5, <2>3, <3>2 DEF ReadOfRotated, ReadOfLog
    <3>3. QED
      BY <3>1, <3>2
  <2>5. ReadIsCounted'
    BY <1>1, <1>2, <1>3, <2>2, <2>4 DEF ReadIsCounted
  <2>6. GetKnowsFile'
    BY <1>1, <1>3, <2>1, <2>2, <2>3 DEF GetKnowsFile
  <2>7. QED
    BY <2>5, <2>6
<1>9. QED
  BY <1>6, <1>7, <1>8

\* A log made between two gets is one the totals know nothing of.
LEMMA NewLogKeepsTrack ==
  ASSUME TotalsInv, OpenLog, ~log.there
  PROVE  /\ LinesDiffer' /\ FilesInOrder'
         /\ ~missed' => ReadIsCounted' /\ GetKnowsFile'
<1>1. /\ writer.at = "open" /\ UNCHANGED <<rotated, totals, counted, owed>>
      /\ log' = [NoFile EXCEPT !.there = TRUE, !.id = writer.files + 1]
      /\ writer' = [writer EXCEPT !.at = "data", !.files = writer.files + 1]
      /\ missed' = (missed \/ totals.at # "rest")
  BY DEF OpenLog, reading
<1>2. TotalsTypes /\ LinesDiffer /\ FilesInOrder
  BY DEF TotalsInv
<1>3. PICK files \in 0 .. MaxFlows : files = writer.files + 1
  <2>1. writer.files + Len(log.lines) < writer.flow /\ writer.flow <= MaxFlows
    BY <1>1, <1>2 DEF TotalsTypes, FilesAreFilled
  <2>2. writer.files \in Nat /\ Len(log.lines) \in Nat /\ writer.flow \in Nat
    BY <1>2, TotalsFields
  <2>3. writer.files + 1 \in 0 .. MaxFlows
    BY <2>1, <2>2, TotalsAssumption
  <2>4. QED
    BY <2>3
<1>4. writer'.at = "data" /\ writer'.flow = writer.flow /\ writer'.files = files
  <2>1. writer \in WriterState
    BY <1>2 DEF TotalsTypes, TotalsTypeOK, WriterState, WriterStages
  <2>2. writer' = [writer EXCEPT !.at = "data", !.files = files]
    BY <1>1, <1>3
  <2>3. QED
    BY <2>1, <2>2 DEF WriterState, WriterStages
<1>5. log'.there /\ log'.id = files /\ Len(log'.lines) = 0 /\ log'.lines = <<>>
  <2>1. log' = [NoFile EXCEPT !.there = TRUE, !.id = files]
    BY <1>1, <1>3
  <2>2. QED
    BY <2>1, NewFileType
<1>6. log.id = 0 /\ Len(log.lines) = 0 /\ rotated.id < files
      /\ rotated.id \in Nat /\ writer.files \in Nat /\ files # 0
  BY <1>2, <1>3, TotalsFields DEF FilesInOrder
<1>7. LinesDiffer'
  BY <1>1, <1>2, <1>4, <1>5 DEF LinesDiffer
<1>8. FilesInOrder'
  BY <1>1, <1>4, <1>5, <1>6 DEF FilesInOrder
<1>9. ASSUME ~missed' PROVE ReadIsCounted' /\ GetKnowsFile'
  <2>1. ~missed /\ totals.at = "rest"
    BY <1>1, <1>9
  <2>2. ReadIsCounted /\ GetKnowsFile
    BY <2>1 DEF TotalsInv
  <2>3. totals.file \in {0, rotated.id}
    BY <1>6, <2>2 DEF GetKnowsFile
  <2>4. ReadOfRotated' = ReadOfRotated /\ ReadOfLog' = 0
    BY <1>1, <1>5, <1>6, <2>3 DEF ReadOfRotated, ReadOfLog
  <2>5. ReadIsCounted'
    BY <1>1, <1>4, <1>5, <2>2, <2>4 DEF ReadIsCounted
  <2>6. GetKnowsFile'
    BY <1>1, <2>1, <2>2, <2>3 DEF GetKnowsFile
  <2>7. QED
    BY <2>5, <2>6
<1>10. QED
  BY <1>7, <1>8, <1>9

\* A finished line has not been read, whoever is reading.
LEMMA LineKeepsTrack ==
  ASSUME TotalsInv, WriteNewline
  PROVE  /\ LinesDiffer' /\ FilesInOrder'
         /\ ~missed' => ReadIsCounted' /\ GetKnowsFile'
<1>1. /\ writer.at = "newline" /\ UNCHANGED <<rotated, totals, counted, owed, missed>>
      /\ log' = [log EXCEPT !.lines = Append(log.lines, log.unfinished), !.unfinished = FinishedLine]
      /\ writer' = [writer EXCEPT !.at = "rest", !.flow = writer.flow + 1]
  BY DEF WriteNewline, reading
<1>2. TotalsTypes /\ LinesDiffer /\ FilesInOrder
  BY DEF TotalsInv
<1>3. /\ log \in LogFile /\ rotated \in LogFile
      /\ Len(log.lines) \in Nat /\ Len(rotated.lines) \in Nat
      /\ \A i \in 1 .. Len(log.lines) : log.lines[i] \in 0 .. MaxFlows
      /\ \A i \in 1 .. Len(rotated.lines) : rotated.lines[i] \in 0 .. MaxFlows
      /\ writer.flow \in Nat /\ log.id \in Nat /\ rotated.id \in Nat
  BY <1>2, TotalsFields
<1>4. PICK flow \in 1 .. MaxFlows : flow = writer.flow
  <2>1. writer.flow <= MaxFlows /\ writer.flow \in 1 .. MaxFlows + 1
    BY <1>1, <1>2 DEF TotalsTypes, FilesAreFilled, TotalsTypeOK
  <2>2. QED
    BY <2>1, TotalsAssumption
<1>5. PICK v \in 0 .. MaxFlows : v = log.unfinished /\ v \in {Corrupt, flow}
  <2>1. log.unfinished \in {Corrupt, flow}
    BY <1>1, <1>2, <1>4 DEF FilesInOrder
  <2>2. QED
    BY <1>4, <2>1, TotalsAssumption DEF Corrupt
<1>6. writer'.at = "rest" /\ writer'.flow = flow + 1 /\ writer'.files = writer.files
  <2>1. writer \in WriterState
    BY <1>2 DEF TotalsTypes, TotalsTypeOK, WriterState, WriterStages
  <2>2. PICK next \in 1 .. MaxFlows + 1 : next = flow + 1
    BY <1>4, TotalsAssumption
  <2>3. writer' = [writer EXCEPT !.at = "rest", !.flow = next]
    BY <1>1, <1>4, <2>2
  <2>4. writer'.at = "rest" /\ writer'.flow = next /\ writer'.files = writer.files
    BY <2>1, <2>3 DEF WriterState, WriterStages
  <2>5. QED
    BY <2>2, <2>4
<1>7. PICK n \in Nat : n = Len(log.lines)
  BY <1>3
<1>8. /\ log'.there = log.there /\ log'.id = log.id /\ Len(log'.lines) = n + 1
      /\ \A i \in 1 .. n : log'.lines[i] = log.lines[i]
      /\ log'.lines[n + 1] = v
  <2>1. log.unfinished \in 0 .. MaxFlows
    BY <1>5
  <2>2. /\ log'.there = log.there /\ log'.id = log.id /\ Len(log'.lines) = Len(log.lines) + 1
        /\ \A i \in 1 .. Len(log.lines) : log'.lines[i] = log.lines[i]
        /\ log'.lines[Len(log.lines) + 1] = log.unfinished
    <3> DEFINE new == [log EXCEPT !.lines = Append(log.lines, log.unfinished), !.unfinished = FinishedLine]
    <3>1. /\ new.there = log.there /\ new.id = log.id /\ Len(new.lines) = Len(log.lines) + 1
          /\ \A i \in 1 .. Len(log.lines) : new.lines[i] = log.lines[i]
          /\ new.lines[Len(log.lines) + 1] = log.unfinished
      <4>1. log \in LogFile
        BY <1>3
      <4>2. QED
        BY <2>1, <4>1, LineType, Zenon
    <3>2. log' = new
      BY <1>1
    <3> HIDE DEF new
    <3>3. QED
      BY <3>1, <3>2, Zenon
  <2>3. QED
    BY <1>5, <1>7, <2>2
\* The connection is new to both files.
<1>9. LinesDiffer'
  <2>1. \A i \in 1 .. n : log.lines[i] < flow
    BY <1>2, <1>4, <1>7 DEF LinesDiffer
  <2>2. \A i \in 1 .. Len(rotated.lines) : rotated.lines[i] < flow
    BY <1>2, <1>4 DEF LinesDiffer
  <2>3. \A i \in 1 .. n + 1 : i \in 1 .. n \/ i = n + 1
    OBVIOUS
  <2>4. \A i, j \in 1 .. n + 1 : log'.lines[i] = log'.lines[j] /\ log'.lines[i] # Corrupt => i = j
    <3>1. \A i, j \in 1 .. n : log.lines[i] = log.lines[j] /\ log.lines[i] # Corrupt => i = j
      BY <1>2, <1>7 DEF LinesDiffer
    <3>2. \A i \in 1 .. n : log.lines[i] # v \/ v = Corrupt
      BY <1>4, <1>5, <2>1
    <3>3. QED
      BY <1>8, <2>3, <3>1, <3>2
  <2>5. \A i \in 1 .. n + 1, j \in 1 .. Len(rotated.lines) :
          log'.lines[i] = rotated.lines[j] => log'.lines[i] = Corrupt
    <3>1. \A j \in 1 .. Len(rotated.lines) : rotated.lines[j] # v \/ v = Corrupt
      BY <1>4, <1>5, <2>2
    <3>2. \A i \in 1 .. n, j \in 1 .. Len(rotated.lines) :
            log.lines[i] = rotated.lines[j] => log.lines[i] = Corrupt
      BY <1>2, <1>7 DEF LinesDiffer
    <3>3. QED
      BY <1>8, <2>3, <3>1, <3>2
  <2>6. \A i \in 1 .. n + 1 : log'.lines[i] < flow + 1
    <3>1. v < flow + 1
      BY <1>4, <1>5 DEF Corrupt
    <3>2. \A i \in 1 .. n : log.lines[i] < flow + 1
      BY <1>3, <1>4, <1>7, <2>1
    <3>3. QED
      BY <1>8, <2>3, <3>1, <3>2
  <2>7. \A i \in 1 .. Len(rotated.lines) : rotated.lines[i] < flow + 1
    BY <1>3, <1>4, <2>2
  <2>8. \A i, j \in 1 .. Len(rotated.lines) :
          rotated.lines[i] = rotated.lines[j] /\ rotated.lines[i] # Corrupt => i = j
    BY <1>2 DEF LinesDiffer
  <2>9. QED
    <3>1. rotated' = rotated /\ writer'.flow = flow + 1 /\ Len(log'.lines) = n + 1
      BY <1>1, <1>6, <1>8
    <3>2. QED
      BY <2>4, <2>5, <2>6, <2>7, <2>8, <3>1 DEF LinesDiffer
<1>10. FilesInOrder'
  BY <1>1, <1>2, <1>6, <1>8 DEF FilesInOrder
<1>11. ASSUME ~missed' PROVE ReadIsCounted' /\ GetKnowsFile'
  <2>1. ReadIsCounted /\ GetKnowsFile
    BY <1>1, <1>11 DEF TotalsInv
  <2>2. ReadOfRotated' = ReadOfRotated /\ ReadOfLog' = ReadOfLog
    BY <1>1, <1>8 DEF ReadOfRotated, ReadOfLog
  <2>3. ReadIsCounted'
    <3>1. ReadOfLog <= n /\ ReadOfLog \in Nat
      BY <1>2, <1>7, <2>1, TotalsFields DEF ReadIsCounted, ReadOfLog
    <3>2. \A i \in 1 .. n : log.lines[i] # Corrupt =>
            counted[log.lines[i]] = IF i <= ReadOfLog THEN 1 ELSE 0
      BY <1>7, <2>1 DEF ReadIsCounted
    <3>3. v # Corrupt => counted[v] = 0
      BY <1>4, <1>5, <2>1 DEF ReadIsCounted, Flows
    <3>4. \A i \in 1 .. n + 1 : log'.lines[i] # Corrupt =>
            counted[log'.lines[i]] = IF i <= ReadOfLog THEN 1 ELSE 0
      <4>1. ~(n + 1 <= ReadOfLog)
        BY <3>1
      <4>2. \A i \in 1 .. n + 1 : i \in 1 .. n \/ i = n + 1
        OBVIOUS
      <4>3. QED
        BY <1>8, <3>2, <3>3, <4>1, <4>2
    <3>5. \A f \in Flows : counted[f] <= 1 /\ (f >= flow + 1 => counted[f] = 0)
      BY <1>4, <2>1 DEF ReadIsCounted, Flows
    <3>6. ReadOfLog <= n + 1
      BY <3>1
    <3>7. QED
      BY <1>1, <1>6, <1>8, <2>1, <2>2, <3>4, <3>5, <3>6 DEF ReadIsCounted
  <2>4. GetKnowsFile'
    <3>1. FlowsIn(log) \subseteq FlowsIn(log')
      <4>1. ASSUME NEW f \in FlowsIn(log) PROVE f \in FlowsIn(log')
        <5>1. f # Corrupt /\ \E i \in 1 .. n : log.lines[i] = f
          BY <1>3, <1>7, FlowsInFile
        <5>2. PICK i \in 1 .. n : log'.lines[i] = f
          BY <1>8, <5>1
        <5>3. log' \in LogFile
          BY <1>1, <1>3, <1>5, LineType
        <5>4. i \in 1 .. Len(log'.lines)
          BY <1>8
        <5>5. QED
          BY <5>1, <5>2, <5>3, <5>4, FlowsInFile
      <4>2. QED
        BY <4>1
    <3>2. FlowsIn(rotated') = FlowsIn(rotated)
      BY <1>1
    <3>3. totals.at # "rest" => totals.seen \subseteq FlowsIn(log') \cup FlowsIn(rotated')
      BY <2>1, <3>1, <3>2 DEF GetKnowsFile
    <3>4. QED
      BY <1>1, <1>8, <2>1, <3>3 DEF GetKnowsFile
  <2>5. QED
    BY <2>3, <2>4
<1>12. QED
  BY <1>9, <1>10, <1>11

\* A restarted daemon has counted nothing.
LEMMA RestartKeepsTrack ==
  ASSUME TotalsInv, TotalsLost
  PROVE  LinesDiffer' /\ FilesInOrder' /\ ReadIsCounted' /\ GetKnowsFile'
<1>1. /\ writer' = [writer EXCEPT !.at = "rest",
                     !.flow = IF writer.at = "newline" THEN writer.flow + 1 ELSE writer.flow]
      /\ totals' = NewTotals /\ counted' = [f \in Flows |-> 0] /\ owed' = {}
      /\ UNCHANGED <<log, rotated>>
  BY DEF TotalsLost, auditFiles
<1>2. TotalsTypes /\ LinesDiffer /\ FilesInOrder
  BY DEF TotalsInv
<1>3. writer \in WriterState
  BY <1>2 DEF TotalsTypes, TotalsTypeOK, WriterState, WriterStages
<1>4. PICK flow \in Nat : flow >= writer.flow /\ writer' = [writer EXCEPT !.at = "rest", !.flow = flow]
  <2>1. writer.flow \in Nat
    BY <1>2, TotalsFields
  <2>2. ASSUME writer.at = "newline"
        PROVE  /\ writer.flow + 1 \in Nat /\ writer.flow + 1 >= writer.flow
               /\ writer' = [writer EXCEPT !.at = "rest", !.flow = writer.flow + 1]
    BY <1>1, <2>1, <2>2
  <2>3. ASSUME writer.at # "newline"
        PROVE  /\ writer.flow >= writer.flow
               /\ writer' = [writer EXCEPT !.at = "rest", !.flow = writer.flow]
    BY <1>1, <2>1, <2>3
  <2>4. QED
    BY <2>1, <2>2, <2>3
<1>5. writer'.at = "rest" /\ writer'.flow = flow /\ writer'.files = writer.files
  BY <1>3, <1>4 DEF WriterState
<1>6. /\ \A i \in 1 .. Len(log.lines) : log.lines[i] \in Nat
      /\ \A i \in 1 .. Len(rotated.lines) : rotated.lines[i] \in Nat
      /\ Len(log.lines) \in Nat /\ Len(rotated.lines) \in Nat /\ writer.flow \in Nat
      /\ log \in LogFile /\ rotated \in LogFile
  BY <1>2, TotalsFields
<1>7. LinesDiffer'
  <2>1. /\ \A i \in 1 .. Len(log.lines) : log.lines[i] < flow
        /\ \A i \in 1 .. Len(rotated.lines) : rotated.lines[i] < flow
    <3>1. /\ \A i \in 1 .. Len(log.lines) : log.lines[i] < writer.flow
          /\ \A i \in 1 .. Len(rotated.lines) : rotated.lines[i] < writer.flow
      BY <1>2 DEF LinesDiffer
    <3>2. ASSUME NEW k \in Nat, k < writer.flow PROVE k < flow
      BY <1>4, <1>6, <3>2
    <3>3. QED
      BY <1>6, <3>1, <3>2
  <2>2. QED
    BY <1>1, <1>2, <1>5, <2>1 DEF LinesDiffer
<1>8. FilesInOrder'
  BY <1>1, <1>2, <1>5 DEF FilesInOrder
<1>9. ~totals'.known /\ totals'.file = 0 /\ totals'.at = "rest" /\ totals'.offset = 0
  BY <1>1 DEF NewTotals
<1>10. ReadOfRotated' = 0 /\ ReadOfLog' = 0
  BY <1>9 DEF ReadOfRotated, ReadOfLog
<1>11. \A f \in Flows : counted'[f] = 0
  BY <1>1
<1>12. ReadIsCounted'
  <2>1. \A i \in 1 .. Len(log.lines) : log.lines[i] # Corrupt => counted'[log.lines[i]] = 0
    BY <1>6, <1>11, FlowsInFile
  <2>2. \A i \in 1 .. Len(rotated.lines) : rotated.lines[i] # Corrupt => counted'[rotated.lines[i]] = 0
    BY <1>6, <1>11, FlowsInFile
  <2>3. QED
    BY <1>1, <1>6, <1>10, <1>11, <2>1, <2>2 DEF ReadIsCounted
<1>13. GetKnowsFile'
  BY <1>9 DEF GetKnowsFile
<1>14. QED
  BY <1>7, <1>8, <1>12, <1>13

LEMMA TotalsStep ==
  ASSUME TotalsInv, [TotalsNext]_totalsVars
  PROVE  TotalsInv'
<1>1. TotalsTypes' /\ TotalsTypes /\ LinesDiffer /\ FilesInOrder
  BY TotalsTypeStep DEF TotalsInv
<1>2. writer \in WriterState /\ log \in LogFile
  BY <1>1 DEF TotalsTypes, TotalsTypeOK, WriterState, WriterStages
<1>3. CASE BeginGet \/ ReadFirst \/ StatLog \/ ReadRest \/ ReadLog \/ GetFails
  <2>1. UNCHANGED <<log, rotated, writer>>
    BY <1>3 DEF BeginGet, ReadFirst, StatLog, ReadRest, ReadLog, GetFails, auditFiles
  <2>2. LinesDiffer' /\ FilesInOrder'
    BY <1>1, <2>1 DEF LinesDiffer, FilesInOrder
  <2>3. QED
    BY <1>1, <1>3, <2>2, GetKeepsTrack DEF TotalsInv
<1>4. CASE RotateAudit
  <2>1. CASE log.there /\ Len(log.lines) >= LogLimit
    BY <1>1, <1>4, <2>1, RotationKeepsTrack DEF TotalsInv
  <2>2. CASE ~(log.there /\ Len(log.lines) >= LogLimit)
    <3>1. UNCHANGED <<log, rotated, totals, counted, owed, missed>>
          /\ writer' = [writer EXCEPT !.at = "open"]
      BY <1>4, <2>2 DEF RotateAudit, auditFiles, reading
    <3>2. writer'.at = "open" /\ writer'.flow = writer.flow /\ writer'.files = writer.files
      BY <1>2, <3>1, WriterAt DEF WriterStages
    <3>3. FilesInOrder'
      BY <1>1, <3>1, <3>2 DEF FilesInOrder
    <3>4. QED
      BY <1>1, <3>1, <3>2, <3>3, LinesStay DEF TotalsInv
  <2>3. QED
    BY <2>1, <2>2
<1>5. CASE OpenLog
  <2>1. CASE ~log.there
    BY <1>1, <1>5, <2>1, NewLogKeepsTrack DEF TotalsInv
  <2>2. CASE log.there
    <3>1. UNCHANGED <<log, rotated, totals, counted, owed, missed>>
          /\ writer' = [writer EXCEPT !.at = "data"]
      BY <1>5, <2>2 DEF OpenLog, reading
    <3>2. writer'.at = "data" /\ writer'.flow = writer.flow /\ writer'.files = writer.files
      BY <1>2, <3>1, WriterAt DEF WriterStages
    <3>3. FilesInOrder'
      BY <1>1, <2>2, <3>1, <3>2 DEF FilesInOrder
    <3>4. QED
      BY <1>1, <3>1, <3>2, <3>3, LinesStay DEF TotalsInv
  <2>3. QED
    BY <2>1, <2>2
<1>6. CASE WriteEntry
  <2>1. /\ writer.at = "data" /\ writer' = [writer EXCEPT !.at = "newline"]
        /\ log' = [log EXCEPT !.unfinished = IF log.unfinished = FinishedLine THEN writer.flow
                                             ELSE Corrupt]
        /\ UNCHANGED <<rotated, totals, counted, owed, missed>>
    BY <1>6 DEF WriteEntry, reading
  <2>2. writer'.at = "newline" /\ writer'.flow = writer.flow /\ writer'.files = writer.files
    BY <1>2, <2>1, WriterAt DEF WriterStages
  <2>3. /\ log'.there = log.there /\ log'.id = log.id /\ log'.lines = log.lines
        /\ log'.unfinished \in {Corrupt, writer.flow}
    BY <1>2, <2>1 DEF LogFile
  <2>4. log.there
    BY <1>1, <2>1 DEF FilesInOrder
  <2>5. FilesInOrder'
    BY <1>1, <2>1, <2>2, <2>3, <2>4 DEF FilesInOrder
  <2>6. QED
    BY <1>1, <2>1, <2>2, <2>3, <2>5, LinesStay DEF TotalsInv
<1>7. CASE WriteNewline
  BY <1>1, <1>7, LineKeepsTrack DEF TotalsInv
<1>8. CASE TotalsLost
  BY <1>1, <1>8, RestartKeepsTrack DEF TotalsInv
<1>9. CASE UNCHANGED totalsVars
  <2>1. UNCHANGED <<log, rotated, writer, totals, counted, owed, missed>>
    BY <1>9 DEF totalsVars
  <2>2. FilesInOrder'
    BY <1>1, <2>1 DEF FilesInOrder
  <2>3. QED
    BY <1>1, <2>1, <2>2, LinesStay DEF TotalsInv
<1>10. QED
  BY <1>3, <1>4, <1>5, <1>6, <1>7, <1>8, <1>9 DEF TotalsNext

\* No line is counted twice and a successful get leaves none of its two files out, for
\* any number of connections and any size of the log, through rotations between gets,
\* torn lines, failing gets and restarts; but for the cases the property names.
THEOREM FlowsAreCountedOnce == TotalsSpec => []EveryFlowCountedOnce
<1>1. TotalsInit => TotalsInv
  <2> SUFFICES ASSUME TotalsInit PROVE TotalsInv
    OBVIOUS
  <2>1. /\ log = NoFile /\ rotated = NoFile /\ totals = NewTotals /\ owed = {}
        /\ counted = [f \in Flows |-> 0] /\ writer = [at |-> "rest", flow |-> 1, files |-> 0]
    BY DEF TotalsInit
  <2>2. /\ Len(log.lines) = 0 /\ Len(rotated.lines) = 0 /\ log.id = 0 /\ rotated.id = 0
        /\ ~log.there
    BY <2>1, NoFileType
  <2>3. totals.at = "rest" /\ ~totals.known /\ totals.file = 0 /\ totals.offset = 0
    BY <2>1 DEF NewTotals
  <2>4. writer.at = "rest" /\ writer.files = 0
    BY <2>1
  <2>5. LinesDiffer /\ FilesInOrder
    BY <2>2, <2>4 DEF LinesDiffer, FilesInOrder
  <2>6. ReadIsCounted
    <3>1. \A f \in Flows : counted[f] = 0
      BY <2>1
    <3>2. QED
      BY <2>1, <2>2, <2>3, <3>1 DEF ReadIsCounted, ReadOfRotated, ReadOfLog
  <2>7. GetKnowsFile
    BY <2>3 DEF GetKnowsFile
  <2>8. QED
    BY <2>5, <2>6, <2>7, TotalsInitTypes DEF TotalsInv
<1>2. TotalsInv => EveryFlowCountedOnce
  BY DEF TotalsInv, ReadIsCounted, EveryFlowCountedOnce
<1>3. QED
  BY <1>1, <1>2, TotalsStep, PTL DEF TotalsSpec
=============================================================================
