-------------------------- MODULE BrokerStateProofs --------------------------
(***************************************************************************)
(* Proofs about who gets into the credential broker and which Fly tokens   *)
(* it has handed out: any number of processes running commands on one      *)
(* sandbox at once, failing and dying at any step, any number of handles   *)
(* and of tokens.  Then what the broker's parts are together.              *)
(***************************************************************************)
EXTENDS MCBrokerState, BrokerDaemonProofs, TLAPS

-----------------------------------------------------------------------------
(* Access to the broker: types *)

LEMMA HandleRange == 0 \in Handles /\ 1 .. MaxHandle \subseteq Handles /\ Handles \subseteq Nat
BY AccessAssumption DEF Handles

LEMMA FirstStep == 1 \in WireSteps
BY DEF WireSteps

LEMMA IdleTaskType == IdleTask \in Tasks
BY HandleRange DEF IdleTask, Tasks, Policies, WireSteps

LEMMA EndedTaskType ==
  ASSUME NEW t \in Tasks, NEW wired \in BOOLEAN
  PROVE  EndedTask(t, wired) \in Tasks
<1>1. (wired /\ t.alone) \in BOOLEAN
  OBVIOUS
<1>2. [IdleTask EXCEPT !.wired = (wired /\ t.alone)] \in Tasks
  BY <1>1, IdleTaskType DEF Tasks
<1>3. QED
  BY <1>2 DEF EndedTask

LEMMA EditedType ==
  ASSUME AccessTypeOK, NEW c \in Commands, Renews(c, policy) => issued < MaxHandle
  PROVE  Edited(c) \in Policies
<1>1. issued \in Nat /\ (Renews(c, policy) => issued + 1 \in Handles)
  BY AccessAssumption DEF AccessTypeOK, Handles
<1>2. policy.handle \in Handles /\ policy.egress \in BOOLEAN
  BY DEF AccessTypeOK
<1>3. (c = "enable") \in BOOLEAN
  OBVIOUS
<1>4. QED
  BY <1>1, <1>2, <1>3 DEF Edited, Policies

\* A command is no longer alone, and what it wired counts no more.
LEMMA AccompaniedType ==
  ASSUME NEW t \in Tasks
  PROVE  LET u == [t EXCEPT !.alone = FALSE, !.wired = FALSE]
         IN u \in Tasks /\ u.pc = t.pc /\ u.cmd = t.cmd /\ u.pol = t.pol /\ u.fresh = t.fresh
BY DEF Tasks

\* A command has read the policy and goes on.
LEMMA ReadTaskType ==
  ASSUME NEW t \in Tasks, NEW pol \in Policies, NEW fresh \in BOOLEAN, NEW pc \in {"edit", "wire"}
  PROVE  [t EXCEPT !.pol = pol, !.fresh = fresh, !.pc = pc] \in Tasks
BY DEF Tasks

\* A command goes on in the VM.
LEMMA NextInVM ==
  ASSUME NEW t \in Tasks, NEW n
  PROVE  LET u == [t EXCEPT !.at = n]
         IN u.pc = t.pc /\ u.cmd = t.cmd /\ u.pol = t.pol /\ u.fresh = t.fresh
BY DEF Tasks

LEMMA AccessTypeStep ==
  ASSUME AccessTypeOK, [AccessNext]_accessVars
  PROVE  AccessTypeOK'
<1> USE AccessAssumption DEF AccessTypeOK, accessFiles, accessHistory
<1>1. ASSUME NEW p \in Actors, NEW c \in Commands, BeginCommand(p, c) PROVE AccessTypeOK'
  <2> DEFINE solo == \A q \in Actors \ {p} : task[q].pc = "idle"
  <2>1. [IdleTask EXCEPT !.cmd = c, !.pc = "read", !.alone = solo] \in Tasks
    <3>1. solo \in BOOLEAN
      OBVIOUS
    <3>2. QED
      BY <3>1, IdleTaskType DEF Tasks
  <2>2. \A q \in Actors : [task[q] EXCEPT !.alone = FALSE, !.wired = FALSE] \in Tasks
    BY AccompaniedType
  <2>3. task' \in [Actors -> Tasks]
    BY <1>1, <2>1, <2>2 DEF BeginCommand
  <2>4. QED
    BY <1>1, <2>3 DEF BeginCommand
<1>2. ASSUME NEW p \in Actors, ReadPolicy(p) PROVE AccessTypeOK'
  <2> DEFINE c == task[p].cmd
  <2>1. CASE ~policy.ok \/ ~(Saves(c, policy) \/ c = "activate")
    BY <1>2, <2>1, IdleTaskType DEF ReadPolicy
  <2>2. CASE ~(~policy.ok \/ ~(Saves(c, policy) \/ c = "activate"))
    <3>1. c \in Commands
      BY <2>2 DEF Tasks, Saves, Renews, Commands
    <3>2. Renews(c, policy) => issued < MaxHandle
      BY <1>2, <2>2 DEF ReadPolicy
    <3>3. issued' \in Handles
      BY <1>2, <2>2, <3>2 DEF ReadPolicy, Handles
    <3>4. Edited(c) \in Policies
      BY <3>1, <3>2, EditedType
    <3>5. Renews(c, policy) \in BOOLEAN
      BY DEF Renews
    <3>6. [task[p] EXCEPT !.pol = Edited(c), !.fresh = Renews(c, policy),
                          !.pc = IF Saves(c, policy) THEN "edit" ELSE "wire"] \in Tasks
      BY <3>4, <3>5, ReadTaskType
    <3>7. task' = [task EXCEPT ![p] =
                     [task[p] EXCEPT !.pol = Edited(c), !.fresh = Renews(c, policy),
                            !.pc = IF Saves(c, policy) THEN "edit" ELSE "wire"]]
      BY <1>2, <2>2 DEF ReadPolicy
    <3>8. QED
      BY <1>2, <3>3, <3>6, <3>7 DEF ReadPolicy
  <2>3. QED
    BY <2>1, <2>2
<1>3. ASSUME NEW p \in Actors, TruncatePolicy(p) PROVE AccessTypeOK'
  <2>1. task' \in [Actors -> Tasks]
    BY <1>3 DEF TruncatePolicy, Tasks
  <2>2. QED
    BY <1>3, <2>1, HandleRange DEF TruncatePolicy, TornPolicy
<1>4. ASSUME NEW p \in Actors, FillPolicy(p) PROVE AccessTypeOK'
  <2>1. task[p] \in Tasks /\ task[p].pol \in Policies
    BY DEF Tasks
  <2>2. [task[p] EXCEPT !.fresh = FALSE, !.pol.egress = FALSE, !.pc = "wire"] \in Tasks
    BY <2>1 DEF Tasks, Policies
  <2>3. task' \in [Actors -> Tasks]
    BY <1>4, <2>2, IdleTaskType DEF FillPolicy
  <2>4. policy' \in [ok : BOOLEAN, handle : Handles, egress : BOOLEAN]
    <3>1. TornPolicy \in [ok : BOOLEAN, handle : Handles, egress : BOOLEAN]
      BY HandleRange DEF TornPolicy
    <3>2. ReadablePolicy(task[p].pol) \in [ok : BOOLEAN, handle : Handles, egress : BOOLEAN]
      BY <2>1 DEF ReadablePolicy, Policies
    <3>3. policy' = TornPolicy \/ policy' = ReadablePolicy(task[p].pol)
      BY <1>4 DEF FillPolicy
    <3>4. QED
      BY <3>1, <3>2, <3>3
  <2>6. exposed' \subseteq 1 .. MaxHandle
    <3>1. {task[p].pol.handle} \ {0} \subseteq 1 .. MaxHandle
      BY <2>1 DEF Policies, Handles
    <3>2. QED
      BY <1>4, <3>1 DEF FillPolicy
  <2>5. QED
    BY <1>4, <2>3, <2>4, <2>6 DEF FillPolicy
<1>5. ASSUME NEW p \in Actors, WireStep(p) PROVE AccessTypeOK'
  <2>1. task[p] \in Tasks /\ task[p].pol.handle \in Handles /\ task[p].at \in {1, 2, 3}
    BY DEF Tasks, Policies, WireSteps
  <2>2. vm' \in [git : Handles, script : Handles]
    BY <1>5, <2>1, HandleRange DEF WireStep
  <2>3. task'[p] \in Tasks
    <3>1. CASE task[p].at # 3
      <4>1. task'[p] = [task[p] EXCEPT !.at = task[p].at + 1]
        BY <1>5, <2>1, <3>1 DEF WireStep
      <4>2. task[p].at + 1 \in WireSteps
        BY <2>1, <3>1 DEF WireSteps
      <4>3. QED
        BY <2>1, <4>1, <4>2 DEF Tasks
    <3>2. CASE task[p].at = 3 /\ task[p].cmd = "resume"
      <4>1. task'[p] = [task[p] EXCEPT !.at = 1, !.wired = TRUE, !.pc = "clear"]
        BY <1>5, <3>2 DEF WireStep
      <4>2. QED
        BY <2>1, <4>1, FirstStep DEF Tasks
    <3>3. CASE task[p].at = 3 /\ task[p].cmd # "resume"
      <4>1. task'[p] = EndedTask(task[p], TRUE)
        BY <1>5, <3>3 DEF WireStep
      <4>2. QED
        BY <2>1, <4>1, EndedTaskType
    <3>4. QED
      BY <3>1, <3>2, <3>3
  <2>4. QED
    BY <1>5, <2>2, <2>3 DEF WireStep
<1>6. ASSUME NEW p \in Actors, WireFails(p) PROVE AccessTypeOK'
  <2>0. task[p] \in Tasks
    OBVIOUS
  <2>1. [task[p] EXCEPT !.pc = "clear", !.at = 1] \in Tasks
    BY <2>0, FirstStep DEF Tasks
  <2>2. QED
    BY <1>6, <2>1, IdleTaskType DEF WireFails
<1>7. ASSUME NEW p \in Actors, ClearSuspension(p) PROVE AccessTypeOK'
  <2>1. EndedTask(task[p], task[p].wired) \in Tasks
    <3>1. task[p] \in Tasks /\ task[p].wired \in BOOLEAN
      BY DEF Tasks
    <3>2. QED
      BY <3>1, EndedTaskType
  <2>2. QED
    BY <1>7, <2>1 DEF ClearSuspension
<1>8. ASSUME NEW p \in Actors, CommandDies(p) PROVE AccessTypeOK'
  BY <1>8, IdleTaskType DEF CommandDies
<1>9. CASE SuspendBox
  BY <1>9 DEF SuspendBox, ResumeHasWritten
<1>10. ASSUME NEW h \in exposed, CompareHandle(h) PROVE AccessTypeOK'
  BY <1>10, HandleRange DEF CompareHandle
<1>11. CASE AdmitRequest \/ RefuseRequest
  <2>1. NoRequest \in [pc : {"none", "compared"}, handle : Handles, spans : BOOLEAN]
    BY HandleRange DEF NoRequest
  <2>2. CASE AdmitRequest
    BY <2>1, <2>2 DEF AdmitRequest
  <2>3. CASE RefuseRequest
    BY <2>1, <2>3 DEF RefuseRequest
  <2>4. QED
    BY <1>11, <2>2, <2>3
<1>12. CASE UNCHANGED accessVars
  BY <1>12 DEF accessVars
<1>13. QED
  BY <1>1, <1>2, <1>3, <1>4, <1>5, <1>6, <1>7, <1>8, <1>9, <1>10, <1>11, <1>12
  DEF AccessNext, ActorStep

LEMMA AccessStartTypes == AccessInit => AccessTypeOK
<1> SUFFICES ASSUME AccessInit PROVE AccessTypeOK
  OBVIOUS
<1>1. PICK h \in {0, 1} :
        /\ policy = [ok |-> TRUE, handle |-> h, egress |-> FALSE]
        /\ vm = [git |-> h, script |-> h] /\ issued = h /\ exposed = {h} \ {0}
  BY DEF AccessInit
<1>2. h \in Handles /\ exposed \subseteq 1 .. MaxHandle
  BY <1>1, AccessAssumption DEF Handles
<1>3. QED
  BY <1>1, <1>2, IdleTaskType, HandleRange DEF AccessInit, AccessTypeOK, NoRequest

\* However commands overlap and die, policies, handles and steps stay in their range.
THEOREM AccessTypeCorrect == AccessSpec => []AccessTypeOK
BY AccessStartTypes, AccessTypeStep, PTL DEF AccessSpec

-----------------------------------------------------------------------------
(* Condemned handles. *)

\* A new handle is nobody else's and has never been written; an old one has.
FreshHandles ==
  /\ exposed \subseteq 1 .. issued /\ condemned \subseteq exposed
  /\ policy.ok => policy.handle \in exposed \cup {0}
  /\ \A p \in Actors : task[p].pc \in {"edit", "fill"} =>
       IF task[p].fresh
       THEN /\ task[p].pol.handle \in (1 .. issued) \ exposed
            /\ \A q \in Actors \ {p} : task[q].pc \in {"edit", "fill"} /\ task[q].fresh
                 => task[q].pol.handle # task[p].pol.handle
       ELSE task[p].pol.handle \in exposed \cup {0}

\* What a command is, by how far it has come.
CommandStages ==
  \A p \in Actors :
    /\ task[p].pc = "clear" => task[p].cmd = "resume"
    /\ task[p].pc \in {"edit", "fill"} /\ task[p].cmd = "resume" => task[p].fresh
    /\ task[p].pc \in {"edit", "fill", "wire"} => task[p].cmd \in Commands

\* Between truncating and filling nobody else's policy is in the file.
OneWriter ==
  ~overtaken =>
    /\ \A p \in Actors : task[p].pc = "fill" => ~policy.ok
    /\ \A p, q \in Actors : task[p].pc = "fill" /\ task[q].pc = "fill" => p = q

\* From the moment a resume has written its handle, no condemned one is in the file or
\* about to be written to it, nor held by a request that has not seen the resume end.
CondemnedAreGone ==
  ~overtaken =>
    /\ ~suspended \/ ResumeHasWritten =>
         /\ policy.ok => policy.handle \notin condemned
         /\ \A p \in Actors : task[p].pc = "fill" => task[p].pol.handle \notin condemned
    /\ ~suspended /\ request.pc = "compared" /\ ~request.spans => request.handle \notin condemned

HandleInv == AccessTypeOK /\ FreshHandles /\ CommandStages /\ OneWriter /\ CondemnedAreGone

\* A step that only lets commands begin, end or go on in the VM disturbs none of this.
LEMMA HandlesStandStill ==
  ASSUME HandleInv, UNCHANGED <<policy, suspended, issued, request, exposed, condemned, overtaken>>,
         \A q \in Actors : task'[q].pc \in {"edit", "fill", "wire", "clear"} =>
           /\ task'[q].cmd = task[q].cmd /\ task'[q].pol = task[q].pol
           /\ task'[q].fresh = task[q].fresh
           /\ \/ task'[q].pc = task[q].pc
              \/ task[q].pc = "wire" /\ task'[q].pc = "clear" /\ task[q].cmd = "resume"
  PROVE  FreshHandles' /\ CommandStages' /\ OneWriter' /\ CondemnedAreGone'
<1>1. FreshHandles'
  BY DEF HandleInv, FreshHandles
<1>2. CommandStages'
  BY DEF HandleInv, CommandStages
<1>3. OneWriter'
  BY DEF HandleInv, OneWriter
<1>4. ResumeHasWritten' => ResumeHasWritten
  BY DEF ResumeHasWritten
<1>5. CondemnedAreGone'
  BY <1>4 DEF HandleInv, CondemnedAreGone
<1>6. QED
  BY <1>1, <1>2, <1>3, <1>5

LEMMA BeginLeavesOthers ==
  ASSUME AccessTypeOK, NEW p \in Actors, NEW c \in Commands, BeginCommand(p, c),
         NEW q \in Actors \ {p}
  PROVE  /\ task'[q].pc = task[q].pc
         /\ task'[q].cmd = task[q].cmd /\ task'[q].pol = task[q].pol
         /\ task'[q].fresh = task[q].fresh
<1>1. task[q] \in Tasks
  BY DEF AccessTypeOK
<1>2. task'[q] = [task[q] EXCEPT !.alone = FALSE, !.wired = FALSE]
  BY DEF BeginCommand, AccessTypeOK
<1>3. QED
  BY <1>1, <1>2, AccompaniedType

LEMMA HandleStep ==
  ASSUME HandleInv, [AccessNext]_accessVars
  PROVE  HandleInv'
<1> USE AccessAssumption
<1> USE DEF HandleInv, FreshHandles, CommandStages, OneWriter, CondemnedAreGone,
            accessFiles, accessHistory, ResumeHasWritten
<1>0. AccessTypeOK'
  BY AccessTypeStep
<1>a. /\ issued \in Nat /\ task \in [Actors -> Tasks]
      /\ \A p \in Actors : task[p] \in Tasks /\ task[p].pol.handle \in Nat
  BY HandleRange DEF AccessTypeOK, Tasks, Policies
<1>1. ASSUME NEW p \in Actors, NEW c \in Commands, BeginCommand(p, c) PROVE HandleInv'
  <2>1. \A q \in Actors \ {p} : /\ task'[q].pc = task[q].pc
                               /\ task'[q].cmd = task[q].cmd /\ task'[q].pol = task[q].pol
                               /\ task'[q].fresh = task[q].fresh
    BY <1>1, BeginLeavesOthers
  <2>2. task'[p].pc = "read"
    BY <1>1, <1>a DEF BeginCommand, IdleTask, Tasks
  <2>3. UNCHANGED <<policy, suspended, issued, request, exposed, condemned, overtaken>>
    BY <1>1 DEF BeginCommand
  <2>4. QED
    BY <1>0, <2>1, <2>2, <2>3, HandlesStandStill
<1>2. ASSUME NEW p \in Actors, ReadPolicy(p) PROVE HandleInv'
  <2> DEFINE c == task[p].cmd
             renew == Renews(c, policy)
  <2>0. \A q \in Actors \ {p} : task'[q] = task[q]
    BY <1>2, <1>a DEF ReadPolicy
  <2>1. CASE task'[p] = IdleTask /\ issued' = issued
    <3>1. UNCHANGED <<policy, suspended, issued, request, exposed, condemned, overtaken>>
      BY <1>2, <2>1 DEF ReadPolicy
    <3>2. task'[p].pc = "idle"
      BY <2>1 DEF IdleTask
    <3>3. QED
      BY <1>0, <2>0, <3>1, <3>2, HandlesStandStill
  <2>2. CASE ~(task'[p] = IdleTask /\ issued' = issued)
    <3>1. policy.ok /\ (Saves(c, policy) \/ c = "activate")
      BY <1>2, <1>a, <2>2 DEF ReadPolicy
    <3>2. /\ issued' = (IF renew THEN issued + 1 ELSE issued)
          /\ task'[p] = [task[p] EXCEPT !.pol = Edited(c), !.fresh = renew,
                          !.pc = IF Saves(c, policy) THEN "edit" ELSE "wire"]
      BY <1>2, <1>a, <3>1 DEF ReadPolicy
    <3>3. /\ task'[p].pol.handle = (IF renew THEN issued + 1 ELSE policy.handle)
          /\ task'[p].fresh = renew /\ task'[p].cmd = c
          /\ task'[p].pc = (IF Saves(c, policy) THEN "edit" ELSE "wire")
      BY <1>a, <3>2 DEF Edited, Tasks
    <3>4. c = "resume" => renew /\ Saves(c, policy)
      BY DEF Renews, Saves
    <3>5. c \in Commands
      BY <3>1 DEF Saves, Renews, Commands
    <3>6. FreshHandles'
      <4>1. UNCHANGED <<policy, exposed, condemned>>
        BY <1>2 DEF ReadPolicy
      <4>2. CASE renew
        <5>1. issued' = issued + 1 /\ task'[p].pol.handle = issued + 1 /\ task'[p].fresh
          BY <3>2, <3>3, <4>2
        <5>2. \A q \in Actors \ {p} : task[q].pc \in {"edit", "fill"} /\ task[q].fresh
                => task[q].pol.handle \in 1 .. issued
          OBVIOUS
        <5>3. exposed' \subseteq 1 .. issued' /\ issued + 1 \in (1 .. issued') \ exposed
          BY <1>a, <4>1, <5>1
        <5>4. QED
          BY <1>a, <2>0, <4>1, <5>1, <5>2, <5>3
      <4>3. CASE ~renew
        <5>1. issued' = issued /\ task'[p].pol.handle = policy.handle /\ ~task'[p].fresh
          BY <3>2, <3>3, <4>3
        <5>2. QED
          BY <2>0, <3>1, <4>1, <5>1
      <4>4. QED
        BY <4>2, <4>3
    <3>7. CommandStages'
      BY <1>2, <2>0, <3>3, <3>4, <3>5 DEF ReadPolicy
    <3>8. OneWriter' /\ CondemnedAreGone'
      BY <1>2, <2>0, <3>3, <3>4 DEF ReadPolicy
    <3>9. QED
      BY <1>0, <3>6, <3>7, <3>8
  <2>3. QED
    BY <2>1, <2>2
<1>3. ASSUME NEW p \in Actors, TruncatePolicy(p) PROVE HandleInv'
  <2>1. \A q \in Actors \ {p} : task'[q] = task[q]
    BY <1>3, <1>a DEF TruncatePolicy
  <2>2. /\ task[p].pc = "edit" /\ task'[p].pc = "fill" /\ task'[p].cmd = task[p].cmd
        /\ task'[p].pol = task[p].pol /\ task'[p].fresh = task[p].fresh
    BY <1>3, <1>a DEF TruncatePolicy, Tasks
  <2>3. ~policy'.ok
    BY <1>3 DEF TruncatePolicy, TornPolicy
  <2>4. ~overtaken' => /\ ~overtaken /\ policy.ok
                       /\ task[p].fresh \/ task[p].pol.handle = policy.handle
    BY <1>3 DEF TruncatePolicy
  <2>5. FreshHandles' /\ CommandStages'
    BY <1>3, <2>1, <2>2, <2>3 DEF TruncatePolicy
  <2>6. OneWriter'
    BY <1>3, <2>1, <2>2, <2>3, <2>4 DEF TruncatePolicy
  <2>7. CondemnedAreGone'
    BY <1>3, <2>1, <2>2, <2>3, <2>4 DEF TruncatePolicy
  <2>8. QED
    BY <1>0, <2>5, <2>6, <2>7
<1>4. ASSUME NEW p \in Actors, FillPolicy(p) PROVE HandleInv'
  <2>1. \A q \in Actors \ {p} : task'[q] = task[q]
    BY <1>4, <1>a DEF FillPolicy
  <2>2. task[p].pc = "fill"
    BY <1>4 DEF FillPolicy
  <2>3. \/ task'[p].pc = "idle" /\ task[p].cmd # "resume"
        \/ task'[p].pc = "wire" /\ task'[p].cmd = task[p].cmd
    BY <1>4, <1>a DEF FillPolicy, IdleTask, Tasks
  <2>4. \/ ~policy'.ok /\ exposed' = exposed /\ policy.ok
        \/ /\ policy'.ok /\ policy'.handle = task[p].pol.handle
           /\ exposed' = exposed \cup ({task[p].pol.handle} \ {0})
    BY <1>4, <1>a DEF FillPolicy, TornPolicy, ReadablePolicy
  <2>5. FreshHandles'
    BY <1>4, <1>a, <2>1, <2>2, <2>3, <2>4 DEF FillPolicy
  <2>6. CommandStages'
    BY <1>4, <2>1, <2>2, <2>3 DEF FillPolicy
  <2>7. OneWriter'
    BY <1>4, <2>1, <2>2, <2>3 DEF FillPolicy
  <2>8. CondemnedAreGone'
    <3> SUFFICES ASSUME ~overtaken PROVE CondemnedAreGone'
      BY <1>4 DEF FillPolicy
    <3>1. \A q \in Actors : task'[q].pc # "fill"
      BY <2>1, <2>2, <2>3
    <3>2. task[p].fresh => task[p].pol.handle \notin condemned
      BY <2>2
    <3>3. ~suspended \/ ResumeHasWritten' => task[p].pol.handle \notin condemned
      BY <1>4, <2>1, <2>2, <2>3, <3>2 DEF FillPolicy
    <3>4. QED
      BY <1>4, <2>4, <3>1, <3>3 DEF FillPolicy
  <2>9. QED
    BY <1>0, <2>5, <2>6, <2>7, <2>8
<1>5. ASSUME NEW p \in Actors, WireStep(p) PROVE HandleInv'
  <2>1. \A q \in Actors \ {p} : task'[q] = task[q]
    BY <1>5, <1>a DEF WireStep
  <2>2. task[p].pc = "wire"
    BY <1>5 DEF WireStep
  <2>3. UNCHANGED <<policy, suspended, issued, request, exposed, condemned, overtaken>>
    BY <1>5 DEF WireStep
  <2>4. \/ /\ task'[p].cmd = task[p].cmd /\ task'[p].pol = task[p].pol
           /\ task'[p].fresh = task[p].fresh
           /\ task'[p].pc = "wire" \/ (task'[p].pc = "clear" /\ task[p].cmd = "resume")
        \/ task'[p].pc = "idle"
    <3>1. CASE task[p].at # 3
      <4>1. task'[p] = [task[p] EXCEPT !.at = task[p].at + 1]
        BY <1>5, <1>a, <3>1 DEF WireStep
      <4>2. QED
        BY <1>a, <2>2, <4>1, NextInVM
    <3>2. CASE task[p].at = 3 /\ task[p].cmd = "resume"
      BY <1>5, <1>a, <3>2 DEF WireStep, Tasks
    <3>3. CASE task[p].at = 3 /\ task[p].cmd # "resume"
      BY <1>5, <1>a, <3>3 DEF WireStep, EndedTask, IdleTask
    <3>4. QED
      BY <3>1, <3>2, <3>3
  <2>5. QED
    BY <1>0, <2>1, <2>2, <2>3, <2>4, HandlesStandStill
<1>6. ASSUME NEW p \in Actors, WireFails(p) PROVE HandleInv'
  <2>1. \A q \in Actors \ {p} : task'[q] = task[q]
    BY <1>6, <1>a DEF WireFails
  <2>2. /\ task[p].pc = "wire"
        /\ \/ task'[p].pc = "clear" /\ task'[p].cmd = "resume" /\ task[p].cmd = "resume"
           \/ task'[p].pc = "idle"
    BY <1>6, <1>a DEF WireFails, IdleTask, Tasks
  <2>3. QED
    BY <1>0, <1>6, <2>1, <2>2 DEF WireFails
<1>7. ASSUME NEW p \in Actors, ClearSuspension(p) PROVE HandleInv'
  <2>1. \A q \in Actors \ {p} : task'[q] = task[q]
    BY <1>7, <1>a DEF ClearSuspension
  <2>2. task[p].pc = "clear" /\ task[p].cmd = "resume" /\ task'[p].pc = "idle"
    BY <1>7, <1>a DEF ClearSuspension, EndedTask, IdleTask
  <2>3. request'.pc = request.pc /\ (request'.pc = "compared" => request'.spans)
    BY <1>7 DEF ClearSuspension, AccessTypeOK
  <2>4. QED
    BY <1>0, <1>7, <2>1, <2>2, <2>3 DEF ClearSuspension
<1>8. ASSUME NEW p \in Actors, CommandDies(p) PROVE HandleInv'
  <2>1. (\A q \in Actors \ {p} : task'[q] = task[q]) /\ task'[p].pc = "idle"
    BY <1>8, <1>a DEF CommandDies, IdleTask
  <2>2. QED
    BY <1>0, <1>8, <2>1 DEF CommandDies
<1>9. CASE SuspendBox
  BY <1>0, <1>9 DEF SuspendBox
<1>10. ASSUME NEW h \in exposed, CompareHandle(h) PROVE HandleInv'
  BY <1>0, <1>10 DEF CompareHandle
<1>11. CASE AdmitRequest \/ RefuseRequest
  <2>1. UNCHANGED <<policy, suspended, issued, task, exposed, condemned, overtaken>>
    BY <1>11 DEF AdmitRequest, RefuseRequest
  <2>2. request'.pc = "none"
    BY <1>11 DEF AdmitRequest, RefuseRequest, NoRequest
  <2>3. FreshHandles' /\ CommandStages' /\ OneWriter'
    BY <2>1
  <2>4. CondemnedAreGone'
    BY <2>1, <2>2
  <2>5. QED
    BY <1>0, <2>3, <2>4
<1>12. CASE UNCHANGED accessVars
  BY <1>0, <1>12 DEF accessVars
<1>13. QED
  BY <1>1, <1>2, <1>3, <1>4, <1>5, <1>6, <1>7, <1>8, <1>9, <1>10, <1>11, <1>12
  DEF AccessNext, ActorStep

LEMMA HandleStart == AccessInit => HandleInv
<1> SUFFICES ASSUME AccessInit PROVE HandleInv
  OBVIOUS
<1>1. policy.ok /\ policy.handle \in {0, 1} /\ issued = policy.handle
      /\ exposed = {policy.handle} \ {0} /\ condemned = {}
  BY DEF AccessInit
<1>2. \A p \in Actors : task[p].pc = "idle"
  BY DEF AccessInit, IdleTask
<1>3. request.pc = "none"
  BY DEF AccessInit, NoRequest
<1>4. FreshHandles
  BY <1>1, <1>2 DEF FreshHandles
<1>5. CommandStages /\ OneWriter /\ CondemnedAreGone
  BY <1>1, <1>2, <1>3 DEF CommandStages, OneWriter, CondemnedAreGone
<1>6. QED
  BY <1>4, <1>5, AccessStartTypes DEF HandleInv

\* A handle in use when the sandbox was suspended is never the policy's again once the
\* suspension is over: a resume writes a handle of its own before it clears the
\* suspension, and who writes afterwards has read that one.
THEOREM CondemnedStaysDead == AccessSpec => []CondemnedHandleStaysDead
<1>1. HandleInv => CondemnedHandleStaysDead
  BY DEF HandleInv, CondemnedAreGone, CondemnedHandleStaysDead
<1>2. QED
  BY <1>1, HandleStart, HandleStep, PTL DEF AccessSpec

\* A request admitted with a condemned handle had compared it before the resume.
THEOREM CondemnedOpensNothing == AccessSpec => CondemnedHandleOpensNothing
<1>1. HandleInv /\ [AccessNext]_accessVars
        => [AdmitRequest /\ request.handle \in condemned => overtaken \/ request.spans]_accessVars
  BY DEF HandleInv, CondemnedAreGone, AdmitRequest
<1>2. QED
  BY <1>1, HandleStart, HandleStep, PTL DEF AccessSpec, CondemnedHandleOpensNothing

-----------------------------------------------------------------------------
(* A command that runs alone. *)

\* A command is alone until another begins; one that ended so has no other beside it.
AloneIsAlone ==
  \A p \in Actors :
    /\ task[p].pc # "idle" /\ task[p].alone
         => \A q \in Actors \ {p} : task[q].pc = "idle" /\ ~task[q].wired
    /\ task[p].pc = "idle" /\ task[p].wired => \A q \in Actors \ {p} : task[q].pc = "idle"

WiredWith(h) == policy.ok /\ policy.handle = h /\ vm = [git |-> h, script |-> h]

\* A command on its way into the VM has a handle to take there; one that is alone finds
\* the policy and the VM as it left them.
SoloAt(p) ==
  /\ task[p].pc \in {"read", "edit", "fill"} => task[p].at = 1
  /\ task[p].pc \in {"edit", "fill"} =>
       /\ task[p].cmd \in Commands
       /\ task[p].cmd \notin {"enable", "disable"} => task[p].pol.handle # 0
  /\ task[p].pc = "wire" => task[p].pol.handle # 0
  /\ task[p].pc \in {"read", "edit", "fill", "wire"} => ~task[p].wired
  /\ task[p].pc = "fill" /\ task[p].alone => ~policy.ok
  /\ task[p].pc = "wire" /\ task[p].alone =>
       /\ policy.ok /\ policy.handle = task[p].pol.handle
       /\ task[p].at = 3 => vm.git = policy.handle
  /\ ((task[p].pc = "clear" /\ task[p].alone) \/ task[p].pc = "idle") /\ task[p].wired
       => policy.handle # 0 /\ WiredWith(policy.handle)

SoloInv == AccessTypeOK /\ AloneIsAlone /\ \A p \in Actors : SoloAt(p)

\* A step of a command that has begun takes nothing from the others: none of them is alone.
LEMMA SoloOthers ==
  ASSUME SoloInv, NEW p \in Actors, task[p].pc # "idle",
         \A q \in Actors \ {p} : task'[q] = task[q],
         task'[p].pc # "idle" => task'[p].alone = task[p].alone,
         task'[p].pc = "idle" /\ task'[p].wired => task[p].alone,
         SoloAt(p)'
  PROVE  AloneIsAlone' /\ \A q \in Actors : SoloAt(q)'
<1>1. AloneIsAlone'
  BY DEF SoloInv, AloneIsAlone
<1>2. ASSUME NEW q \in Actors \ {p} PROVE SoloAt(q)'
  <2>1. ~(task[q].pc # "idle" /\ task[q].alone) /\ ~(task[q].pc = "idle" /\ task[q].wired)
    BY DEF SoloInv, AloneIsAlone
  <2>2. task'[q] = task[q] /\ SoloAt(q)
    BY DEF SoloInv
  <2>3. QED
    BY <2>1, <2>2 DEF SoloAt
<1>3. QED
  BY <1>1, <1>2

LEMMA SoloStep ==
  ASSUME SoloInv, [AccessNext]_accessVars
  PROVE  SoloInv'
<1> USE DEF SoloInv, accessFiles, accessHistory
<1>0. AccessTypeOK'
  BY AccessTypeStep
<1>a. /\ issued \in Nat /\ task \in [Actors -> Tasks]
      /\ \A p \in Actors : task[p] \in Tasks /\ task[p].pol.handle \in Nat
  BY HandleRange DEF AccessTypeOK, Tasks, Policies
<1>1. ASSUME NEW p \in Actors, NEW c \in Commands, BeginCommand(p, c) PROVE SoloInv'
  <2>1. task[p].pc = "idle" /\ policy' = policy /\ vm' = vm
    BY <1>1 DEF BeginCommand
  <2>2. \A q \in Actors \ {p} :
          /\ task'[q].pc = task[q].pc /\ task'[q].cmd = task[q].cmd /\ task'[q].pol = task[q].pol
          /\ ~task'[q].alone /\ ~task'[q].wired /\ task'[q].at = task[q].at
    BY <1>1, <1>a DEF BeginCommand, Tasks
  <2>3. /\ task'[p].pc = "read" /\ ~task'[p].wired /\ task'[p].at = 1
        /\ task'[p].alone => \A q \in Actors \ {p} : task[q].pc = "idle"
    BY <1>1, <1>a DEF BeginCommand, IdleTask, Tasks
  <2>4. AloneIsAlone'
    BY <2>2, <2>3 DEF AloneIsAlone
  <2>5. SoloAt(p)'
    BY <2>3 DEF SoloAt
  <2>6. ASSUME NEW q \in Actors \ {p} PROVE SoloAt(q)'
    <3>1. SoloAt(q)
      OBVIOUS
    <3>2. QED
      BY <2>2, <3>1 DEF SoloAt
  <2>7. QED
    BY <1>0, <2>4, <2>5, <2>6
<1>2. ASSUME NEW p \in Actors, ReadPolicy(p) PROVE SoloInv'
  <2> DEFINE c == task[p].cmd
             renew == Renews(c, policy)
  <2>0. \A q \in Actors \ {p} : task'[q] = task[q]
    BY <1>2, <1>a DEF ReadPolicy
  <2>1. /\ task[p].pc = "read" /\ ~task[p].wired /\ policy' = policy /\ vm' = vm
    BY <1>2 DEF ReadPolicy, SoloAt
  <2>2. CASE ~policy.ok \/ ~(Saves(c, policy) \/ c = "activate")
    <3>1. task'[p] = IdleTask
      BY <1>2, <1>a, <2>2 DEF ReadPolicy
    <3>2. SoloAt(p)'
      BY <3>1 DEF SoloAt, IdleTask
    <3>3. QED
      BY <1>0, <2>0, <2>1, <3>1, <3>2, SoloOthers DEF IdleTask
  <2>3. CASE ~(~policy.ok \/ ~(Saves(c, policy) \/ c = "activate"))
    <3>1. task'[p] = [task[p] EXCEPT !.pol = Edited(c), !.fresh = renew,
                          !.pc = IF Saves(c, policy) THEN "edit" ELSE "wire"]
      BY <1>2, <1>a, <2>3 DEF ReadPolicy
    <3>2. /\ task'[p].pol.handle = (IF renew THEN issued + 1 ELSE policy.handle)
          /\ task'[p].cmd = c /\ ~task'[p].wired /\ task'[p].alone = task[p].alone
          /\ task'[p].pc = (IF Saves(c, policy) THEN "edit" ELSE "wire")
          /\ task'[p].at = task[p].at
      BY <1>a, <2>1, <3>1 DEF Edited, Tasks
    <3>3. c \in Commands /\ (c \notin {"enable", "disable"} => task'[p].pol.handle # 0)
      BY <1>a, <2>3, <3>2 DEF Saves, Renews, Commands
    <3>4. ~Saves(c, policy) => ~renew /\ policy.handle # 0 /\ c \notin {"enable", "disable"}
      BY <2>3 DEF Saves, Renews
    <3>5. SoloAt(p)'
      BY <2>1, <2>3, <3>2, <3>3, <3>4 DEF SoloAt
    <3>6. QED
      BY <1>0, <2>0, <2>1, <3>2, <3>5, SoloOthers
  <2>4. QED
    BY <2>2, <2>3
<1>3. ASSUME NEW p \in Actors, TruncatePolicy(p) PROVE SoloInv'
  <2>1. \A q \in Actors \ {p} : task'[q] = task[q]
    BY <1>3, <1>a DEF TruncatePolicy
  <2>2. task[p].pc = "edit" /\ task'[p] = [task[p] EXCEPT !.pc = "fill"] /\ ~policy'.ok
    BY <1>3, <1>a DEF TruncatePolicy, TornPolicy
  <2>3. SoloAt(p)' /\ task'[p].alone = task[p].alone
    BY <1>a, <2>2 DEF SoloAt, Tasks
  <2>4. task'[p].pc = "fill"
    BY <1>a, <2>2 DEF Tasks
  <2>5. QED
    BY <1>0, <2>1, <2>2, <2>3, <2>4, SoloOthers
<1>4. ASSUME NEW p \in Actors, FillPolicy(p) PROVE SoloInv'
  <2>1. \A q \in Actors \ {p} : task'[q] = task[q]
    BY <1>4, <1>a DEF FillPolicy
  <2>2. task[p].pc = "fill" /\ SoloAt(p)
    BY <1>4 DEF FillPolicy
  <2>3. CASE task[p].cmd \in {"enable", "disable"}
    <3>1. task'[p] = IdleTask
      BY <1>4, <1>a, <2>3 DEF FillPolicy
    <3>2. SoloAt(p)'
      BY <3>1 DEF SoloAt, IdleTask
    <3>3. QED
      BY <1>0, <2>1, <2>2, <3>1, <3>2, SoloOthers DEF IdleTask
  <2>4. CASE task[p].cmd \notin {"enable", "disable"}
    <3>1. task'[p] = [task[p] EXCEPT !.fresh = FALSE, !.pol.egress = FALSE, !.pc = "wire"]
      BY <1>4, <1>a, <2>4 DEF FillPolicy
    <3>2. /\ task'[p].pc = "wire" /\ task'[p].pol.handle = task[p].pol.handle
          /\ task'[p].alone = task[p].alone /\ ~task'[p].wired /\ task'[p].at = task[p].at
      BY <1>a, <2>2, <3>1 DEF Tasks, Policies, SoloAt
    <3>3. task[p].alone => policy'.ok /\ policy'.handle = task[p].pol.handle
      BY <1>4, <2>2 DEF FillPolicy, SoloAt, ReadablePolicy
    <3>4. task[p].at # 3
      BY <2>2 DEF SoloAt
    <3>5. SoloAt(p)'
      BY <2>2, <2>4, <3>2, <3>3, <3>4 DEF SoloAt
    <3>6. QED
      BY <1>0, <2>1, <2>2, <3>2, <3>5, SoloOthers
  <2>5. QED
    BY <2>3, <2>4
<1>5. ASSUME NEW p \in Actors, WireStep(p) PROVE SoloInv'
  <2>1. \A q \in Actors \ {p} : task'[q] = task[q]
    BY <1>5, <1>a DEF WireStep
  <2>2. task[p].pc = "wire" /\ SoloAt(p) /\ policy' = policy /\ task[p].at \in {1, 2, 3}
    BY <1>5, <1>a DEF WireStep, Tasks, WireSteps
  <2>3. CASE task[p].at # 3
    <3>1. task'[p] = [task[p] EXCEPT !.at = task[p].at + 1]
      BY <1>5, <1>a, <2>2, <2>3 DEF WireStep
    <3>2. /\ task'[p].pc = "wire" /\ task'[p].pol = task[p].pol /\ task'[p].alone = task[p].alone
          /\ task'[p].wired = task[p].wired /\ task'[p].at = task[p].at + 1
      BY <1>a, <2>2, <3>1 DEF Tasks
    <3>3. task[p].at = 2 => vm'.git = task[p].pol.handle
      BY <1>5 DEF WireStep, AccessTypeOK
    <3>4. SoloAt(p)'
      BY <2>2, <2>3, <3>2, <3>3 DEF SoloAt
    <3>5. QED
      BY <1>0, <2>1, <2>2, <3>2, <3>4, SoloOthers
  <2>4. CASE task[p].at = 3
    <3>1. task[p].alone => policy.handle # 0 /\ WiredWith(policy.handle)'
      BY <1>5, <2>2, <2>4 DEF WireStep, SoloAt, WiredWith, AccessTypeOK
    <3>2. CASE task[p].cmd = "resume"
      <4>1. task'[p] = [task[p] EXCEPT !.at = 1, !.wired = TRUE, !.pc = "clear"]
        BY <1>5, <1>a, <2>4, <3>2 DEF WireStep
      <4>2. task'[p].pc = "clear" /\ task'[p].alone = task[p].alone
        BY <1>a, <4>1 DEF Tasks
      <4>3. SoloAt(p)'
        BY <2>2, <3>1, <4>2 DEF SoloAt
      <4>4. QED
        BY <1>0, <2>1, <2>2, <4>2, <4>3, SoloOthers
    <3>3. CASE task[p].cmd # "resume"
      <4>1. task'[p] = EndedTask(task[p], TRUE)
        BY <1>5, <1>a, <2>4, <3>3 DEF WireStep
      <4>2. task'[p].pc = "idle" /\ (task'[p].wired => task[p].alone)
        BY <4>1 DEF EndedTask, IdleTask
      <4>3. SoloAt(p)'
        BY <2>2, <3>1, <4>2 DEF SoloAt
      <4>4. QED
        BY <1>0, <2>1, <2>2, <4>2, <4>3, SoloOthers
    <3>4. QED
      BY <3>2, <3>3
  <2>5. QED
    BY <2>3, <2>4
<1>6. ASSUME NEW p \in Actors, WireFails(p) PROVE SoloInv'
  <2>1. \A q \in Actors \ {p} : task'[q] = task[q]
    BY <1>6, <1>a DEF WireFails
  <2>2. task[p].pc = "wire" /\ ~task[p].wired
    BY <1>6 DEF WireFails, SoloAt
  <2>3. \/ /\ task'[p].pc = "clear" /\ task'[p].alone = task[p].alone /\ ~task'[p].wired
        \/ task'[p].pc = "idle" /\ ~task'[p].wired
    BY <1>6, <1>a, <2>2 DEF WireFails, IdleTask, Tasks
  <2>4. SoloAt(p)'
    BY <2>3 DEF SoloAt
  <2>5. QED
    BY <1>0, <2>1, <2>2, <2>3, <2>4, SoloOthers
<1>7. ASSUME NEW p \in Actors, ClearSuspension(p) PROVE SoloInv'
  <2>1. \A q \in Actors \ {p} : task'[q] = task[q]
    BY <1>7, <1>a DEF ClearSuspension
  <2>2. /\ task[p].pc = "clear" /\ SoloAt(p) /\ policy' = policy /\ vm' = vm
        /\ task'[p].pc = "idle" /\ task'[p].wired = (task[p].wired /\ task[p].alone)
    BY <1>7, <1>a DEF ClearSuspension, EndedTask, IdleTask
  <2>3. SoloAt(p)'
    BY <2>2 DEF SoloAt, WiredWith
  <2>4. QED
    BY <1>0, <2>1, <2>2, <2>3, SoloOthers
<1>8. ASSUME NEW p \in Actors, CommandDies(p) PROVE SoloInv'
  <2>1. /\ \A q \in Actors \ {p} : task'[q] = task[q]
        /\ task[p].pc # "idle" /\ task'[p].pc = "idle" /\ ~task'[p].wired
    BY <1>8, <1>a DEF CommandDies, IdleTask
  <2>2. SoloAt(p)'
    BY <2>1 DEF SoloAt
  <2>3. QED
    BY <1>0, <2>1, <2>2, SoloOthers
<1>9. ASSUME UNCHANGED <<policy, vm, task>> PROVE SoloInv'
  BY <1>0, <1>9 DEF AloneIsAlone, SoloAt, WiredWith
<1>10. CASE SuspendBox
  BY <1>9, <1>10 DEF SuspendBox
<1>11. ASSUME NEW h \in exposed, CompareHandle(h) PROVE SoloInv'
  BY <1>9, <1>11 DEF CompareHandle
<1>12. CASE AdmitRequest \/ RefuseRequest
  BY <1>9, <1>12 DEF AdmitRequest, RefuseRequest
<1>13. CASE UNCHANGED accessVars
  BY <1>9, <1>13 DEF accessVars
<1>14. QED
  BY <1>1, <1>2, <1>3, <1>4, <1>5, <1>6, <1>7, <1>8, <1>10, <1>11, <1>12, <1>13
  DEF AccessNext, ActorStep

\* A rewire, resume or activation that ran alone and got through leaves git and the shell
\* profile with the policy's handle: what was half-done before it does not matter.
THEOREM SoloWiresVM == AccessSpec => []SoloCommandWiresVM
<1>1. AccessInit => SoloInv
  <2>1. AccessInit => \A p \in Actors : task[p].pc = "idle" /\ ~task[p].wired
    BY DEF AccessInit, IdleTask
  <2>2. QED
    BY <2>1, AccessStartTypes DEF SoloInv, AloneIsAlone, SoloAt
<1>2. SoloInv => SoloCommandWiresVM
  BY DEF SoloInv, SoloAt, WiredWith, SoloCommandWiresVM
<1>3. QED
  BY <1>1, <1>2, SoloStep, PTL DEF AccessSpec

-----------------------------------------------------------------------------
(* Fly tokens *)

\* The stages at which a request is about one token.
HasToken == {"record", "show", "find", "revoke", "forget"}

\* That token exists, and so does everything listed, live or shown.
TokensWereMade ==
  /\ listed \subseteq made /\ live \subseteq made /\ shown \subseteq made
  /\ \A r \in Requests : req[r].at \in HasToken => req[r].token \in made

\* A request about to strike a token off the list has seen Fly revoke it.
ForgottenIsDead == \A r \in Requests : req[r].at = "forget" => req[r].token \notin live

\* A value about to be shown is on the list already, unless it is of no more use.
AboutToShow ==
  \A r \in Requests :
    req[r].at = "show" /\ req[r].token \in live \ stale => req[r].token \in listed

FlyInv ==
  FlyTypeOK /\ TokensWereMade /\ ForgottenIsDead /\ AboutToShow /\ ShownTokensCanBeRevoked

LEMMA FlyTypeStep ==
  ASSUME FlyTypeOK, TokensWereMade, [FlyNext]_flyVars
  PROVE  FlyTypeOK'
<1> USE DEF FlyTypeOK, FlyAt, Answer, Waiting, Loaded
<1>1. ASSUME NEW r \in Requests, NEW o \in Orgs, AskForToken(r, o) PROVE FlyTypeOK'
  BY <1>1 DEF AskForToken
<1>2. ASSUME NEW r \in Requests, OrgCached(r) PROVE FlyTypeOK'
  BY <1>2 DEF OrgCached
<1>3. ASSUME NEW r \in Requests, OrgAsked(r) PROVE FlyTypeOK'
  BY <1>3 DEF OrgAsked
<1>4. ASSUME NEW r \in Requests, FlyCreates(r) PROVE FlyTypeOK'
  BY <1>4 DEF FlyCreates
<1>5. ASSUME NEW r \in Requests, RecordToken(r) PROVE FlyTypeOK'
  <2>1. req[r].token \in Tokens
    BY <1>5 DEF RecordToken, TokensWereMade, HasToken
  <2>2. QED
    BY <1>5, <2>1 DEF RecordToken
<1>6. ASSUME NEW r \in Requests, ShowToken(r) PROVE FlyTypeOK'
  <2>1. req[r].token \in Tokens
    BY <1>6 DEF ShowToken, TokensWereMade, HasToken
  <2>2. QED
    BY <1>6, <2>1 DEF ShowToken
<1>7. ASSUME NEW r \in Requests, NEW t \in Tokens, AskToRevoke(r, t) PROVE FlyTypeOK'
  BY <1>7 DEF AskToRevoke
<1>8. ASSUME NEW r \in Requests, FindFlyID(r) PROVE FlyTypeOK'
  BY <1>8 DEF FindFlyID
<1>9. ASSUME NEW r \in Requests, FlyRevokes(r) PROVE FlyTypeOK'
  BY <1>9 DEF FlyRevokes
<1>10. ASSUME NEW r \in Requests, ForgetToken(r) PROVE FlyTypeOK'
  BY <1>10 DEF ForgetToken
<1>11. ASSUME NEW r \in Requests, FlyFails(r) PROVE FlyTypeOK'
  BY <1>11 DEF FlyFails
<1>12. CASE GetOrgs \/ DaemonDies \/ CacheAges
  <2>1. CASE GetOrgs
    BY <2>1 DEF GetOrgs
  <2>2. CASE DaemonDies
    BY <2>2 DEF DaemonDies
  <2>3. CASE CacheAges
    BY <2>3 DEF CacheAges
  <2>4. QED
    BY <1>12, <2>1, <2>2, <2>3
<1>13. ASSUME NEW t \in Tokens, ExpiresHere(t) \/ EndsAtFly(t) PROVE FlyTypeOK'
  BY <1>13 DEF ExpiresHere, EndsAtFly
<1>14. ASSUME NEW o \in Orgs, LoginChanges(o) PROVE FlyTypeOK'
  BY <1>14 DEF LoginChanges
<1>15. CASE UNCHANGED flyVars
  BY <1>15 DEF flyVars
<1>16. QED
  BY <1>1, <1>2, <1>3, <1>4, <1>5, <1>6, <1>7, <1>8, <1>9, <1>10, <1>11, <1>12, <1>13,
     <1>14, <1>15 DEF FlyNext

LEMMA FlyStep ==
  ASSUME FlyInv, [FlyNext]_flyVars
  PROVE  FlyInv'
<1> USE DEF FlyInv, TokensWereMade, HasToken, ForgottenIsDead, AboutToShow,
            ShownTokensCanBeRevoked, FlyAt, Answer, Waiting, Loaded
<1>0. FlyTypeOK'
  BY FlyTypeStep
<1> USE DEF FlyTypeOK
<1>1. ASSUME NEW r \in Requests, NEW o \in Orgs, AskForToken(r, o) PROVE FlyInv'
  BY <1>0, <1>1 DEF AskForToken
<1>2. ASSUME NEW r \in Requests, OrgCached(r) PROVE FlyInv'
  BY <1>0, <1>2 DEF OrgCached
<1>3. ASSUME NEW r \in Requests, OrgAsked(r) PROVE FlyInv'
  BY <1>0, <1>3 DEF OrgAsked
<1>4. ASSUME NEW r \in Requests, FlyCreates(r) PROVE FlyInv'
  <2>1. PICK t \in Tokens \ made :
          /\ made' = made \cup {t} /\ live' = live \cup {t}
          /\ \/ req' = [req EXCEPT ![r].at = "record", ![r].token = t]
             \/ Answer(r)
    BY <1>4 DEF FlyCreates
  <2>2. \A q \in Requests \ {r} : req'[q] = req[q]
    BY <2>1
  <2>3. req'[r].at = "idle" \/ (req'[r].at = "record" /\ req'[r].token = t)
    <3>1. CASE req' = [req EXCEPT ![r].at = "record", ![r].token = t]
      BY <3>1
    <3>2. CASE Answer(r)
      BY <3>2
    <3>3. QED
      BY <2>1, <3>1, <3>2
  <2>4. TokensWereMade'
    BY <1>4, <2>1, <2>2, <2>3 DEF FlyCreates
  <2>5. ForgottenIsDead' /\ AboutToShow' /\ ShownTokensCanBeRevoked'
    BY <1>4, <2>1, <2>2, <2>3 DEF FlyCreates
  <2>6. QED
    BY <1>0, <2>4, <2>5
<1>5. ASSUME NEW r \in Requests, RecordToken(r) PROVE FlyInv'
  <2>1. \A q \in Requests \ {r} : req'[q] = req[q]
    BY <1>5 DEF RecordToken
  <2>2. \/ /\ listed' = Loaded \cup {req[r].token}
           /\ req'[r].at = "show" /\ req'[r].token = req[r].token
        \/ listed' = listed /\ req'[r].at = "idle"
    BY <1>5 DEF RecordToken
  <2>3. req[r].token \in made
    BY <1>5 DEF RecordToken
  <2>4. TokensWereMade' /\ ForgottenIsDead'
    BY <1>5, <2>1, <2>2, <2>3 DEF RecordToken
  <2>5. AboutToShow' /\ ShownTokensCanBeRevoked'
    BY <1>5, <2>1, <2>2, <2>3 DEF RecordToken
  <2>6. QED
    BY <1>0, <2>4, <2>5
<1>6. ASSUME NEW r \in Requests, ShowToken(r) PROVE FlyInv'
  BY <1>0, <1>6 DEF ShowToken
<1>7. ASSUME NEW r \in Requests, NEW t \in Tokens, AskToRevoke(r, t) PROVE FlyInv'
  <2>1. t \in made
    BY <1>7 DEF AskToRevoke
  <2>2. QED
    BY <1>0, <1>7, <2>1 DEF AskToRevoke
<1>8. ASSUME NEW r \in Requests, FindFlyID(r) PROVE FlyInv'
  BY <1>0, <1>8 DEF FindFlyID
<1>9. ASSUME NEW r \in Requests, FlyRevokes(r) PROVE FlyInv'
  BY <1>0, <1>9 DEF FlyRevokes
<1>10. ASSUME NEW r \in Requests, ForgetToken(r) PROVE FlyInv'
  <2>1. \A q \in Requests : (q # r /\ req'[q] = req[q]) \/ req'[q].at = "idle"
    BY <1>10 DEF ForgetToken
  <2>2. listed \ ({req[r].token} \cup stale) \subseteq listed' /\ listed' \subseteq listed
    BY <1>10 DEF ForgetToken
  <2>3. req[r].token \notin live
    BY <1>10 DEF ForgetToken
  <2>4. QED
    BY <1>0, <1>10, <2>1, <2>2, <2>3 DEF ForgetToken
<1>11. ASSUME NEW r \in Requests, FlyFails(r) PROVE FlyInv'
  BY <1>0, <1>11 DEF FlyFails
<1>12. CASE GetOrgs \/ DaemonDies \/ CacheAges
  BY <1>0, <1>12 DEF GetOrgs, DaemonDies, CacheAges
<1>13. ASSUME NEW t \in Tokens, ExpiresHere(t) \/ EndsAtFly(t) PROVE FlyInv'
  BY <1>0, <1>13 DEF ExpiresHere, EndsAtFly
<1>14. ASSUME NEW o \in Orgs, LoginChanges(o) PROVE FlyInv'
  BY <1>0, <1>14 DEF LoginChanges
<1>15. CASE UNCHANGED flyVars
  BY <1>0, <1>15 DEF flyVars
<1>16. QED
  BY <1>1, <1>2, <1>3, <1>4, <1>5, <1>6, <1>7, <1>8, <1>9, <1>10, <1>11, <1>12, <1>13,
     <1>14, <1>15 DEF FlyNext

LEMMA FlyStarts == FlyInit => FlyInv
BY DEF FlyInit, FlyInv, FlyTypeOK, TokensWereMade, HasToken, ForgottenIsDead, AboutToShow,
       ShownTokensCanBeRevoked, Waiting

\* What the list holds, what a request is about and what the person has seen are always
\* tokens that Fly has made.
THEOREM FlyTypeCorrect == FlySpec => []FlyTypeOK
BY FlyStarts, FlyStep, PTL DEF FlySpec, FlyInv

\* However many creations and revocations overlap, each loading and saving the list
\* again under the lock, no value the person holds is lost from it while Fly accepts it.
THEOREM ShownTokensStayListed == FlySpec => []ShownTokensCanBeRevoked
BY FlyStarts, FlyStep, PTL DEF FlySpec, FlyInv

-----------------------------------------------------------------------------
(* The parts together *)

\* A behaviour of the broker's four parts side by side is a behaviour of each of them, so
\* that what is proved of one holds of the whole.
THEOREM BrokerRunsItsParts == BrokerSpec => AccessSpec /\ DaemonSpec /\ TotalsSpec /\ FlySpec
<1>1. BrokerInit => AccessInit /\ DaemonInit /\ TotalsInit /\ FlyInit
  BY DEF BrokerInit
<1>2. [BrokerNext]_brokerVars => [AccessNext]_accessVars
  BY DEF BrokerNext, brokerVars
<1>3. [BrokerNext]_brokerVars => [DaemonNext]_daemonVars
  BY DEF BrokerNext, brokerVars
<1>4. [BrokerNext]_brokerVars => [TotalsNext]_totalsVars
  BY DEF BrokerNext, brokerVars
<1>5. [BrokerNext]_brokerVars => [FlyNext]_flyVars
  BY DEF BrokerNext, brokerVars
<1>6. QED
  BY <1>1, <1>2, <1>3, <1>4, <1>5, PTL
  DEF BrokerSpec, AccessSpec, DaemonSpec, TotalsSpec, FlySpec

\* Every part of the broker keeps its types while the others run.
THEOREM BrokerTypeCorrect == BrokerSpec => []BrokerTypeOK
<1>1. AccessTypeOK /\ DaemonTypeOK /\ TotalsTypeOK /\ FlyTypeOK => BrokerTypeOK
  BY DEF BrokerTypeOK
<1>2. QED
  BY <1>1, BrokerRunsItsParts, AccessTypeCorrect, DaemonTypeCorrect, TotalsTypeCorrect,
     FlyTypeCorrect, PTL

\* So the broker is safe as a whole: no condemned handle opens anything, a command that
\* ran alone left the VM wired as it should be, the daemon that serves can be found, every
\* connection is counted once, and every token shown can be revoked.
THEOREM BrokerIsSafe ==
  BrokerSpec => /\ [](/\ CondemnedHandleStaysDead /\ SoloCommandWiresVM
                     /\ ServingDaemonCanBeFound /\ EveryFlowCountedOnce
                     /\ ShownTokensCanBeRevoked)
                /\ CondemnedHandleOpensNothing
BY BrokerRunsItsParts, CondemnedStaysDead, SoloWiresVM, DaemonIsFound, FlowsAreCountedOnce,
   ShownTokensStayListed, CondemnedOpensNothing, PTL
=============================================================================
