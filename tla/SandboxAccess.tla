--------------------------- MODULE SandboxAccess ---------------------------
(***************************************************************************)
(* Who gets into the credential broker: one sandbox's policy.json and      *)
(* suspension file, the handle the VM presents, and the commands that      *)
(* change them from several processes at once (the command line, the       *)
(* app through the daemon's control socket, a creation job).               *)
(*                                                                         *)
(* policy.json is read, changed in memory and rewritten in place.          *)
(* Handles are numbered in the order they are generated; 0 is "no handle". *)
(***************************************************************************)
EXTENDS Integers, FiniteSets

CONSTANTS
  Actors,       \* processes or handlers that may run a command
  MaxHandle    \* bound on the handles generated

ASSUME AccessAssumption == IsFiniteSet(Actors) /\ MaxHandle \in Nat \ {0}

VARIABLES
  policy,      \* policy.json: can it be parsed, the handle, is a port set
  suspended,   \* does the suspension file exist
  vm,          \* the handle in the VM's git configuration and in its profile script
  issued,      \* the last handle generated
  task,        \* the command each process runs
  request,     \* one request from the VM
  exposed,     \* history: handles that have been in policy.json
  condemned,   \* history: handles exposed when the sandbox was last suspended
  overtaken    \* history: a suspension landed after a resume had written its
               \* handle, or a command wrote back a policy that had been replaced

accessVars == <<policy, suspended, vm, issued, task, request,
                exposed, condemned, overtaken>>

Handles == 0 .. MaxHandle
Policies == [handle : Handles, egress : BOOLEAN]
TornPolicy == [ok |-> FALSE, handle |-> 0, egress |-> FALSE]
ReadablePolicy(p) == [ok |-> TRUE, handle |-> p.handle, egress |-> p.egress]

Commands == {"rewire", "resume", "activate", "enable", "disable"}
WireSteps == 1 .. 3   \* clean-up; rewrite rule and auth header; profile script

IdleTask == [cmd |-> "none", pc |-> "idle", pol |-> [handle |-> 0, egress |-> FALSE],
         fresh |-> FALSE, at |-> 1, wired |-> FALSE, alone |-> FALSE]

\* A command that has ended; how it ended matters until the next one begins.
EndedTask(t, wired) == [IdleTask EXCEPT !.wired = wired /\ t.alone]

Tasks == [cmd : Commands \cup {"none"},
          pc : {"idle", "read", "edit", "fill", "wire", "clear"},
          pol : Policies, fresh : BOOLEAN, at : WireSteps, wired : BOOLEAN,
          alone : BOOLEAN]

AccessTypeOK ==
  /\ policy \in [ok : BOOLEAN, handle : Handles, egress : BOOLEAN]
  /\ suspended \in BOOLEAN
  /\ vm \in [git : Handles, script : Handles]
  /\ issued \in Handles
  /\ task \in [Actors -> Tasks]
  /\ request \in [pc : {"none", "compared"}, handle : Handles, spans : BOOLEAN]
  /\ exposed \subseteq 1 .. MaxHandle
  /\ condemned \subseteq 1 .. MaxHandle
  /\ overtaken \in BOOLEAN

NoRequest == [pc |-> "none", handle |-> 0, spans |-> FALSE]

\* A sandbox as PolicyForSpec leaves it, or one from before handles existed.
AccessInit ==
  /\ \E h \in {0, 1} :
       /\ policy = [ok |-> TRUE, handle |-> h, egress |-> FALSE]
       /\ vm = [git |-> h, script |-> h]
       /\ issued = h
       /\ exposed = {h} \ {0}
  /\ suspended = FALSE
  /\ task = [p \in Actors |-> IdleTask]
  /\ request = NoRequest
  /\ condemned = {}
  /\ overtaken = FALSE

accessFiles == <<policy, suspended, vm, issued>>
accessHistory == <<exposed, condemned, overtaken>>

----------------------------------------------------------------------------
(* Commands *)

\* A command starts; from here on it and any other that runs are not alone.
BeginCommand(p, c) ==
  /\ task[p].pc = "idle"
  /\ LET solo == \A q \in Actors \ {p} : task[q].pc = "idle"
     IN task' = [q \in Actors |->
                   IF q = p THEN [IdleTask EXCEPT !.cmd = c, !.pc = "read", !.alone = solo]
                   ELSE [task[q] EXCEPT !.alone = FALSE, !.wired = FALSE]]
  /\ UNCHANGED <<accessFiles, request, accessHistory>>

\* Does this command put a new handle into the policy it has read?
Renews(c, p) == c \in {"rewire", "resume"} \/ (c = "activate" /\ p.handle = 0)

\* Does it write the policy at all? (enableEgress keeps a port it finds.)
Saves(c, p) == Renews(c, p) \/ c = "disable" \/ (c = "enable" /\ ~p.egress)

\* Mutant: a resume keeps the handle.
EditedInPlace(c) ==
  [handle |-> IF Renews(c, policy) /\ c # "resume" THEN issued + 1 ELSE policy.handle,
   egress |-> IF c \in {"enable", "disable"} THEN c = "enable" ELSE policy.egress]

\* The change a command makes in memory.
Edited(c) ==
  [handle |-> IF Renews(c, policy) THEN issued + 1 ELSE policy.handle,
   egress |-> IF c \in {"enable", "disable"} THEN c = "enable" ELSE policy.egress]

\* LoadPolicy, and that change; a file that cannot be parsed is an error.
ReadPolicy(p) ==
  /\ task[p].pc = "read"
  /\ LET c     == task[p].cmd
         renew == Renews(c, policy)
     IN IF ~policy.ok \/ ~(Saves(c, policy) \/ c = "activate")
        THEN /\ task' = [task EXCEPT ![p] = IdleTask]
             /\ UNCHANGED issued
        ELSE /\ renew => issued < MaxHandle
             /\ issued' = IF renew THEN issued + 1 ELSE issued
             /\ task' = [task EXCEPT ![p].pol = Edited(c), ![p].fresh = renew,
                          ![p].pc = IF Saves(c, policy) THEN "edit" ELSE "wire"]
  /\ UNCHANGED <<policy, suspended, vm, request, accessHistory>>

\* SavePolicy opens the file with O_TRUNC ...  Until it has, disableEgress is in
\* the VM taking the rules out, for seconds, with the policy it has read.
TruncatePolicy(p) ==
  /\ task[p].pc = "edit"
  /\ policy' = TornPolicy
  /\ overtaken' = (overtaken \/ ~policy.ok
                     \/ (~task[p].fresh /\ task[p].pol.handle # policy.handle))
  /\ task' = [task EXCEPT ![p].pc = "fill"]
  /\ UNCHANGED <<suspended, vm, issued, request, exposed, condemned>>

\* Fields the JSON of a policy has; more of them make a longer file.
PolicySize(p) == (IF p.handle # 0 THEN 1 ELSE 0) + (IF p.egress THEN 1 ELSE 0)

\* ... and writes from the start. What another command wrote in the meantime
\* sticks out at the end if it was longer.
FillPolicy(p) ==
  /\ task[p].pc = "fill"
  /\ LET mine == task[p].pol
     IN IF policy.ok /\ PolicySize(policy) > PolicySize(mine)
        THEN /\ policy' = TornPolicy
             /\ UNCHANGED exposed
        ELSE /\ policy' = ReadablePolicy(mine)
             /\ exposed' = exposed \cup ({mine.handle} \ {0})
  /\ task' = [task EXCEPT ![p] =
       IF @.cmd \in {"enable", "disable"} THEN IdleTask
       ELSE [@ EXCEPT !.fresh = FALSE, !.pol.egress = FALSE, !.pc = "wire"]]
  /\ UNCHANGED <<suspended, vm, issued, request, condemned, overtaken>>

\* The commands wireBrokerInVM runs in the VM, one after the other. The second and
\* the third, which only together let git present a handle, are one step here.
WireStep(p) ==
  /\ task[p].pc = "wire"
  /\ LET h    == task[p].pol.handle
         at   == task[p].at
         last == at = 3
     IN /\ vm' = CASE at = 1 -> [vm EXCEPT !.git = 0]
                   [] at = 2 -> [vm EXCEPT !.git = h]
                   [] at = 3 -> [vm EXCEPT !.script = h]
        /\ task' = [task EXCEPT ![p] =
             CASE ~last              -> [@ EXCEPT !.at = at + 1]
               [] @.cmd = "resume" /\ last -> [@ EXCEPT !.at = 1, !.wired = TRUE, !.pc = "clear"]
               [] OTHER              -> EndedTask(@, TRUE)]
  /\ UNCHANGED <<policy, suspended, issued, request, accessHistory>>

\* Mutant: an error of the last command in the VM is not reported.
WireFailsSilently(p) ==
  /\ task[p].pc = "wire"
  /\ task' = [task EXCEPT ![p] = EndedTask(@, TRUE)]
  /\ UNCHANGED <<accessFiles, request, accessHistory>>

\* One of them fails: rewire and activate give up, resume only says so.
WireFails(p) ==
  /\ task[p].pc = "wire"
  /\ task' = [task EXCEPT ![p] = IF @.cmd = "resume"
                                 THEN [@ EXCEPT !.pc = "clear", !.at = 1] ELSE IdleTask]
  /\ UNCHANGED <<accessFiles, request, accessHistory>>

\* resumeSandbox's last step.
ClearSuspension(p) ==
  /\ task[p].pc = "clear"
  /\ suspended' = FALSE
  /\ task' = [task EXCEPT ![p] = EndedTask(@, @.wired)]
  /\ request' = [request EXCEPT !.spans = @ \/ request.pc = "compared"]
  /\ UNCHANGED <<policy, vm, issued, accessHistory>>

\* The process is killed, disableEgress fails in the VM, a file cannot be written.
CommandDies(p) ==
  /\ task[p].pc \in {"edit", "fill", "wire", "clear"}
  /\ task' = [task EXCEPT ![p] = IdleTask]
  /\ UNCHANGED <<accessFiles, request, accessHistory>>

\* `colimander suspend`, which reads the policy first, and the control socket's
\* suspend, which does not: one file is written.
ResumeHasWritten == \E p \in Actors : task[p].cmd = "resume" /\ task[p].pc \in {"wire", "clear"}

SuspendBox ==
  /\ suspended' = TRUE
  /\ condemned' = exposed
  /\ overtaken' = (overtaken \/ ResumeHasWritten)
  /\ UNCHANGED <<policy, vm, issued, task, request, exposed>>

----------------------------------------------------------------------------
(* A request from the VM *)

\* verifyBasic: the VM presents a handle it has seen; the policy is read and its
\* handle compared. An empty handle in the policy lets nobody in.
CompareHandle(h) ==
  /\ request.pc = "none"
  /\ policy.ok /\ policy.handle # 0 /\ policy.handle = h
  /\ request' = [pc |-> "compared", handle |-> h, spans |-> FALSE]
  /\ UNCHANGED <<accessFiles, task, accessHistory>>

\* Mutant: a request is let in without a look at the suspension.
AdmitSuspended ==
  /\ request.pc = "compared"
  /\ request' = NoRequest
  /\ UNCHANGED <<accessFiles, task, accessHistory>>

\* refuseSuspended, after verifyBasic: from here the request is checked against the
\* policy it has loaded and forwarded, which changes nothing here.
AdmitRequest ==
  /\ request.pc = "compared" /\ ~suspended
  /\ request' = NoRequest
  /\ UNCHANGED <<accessFiles, task, accessHistory>>

RefuseRequest ==
  /\ request.pc = "compared" /\ suspended
  /\ request' = NoRequest
  /\ UNCHANGED <<accessFiles, task, accessHistory>>

----------------------------------------------------------------------------
ActorStep(p) ==
  \/ ReadPolicy(p) \/ TruncatePolicy(p) \/ FillPolicy(p) \/ WireStep(p) \/ WireFails(p)
  \/ ClearSuspension(p) \/ CommandDies(p)

AccessNext ==
  \/ \E p \in Actors : ActorStep(p) \/ \E c \in Commands : BeginCommand(p, c)
  \/ SuspendBox
  \/ \E h \in exposed : CompareHandle(h)
  \/ AdmitRequest \/ RefuseRequest

AccessSpec == AccessInit /\ [][AccessNext]_accessVars

----------------------------------------------------------------------------
(* Properties *)

\* A handle that was in use when the sandbox was suspended stays useless once the
\* suspension is over ("the old one may be why the sandbox was suspended"), through
\* crashed, failing and overlapping commands, unless a suspension lands behind a
\* resume's back or a command writes back a policy it read before the resume.
CondemnedHandleStaysDead ==
  ~suspended /\ policy.ok /\ policy.handle \in condemned => overtaken

\* Nor does a request with such a handle get in, except one that compared the handle
\* before the resume and looked for the suspension after it.
CondemnedHandleOpensNothing ==
  [][AdmitRequest /\ request.handle \in condemned => overtaken \/ request.spans]_accessVars

\* A rewire, resume or activation that ran alone and got through leaves the VM with
\* the handle the broker will ask for, in both places, whatever was half-done before.
SoloCommandWiresVM ==
  \A p \in Actors :
    task[p].pc = "idle" /\ task[p].wired =>
      policy.ok /\ policy.handle # 0
        /\ vm = [git |-> policy.handle, script |-> policy.handle]
=============================================================================
