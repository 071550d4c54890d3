---------------------------- MODULE SandboxJobs -----------------------------
(***************************************************************************)
(* The daemon's sandbox creations (internal/sandbox/job.go), with the first *)
(* step's claim of a name (prepare in spec.go).                             *)
(*                                                                          *)
(* A job is a record in memory and a copy on disk, which a save may fail to *)
(* refresh.  One goroutine works through its steps, or deletes what a       *)
(* failed job made; it holds Jobs.mu only around a change of the record.    *)
(* The daemon may die between any two actions, and its successor knows only *)
(* the copies.  Meanwhile the command line destroys sandboxes without       *)
(* asking the daemon.  That it may create them too is left out: here every  *)
(* creator of a sandbox is a job.                                           *)
(*                                                                          *)
(* A job's id stands for its Spec too, so a profile's marker names the job  *)
(* whose Name and CreatedAt it holds.  Every sandbox has tokens to store.   *)
(***************************************************************************)
EXTENDS Integers, FiniteSets

CONSTANTS
  Jobs,         \* job ids
  Names,        \* the names of sandboxes
  StepCount,    \* how many steps a creation has: 1 is prepare, 2 the boot
  Soft,         \* the steps whose failure is a warning
  Destroyable,  \* the names `colimander destroy` may be used on
  MaxLostSaves, \* bound: how often a job's copy fails to be written
  None          \* nobody: the owner of what does not exist

Steps == 1..StepCount
Prepare == 1
Boot == 2

ASSUME StepCountAssumption == StepCount \in Nat /\ StepCount >= 2
ASSUME SoftAssumption == Soft \subseteq 3..StepCount
ASSUME DestroyableAssumption == Destroyable \subseteq Names
ASSUME MaxLostSavesAssumption == MaxLostSaves \in Nat
ASSUME NoneIsNoJob == None \notin Jobs

VARIABLES
  name,    \* Spec.Name of every job
  jobs,    \* Jobs.jobs
  stored,  \* <id>.json in the jobs' directory
  lost,    \* how many times it could not be written
  used,    \* the ids that have been drawn
  pc,      \* where a job's goroutine is, "idle" when it has none
  at,      \* the step that goroutine is at
  dir,     \* does a name's profile directory exist
  marker,  \* the job whose marker is in it
  vm,      \* does Colima know a VM of that name
  tokens   \* the job whose tokens are in the vault under that name

disk == <<dir, marker, vm, tokens>>
records == <<jobs, stored, lost, used>>
vars == <<name, jobs, stored, lost, used, pc, at, dir, marker, vm, tokens>>

-----------------------------------------------------------------------------
StepState == {"pending", "running", "done", "warning", "failed"}

\* "absent" is a job this daemon does not know.  cleanupError tells a clean-up
\* that failed from one the daemon did not live to finish.
Job ==
  [state : {"absent", "running", "succeeded", "failed", "cleaning", "cleaned"},
   steps : [Steps -> StepState],
   cleanupError : {"none", "error", "stopped"}]

Absent ==
  [state |-> "absent", steps |-> [i \in Steps |-> "pending"], cleanupError |-> "none"]

Creating ==
  {"opening", "between", "claiming", "marking", "saving", "undoing", "forgettingOwn",
   "working", "worked", "failing"}

Destroying ==
  {"listing", "deleting", "checking", "removing", "forgetting", "destroyed", "stuck"}

TypeOK ==
  /\ name \in [Jobs -> Names]
  /\ jobs \in [Jobs -> Job]
  /\ stored \in [Jobs -> Job]
  /\ lost \in 0..MaxLostSaves
  /\ used \subseteq Jobs
  /\ pc \in [Jobs -> {"idle"} \cup Creating \cup Destroying]
  /\ at \in [Jobs -> 1..StepCount + 1]
  /\ dir \in [Names -> BOOLEAN]
  /\ marker \in [Names -> Jobs \cup {None}]
  /\ vm \in [Names -> BOOLEAN]
  /\ tokens \in [Names -> Jobs \cup {None}]

Init ==
  /\ name \in [Jobs -> Names]
  /\ jobs = [j \in Jobs |-> Absent]
  /\ stored = [j \in Jobs |-> Absent]
  /\ lost = 0
  /\ used = {}
  /\ pc = [j \in Jobs |-> "idle"]
  /\ at = [j \in Jobs |-> 1]
  /\ dir = [n \in Names |-> FALSE]
  /\ marker = [n \in Names |-> None]
  /\ vm = [n \in Names |-> FALSE]
  /\ tokens = [n \in Names |-> None]

\* The profile's marker is the one this job wrote.
Owns(j) == marker[name[j]] = j

CanRetry(j) ==
  /\ jobs[j].state = "failed"
  /\ jobs[j].steps[Prepare] = "done"
  /\ Owns(j)

CanCleanup(j) == jobs[j].state = "failed" /\ Owns(j)

NoneBusy == \A k \in Jobs : jobs[k].state \notin {"running", "cleaning"}

\* The copies are written, or they are not: save ignores its own errors.
Write(copies) ==
  \/ stored' = copies /\ UNCHANGED lost
  \/ lost < MaxLostSaves /\ lost' = lost + 1 /\ UNCHANGED stored

\* Change a job's record and write its copy.
Save(j, job) ==
  /\ jobs' = [jobs EXCEPT ![j] = job]
  /\ Write([stored EXCEPT ![j] = job])

Go(j, label) == pc' = [pc EXCEPT ![j] = label]

-----------------------------------------------------------------------------
(* Requests *)

Start(j) ==
  /\ j \notin used
  /\ NoneBusy
  /\ used' = used \cup {j}
  /\ Save(j, [Absent EXCEPT !.state = "running"])
  /\ Go(j, "opening")
  /\ at' = [at EXCEPT ![j] = 1]
  /\ UNCHANGED <<name, disk>>

FailedSteps(j) == {i \in Steps : jobs[j].steps[i] = "failed"}

\* Mutant: the retry skips the step that failed.
AfterFailed(j, i) ==
  IF FailedSteps(j) = {} THEN i = 1
  ELSE i - 1 \in FailedSteps(j) /\ \A k \in FailedSteps(j) : i - 1 <= k

\* i is the first step that failed, or the first step when none did.
From(j, i) ==
  IF FailedSteps(j) = {} THEN i = 1
  ELSE i \in FailedSteps(j) /\ \A k \in FailedSteps(j) : i <= k

\* The job runs again from step i.  Its tokens are not at hand any more.
Rerun(j, i) ==
  /\ CanRetry(j)
  /\ From(j, i)
  /\ Save(j, [state |-> "running", cleanupError |-> "none",
              steps |-> [k \in Steps |-> IF k < i THEN jobs[j].steps[k] ELSE "pending"]])
  /\ Go(j, "opening")
  /\ at' = [at EXCEPT ![j] = i]
  /\ UNCHANGED <<name, used, disk>>

\* Mutant: only the job itself is looked at.
RetryRegardless(j) == \E i \in Steps : Rerun(j, i)

Retry(j) == NoneBusy /\ \E i \in Steps : Rerun(j, i)

\* Cleanup asks for no other job to be idle.
Cleanup(j) ==
  /\ CanCleanup(j)
  /\ Save(j, [jobs[j] EXCEPT !.state = "cleaning", !.cleanupError = "none"])
  /\ Go(j, "listing")
  /\ UNCHANGED <<name, used, at, disk>>

\* Forget a job that is not at work.  Removing its copy may fail.
Dismiss(j) ==
  /\ jobs[j].state \notin {"absent", "running", "cleaning"}
  /\ Save(j, Absent)
  /\ UNCHANGED <<name, used, pc, at, disk>>

-----------------------------------------------------------------------------
(* run *)

\* The job fails at the step it is at.
Fail(j) ==
  /\ Save(j, [jobs[j] EXCEPT !.state = "failed", !.steps[at[j]] = "failed"])
  /\ Go(j, "idle")
  /\ UNCHANGED <<name, used, at, disk>>

OpenLogFails(j) == pc[j] = "opening" /\ Fail(j)

\* Mutant: the loop's condition is off by one.
BeginAnyStep(j) ==
  /\ pc[j] \in {"opening", "between"}
  /\ Save(j, [jobs[j] EXCEPT !.steps[at[j]] = "running"])
  /\ Go(j, IF at[j] = Prepare THEN "claiming" ELSE "working")
  /\ UNCHANGED <<name, used, at, disk>>

BeginStep(j) ==
  /\ pc[j] \in {"opening", "between"}
  /\ at[j] <= StepCount
  /\ Save(j, [jobs[j] EXCEPT !.steps[at[j]] = "running"])
  /\ Go(j, IF at[j] = Prepare THEN "claiming" ELSE "working")
  /\ UNCHANGED <<name, used, at, disk>>

\* Mutant: the directory is made if need be.
ClaimShared(j) ==
  /\ pc[j] = "claiming"
  /\ dir' = [dir EXCEPT ![name[j]] = TRUE]
  /\ Go(j, "marking")
  /\ UNCHANGED <<name, records, at, marker, vm, tokens>>

\* EnsureNameAvailable and the exclusive mkdir, which subsumes it: a marker lies
\* inside the directory.
Claim(j) ==
  /\ pc[j] = "claiming"
  /\ ~dir[name[j]]
  /\ dir' = [dir EXCEPT ![name[j]] = TRUE]
  /\ Go(j, "marking")
  /\ UNCHANGED <<name, records, at, marker, vm, tokens>>

\* The name is taken, or nothing can be made there.
ClaimFails(j) ==
  /\ pc[j] = "claiming"
  /\ Go(j, "failing")
  /\ UNCHANGED <<name, records, at, disk>>

\* WriteMarker makes the directory again if it has gone.
PutMarker(j) ==
  /\ dir' = [dir EXCEPT ![name[j]] = TRUE]
  /\ marker' = [marker EXCEPT ![name[j]] = j]
  /\ UNCHANGED <<name, records, at, vm, tokens>>

Mark(j) ==
  /\ pc[j] = "marking"
  /\ PutMarker(j)
  /\ Go(j, "saving")

\* Writing the marker fails, or writing Colima's configuration after it.
MarkFails(j) ==
  /\ pc[j] = "marking"
  /\ Go(j, "undoing")
  /\ PutMarker(j) \/ UNCHANGED <<name, records, at, disk>>

PutTokens(j) ==
  /\ tokens' = [tokens EXCEPT ![name[j]] = j]
  /\ UNCHANGED <<name, records, at, dir, marker, vm>>

SaveConfig(j) ==
  /\ pc[j] = "saving"
  /\ PutTokens(j)
  /\ Go(j, "worked")

SaveConfigFails(j) ==
  /\ pc[j] = "saving"
  /\ Go(j, "undoing")
  /\ PutTokens(j) \/ UNCHANGED <<name, records, at, disk>>

\* os.RemoveAll of the profile's directory, marker and all.
RemoveProfile(j) ==
  /\ dir' = [dir EXCEPT ![name[j]] = FALSE]
  /\ marker' = [marker EXCEPT ![name[j]] = None]

\* prepare's deferred undo ignores what fails in it.
Undo(j) ==
  /\ pc[j] = "undoing"
  /\ Go(j, "forgettingOwn")
  /\ \/ RemoveProfile(j)
     \/ marker' = [marker EXCEPT ![name[j]] = None] /\ UNCHANGED dir
     \/ UNCHANGED <<dir, marker>>
  /\ UNCHANGED <<name, records, at, vm, tokens>>

UndoTokens(j) ==
  /\ pc[j] = "forgettingOwn"
  /\ Go(j, "failing")
  /\ \/ tokens' = [tokens EXCEPT ![name[j]] = None]
     \/ UNCHANGED tokens
  /\ UNCHANGED <<name, records, at, dir, marker, vm>>

\* Colima makes the profile's directory again if it has gone since the boot began.
StartVM(j) ==
  /\ vm' = [vm EXCEPT ![name[j]] = TRUE]
  /\ dir' = [dir EXCEPT ![name[j]] = TRUE]

\* A later step runs its commands.  A boot that fails may leave a VM behind.
Work(j) ==
  /\ pc[j] = "working"
  /\ \E ok \in BOOLEAN :
       /\ Go(j, IF ok THEN "worked" ELSE "failing")
       /\ \/ at[j] = Boot /\ StartVM(j)
          \/ (at[j] # Boot \/ ~ok) /\ UNCHANGED <<vm, dir>>
  /\ UNCHANGED <<name, records, at, marker, tokens>>

\* The step's outcome is recorded, and the loop goes on.
Advance(j, outcome) ==
  /\ Save(j, [jobs[j] EXCEPT !.steps[at[j]] = outcome])
  /\ at' = [at EXCEPT ![j] = @ + 1]
  /\ Go(j, "between")
  /\ UNCHANGED <<name, used, disk>>

StepDone(j) == pc[j] = "worked" /\ Advance(j, "done")
StepWarns(j) == pc[j] = "failing" /\ at[j] \in Soft /\ Advance(j, "warning")
StepFails(j) == pc[j] = "failing" /\ at[j] \notin Soft /\ Fail(j)

Succeed(j) ==
  /\ pc[j] = "between"
  /\ at[j] = StepCount + 1
  /\ Save(j, [jobs[j] EXCEPT !.state = "succeeded"])
  /\ Go(j, "idle")
  /\ UNCHANGED <<name, used, at, disk>>

PrepareStep(j) ==
  \/ Claim(j) \/ ClaimFails(j) \/ Mark(j) \/ MarkFails(j)
  \/ SaveConfig(j) \/ SaveConfigFails(j) \/ Undo(j) \/ UndoTokens(j)

Run(j) ==
  \/ OpenLogFails(j) \/ BeginStep(j) \/ PrepareStep(j) \/ Work(j)
  \/ StepDone(j) \/ StepWarns(j) \/ StepFails(j) \/ Succeed(j)

-----------------------------------------------------------------------------
(* destroy *)

\* `colima list` tells whether there is a VM to delete.
List(j) ==
  /\ pc[j] = "listing"
  /\ Go(j, IF vm[name[j]] THEN "deleting" ELSE "checking")
  /\ UNCHANGED <<name, records, at, disk>>

\* `colima delete -f` removes the profile's directory too.
DeleteVM(j) ==
  /\ pc[j] = "deleting"
  /\ vm' = [vm EXCEPT ![name[j]] = FALSE]
  /\ RemoveProfile(j)
  /\ Go(j, "checking")
  /\ UNCHANGED <<name, records, at, tokens>>

\* The marker is gone or still this job's.
Recheck(j) ==
  /\ pc[j] = "checking"
  /\ Go(j, IF marker[name[j]] \in {None, j} THEN "removing" ELSE "stuck")
  /\ UNCHANGED <<name, records, at, disk>>

\* Mutant: nothing outside the directory is removed.
RemoveOnly(j) ==
  /\ pc[j] = "removing"
  /\ RemoveProfile(j)
  /\ Go(j, "destroyed")
  /\ UNCHANGED <<name, records, at, vm, tokens>>

Remove(j) ==
  /\ pc[j] = "removing"
  /\ RemoveProfile(j)
  /\ Go(j, "forgetting")
  /\ UNCHANGED <<name, records, at, vm, tokens>>

Forget(j) ==
  /\ pc[j] = "forgetting"
  /\ tokens' = [tokens EXCEPT ![name[j]] = None]
  /\ Go(j, "destroyed")
  /\ UNCHANGED <<name, records, at, dir, marker, vm>>

\* The log, Colima, the file system or the vault fails: Colima perhaps after the
\* VM has gone, os.RemoveAll perhaps after the marker has.
DestroyFails(j) ==
  /\ pc[j] \in {"listing", "deleting", "removing", "forgetting"}
  /\ Go(j, "stuck")
  /\ \/ UNCHANGED disk
     \/ /\ pc[j] = "deleting"
        /\ vm' = [vm EXCEPT ![name[j]] = FALSE]
        /\ UNCHANGED <<dir, marker, tokens>>
     \/ /\ pc[j] = "removing"
        /\ marker' = [marker EXCEPT ![name[j]] = None]
        /\ UNCHANGED <<dir, vm, tokens>>
  /\ UNCHANGED <<name, records, at>>

Cleaned(j) ==
  /\ pc[j] = "destroyed"
  /\ Save(j, [jobs[j] EXCEPT !.state = "cleaned"])
  /\ Go(j, "idle")
  /\ UNCHANGED <<name, used, at, disk>>

CleanupFails(j) ==
  /\ pc[j] = "stuck"
  /\ Save(j, [jobs[j] EXCEPT !.state = "failed", !.cleanupError = "error"])
  /\ Go(j, "idle")
  /\ UNCHANGED <<name, used, at, disk>>

Destroy(j) ==
  \/ List(j) \/ DeleteVM(j) \/ Recheck(j) \/ Remove(j) \/ Forget(j)
  \/ DestroyFails(j) \/ Cleaned(j) \/ CleanupFails(j)

-----------------------------------------------------------------------------
(* The daemon's restart, and the command line *)

\* Mutant: only creations are settled.
ReloadRunning(job) ==
  IF job.state = "running"
  THEN [job EXCEPT !.state = "failed",
                   !.steps = [i \in Steps |-> IF @[i] = "running" THEN "failed" ELSE @[i]]]
  ELSE job

\* What NewJobs makes of a copy whose daemon died.
Reload(job) ==
  CASE job.state = "running" ->
         [job EXCEPT !.state = "failed",
                     !.steps = [i \in Steps |-> IF @[i] = "running" THEN "failed" ELSE @[i]]]
    [] job.state = "cleaning" ->
         [job EXCEPT !.state = "failed", !.cleanupError = "stopped"]
    [] OTHER -> job

\* The daemon dies, and with it every goroutine; the next one reads the copies.
Restart ==
  /\ jobs' = [j \in Jobs |-> Reload(stored[j])]
  /\ Write(jobs')
  /\ pc' = [j \in Jobs |-> "idle"]
  /\ UNCHANGED <<name, used, at, disk>>

\* `colimander destroy`: the VM and its managed profile go, the tokens stay.
Discard(n) ==
  /\ marker[n] # None
  /\ dir' = [dir EXCEPT ![n] = FALSE]
  /\ marker' = [marker EXCEPT ![n] = None]
  /\ vm' = [vm EXCEPT ![n] = FALSE]
  /\ UNCHANGED <<name, records, pc, at, tokens>>

Next ==
  \/ \E j \in Jobs :
       \/ Start(j) \/ Retry(j) \/ Cleanup(j) \/ Dismiss(j)
       \/ Run(j) \/ Destroy(j)
  \/ Restart
  \/ \E n \in Destroyable : Discard(n)

\* A step's commands return and a goroutine goes on.  Nobody is obliged to ask.
Fairness == \A j \in Jobs : WF_vars(Run(j)) /\ WF_vars(Destroy(j))

Spec == Init /\ [][Next]_vars /\ Fairness

-----------------------------------------------------------------------------
(* Properties *)

\* Two creations never run at once (ErrBusy), although a clean-up may be asked
\* for while one runs and a restart forgets every goroutine.
OneCreationAtATime ==
  \A j, k \in Jobs : jobs[j].state = "running" /\ jobs[k].state = "running" => j = k

\* A job called succeeded has done every step that is not soft and at least tried
\* the soft ones, however often it failed, was interrupted, lost a save and was
\* taken up again in the middle.
SucceededMeansDone ==
  \A j \in Jobs : jobs[j].state = "succeeded" =>
    \A i \in Steps :
      jobs[j].steps[i] = "done" \/ (i \in Soft /\ jobs[j].steps[i] = "warning")

\* A job called cleaned has left neither a profile nor a token behind, whoever
\* else has taken or removed the name while it was being cleaned up.
CleanedMeansGone ==
  \A j \in Jobs : jobs[j].state = "cleaned" => ~Owns(j) /\ tokens[name[j]] # j

\* A job at work settles, through panics, failures and restarts.
JobsSettle ==
  \A j \in Jobs :
    jobs[j].state \in {"running", "cleaning"} ~> jobs[j].state \notin {"running", "cleaning"}

\* What the app may count on (JobLife): of a job it sees the state, of the disk the
\* state that was saved, the profile's marker and the tokens.  The goroutines, steps
\* and directories behind them add nothing to it.
Life == INSTANCE JobLife
          WITH life <- [j \in Jobs |-> jobs[j].state],
               copy <- [j \in Jobs |-> stored[j].state],
               drawn <- used, owner <- marker, vault <- tokens

JobsLiveUpToIt == Life!LifeSpec

\* What the comment on Retry says: it takes a job up at the step that failed, so
\* nothing that was done before is put back.  Does not hold: a daemon that dies
\* between two steps leaves no failed step to take up.
RetryKeepsWhatIsDone ==
  [][\A j \in Jobs : jobs[j].state = "failed" /\ jobs'[j].state = "running" =>
       \A i \in Steps :
         (\A k \in 1..i : jobs[j].steps[k] \in {"done", "warning"}) =>
           jobs'[j].steps[i] = jobs[j].steps[i]]_vars

\* What a restart tells the user of an interrupted clean-up: "Try again."  Does
\* not hold: once Colima has removed the marker, the job is refused a clean-up and
\* its tokens stay in the vault.
InterruptedCleanupCanBeRepeated ==
  \A j \in Jobs :
    jobs[j].cleanupError = "stopped" /\ tokens[name[j]] = j => CanCleanup(j)
=============================================================================
