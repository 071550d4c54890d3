-------------------------- MODULE SandboxJobsProofs --------------------------
(***************************************************************************)
(* Proofs about sandbox creations for any number of jobs, names, steps and  *)
(* lost saves.                                                              *)
(***************************************************************************)
EXTENDS SandboxJobs, TLAPS

-----------------------------------------------------------------------------
(* Types *)

LEMMA SaveTypes ==
  ASSUME TypeOK, NEW j \in Jobs, NEW job \in Job, Save(j, job)
  PROVE  /\ jobs' \in [Jobs -> Job]
         /\ stored' \in [Jobs -> Job]
         /\ lost' \in 0..MaxLostSaves
BY MaxLostSavesAssumption DEF TypeOK, Save, Write

LEMMA JobTypes ==
  ASSUME TypeOK, NEW j \in Jobs, NEW i \in 1..StepCount + 1,
         NEW s \in {"absent", "running", "succeeded", "failed", "cleaning", "cleaned"},
         NEW t \in StepState, NEW e \in {"none", "error", "stopped"}
  PROVE  /\ [jobs[j] EXCEPT !.state = s] \in Job
         /\ [jobs[j] EXCEPT !.state = s, !.cleanupError = e] \in Job
         /\ [jobs[j] EXCEPT !.state = s, !.steps[i] = t] \in Job
         /\ [jobs[j] EXCEPT !.steps[i] = t] \in Job
         /\ Absent \in Job
         /\ [Absent EXCEPT !.state = s] \in Job
<1>1. jobs[j] \in Job
  BY DEF TypeOK
<1>2. Absent \in Job
  BY DEF Absent, Job, StepState
<1>3. ASSUME NEW job \in Job
      PROVE  /\ [job EXCEPT !.state = s] \in Job
             /\ [job EXCEPT !.state = s, !.cleanupError = e] \in Job
  BY DEF Job
<1>4. [jobs[j].steps EXCEPT ![i] = t] \in [Steps -> StepState]
  BY <1>1 DEF Job
<1>5. /\ [jobs[j] EXCEPT !.steps[i] = t] \in Job
      /\ [jobs[j] EXCEPT !.state = s, !.steps[i] = t] \in Job
  BY <1>1, <1>4 DEF Job
<1>6. QED
  BY <1>1, <1>2, <1>3, <1>5

LEMMA ReloadTypes ==
  ASSUME NEW job \in Job
  PROVE  Reload(job) \in Job
BY DEF Job, Reload, StepState

LEMMA GoTypes ==
  ASSUME TypeOK, NEW j \in Jobs, NEW l \in {"idle"} \cup Creating \cup Destroying, Go(j, l)
  PROVE  pc' \in [Jobs -> {"idle"} \cup Creating \cup Destroying]
BY DEF TypeOK, Go

LEMMA DiskTypes ==
  ASSUME TypeOK, NEW n \in Names, NEW b \in BOOLEAN, NEW k \in Jobs \cup {None}
  PROVE  /\ [dir EXCEPT ![n] = b] \in [Names -> BOOLEAN]
         /\ [marker EXCEPT ![n] = k] \in [Names -> Jobs \cup {None}]
         /\ [vm EXCEPT ![n] = b] \in [Names -> BOOLEAN]
         /\ [tokens EXCEPT ![n] = k] \in [Names -> Jobs \cup {None}]
BY DEF TypeOK

\* A goroutine inside a step is at one of the steps.
AtWork == \A j \in Jobs : pc[j] \in Creating \ {"between"} => at[j] \in Steps

\* The actions that change a record.
LEMMA RecordTypes ==
  ASSUME TypeOK, AtWork, NEW j \in Jobs,
         \/ Start(j) \/ Retry(j) \/ Cleanup(j) \/ Dismiss(j) \/ OpenLogFails(j)
         \/ BeginStep(j) \/ StepDone(j) \/ StepWarns(j) \/ StepFails(j) \/ Succeed(j)
         \/ Cleaned(j) \/ CleanupFails(j)
  PROVE  TypeOK'
<1> USE DEF disk
<1>0. /\ 1 \in 1..StepCount + 1
      /\ at[j] \in 1..StepCount + 1
  BY StepCountAssumption DEF TypeOK
<1>1. ASSUME NEW job \in Job, Save(j, job), UNCHANGED <<name, disk>>,
             used' \subseteq Jobs, at' \in [Jobs -> 1..StepCount + 1],
             pc' \in [Jobs -> {"idle"} \cup Creating \cup Destroying]
      PROVE  TypeOK'
  BY <1>1, SaveTypes DEF TypeOK
<1>2. ASSUME NEW l \in {"idle"} \cup Creating \cup Destroying, Go(j, l)
      PROVE  pc' \in [Jobs -> {"idle"} \cup Creating \cup Destroying]
  BY <1>2, GoTypes
<1>3. /\ at \in [Jobs -> 1..StepCount + 1]
      /\ used \subseteq Jobs
  BY DEF TypeOK
<1>4. CASE Start(j)
  <2>1. [Absent EXCEPT !.state = "running"] \in Job
    BY <1>0, JobTypes DEF StepState
  <2>2. /\ used' \subseteq Jobs
        /\ at' \in [Jobs -> 1..StepCount + 1]
        /\ pc' \in [Jobs -> {"idle"} \cup Creating \cup Destroying]
    BY <1>0, <1>2, <1>3, <1>4 DEF Start, Creating
  <2>3. QED
    BY <1>1, <1>4, <2>1, <2>2 DEF Start
<1>5. CASE Retry(j)
  <2>1. PICK i \in Steps : Rerun(j, i)
    BY <1>5 DEF Retry
  <2>2. [state |-> "running", cleanupError |-> "none",
         steps |-> [k \in Steps |-> IF k < i THEN jobs[j].steps[k] ELSE "pending"]] \in Job
    BY DEF TypeOK, Job, StepState
  <2>3. i \in 1..StepCount + 1
    BY StepCountAssumption DEF Steps
  <2>4. /\ at' \in [Jobs -> 1..StepCount + 1]
        /\ pc' \in [Jobs -> {"idle"} \cup Creating \cup Destroying]
    BY <1>2, <1>3, <2>1, <2>3 DEF Rerun, Creating
  <2>5. QED
    BY <1>1, <1>3, <2>1, <2>2, <2>4 DEF Rerun
<1>6. CASE Cleanup(j)
  <2>1. [jobs[j] EXCEPT !.state = "cleaning", !.cleanupError = "none"] \in Job
    BY <1>0, JobTypes DEF StepState
  <2>2. QED
    BY <1>1, <1>2, <1>3, <1>6, <2>1 DEF Cleanup, Destroying
<1>7. CASE Dismiss(j)
  <2>1. Absent \in Job
    BY <1>0, JobTypes DEF StepState
  <2>2. QED
    BY <1>1, <1>3, <1>7, <2>1 DEF Dismiss, TypeOK
<1>8. ASSUME Fail(j) PROVE TypeOK'
  <2>1. [jobs[j] EXCEPT !.state = "failed", !.steps[at[j]] = "failed"] \in Job
    BY <1>0, JobTypes DEF StepState
  <2>2. QED
    BY <1>1, <1>2, <1>3, <1>8, <2>1 DEF Fail
<1>9. CASE BeginStep(j)
  <2>1. [jobs[j] EXCEPT !.steps[at[j]] = "running"] \in Job
    BY <1>0, JobTypes DEF StepState
  <2>2. pc' \in [Jobs -> {"idle"} \cup Creating \cup Destroying]
    BY <1>2, <1>9 DEF BeginStep, Creating
  <2>3. QED
    BY <1>1, <1>3, <1>9, <2>1, <2>2 DEF BeginStep
<1>10. ASSUME NEW o \in {"done", "warning"}, Advance(j, o), at[j] \in Steps
       PROVE  TypeOK'
  <2>1. [jobs[j] EXCEPT !.steps[at[j]] = o] \in Job
    BY <1>0, JobTypes DEF StepState
  <2>2. at' \in [Jobs -> 1..StepCount + 1]
    BY <1>3, <1>10, StepCountAssumption DEF Advance, Steps
  <2>3. QED
    BY <1>1, <1>2, <1>3, <1>10, <2>1, <2>2 DEF Advance, Creating
<1>11. CASE Succeed(j)
  <2>1. [jobs[j] EXCEPT !.state = "succeeded"] \in Job
    BY <1>0, JobTypes DEF StepState
  <2>2. QED
    BY <1>1, <1>2, <1>3, <1>11, <2>1 DEF Succeed
<1>12. CASE Cleaned(j)
  <2>1. [jobs[j] EXCEPT !.state = "cleaned"] \in Job
    BY <1>0, JobTypes DEF StepState
  <2>2. QED
    BY <1>1, <1>2, <1>3, <1>12, <2>1 DEF Cleaned
<1>13. CASE CleanupFails(j)
  <2>1. [jobs[j] EXCEPT !.state = "failed", !.cleanupError = "error"] \in Job
    BY <1>0, JobTypes DEF StepState
  <2>2. QED
    BY <1>1, <1>2, <1>3, <1>13, <2>1 DEF CleanupFails
<1>14. CASE StepDone(j) \/ StepWarns(j)
  <2>1. at[j] \in Steps
    BY <1>14 DEF StepDone, StepWarns, AtWork, Creating
  <2>2. QED
    BY <1>10, <1>14, <2>1 DEF StepDone, StepWarns
<1>15. CASE OpenLogFails(j) \/ StepFails(j)
  BY <1>8, <1>15 DEF OpenLogFails, StepFails
<1>16. QED
  BY <1>4, <1>5, <1>6, <1>7, <1>9, <1>11, <1>12, <1>13, <1>14, <1>15

\* The actions that change the disk, the vault or Colima only.
DiskStep(j) ==
  \/ PrepareStep(j) \/ Work(j) \/ List(j) \/ DeleteVM(j) \/ Recheck(j)
  \/ Remove(j) \/ Forget(j) \/ DestroyFails(j)

LEMMA DiskStepTypes ==
  ASSUME TypeOK, NEW j \in Jobs, DiskStep(j)
  PROVE  TypeOK'
<1>1. UNCHANGED <<name, records, at>>
  BY DEF DiskStep, PrepareStep, Claim, ClaimFails, Mark, MarkFails, PutMarker, SaveConfig,
         SaveConfigFails, PutTokens, Undo, UndoTokens, Work, StartVM, List, DeleteVM,
         Recheck, Remove, Forget, DestroyFails, records
<1>2. \E l \in Creating \cup Destroying : Go(j, l)
  BY DEF DiskStep, PrepareStep, Claim, ClaimFails, Mark, MarkFails, SaveConfig,
         SaveConfigFails, Undo, UndoTokens, Work, StartVM, List, DeleteVM,
         Recheck, Remove, Forget, DestroyFails, Creating, Destroying
<1>3. pc' \in [Jobs -> {"idle"} \cup Creating \cup Destroying]
  BY <1>2, GoTypes
<1>4. name[j] \in Names
  BY DEF TypeOK
<1>5. /\ dir' \in [Names -> BOOLEAN]
      /\ marker' \in [Names -> Jobs \cup {None}]
  <2>1. CASE Claim(j) \/ Mark(j) \/ MarkFails(j)
    <3>1. /\ [dir EXCEPT ![name[j]] = TRUE] \in [Names -> BOOLEAN]
          /\ [marker EXCEPT ![name[j]] = j] \in [Names -> Jobs \cup {None}]
      BY <1>4, DiskTypes
    <3>2. dir' \in {dir, [dir EXCEPT ![name[j]] = TRUE]}
      BY <2>1 DEF Claim, Mark, MarkFails, PutMarker, disk
    <3>3. marker' \in {marker, [marker EXCEPT ![name[j]] = j]}
      BY <2>1 DEF Claim, Mark, MarkFails, PutMarker, disk
    <3>4. QED
      BY <3>1, <3>2, <3>3 DEF TypeOK
  <2>2. CASE Undo(j) \/ DeleteVM(j) \/ Remove(j)
    BY <1>4, <2>2, DiskTypes DEF Undo, DeleteVM, Remove, RemoveProfile, TypeOK
  <2>3. CASE \/ ClaimFails(j) \/ SaveConfig(j) \/ SaveConfigFails(j) \/ UndoTokens(j)
             \/ Work(j) \/ List(j) \/ Recheck(j) \/ Forget(j) \/ DestroyFails(j)
    BY <2>3 DEF ClaimFails, SaveConfig, SaveConfigFails, PutTokens, UndoTokens, Work, StartVM, List,
                Recheck, Forget, DestroyFails, disk, TypeOK
  <2>4. QED
    BY <2>1, <2>2, <2>3 DEF DiskStep, PrepareStep
<1>6. vm' \in [Names -> BOOLEAN]
  BY <1>4, DiskTypes
     DEF DiskStep, PrepareStep, Claim, ClaimFails, Mark, MarkFails, PutMarker, SaveConfig,
         SaveConfigFails, PutTokens, Undo, UndoTokens, Work, StartVM, List, DeleteVM,
         Recheck, Remove, Forget, DestroyFails, disk, TypeOK
<1>7. tokens' \in [Names -> Jobs \cup {None}]
  BY <1>4, DiskTypes
     DEF DiskStep, PrepareStep, Claim, ClaimFails, Mark, MarkFails, PutMarker, SaveConfig,
         SaveConfigFails, PutTokens, Undo, UndoTokens, Work, StartVM, List, DeleteVM,
         Recheck, Remove, Forget, DestroyFails, disk, TypeOK
<1>8. QED
  BY <1>1, <1>3, <1>5, <1>6, <1>7 DEF TypeOK, records

LEMMA AtWorkStep ==
  ASSUME TypeOK, AtWork, [Next]_vars
  PROVE  AtWork'
<1> USE DEF TypeOK, AtWork
<1>1. ASSUME NEW j \in Jobs, Start(j) PROVE AtWork'
  BY <1>1, StepCountAssumption DEF Start, Go, Steps
<1>2. ASSUME NEW j \in Jobs, Retry(j) PROVE AtWork'
  BY <1>2 DEF Retry, Rerun, Go
<1>3. ASSUME NEW j \in Jobs, Cleanup(j) \/ Dismiss(j) PROVE AtWork'
  BY <1>3 DEF Cleanup, Dismiss, Go, Creating
<1>4. ASSUME NEW j \in Jobs, BeginStep(j) PROVE AtWork'
  BY <1>4, StepCountAssumption DEF BeginStep, Go, Steps
<1>5. ASSUME NEW j \in Jobs,
             \/ OpenLogFails(j) \/ StepDone(j) \/ StepWarns(j) \/ StepFails(j) \/ Succeed(j)
      PROVE AtWork'
  BY <1>5 DEF OpenLogFails, StepDone, StepWarns, StepFails, Succeed, Fail, Advance, Go, Creating
<1>6. ASSUME NEW j \in Jobs, PrepareStep(j) \/ Work(j) PROVE AtWork'
  BY <1>6 DEF PrepareStep, Claim, ClaimFails, Mark, MarkFails, PutMarker, SaveConfig,
         SaveConfigFails, PutTokens, Undo, UndoTokens, Work, StartVM, Go, Creating
<1>7. ASSUME NEW j \in Jobs, Destroy(j) PROVE AtWork'
  BY <1>7 DEF Destroy, List, DeleteVM, Recheck, Remove, Forget, DestroyFails, Cleaned,
         CleanupFails, Go, Creating
<1>8. CASE Restart
  BY <1>8 DEF Restart, Creating
<1>9. ASSUME NEW n \in Destroyable, Discard(n) PROVE AtWork'
  BY <1>9 DEF Discard
<1>10. CASE UNCHANGED vars
  BY <1>10 DEF vars
<1>11. QED
  BY <1>1, <1>2, <1>3, <1>4, <1>5, <1>6, <1>7, <1>8, <1>9, <1>10 DEF Next, Run

LEMMA TypeStep ==
  ASSUME TypeOK, AtWork, [Next]_vars
  PROVE  TypeOK'
<1>1. ASSUME NEW j \in Jobs, Start(j) \/ Retry(j) \/ Cleanup(j) \/ Dismiss(j)
      PROVE  TypeOK'
  BY <1>1, RecordTypes
<1>2. ASSUME NEW j \in Jobs, Run(j) PROVE TypeOK'
  BY <1>2, RecordTypes, DiskStepTypes DEF Run, DiskStep
<1>3. ASSUME NEW j \in Jobs, Destroy(j) PROVE TypeOK'
  BY <1>3, RecordTypes, DiskStepTypes DEF Destroy, DiskStep
<1>4. CASE Restart
  <2>1. jobs' \in [Jobs -> Job]
    BY <1>4, ReloadTypes DEF Restart, TypeOK
  <2>2. /\ stored' \in [Jobs -> Job]
        /\ lost' \in 0..MaxLostSaves
    BY <1>4, <2>1, MaxLostSavesAssumption DEF Restart, Write, TypeOK
  <2>3. QED
    BY <1>4, <2>1, <2>2 DEF Restart, TypeOK, disk
<1>5. ASSUME NEW n \in Destroyable, Discard(n) PROVE TypeOK'
  <2>1. n \in Names
    BY DestroyableAssumption
  <2>2. QED
    BY <1>5, <2>1, DiskTypes DEF Discard, TypeOK, records
<1>6. CASE UNCHANGED vars
  BY <1>6 DEF TypeOK, vars
<1>7. QED
  BY <1>1, <1>2, <1>3, <1>4, <1>5, <1>6 DEF Next

\* Creations, clean-ups, lost saves and restarts keep every variable within its
\* type; no goroutine runs past the last step.
THEOREM TypeCorrect == Spec => []TypeOK
<1>1. Init => TypeOK /\ AtWork
  BY StepCountAssumption, MaxLostSavesAssumption
     DEF Init, TypeOK, AtWork, Absent, Job, StepState, Steps, Creating
<1>2. TypeOK /\ AtWork /\ [Next]_vars => (TypeOK /\ AtWork)'
  BY TypeStep, AtWorkStep
<1>3. QED
  BY <1>1, <1>2, PTL DEF Spec

-----------------------------------------------------------------------------
(* One creation at a time *)

\* What an action does to the states of the jobs.
LEMMA OneCreationStep ==
  ASSUME TypeOK, OneCreationAtATime, [Next]_vars
  PROVE  OneCreationAtATime'
<1>1. ASSUME NEW j \in Jobs, NEW job \in Job, Save(j, job),
             job.state = "running" => jobs[j].state = "running" \/ NoneBusy
      PROVE  OneCreationAtATime'
  BY <1>1 DEF OneCreationAtATime, Save, NoneBusy, TypeOK
<1>2. ASSUME UNCHANGED jobs PROVE OneCreationAtATime'
  BY <1>2 DEF OneCreationAtATime
<1>3. ASSUME NEW j \in Jobs, Start(j) PROVE OneCreationAtATime'
  <2>1. [Absent EXCEPT !.state = "running"] \in Job
    BY DEF Absent, Job, StepState
  <2>2. QED
    BY <1>1, <1>3, <2>1 DEF Start
<1>4. ASSUME NEW j \in Jobs, Retry(j) PROVE OneCreationAtATime'
  BY <1>4 DEF Retry, Rerun, Save, NoneBusy, OneCreationAtATime, TypeOK
<1>5. ASSUME NEW j \in Jobs,
             \/ Cleanup(j) \/ Dismiss(j) \/ OpenLogFails(j) \/ BeginStep(j) \/ StepDone(j)
             \/ StepWarns(j) \/ StepFails(j) \/ Succeed(j) \/ Cleaned(j) \/ CleanupFails(j)
      PROVE  OneCreationAtATime'
  <2>1. jobs[j] \in Job
    BY DEF TypeOK
  <2>2. ASSUME NEW job, Save(j, job), job.state = "running" => jobs[j].state = "running"
        PROVE  OneCreationAtATime'
    BY <2>2 DEF OneCreationAtATime, Save, TypeOK
  <2>3. CASE Cleanup(j) \/ Dismiss(j) \/ Succeed(j) \/ Cleaned(j) \/ CleanupFails(j)
    BY <2>1, <2>2, <2>3 DEF Cleanup, Dismiss, Succeed, Cleaned, CleanupFails, Absent, Job
  <2>4. CASE OpenLogFails(j) \/ StepFails(j)
    BY <2>1, <2>2, <2>4 DEF OpenLogFails, StepFails, Fail, Job
  <2>5. CASE BeginStep(j) \/ StepDone(j) \/ StepWarns(j)
    BY <2>1, <2>2, <2>5 DEF BeginStep, StepDone, StepWarns, Advance, Job
  <2>6. QED
    BY <1>5, <2>3, <2>4, <2>5
<1>6. ASSUME NEW j \in Jobs, DiskStep(j) PROVE OneCreationAtATime'
  BY <1>2, <1>6
     DEF DiskStep, PrepareStep, Claim, ClaimFails, Mark, MarkFails, PutMarker, SaveConfig,
         SaveConfigFails, PutTokens, Undo, UndoTokens, Work, StartVM, List, DeleteVM,
         Recheck, Remove, Forget, DestroyFails, records
<1>7. CASE Restart
  <2>1. ASSUME NEW job \in Job PROVE Reload(job).state # "running"
    BY DEF Reload, Job
  <2>2. QED
    BY <1>7, <2>1 DEF Restart, OneCreationAtATime, TypeOK
<1>8. ASSUME NEW n \in Destroyable, Discard(n) PROVE OneCreationAtATime'
  BY <1>2, <1>8 DEF Discard, records
<1>9. CASE UNCHANGED vars
  BY <1>2, <1>9 DEF vars
<1>10. QED
  BY <1>3, <1>4, <1>5, <1>6, <1>7, <1>8, <1>9 DEF Next, Run, Destroy, DiskStep

\* Two creations never run at once (OneCreationAtATime).
THEOREM CreationsTakeTurns == Spec => []OneCreationAtATime
<1>1. Init => OneCreationAtATime
  BY DEF Init, OneCreationAtATime, Absent
<1>2. QED
  BY <1>1, OneCreationStep, TypeCorrect, PTL DEF Spec

-----------------------------------------------------------------------------
(* A claimed name *)

\* A goroutine is at work only on a job of the matching state.
Watched ==
  \A j \in Jobs :
    /\ pc[j] \in Creating => jobs[j].state = "running"
    /\ pc[j] \in Destroying => jobs[j].state = "cleaning"

LEMMA WatchedStep ==
  ASSUME TypeOK, Watched, [Next]_vars
  PROVE  Watched'
<1> USE DEF TypeOK, Watched
<1>1. ASSUME NEW j \in Jobs, Start(j) \/ Retry(j) \/ Cleanup(j) \/ Dismiss(j)
      PROVE  Watched'
  <2>1. CASE Start(j)
    BY <2>1 DEF Start, Save, Go, Absent, Creating, Destroying
  <2>2. CASE Retry(j)
    BY <2>2 DEF Retry, Rerun, Save, Go, Creating, Destroying
  <2>3. CASE Cleanup(j)
    BY <2>3 DEF Cleanup, Save, Go, Job, Creating, Destroying
  <2>4. CASE Dismiss(j)
    BY <2>4 DEF Dismiss, Save
  <2>5. QED
    BY <1>1, <2>1, <2>2, <2>3, <2>4
<1>2. ASSUME NEW j \in Jobs,
             \/ OpenLogFails(j) \/ BeginStep(j) \/ StepDone(j)
             \/ StepWarns(j) \/ StepFails(j) \/ Succeed(j) \/ Cleaned(j) \/ CleanupFails(j)
      PROVE  Watched'
  BY <1>2 DEF OpenLogFails, BeginStep, StepDone, StepWarns, StepFails, Succeed, Cleaned,
              CleanupFails, Fail, Advance, Save, Go, Job, Creating, Destroying
<1>3. ASSUME NEW j \in Jobs, DiskStep(j) PROVE Watched'
  BY <1>3
     DEF DiskStep, PrepareStep, Claim, ClaimFails, Mark, MarkFails, PutMarker, SaveConfig,
         SaveConfigFails, PutTokens, Undo, UndoTokens, Work, StartVM, List, DeleteVM,
         Recheck, Remove, Forget, DestroyFails, records, Go, Creating, Destroying
<1>4. CASE Restart
  BY <1>4 DEF Restart, Creating, Destroying
<1>5. ASSUME NEW n \in Destroyable, Discard(n) PROVE Watched'
  BY <1>5 DEF Discard, records
<1>6. CASE UNCHANGED vars
  BY <1>6 DEF vars
<1>7. QED
  BY <1>1, <1>2, <1>3, <1>4, <1>5, <1>6 DEF Next, Run, Destroy, DiskStep

\* While a job is about to write its marker, the claimed name carries no other's.
ClaimInv ==
  /\ \A n \in Names : marker[n] # None => dir[n]
  /\ \A j \in Jobs : pc[j] = "marking" => marker[name[j]] = None

LEMMA ClaimStep ==
  ASSUME TypeOK, Watched, OneCreationAtATime, ClaimInv, [Next]_vars
  PROVE  ClaimInv'
<1> USE DEF TypeOK, ClaimInv
<1>1. ASSUME UNCHANGED disk, UNCHANGED name,
             \A j \in Jobs : pc'[j] = "marking" => pc[j] = "marking"
      PROVE  ClaimInv'
  BY <1>1 DEF disk
<1>2. ASSUME NEW j \in Jobs,
             Start(j) \/ Retry(j) \/ Cleanup(j) \/ Dismiss(j) \/ OpenLogFails(j) \/ BeginStep(j)
      PROVE  ClaimInv'
  BY <1>1, <1>2 DEF Start, Retry, Rerun, Cleanup, Dismiss, OpenLogFails, BeginStep, Fail, Go
<1>3. ASSUME NEW j \in Jobs,
             \/ StepDone(j) \/ StepWarns(j) \/ StepFails(j) \/ Succeed(j)
             \/ Cleaned(j) \/ CleanupFails(j)
      PROVE  ClaimInv'
  BY <1>1, <1>3 DEF StepDone, StepWarns, StepFails, Succeed, Cleaned, CleanupFails, Fail,
                    Advance, Go
<1>4. ASSUME NEW j \in Jobs, ClaimFails(j) \/ List(j) \/ Recheck(j) \/ DestroyFails(j)
      PROVE  ClaimInv'
  BY <1>1, <1>4 DEF ClaimFails, List, Recheck, DestroyFails, Go
<1>5. ASSUME NEW j \in Jobs, Claim(j)
      PROVE  ClaimInv'
  BY <1>5 DEF Claim, Go
<1>6. ASSUME NEW j \in Jobs, Mark(j) \/ MarkFails(j)
      PROVE  ClaimInv'
  <2>1. \A k \in Jobs : pc[k] = "marking" => k = j
    BY <1>6 DEF Mark, MarkFails, Watched, OneCreationAtATime, Creating
  <2>2. \A k \in Jobs : pc'[k] # "marking"
    BY <1>6, <2>1 DEF Mark, MarkFails, Go
  <2>3. marker[name[j]] = None
    BY <1>6 DEF Mark, MarkFails
  <2>4. QED
    BY <1>6, <2>2, <2>3 DEF Mark, MarkFails, PutMarker, disk
<1>7. ASSUME NEW j \in Jobs,
             SaveConfig(j) \/ SaveConfigFails(j) \/ UndoTokens(j) \/ Work(j) \/ Forget(j)
      PROVE  ClaimInv'
  BY <1>7 DEF SaveConfig, SaveConfigFails, UndoTokens, Work, StartVM, Forget, PutTokens, disk, Go
<1>8. ASSUME NEW j \in Jobs, Undo(j) \/ DeleteVM(j) \/ Remove(j)
      PROVE  ClaimInv'
  BY <1>8 DEF Undo, DeleteVM, Remove, RemoveProfile, Go
<1>9. CASE Restart
  BY <1>1, <1>9 DEF Restart
<1>10. ASSUME NEW n \in Destroyable, Discard(n)
       PROVE  ClaimInv'
  BY <1>10, DestroyableAssumption DEF Discard
<1>11. CASE UNCHANGED vars
  BY <1>1, <1>11 DEF vars, disk
<1>12. QED
  BY <1>2, <1>3, <1>4, <1>5, <1>6, <1>7, <1>8, <1>9, <1>10, <1>11
     DEF Next, Run, PrepareStep, Destroy

-----------------------------------------------------------------------------
(* What a success means *)

Settled(job, i) ==
  job.steps[i] = "done" \/ (i \in Soft /\ job.steps[i] = "warning")

\* Below a step that failed or runs everything is settled, and a success has
\* settled everything.
Coherent(job) ==
  /\ \A i \in Steps : job.steps[i] \in {"running", "failed"} =>
       \A k \in Steps : k < i => Settled(job, k)
  /\ job.state = "succeeded" => \A i \in Steps : Settled(job, i)

\* A record divided at step a: settled below, untouched above.
Divided(job, a) ==
  \A i \in Steps :
    /\ i < a => Settled(job, i)
    /\ i > a => job.steps[i] = "pending"

\* The goroutine's position divides the steps, and it enters none twice.
StepsInv ==
  \A j \in Jobs :
    /\ Coherent(jobs[j])
    /\ Coherent(stored[j])
    /\ pc[j] \in Creating => Divided(jobs[j], at[j])
    /\ pc[j] \in {"opening", "between"} =>
         \A i \in Steps : i >= at[j] => jobs[j].steps[i] = "pending"

LEMMA ReloadIsCoherent ==
  ASSUME NEW job \in Job, Coherent(job)
  PROVE  Coherent(Reload(job))
<1>1. CASE job.state = "running"
  <2>1. Reload(job) = [job EXCEPT !.state = "failed",
                  !.steps = [i \in Steps |-> IF @[i] = "running" THEN "failed" ELSE @[i]]]
    BY <1>1 DEF Reload
  <2>2. /\ Reload(job).state = "failed"
        /\ \A i \in Steps : Reload(job).steps[i] =
             IF job.steps[i] = "running" THEN "failed" ELSE job.steps[i]
    BY <2>1 DEF Job
  <2>3. \A i \in Steps : Settled(job, i) => Settled(Reload(job), i)
    BY <2>2 DEF Settled
  <2>4. QED
    BY <2>2, <2>3 DEF Coherent
<1>2. CASE job.state = "cleaning"
  BY <1>2 DEF Reload, Coherent, Settled, Job
<1>3. CASE job.state \notin {"running", "cleaning"}
  BY <1>3 DEF Reload
<1>4. QED
  BY <1>1, <1>2, <1>3

\* A record changed at step a of a goroutine that is there.
LEMMA CoherentAt ==
  ASSUME NEW job \in Job, NEW a \in Steps, Divided(job, a), NEW t \in StepState,
         NEW new \in Job, new.state # "succeeded", new.steps = [job.steps EXCEPT ![a] = t]
  PROVE  /\ Coherent(new)
         /\ Divided(new, a)
<1>1. \A i \in Steps : new.steps[i] = IF i = a THEN t ELSE job.steps[i]
  BY DEF Job
<1>2. a \in Int /\ \A i \in Steps : i \in Int
  BY DEF Steps
<1>3. Divided(new, a)
  BY <1>1, <1>2 DEF Divided, Settled
<1>4. \A i \in Steps : i > a => new.steps[i] = "pending"
  BY <1>3 DEF Divided
<1>5. Coherent(new)
  BY <1>1, <1>2, <1>3, <1>4 DEF Coherent, Divided, Settled
<1>6. QED
  BY <1>3, <1>5

\* A changed record and its copy, written or lost.
LEMMA StepsSave ==
  ASSUME TypeOK, StepsInv, NEW j \in Jobs, NEW job, Save(j, job), Coherent(job),
         \A k \in Jobs : k # j => pc'[k] = pc[k] /\ at'[k] = at[k],
         pc'[j] \in Creating => Divided(job, at'[j]),
         pc'[j] \in {"opening", "between"} =>
           \A i \in Steps : i >= at'[j] => job.steps[i] = "pending"
  PROVE  StepsInv'
<1>1. /\ jobs'[j] = job
      /\ \A k \in Jobs : k # j => jobs'[k] = jobs[k]
  BY DEF Save, TypeOK
<1>2. \A k \in Jobs : stored'[k] = stored[k] \/ (k = j /\ stored'[k] = job)
  BY DEF Save, Write, TypeOK
<1>3. ASSUME NEW k \in Jobs, k # j
      PROVE  /\ Coherent(jobs'[k])
             /\ pc'[k] \in Creating => Divided(jobs'[k], at'[k])
             /\ pc'[k] \in {"opening", "between"} =>
                  \A i \in Steps : i >= at'[k] => jobs'[k].steps[i] = "pending"
  BY <1>1, <1>3 DEF StepsInv
<1>4. \A k \in Jobs : Coherent(stored'[k])
  BY <1>2 DEF StepsInv
<1>5. QED
  BY <1>1, <1>3, <1>4 DEF StepsInv, Coherent, Divided, Settled

LEMMA StepsStep ==
  ASSUME TypeOK, AtWork, Watched, StepsInv, [Next]_vars
  PROVE  StepsInv'
<1>1. ASSUME UNCHANGED records, UNCHANGED at,
             \A j \in Jobs : /\ pc'[j] \in Creating => pc[j] \in Creating
                             /\ pc'[j] \in {"opening", "between"} => pc'[j] = pc[j]
      PROVE  StepsInv'
  BY <1>1 DEF StepsInv, records, Coherent, Divided, Settled
<1>2. ASSUME NEW j \in Jobs, Start(j) PROVE StepsInv'
  <2> DEFINE job == [Absent EXCEPT !.state = "running"]
  <2>1. /\ job.state = "running"
        /\ \A i \in Steps : job.steps[i] = "pending"
    BY DEF Absent
  <2>2. at'[j] = 1
    BY <1>2 DEF Start, TypeOK
  <2>3. Coherent(job) /\ Divided(job, 1)
    BY <2>1 DEF Coherent, Divided, Steps
  <2>4. Save(j, job)
    BY <1>2 DEF Start
  <2> HIDE DEF job
  <2>5. QED
    BY <1>2, <2>1, <2>2, <2>3, <2>4, StepsSave DEF Start, Go, TypeOK
<1>3. ASSUME NEW j \in Jobs, Retry(j) PROVE StepsInv'
  <2>1. PICK i \in Steps : Rerun(j, i)
    BY <1>3 DEF Retry
  <2> DEFINE job == [state |-> "running", cleanupError |-> "none",
        steps |-> [k \in Steps |-> IF k < i THEN jobs[j].steps[k] ELSE "pending"]]
  <2>2. /\ job.state = "running"
        /\ \A k \in Steps : job.steps[k] = IF k < i THEN jobs[j].steps[k] ELSE "pending"
    OBVIOUS
  <2>3. \A k \in Steps : k < i => Settled(jobs[j], k)
    <3>1. CASE FailedSteps(j) = {}
      BY <2>1, <3>1 DEF Rerun, From, Steps
    <3>2. CASE FailedSteps(j) # {}
      <4>1. jobs[j].steps[i] = "failed"
        BY <2>1, <3>2 DEF Rerun, From, FailedSteps
      <4>2. QED
        BY <4>1 DEF StepsInv, Coherent
    <3>3. QED
      BY <3>1, <3>2
  <2>4. Save(j, job)
    BY <2>1 DEF Rerun
  <2>5. i \in Int /\ \A k \in Steps : k \in Int
    BY DEF Steps
  <2> HIDE DEF job
  <2>6. Divided(job, i) /\ \A k \in Steps : k >= i => job.steps[k] = "pending"
    BY <2>2, <2>3, <2>5 DEF Divided, Settled
  <2>7. Coherent(job)
    BY <2>2, <2>5, <2>6 DEF Coherent, Divided
  <2>8. at'[j] = i /\ \A k \in Jobs : k # j => pc'[k] = pc[k] /\ at'[k] = at[k]
    BY <2>1 DEF Rerun, Go, TypeOK
  <2>9. QED
    BY <2>4, <2>6, <2>7, <2>8, StepsSave
<1>4. ASSUME NEW j \in Jobs, Cleanup(j) \/ Cleaned(j) \/ CleanupFails(j) PROVE StepsInv'
  <2>1. PICK s \in {"cleaning", "cleaned", "failed"}, e \in {"none", "error", "stopped"} :
          Save(j, [jobs[j] EXCEPT !.state = s, !.cleanupError = e])
          \/ Save(j, [jobs[j] EXCEPT !.state = s])
    BY <1>4 DEF Cleanup, Cleaned, CleanupFails
  <2>2. PICK job : /\ Save(j, job)
                   /\ job \in {[jobs[j] EXCEPT !.state = s, !.cleanupError = e],
                               [jobs[j] EXCEPT !.state = s]}
    BY <2>1
  <2>3. job.state # "succeeded" /\ job.steps = jobs[j].steps
    BY <2>2 DEF TypeOK, Job
  <2>4. Coherent(job)
    BY <2>3 DEF StepsInv, Coherent, Settled
  <2>5. pc'[j] \notin Creating /\ \A k \in Jobs : k # j => pc'[k] = pc[k] /\ at'[k] = at[k]
    BY <1>4 DEF Cleanup, Cleaned, CleanupFails, Go, TypeOK, Creating
  <2>6. pc'[j] \notin {"opening", "between"}
    BY <2>5 DEF Creating
  <2>7. QED
    BY <2>2, <2>4, <2>5, <2>6, StepsSave
<1>5. ASSUME NEW j \in Jobs, Dismiss(j) PROVE StepsInv'
  <2>1. Coherent(Absent)
    BY DEF Absent, Coherent
  <2>2. pc[j] \notin Creating
    BY <1>5 DEF Dismiss, Watched
  <2>3. pc[j] \notin {"opening", "between"}
    BY <2>2 DEF Creating
  <2>4. QED
    BY <1>5, <2>1, <2>2, <2>3, StepsSave DEF Dismiss
<1>6. ASSUME NEW j \in Jobs, Fail(j), pc[j] \in Creating \ {"between"} PROVE StepsInv'
  <2>1. /\ at[j] \in Steps
        /\ Divided(jobs[j], at[j])
        /\ jobs[j] \in Job
    BY <1>6 DEF AtWork, StepsInv, TypeOK
  <2> DEFINE job == [jobs[j] EXCEPT !.state = "failed", !.steps[at[j]] = "failed"]
  <2>2. /\ job \in Job
        /\ job.state = "failed"
        /\ job.steps = [jobs[j].steps EXCEPT ![at[j]] = "failed"]
    <3>1. at[j] \in 1..StepCount + 1 /\ "failed" \in StepState
      BY DEF TypeOK, StepState
    <3>2. job \in Job
      BY <3>1, JobTypes
    <3>3. QED
      BY <2>1, <3>2 DEF Job
  <2>3. Save(j, job)
    BY <1>6 DEF Fail
  <2> HIDE DEF job
  <2>4. Coherent(job)
    BY <2>1, <2>2, CoherentAt DEF StepState
  <2>5. QED
    BY <1>6, <2>3, <2>4, StepsSave DEF Fail, Go, TypeOK, Creating
<1>7. ASSUME NEW j \in Jobs, BeginStep(j) PROVE StepsInv'
  <2>1. /\ at[j] \in Steps
        /\ Divided(jobs[j], at[j])
        /\ jobs[j] \in Job
    BY <1>7 DEF BeginStep, StepsInv, TypeOK, Creating, Steps
  <2> DEFINE job == [jobs[j] EXCEPT !.steps[at[j]] = "running"]
  <2>2. jobs[j].state = "running"
    BY <1>7 DEF BeginStep, Watched, Creating
  <2>3. /\ job \in Job
        /\ job.state = "running"
        /\ job.steps = [jobs[j].steps EXCEPT ![at[j]] = "running"]
    <3>1. at[j] \in 1..StepCount + 1 /\ "running" \in StepState
      BY DEF TypeOK, StepState
    <3>2. job \in Job
      BY <3>1, JobTypes
    <3>3. QED
      BY <2>1, <2>2, <3>2 DEF Job
  <2>4. Save(j, job)
    BY <1>7 DEF BeginStep
  <2> HIDE DEF job
  <2>5. Coherent(job) /\ Divided(job, at[j])
    BY <2>1, <2>3, CoherentAt DEF StepState
  <2>6. QED
    BY <1>7, <2>4, <2>5, StepsSave DEF BeginStep, Go, TypeOK
<1>8. ASSUME NEW j \in Jobs, StepDone(j) \/ StepWarns(j) PROVE StepsInv'
  <2>1. PICK o \in {"done", "warning"} :
          Advance(j, o) /\ (o = "warning" => at[j] \in Soft)
    BY <1>8 DEF StepDone, StepWarns
  <2>2. pc[j] \in {"worked", "failing"}
    BY <1>8 DEF StepDone, StepWarns
  <2>3. /\ at[j] \in Steps
        /\ Divided(jobs[j], at[j])
        /\ jobs[j] \in Job
        /\ jobs[j].state = "running"
    BY <2>2 DEF AtWork, StepsInv, TypeOK, Creating, Watched
  <2> DEFINE job == [jobs[j] EXCEPT !.steps[at[j]] = o]
  <2>4. /\ job \in Job
        /\ job.state = "running"
        /\ job.steps = [jobs[j].steps EXCEPT ![at[j]] = o]
    <3>1. at[j] \in 1..StepCount + 1 /\ o \in StepState
      BY DEF TypeOK, StepState
    <3>2. job \in Job
      BY <3>1, JobTypes
    <3>3. QED
      BY <2>3, <3>2 DEF Job
  <2>5. Save(j, job)
    BY <2>1 DEF Advance
  <2> HIDE DEF job
  <2>6. Coherent(job) /\ Divided(job, at[j])
    BY <2>3, <2>4, CoherentAt DEF StepState
  <2>7. at'[j] = at[j] + 1 /\ \A k \in Jobs : k # j => pc'[k] = pc[k] /\ at'[k] = at[k]
    BY <2>1 DEF Advance, Go, TypeOK
  <2>8. Settled(job, at[j])
    BY <2>1, <2>3, <2>4 DEF Settled, Job
  <2>9. /\ Divided(job, at[j] + 1)
        /\ \A i \in Steps : i >= at[j] + 1 => job.steps[i] = "pending"
    BY <2>3, <2>6, <2>8 DEF Divided, Steps
  <2>10. QED
    BY <2>5, <2>6, <2>7, <2>9, StepsSave
<1>9. ASSUME NEW j \in Jobs, Succeed(j) PROVE StepsInv'
  <2> DEFINE job == [jobs[j] EXCEPT !.state = "succeeded"]
  <2>1. job.steps = jobs[j].steps
    BY DEF TypeOK, Job
  <2>2. \A i \in Steps : Settled(jobs[j], i)
    <3>1. \A i \in Steps : i < at[j]
      BY <1>9, StepCountAssumption DEF Succeed, Steps
    <3>2. Divided(jobs[j], at[j])
      BY <1>9 DEF Succeed, StepsInv, Creating
    <3>3. QED
      BY <3>1, <3>2 DEF Divided
  <2>3. Save(j, job)
    BY <1>9 DEF Succeed
  <2> HIDE DEF job
  <2>4. Coherent(job)
    BY <2>1, <2>2 DEF Coherent, Settled
  <2>5. QED
    BY <1>9, <2>3, <2>4, StepsSave DEF Succeed, Go, TypeOK, Creating
<1>10. ASSUME NEW j \in Jobs, DiskStep(j) PROVE StepsInv'
  BY <1>1, <1>10
     DEF DiskStep, PrepareStep, Claim, ClaimFails, Mark, MarkFails, PutMarker, SaveConfig,
         SaveConfigFails, PutTokens, Undo, UndoTokens, Work, StartVM, List, DeleteVM,
         Recheck, Remove, Forget, DestroyFails, Go, Creating, TypeOK
<1>11. CASE Restart
  <2>1. \A j \in Jobs : Coherent(jobs'[j])
    BY <1>11, ReloadIsCoherent DEF Restart, StepsInv, TypeOK
  <2>2. \A j \in Jobs : Coherent(stored'[j])
    BY <1>11, <2>1 DEF Restart, Write, StepsInv
  <2>3. QED
    BY <1>11, <2>1, <2>2 DEF Restart, StepsInv, Creating, Coherent, Settled
<1>12. ASSUME NEW n \in Destroyable, Discard(n) PROVE StepsInv'
  BY <1>1, <1>12 DEF Discard
<1>13. CASE UNCHANGED vars
  BY <1>1, <1>13 DEF vars, records
<1>14. ASSUME NEW j \in Jobs, OpenLogFails(j) \/ StepFails(j) PROVE StepsInv'
  BY <1>6, <1>14 DEF OpenLogFails, StepFails, Creating
<1>15. QED
  BY <1>2, <1>3, <1>4, <1>5, <1>7, <1>8, <1>9, <1>10, <1>11, <1>12, <1>13, <1>14
     DEF Next, Run, Destroy, DiskStep

\* A success has settled every step (SucceededMeansDone).
THEOREM SuccessIsEarned == Spec => []SucceededMeansDone
<1>1. Init => AtWork /\ Watched /\ StepsInv
  BY DEF Init, AtWork, Watched, StepsInv, Coherent, Absent, Creating, Destroying
<1>2. StepsInv => SucceededMeansDone
  BY DEF StepsInv, Coherent, Settled, SucceededMeansDone
<1>3. QED
  BY <1>1, <1>2, AtWorkStep, WatchedStep, StepsStep, TypeCorrect, PTL DEF Spec

-----------------------------------------------------------------------------
(* What a clean-up means *)

NothingLeft(j) == ~Owns(j) /\ tokens[name[j]] # j

\* A clean-up works its way towards NothingLeft; a job once called cleaned, in
\* memory or in a copy that outlived it, is never at work again.
CleanInv ==
  \A j \in Jobs :
    /\ jobs[j].state # "absent" \/ stored[j].state # "absent" => j \in used
    /\ jobs[j].state = "cleaned" => NothingLeft(j)
    /\ pc[j] = "forgetting" => ~Owns(j)
    /\ pc[j] = "destroyed" => NothingLeft(j)
    /\ stored[j].state = "cleaned" =>
         jobs[j].state \in {"cleaned", "absent"} /\ NothingLeft(j)

\* Only a job that writes its marker or its tokens comes to own anything.
LEMMA NothingNewIsOwned ==
  ASSUME TypeOK, [Next]_vars, NEW k \in Jobs, pc[k] \notin {"marking", "saving"}
  PROVE  /\ ~Owns(k) => ~Owns(k)'
         /\ NothingLeft(k) => NothingLeft(k)'
<1> USE DEF TypeOK
<1>1. name' = name
  BY DEF Next, vars, Start, Retry, Rerun, Cleanup, Dismiss, Run, OpenLogFails, BeginStep,
         PrepareStep, Claim, ClaimFails, Mark, MarkFails, PutMarker, SaveConfig,
         SaveConfigFails, PutTokens, Undo, UndoTokens, Work, StartVM,
         StepDone, StepWarns, StepFails, Fail, Advance, Succeed, Destroy, List, DeleteVM,
         Recheck, Remove, Forget, DestroyFails, Cleaned, CleanupFails, Restart, Discard
<1>2. ASSUME \A n \in Names : marker'[n] \in {marker[n], None},
             \A n \in Names : tokens'[n] \in {tokens[n], None}
      PROVE  (~Owns(k) => ~Owns(k)') /\ (NothingLeft(k) => NothingLeft(k)')
  BY <1>1, <1>2, NoneIsNoJob DEF Owns, NothingLeft
<1>3. ASSUME UNCHANGED disk
      PROVE  (~Owns(k) => ~Owns(k)') /\ (NothingLeft(k) => NothingLeft(k)')
  BY <1>2, <1>3 DEF disk
<1>4. ASSUME NEW j \in Jobs,
             \/ Start(j) \/ Retry(j) \/ Cleanup(j) \/ Dismiss(j) \/ OpenLogFails(j)
             \/ BeginStep(j) \/ StepDone(j) \/ StepWarns(j) \/ StepFails(j) \/ Succeed(j)
             \/ Cleaned(j) \/ CleanupFails(j) \/ ClaimFails(j) \/ List(j) \/ Recheck(j)
      PROVE  (~Owns(k) => ~Owns(k)') /\ (NothingLeft(k) => NothingLeft(k)')
  BY <1>3, <1>4 DEF Start, Retry, Rerun, Cleanup, Dismiss, OpenLogFails, BeginStep, StepDone,
         StepWarns, StepFails, Fail, Advance, Succeed, Cleaned, CleanupFails, ClaimFails, List,
         Recheck
<1>5. ASSUME NEW j \in Jobs, Mark(j) \/ MarkFails(j) \/ SaveConfig(j) \/ SaveConfigFails(j)
      PROVE  (~Owns(k) => ~Owns(k)') /\ (NothingLeft(k) => NothingLeft(k)')
  <2>1. j # k
    BY <1>5 DEF Mark, MarkFails, SaveConfig, SaveConfigFails
  <2>2. /\ \A n \in Names : marker'[n] \in {marker[n], j}
        /\ \A n \in Names : tokens'[n] \in {tokens[n], j}
    BY <1>5 DEF Mark, MarkFails, PutMarker, SaveConfig, SaveConfigFails, PutTokens, disk
  <2>3. QED
    BY <1>1, <2>1, <2>2 DEF Owns, NothingLeft
<1>6. ASSUME NEW j \in Jobs,
             \/ Claim(j) \/ Undo(j) \/ UndoTokens(j) \/ Work(j) \/ DeleteVM(j) \/ Remove(j)
             \/ Forget(j) \/ DestroyFails(j)
      PROVE  (~Owns(k) => ~Owns(k)') /\ (NothingLeft(k) => NothingLeft(k)')
  <2>1. /\ \A n \in Names : marker'[n] \in {marker[n], None}
        /\ \A n \in Names : tokens'[n] \in {tokens[n], None}
    BY <1>6 DEF Claim, Undo, UndoTokens, Work, StartVM, DeleteVM, Remove, Forget, RemoveProfile,
           DestroyFails, disk
  <2>2. QED
    BY <1>2, <2>1
<1>7. CASE Restart \/ UNCHANGED vars
  BY <1>3, <1>7 DEF Restart, vars, disk
<1>8. ASSUME NEW n \in Destroyable, Discard(n)
      PROVE  (~Owns(k) => ~Owns(k)') /\ (NothingLeft(k) => NothingLeft(k)')
  <2>1. \A m \in Names : marker'[m] \in {marker[m], None} /\ tokens'[m] = tokens[m]
    BY <1>8, DestroyableAssumption DEF Discard
  <2>2. QED
    BY <1>2, <2>1
<1>9. QED
  BY <1>4, <1>5, <1>6, <1>7, <1>8 DEF Next, Run, PrepareStep, Destroy

LEMMA CleanSave ==
  ASSUME TypeOK, CleanInv, NEW j \in Jobs, NEW job, Save(j, job),
         UNCHANGED <<name, disk>>, used \subseteq used', j \in used',
         \A k \in Jobs : k # j => pc'[k] = pc[k],
         pc'[j] \notin {"forgetting", "destroyed"},
         job.state = "cleaned" => NothingLeft(j),
         stored[j].state = "cleaned" => job.state \in {"cleaned", "absent"}
  PROVE  CleanInv'
<1>1. /\ jobs'[j] = job
      /\ \A k \in Jobs : k # j => jobs'[k] = jobs[k]
      /\ \A k \in Jobs : stored'[k] = stored[k] \/ (k = j /\ stored'[k] = job)
  BY DEF Save, Write, TypeOK
<1>2. \A k \in Jobs : (Owns(k)' <=> Owns(k)) /\ (NothingLeft(k)' <=> NothingLeft(k))
  BY DEF Owns, NothingLeft, disk
<1> HIDE DEF NothingLeft, Owns
<1>3. QED
  BY <1>1, <1>2 DEF CleanInv

LEMMA CleanStep ==
  ASSUME TypeOK, Watched, CleanInv, [Next]_vars
  PROVE  CleanInv'
<1>0. \A k \in Jobs :
        \/ jobs[k].state = "cleaned" \/ pc[k] \in {"forgetting", "destroyed"}
        \/ stored[k].state = "cleaned"
        => pc[k] \notin {"marking", "saving"}
  BY DEF Watched, CleanInv, Creating
<1>1. ASSUME NEW j \in Jobs, Start(j) PROVE CleanInv'
  <2>1. stored[j].state # "cleaned"
    BY <1>1 DEF Start, CleanInv
  <2>2. [Absent EXCEPT !.state = "running"].state = "running"
    BY DEF Absent
  <2>3. QED
    BY <1>1, <2>1, <2>2, CleanSave DEF Start, Go, TypeOK
<1>2. ASSUME NEW j \in Jobs, Retry(j) PROVE CleanInv'
  <2>1. PICK i \in Steps : Rerun(j, i)
    BY <1>2 DEF Retry
  <2>2. jobs[j].state = "failed"
    BY <2>1 DEF Rerun, CanRetry
  <2>3. j \in used /\ stored[j].state # "cleaned"
    BY <2>2 DEF CleanInv
  <2>4. PICK job : Save(j, job) /\ job.state = "running"
    BY <2>1 DEF Rerun
  <2>5. UNCHANGED <<name, disk, used>> /\ pc' = [pc EXCEPT ![j] = "opening"]
    BY <2>1 DEF Rerun, Go
  <2>6. QED
    BY <2>3, <2>4, <2>5, CleanSave DEF TypeOK
<1>3. ASSUME NEW j \in Jobs,
             \/ OpenLogFails(j) \/ BeginStep(j) \/ StepDone(j) \/ StepWarns(j)
             \/ StepFails(j) \/ Succeed(j) \/ Cleanup(j) \/ CleanupFails(j)
      PROVE  CleanInv'
  <2>1. jobs[j].state \in {"running", "failed", "cleaning"} /\ jobs[j] \in Job
    BY <1>3 DEF OpenLogFails, BeginStep, StepDone, StepWarns, StepFails, Succeed, Cleanup,
                CanCleanup, CleanupFails, Watched, Creating, Destroying, TypeOK
  <2>2. j \in used /\ stored[j].state # "cleaned"
    BY <2>1 DEF CleanInv
  <2>3. PICK job : Save(j, job) /\ job.state # "cleaned"
    <3>1. CASE OpenLogFails(j) \/ StepFails(j)
      <4>1. [jobs[j] EXCEPT !.state = "failed", !.steps[at[j]] = "failed"].state = "failed"
        BY <2>1 DEF Job
      <4>2. QED
        BY <3>1, <4>1 DEF OpenLogFails, StepFails, Fail
    <3>2. CASE BeginStep(j) \/ StepDone(j) \/ StepWarns(j)
      BY <2>1, <3>2 DEF BeginStep, StepDone, StepWarns, Advance, Job
    <3>3. CASE Succeed(j) \/ Cleanup(j) \/ CleanupFails(j)
      <4>1. /\ [jobs[j] EXCEPT !.state = "succeeded"].state = "succeeded"
            /\ [jobs[j] EXCEPT !.state = "cleaning", !.cleanupError = "none"].state = "cleaning"
            /\ [jobs[j] EXCEPT !.state = "failed", !.cleanupError = "error"].state = "failed"
        BY <2>1 DEF Job
      <4>2. QED
        BY <3>3, <4>1 DEF Succeed, Cleanup, CleanupFails
    <3>4. QED
      BY <1>3, <3>1, <3>2, <3>3
  <2>4. UNCHANGED <<name, disk, used>>
    BY <1>3 DEF OpenLogFails, BeginStep, StepDone, StepWarns, StepFails, Fail, Advance,
                Succeed, Cleanup, CleanupFails
  <2>5. /\ pc'[j] \notin {"forgetting", "destroyed"}
        /\ \A k \in Jobs : k # j => pc'[k] = pc[k]
    BY <1>3 DEF OpenLogFails, BeginStep, StepDone, StepWarns, StepFails, Fail, Advance,
                Succeed, Cleanup, CleanupFails, Go, TypeOK
  <2>6. QED
    BY <2>2, <2>3, <2>4, <2>5, CleanSave
<1>4. ASSUME NEW j \in Jobs, Dismiss(j) PROVE CleanInv'
  <2>1. /\ j \in used
        /\ pc[j] \notin {"forgetting", "destroyed"}
    BY <1>4 DEF Dismiss, CleanInv, Watched, Destroying
  <2>2. Absent.state = "absent"
    BY DEF Absent
  <2>3. QED
    BY <1>4, <2>1, <2>2, CleanSave DEF Dismiss
<1>5. ASSUME NEW j \in Jobs, Cleaned(j) PROVE CleanInv'
  <2>1. jobs[j].state = "cleaning" /\ jobs[j] \in Job
    BY <1>5 DEF Cleaned, Watched, Destroying, TypeOK
  <2>2. j \in used /\ stored[j].state # "cleaned" /\ NothingLeft(j)
    BY <1>5, <2>1 DEF Cleaned, CleanInv
  <2>3. QED
    BY <1>5, <2>2, CleanSave DEF Cleaned, Go, TypeOK
<1>6. ASSUME NEW j \in Jobs, DiskStep(j) PROVE CleanInv'
  <2>1. UNCHANGED records
    BY <1>6 DEF DiskStep, PrepareStep, Claim, ClaimFails, Mark, MarkFails, PutMarker,
         SaveConfig, SaveConfigFails, PutTokens, Undo, UndoTokens, Work, StartVM, List, DeleteVM,
         Recheck, Remove, Forget, DestroyFails
  <2>2. /\ \A k \in Jobs : k # j => pc'[k] = pc[k]
        /\ pc'[j] = "forgetting" => Remove(j)
        /\ pc'[j] = "destroyed" => Forget(j)
    BY <1>6 DEF DiskStep, PrepareStep, Claim, ClaimFails, Mark, MarkFails, SaveConfig,
         SaveConfigFails, Undo, UndoTokens, Work, StartVM, List, DeleteVM,
         Recheck, Remove, Forget, DestroyFails, Go, TypeOK
  <2>3. Remove(j) => ~Owns(j)'
    BY NoneIsNoJob DEF Remove, RemoveProfile, Owns, TypeOK
  <2>4. Forget(j) => NothingLeft(j)'
    <3>1. Forget(j) => ~Owns(j) /\ ~Owns(j)'
      BY <1>0, NothingNewIsOwned DEF Forget, CleanInv
    <3>2. Forget(j) => tokens'[name'[j]] # j
      BY NoneIsNoJob DEF Forget, TypeOK
    <3>3. QED
      BY <3>1, <3>2 DEF NothingLeft
  <2>5. QED
    BY <1>0, <2>1, <2>2, <2>3, <2>4, NothingNewIsOwned DEF CleanInv, records
<1>7. CASE Restart
  <2>1. \A k \in Jobs : /\ jobs'[k].state = "cleaned" <=> stored[k].state = "cleaned"
                        /\ jobs'[k].state = "absent" <=> stored[k].state = "absent"
    <3>1. ASSUME NEW job \in Job
          PROVE  /\ Reload(job).state = "cleaned" <=> job.state = "cleaned"
                 /\ Reload(job).state = "absent" <=> job.state = "absent"
      BY DEF Reload, Job
    <3>2. QED
      BY <1>7, <3>1 DEF Restart, TypeOK
  <2>2. \A k \in Jobs : stored'[k] = stored[k] \/ stored'[k] = jobs'[k]
    BY <1>7 DEF Restart, Write
  <2>3. UNCHANGED used /\ \A k \in Jobs : pc'[k] = "idle"
    BY <1>7 DEF Restart
  <2>4. QED
    BY <1>0, <2>1, <2>2, <2>3, NothingNewIsOwned DEF CleanInv
<1>8. ASSUME NEW n \in Destroyable, Discard(n) PROVE CleanInv'
  BY <1>0, <1>8, NothingNewIsOwned DEF Discard, records, CleanInv
<1>9. CASE UNCHANGED vars
  BY <1>0, <1>9, NothingNewIsOwned DEF vars, CleanInv
<1>10. QED
  BY <1>1, <1>2, <1>3, <1>4, <1>5, <1>6, <1>7, <1>8, <1>9 DEF Next, Run, Destroy, DiskStep

\* A job called cleaned has left nothing of its own behind (CleanedMeansGone).
THEOREM CleanIsClean == Spec => []CleanedMeansGone
<1>1. Init => Watched /\ CleanInv
  BY DEF Init, Watched, CleanInv, Absent, Creating, Destroying
<1>2. CleanInv => CleanedMeansGone
  BY DEF CleanInv, NothingLeft, CleanedMeansGone
<1>3. QED
  BY <1>1, <1>2, WatchedStep, CleanStep, TypeCorrect, PTL DEF Spec

-----------------------------------------------------------------------------
(* What the app may count on *)

\* What Save does to the two states of a job.
LEMMA SaveBecomes ==
  ASSUME TypeOK, NEW j \in Jobs, NEW job, Save(j, job), UNCHANGED <<name, disk>>
  PROVE  Life!Become(j, job.state)
<1>1. jobs' = [jobs EXCEPT ![j] = job]
  BY DEF Save
<1>2. [k \in Jobs |-> jobs'[k].state]
        = [[k \in Jobs |-> jobs[k].state] EXCEPT ![j] = job.state]
  BY <1>1 DEF TypeOK
<1>3. stored' \in {stored, [stored EXCEPT ![j] = job]}
  BY DEF Save, Write
<1>4. [k \in Jobs |-> stored'[k].state]
        \in {[k \in Jobs |-> stored[k].state],
             [[k \in Jobs |-> stored[k].state] EXCEPT ![j] = job.state]}
  BY <1>3 DEF TypeOK
<1>5. QED
  BY <1>2, <1>4 DEF Life!Become, disk

LEMMA RestIsRest ==
  ASSUME NoneBusy
  PROVE  Life!AllAtRest
BY DEF NoneBusy, Life!AllAtRest, Life!AtWork

\* The steps that change a record are steps of the life of that job.
LEMMA RecordRefinesLife ==
  ASSUME TypeOK, Watched, CleanInv, NEW j \in Jobs,
         \/ Start(j) \/ Retry(j) \/ Cleanup(j) \/ Dismiss(j) \/ OpenLogFails(j)
         \/ BeginStep(j) \/ StepDone(j) \/ StepWarns(j) \/ StepFails(j) \/ Succeed(j)
         \/ Cleaned(j) \/ CleanupFails(j)
  PROVE  \/ Life!Create(j) \/ Life!TakeUp(j) \/ Life!Finish(j) \/ Life!TidyUp(j)
         \/ Life!TidiedUp(j) \/ Life!Forgotten(j) \/ Life!CatchUp(j)
<1>0. jobs[j] \in Job
  BY DEF TypeOK
<1>1. CASE Start(j)
  <2>1. [Absent EXCEPT !.state = "running"].state = "running"
    BY DEF Absent
  <2>2. Life!Become(j, "running")
    BY <1>1, <2>1, SaveBecomes DEF Start
  <2>3. QED
    BY <1>1, <2>2, RestIsRest DEF Start, Life!Create
<1>2. CASE Retry(j)
  <2>1. PICK i \in Steps : Rerun(j, i)
    BY <1>2 DEF Retry
  <2>2. Life!Become(j, "running")
    BY <2>1, SaveBecomes DEF Rerun
  <2>3. QED
    BY <1>2, <2>1, <2>2, RestIsRest
       DEF Retry, Rerun, CanRetry, Owns, Life!TakeUp, Life!OwnsProfile
<1>3. CASE Cleanup(j)
  <2>1. [jobs[j] EXCEPT !.state = "cleaning", !.cleanupError = "none"].state = "cleaning"
    BY <1>0 DEF Job
  <2>2. Life!Become(j, "cleaning")
    BY <1>3, <2>1, SaveBecomes DEF Cleanup
  <2>3. QED
    BY <1>3, <2>2 DEF Cleanup, CanCleanup, Owns, Life!TidyUp, Life!OwnsProfile
<1>4. CASE Dismiss(j)
  <2>1. Life!Become(j, "absent")
    BY <1>4, SaveBecomes DEF Dismiss, Absent
  <2>2. QED
    BY <1>4, <2>1 DEF Dismiss, Life!Forgotten, Life!AtWork
<1>5. CASE OpenLogFails(j) \/ StepFails(j)
  <2>1. [jobs[j] EXCEPT !.state = "failed", !.steps[at[j]] = "failed"].state = "failed"
    BY <1>0 DEF Job
  <2>2. Life!Become(j, "failed")
    BY <1>5, <2>1, SaveBecomes DEF OpenLogFails, StepFails, Fail
  <2>3. jobs[j].state = "running"
    BY <1>5 DEF OpenLogFails, StepFails, Watched, Creating
  <2>4. QED
    BY <1>5, <2>2, <2>3 DEF OpenLogFails, StepFails, Fail, Life!Finish
<1>6. CASE BeginStep(j) \/ StepDone(j) \/ StepWarns(j)
  <2>1. jobs[j].state = "running"
    BY <1>6 DEF BeginStep, StepDone, StepWarns, Watched, Creating
  <2>2. PICK job : Save(j, job) /\ job.state = "running"
    BY <1>0, <1>6, <2>1 DEF BeginStep, StepDone, StepWarns, Advance, Job
  <2>3. UNCHANGED <<name, used, disk>>
    BY <1>6 DEF BeginStep, StepDone, StepWarns, Advance
  <2>4. Life!Become(j, job.state)
    BY <2>2, <2>3, SaveBecomes
  <2>5. [k \in Jobs |-> jobs[k].state][j] = "running"
    BY <2>1
  <2>6. QED
    BY <2>2, <2>3, <2>4, <2>5 DEF Life!CatchUp, Life!AtWork, Life!Become
<1>7. CASE Succeed(j)
  <2>1. [jobs[j] EXCEPT !.state = "succeeded"].state = "succeeded"
    BY <1>0 DEF Job
  <2>2. Life!Become(j, "succeeded")
    BY <1>7, <2>1, SaveBecomes DEF Succeed
  <2>3. jobs[j].state = "running"
    BY <1>7 DEF Succeed, Watched, Creating
  <2>4. QED
    BY <1>7, <2>2, <2>3 DEF Succeed, Life!Finish
<1>8. CASE Cleaned(j)
  <2>1. [jobs[j] EXCEPT !.state = "cleaned"].state = "cleaned"
    BY <1>0 DEF Job
  <2>2. Life!Become(j, "cleaned")
    BY <1>8, <2>1, SaveBecomes DEF Cleaned
  <2>3. jobs[j].state = "cleaning" /\ NothingLeft(j)
    BY <1>8 DEF Cleaned, Watched, CleanInv, Destroying
  <2>4. QED
    BY <1>8, <2>2, <2>3
       DEF Cleaned, NothingLeft, Owns, Life!TidiedUp, Life!OwnsNothing, Life!OwnsProfile
<1>9. CASE CleanupFails(j)
  <2>1. [jobs[j] EXCEPT !.state = "failed", !.cleanupError = "error"].state = "failed"
    BY <1>0 DEF Job
  <2>2. Life!Become(j, "failed")
    BY <1>9, <2>1, SaveBecomes DEF CleanupFails
  <2>3. jobs[j].state = "cleaning"
    BY <1>9 DEF CleanupFails, Watched, Destroying
  <2>4. QED
    BY <1>9, <2>2, <2>3 DEF CleanupFails, Life!TidiedUp
<1>10. QED
  BY <1>1, <1>2, <1>3, <1>4, <1>5, <1>6, <1>7, <1>8, <1>9

\* The steps between two changes of a record take a name or tokens, give one of them
\* up, or are nothing to the app.
LEMMA DiskRefinesLife ==
  ASSUME TypeOK, Watched, ClaimInv, NEW j \in Jobs, DiskStep(j)
  PROVE  \/ Life!TakeName(j) \/ Life!StoreTokens(j)
         \/ Life!GiveUpName(name[j]) \/ Life!GiveUpTokens(name[j])
         \/ UNCHANGED Life!lifeVars
<1>0. UNCHANGED <<name, jobs, stored, used>>
  BY DEF DiskStep, PrepareStep, Claim, ClaimFails, Mark, MarkFails, PutMarker,
         SaveConfig, SaveConfigFails, PutTokens, Undo, UndoTokens, Work, StartVM, List, DeleteVM,
         Recheck, Remove, Forget, DestroyFails, records
<1>1. ASSUME UNCHANGED <<marker, tokens>> PROVE UNCHANGED Life!lifeVars
  BY <1>0, <1>1 DEF Life!lifeVars
<1>2. CASE \/ Claim(j) \/ ClaimFails(j) \/ Work(j) \/ List(j) \/ Recheck(j)
  BY <1>1, <1>2 DEF Claim, ClaimFails, Work, StartVM, List, Recheck, disk
<1>3. CASE Mark(j) \/ MarkFails(j)
  <2>1. jobs[j].state = "running" /\ marker[name[j]] = None
    BY <1>3 DEF Mark, MarkFails, Watched, ClaimInv, Creating
  <2>2. CASE PutMarker(j)
    BY <1>0, <2>1, <2>2 DEF PutMarker, Life!TakeName
  <2>3. CASE UNCHANGED disk
    BY <1>1, <2>3 DEF disk
  <2>4. QED
    BY <1>3, <2>2, <2>3 DEF Mark, MarkFails
<1>4. CASE SaveConfig(j) \/ SaveConfigFails(j)
  <2>1. jobs[j].state = "running"
    BY <1>4 DEF SaveConfig, SaveConfigFails, Watched, Creating
  <2>2. CASE PutTokens(j)
    BY <1>0, <2>1, <2>2 DEF PutTokens, Life!StoreTokens
  <2>3. CASE UNCHANGED disk
    BY <1>1, <2>3 DEF disk
  <2>4. QED
    BY <1>4, <2>2, <2>3 DEF SaveConfig, SaveConfigFails
<1>5. CASE \/ Undo(j) \/ DeleteVM(j) \/ Remove(j) \/ DestroyFails(j)
  <2>1. tokens' = tokens
    BY <1>5 DEF Undo, DeleteVM, Remove, DestroyFails, disk
  <2>2. marker' = marker \/ marker' = [marker EXCEPT ![name[j]] = None]
    BY <1>5 DEF Undo, DeleteVM, Remove, RemoveProfile, DestroyFails, disk
  <2>3. QED
    BY <1>0, <1>1, <2>1, <2>2 DEF Life!GiveUpName
<1>6. CASE UndoTokens(j) \/ Forget(j)
  <2>1. marker' = marker
    BY <1>6 DEF UndoTokens, Forget
  <2>2. tokens' = tokens \/ tokens' = [tokens EXCEPT ![name[j]] = None]
    BY <1>6 DEF UndoTokens, Forget
  <2>3. QED
    BY <1>0, <1>1, <2>1, <2>2 DEF Life!GiveUpTokens
<1>7. QED
  BY <1>2, <1>3, <1>4, <1>5, <1>6 DEF DiskStep, PrepareStep

\* What a new daemon makes of a copy is what the app is to be told of it.
LEMMA RestartRefinesLife ==
  ASSUME TypeOK, Restart
  PROVE  Life!DaemonDies
<1>1. ASSUME NEW job \in Job
      PROVE  Reload(job).state = Life!Interrupted(job.state)
  BY DEF Reload, Job, Life!Interrupted, Life!AtWork
<1>2. \A k \in Jobs : jobs'[k].state = Life!Interrupted(stored[k].state)
  BY <1>1 DEF Restart, TypeOK
<1>3. [k \in Jobs |-> jobs'[k].state]
        = [k \in Jobs |-> Life!Interrupted([i \in Jobs |-> stored[i].state][k])]
  BY <1>2
<1>4. stored' = jobs' \/ stored' = stored
  BY DEF Restart, Write
<1>5. [k \in Jobs |-> stored'[k].state]
        \in {[k \in Jobs |-> stored[k].state], [k \in Jobs |-> jobs'[k].state]}
  BY <1>4
<1>6. QED
  BY <1>3, <1>5 DEF Restart, disk, Life!DaemonDies

LEMMA StepRefinesLife ==
  ASSUME TypeOK, Watched, ClaimInv, CleanInv, [Next]_vars
  PROVE  [Life!LifeNext]_(Life!lifeVars)
<1>1. ASSUME NEW j \in Jobs,
             \/ Start(j) \/ Retry(j) \/ Cleanup(j) \/ Dismiss(j) \/ OpenLogFails(j)
             \/ BeginStep(j) \/ StepDone(j) \/ StepWarns(j) \/ StepFails(j) \/ Succeed(j)
             \/ Cleaned(j) \/ CleanupFails(j)
      PROVE  Life!LifeNext
  BY <1>1, RecordRefinesLife DEF Life!LifeNext
<1>2. ASSUME NEW j \in Jobs, DiskStep(j)
      PROVE  Life!LifeNext \/ UNCHANGED Life!lifeVars
  <2>1. name[j] \in Names
    BY DEF TypeOK
  <2>2. QED
    BY <1>2, <2>1, DiskRefinesLife DEF Life!LifeNext
<1>3. CASE Restart
  BY <1>3, RestartRefinesLife DEF Life!LifeNext
<1>4. ASSUME NEW n \in Destroyable, Discard(n)
      PROVE  Life!LifeNext
  <2>1. Life!GiveUpName(n)
    BY <1>4 DEF Discard, records, Life!GiveUpName
  <2>2. n \in Names
    BY DestroyableAssumption
  <2>3. QED
    BY <2>1, <2>2 DEF Life!LifeNext
<1>5. CASE UNCHANGED vars
  BY <1>5 DEF vars, Life!lifeVars
<1>6. QED
  BY <1>1, <1>2, <1>3, <1>4, <1>5 DEF Next, Run, Destroy, DiskStep

\* Whatever a creation is at when it fails, is given up, loses a save or dies with the
\* daemon, the app is shown what JobLife promises (JobsLiveUpToIt).
THEOREM JobsImplementLife == Spec => JobsLiveUpToIt
<1>1. Init => Watched /\ ClaimInv /\ CleanInv
  BY DEF Init, Watched, ClaimInv, CleanInv, Absent, Creating, Destroying
<1>2. ASSUME TypeOK, Watched, OneCreationAtATime, ClaimInv, [Next]_vars
      PROVE  ClaimInv'
  BY <1>2, ClaimStep
<1>3. Init => Life!LifeInit
  BY DEF Init, Absent, Life!LifeInit
<1>4. QED
  BY <1>1, <1>2, <1>3, WatchedStep, CleanStep, StepRefinesLife, TypeCorrect, CreationsTakeTurns,
     PTL DEF Spec, JobsLiveUpToIt, Life!LifeSpec

=============================================================================
