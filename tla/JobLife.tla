------------------------------- MODULE JobLife -------------------------------
(***************************************************************************)
(* What the app may count on when it has the daemon create sandboxes        *)
(* (internal/sandbox/job.go), without saying how a creation works: one job  *)
(* is at work at a time unless it tidies up; a job goes on from a failure   *)
(* only while the profile is its own; and it is called cleaned only when    *)
(* nothing of its own is left.  The daemon may die at any moment, and what  *)
(* survives of a job is the last state that reached the disk.               *)
(***************************************************************************)
CONSTANTS
  Jobs,     \* job ids
  Names,    \* the names of sandboxes
  None      \* nobody

VARIABLES
  name,     \* the sandbox a job is to create
  life,     \* the state the app is shown for a job
  copy,     \* the state a new daemon would find
  drawn,    \* the ids in use or used up
  owner,    \* whose profile a name is
  vault     \* whose tokens are stored under a name

lifeVars == <<name, life, copy, drawn, owner, vault>>

LifeInit ==
  /\ name \in [Jobs -> Names]
  /\ life = [j \in Jobs |-> "absent"]
  /\ copy = [j \in Jobs |-> "absent"]
  /\ drawn = {}
  /\ owner = [n \in Names |-> None]
  /\ vault = [n \in Names |-> None]

AtWork(s) == s \in {"running", "cleaning"}
AllAtRest == \A j \in Jobs : ~AtWork(life[j])
OwnsProfile(j) == owner[name[j]] = j
OwnsNothing(j) == ~OwnsProfile(j) /\ vault[name[j]] # j

\* A job's state changes; the disk may miss it.
Become(j, s) ==
  /\ life' = [life EXCEPT ![j] = s]
  /\ copy' \in {copy, [copy EXCEPT ![j] = s]}
  /\ UNCHANGED <<name, owner, vault>>

Create(j) == j \notin drawn /\ AllAtRest /\ drawn' = drawn \cup {j} /\ Become(j, "running")

TakeUp(j) ==
  /\ life[j] = "failed" /\ OwnsProfile(j) /\ AllAtRest
  /\ Become(j, "running") /\ UNCHANGED drawn

Finish(j) ==
  /\ life[j] = "running"
  /\ Become(j, "succeeded") \/ Become(j, "failed")
  /\ UNCHANGED drawn

TidyUp(j) ==
  /\ life[j] = "failed" /\ OwnsProfile(j)
  /\ Become(j, "cleaning") /\ UNCHANGED drawn

TidiedUp(j) ==
  /\ life[j] = "cleaning"
  /\ Become(j, "failed") \/ (OwnsNothing(j) /\ Become(j, "cleaned"))
  /\ UNCHANGED drawn

Forgotten(j) ==
  /\ life[j] # "absent" /\ ~AtWork(life[j])
  /\ Become(j, "absent") /\ UNCHANGED drawn

\* The disk is brought up to date while a job is at work.
CatchUp(j) == AtWork(life[j]) /\ Become(j, life[j]) /\ UNCHANGED drawn

\* A free name becomes the running job's.
TakeName(j) ==
  /\ life[j] = "running" /\ owner[name[j]] = None
  /\ owner' = [owner EXCEPT ![name[j]] = j]
  /\ UNCHANGED <<name, life, copy, drawn, vault>>

StoreTokens(j) ==
  /\ life[j] = "running"
  /\ vault' = [vault EXCEPT ![name[j]] = j]
  /\ UNCHANGED <<name, life, copy, drawn, owner>>

\* The daemon or the user gives up what there is under a name.
GiveUpName(n) ==
  /\ owner' = [owner EXCEPT ![n] = None]
  /\ UNCHANGED <<name, life, copy, drawn, vault>>

GiveUpTokens(n) ==
  /\ vault' = [vault EXCEPT ![n] = None]
  /\ UNCHANGED <<name, life, copy, drawn, owner>>

Interrupted(s) == IF AtWork(s) THEN "failed" ELSE s

\* The daemon dies, and the next one goes by what the disk says.
DaemonDies ==
  /\ life' = [j \in Jobs |-> Interrupted(copy[j])]
  /\ copy' \in {copy, life'}
  /\ UNCHANGED <<name, drawn, owner, vault>>

LifeNext ==
  \/ \E j \in Jobs :
       \/ Create(j) \/ TakeUp(j) \/ Finish(j) \/ TidyUp(j) \/ TidiedUp(j)
       \/ Forgotten(j) \/ CatchUp(j) \/ TakeName(j) \/ StoreTokens(j)
  \/ \E n \in Names : GiveUpName(n) \/ GiveUpTokens(n)
  \/ DaemonDies

LifeSpec == LifeInit /\ [][LifeNext]_lifeVars
=============================================================================
