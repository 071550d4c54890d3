# Verification of Colimander

Colimander runs coding agents in macOS virtual machines and keeps their
credentials out of reach: a broker on the Mac holds the tokens, and a PostgreSQL
proxy stands between an agent and a database. This directory holds TLA+ models of
the parts of it whose correctness depends on order, interleaving or failure, TLC
configurations that check them on small instances, and TLAPS proofs that carry the
safety properties over to every instance.

Each definition names, in `PROJECT.json` under `map`, the source lines it stands
for. Code outside the repository (PostgreSQL, GitHub, git, Fly.io) is modelled as the
code uses it and marked external.

## 1. The system

### Components, their state and how they interact

| Component | State | Operations | Modelled in |
|---|---|---|---|
| Approval broker (`pgproxy/approval/broker.go`) | pending requests, version, wake-up channel, one-slot channel per request | Approve, Decide, Watch, Pending | `ApprovalBroker`, `ApprovalGate` |
| Dashboard poll and badge (`admin.go`, `badge.go`) | last version and count | one long poll after another | `ApprovalBroker` |
| Proxy server and tripwire (`proxy/guarding.go`, `session.go`, `server.go`) | live sessions, strikes, catalogs | startup, loop, strike, suspend, register | `Tripwire` |
| One session's approvals and read-only mode (`exec.go`, `extended.go`, `schema.go`) | statements, portals, batchFailed, readOnlyPending; the upstream transaction | one handler per message | `GatedSession` |
| Guard and classification (`guard/`, `policy/classify.go`) | none | Check, Classify | `ResultMasking`; its verdicts in `Tripwire` and `GatedSession` |
| Masking (`policy/policy.go`, `proxy/guarding.go`, `scrub/`, `detect/`) | schema snapshot per connection | catalogFor, actionForField, per value | which column is masked: `ResultMasking` |
| Connection registry (`pgproxy/store`) | SQLite rows, events, meta | Open, Create, Update, Rotate, RotateDue, DeleteExpired, Suspend, Resume, Delete | `Registry` (rows over time), `MasterKey` (Open), `Tripwire` (one row) |
| Admin API, command line (`admin/`, `cli/`) | none of their own | wrappers over the registry and broker | as callers |
| Vault (`internal/vault`), imported tokens (`broker/tokens.go`) | master key file, sealed values; tokens.json and the mark that it was imported | LoadKey, CreateKey, Open, Put, Get, DeleteScope; importLegacyTokens | `MasterKey`, `TokenImport` |
| Sandbox jobs (`sandbox/job.go`, `spec.go`, `profile.go`) | job records in memory and on disk; profile directory, marker, VM, tokens | Start, Retry, Cleanup, Dismiss, run, destroy, NewJobs | `SandboxJobs`, `JobLife` |
| Credential broker, access (`policy.go`, `suspend.go`, `wire.go`, `broker.go`) | policy.json and suspension file per sandbox; what is wired into the VM | rewire, suspend, resume, activateBroker, verifyBasic, refuseSuspended | `SandboxAccess` |
| Credential broker, requests (`broker.go`, `policy.go`, `graphql.go`, `gitpkt.go`, `external.go`) | none | handleAPI, handleGit, handleFly, handleDoppler | `BrokerRequests` |
| Credential broker, process (`broker.go`, `control.go`) | pid file, control socket, TCP port | run, start, stop | `BrokerDaemon` |
| Egress monitoring (`broker/egress.go`, `setup.go`) | port in each policy, rules in each VM, open listeners | enable, disable, reconcileEgress | `EgressMonitoring` |
| Audit log and totals (`auditlog.go`, `egress.go`, `logs.go`) | audit.log and audit.log.1; running totals | audit, rotateAudit, get | `EgressTotals` |
| Fly tokens (`broker/flytokens.go`) | fly-tokens.json, organization cache | create, revoke, list | `FlyTokens` |
| Command line, VM, packages, app window, certificates | none that outlives a command | external commands in sequence | `destroy` and the boot, in `SandboxJobs` |

The calls between them that matter here: a session asks the guard, then the
approval broker, then PostgreSQL (`GatedSession`); the guard's worst verdicts go to
the tripwire, which writes the registry and closes other sessions' sockets
(`Tripwire`); operators answer the approval broker through the admin API and learn
of requests through the long poll (`ApprovalBroker`); the daemon's jobs call the
broker's hooks, which write policies and tokens, and share the file system with the
command line (`SandboxJobs`). A request from a VM is compared with the policy and
the suspension file (`SandboxAccess`) and then judged by its content
(`BrokerRequests`); the commands that change those files run in other processes than
the daemon that reads them, and so do those that change what the daemon listens on
(`EgressMonitoring`). The vault and the registry keep one master key file between
them (`MasterKey`).

### What makes it hard, and what makes it correct

* **Approval broker.** Goroutines meet in a mutex, a one-slot channel and a
  broadcast channel, and Decide sends outside the mutex. Correct: nothing opens
  without an approval; no operator is turned away from a waiting request; no
  dashboard misses a request for good; every request ends, and ends once.
* **Tripwire.** A suspension is three steps (row, list, sockets) among sessions at
  every stage, sharing a strike counter. Resume is two updates. Correct: the
  suspended password stays dead; the sessions that were there are closed and end; a
  reached limit always leads to a suspension.
* **Gated session.** One goroutine, but two protocols around PostgreSQL's
  transactions, and a mode that is lifted for one statement and paid back messages
  later. Correct: a write the guard recognises is approved at each execution; the
  debt is never forgotten; what the guard misses, read-only mode stops, but for the
  two places the property names.
* **Sandbox jobs.** The daemon may die anywhere; what it finds again is whatever
  was saved, a directory, a marker, a VM and tokens. The command line acts on the
  same names without asking. Correct: one job has a name; creations take turns;
  "succeeded" and "cleaned" are true; every job settles; what the messages tell the
  user is possible.
* **Access to the broker.** policy.json is truncated and rewritten in place by
  commands that have waited for a VM in between, and a resume clears a suspension
  long after it looked. Correct: a handle from before a suspension is dead after it;
  a command that got through leaves VM and policy in agreement.
* **The daemon.** Three claims (pid file, socket, port), one after the other, given
  up by deferred calls that a signal skips. Correct: whoever serves can be found.
* **Egress.** Policy, VM rules and listeners change in three places, with failures
  and undo between, some of which nobody notices; the totals read a log that rotates
  under them. Correct: traffic is recorded under the sandbox it came from, and counted
  once.
* **Keys, tokens, registry.** First starts race; migrations and imports die half-way;
  a sweep acts on what it read before. Correct: one key opens everything; the import
  never undoes the user; no password is replaced before its time.
* **Fly tokens.** Each request runs `fly` unlocked between two locked halves. Correct:
  a token somebody holds can be revoked.
* **Decisions on content.** Two readers, the proxy and the service, must not read one
  request differently. Correct: what is forwarded or unmasked is what the rules allow,
  as the other side reads it.

## 2. The modules

### `ApprovalGate` and `ApprovalBroker`

`ApprovalGate` is the promise of `approval.Approver`: a request is submitted, an
operator may endorse it, and it ends once, granted only if endorsed. The
`auto_approve` mode answers by configuration and is outside it.

`ApprovalBroker` models `broker.go`. A section between `Lock` and `Unlock` is one
action; so is each channel operation.

| Model | Code |
|---|---|
| `pending`, `version` | `Broker.pending`, `Broker.version`; a `changed` channel is identified by the version it was made at |
| `approve`, `result`; `Register`, `ReceiveDecision`, `GiveUp`, `Unregister` | `Approve`: its locked section, the cases of its select (timer and cancelled context deny alike) and its deferred function |
| `decided`, `decide`; `Lookup`, `Send` | the one-slot channel; the locked and the unlocked half of `Decide` |
| `watch`; `Sample`, `Wake`, `PollTimeout` | `Watch` under the admin handler's 25 seconds |
| `PollFails` | the badge loop's reset after a failed poll |
| `endorsed` | history: requests for which Decide was called with approval |

`NewID` gives every request its own id. `Lookup` is enabled for any request that was
ever registered, since the dashboard shows lists that are already old.

### `Tripwire`

One connection of the registry, its sessions and its operators.

| Model | Code |
|---|---|
| `row` | the row in `connections`; passwords are numbered by rotation |
| `pc`, `open`, `ahead` | where a session's goroutine is, whether its socket is open, and messages its reader had already buffered |
| `registered`, `strikes` | `Server.sessions`, `Server.strikes` for the connection |
| `Authenticate`, `StartupFails`, `Register`, `End` | `startup` up to the check of the row; the upstream connect; `register`; the deferred functions of `serve` |
| `Strike`, `StrikeExpires`, `Trip`, `Ask`, `Granted`, `RunGranted`, `Denied` | `allowed`, `strike` and its window, `approveMutation`, with the guard's verdict chosen freely |
| `Persist`, `Sweep`, `Close`, `Suspended` | the parts of `suspend`: the UPDATE, the locked copy, the close loop, the return to the loop |
| `ResumeRotate`, `ResumeClear`, `ResumeDies`, `Rotate`, `Delete`, `Restart` | the two updates of `Resume` and a death between them; rotation by hand or when due; deletion; the proxy's restart |
| `unswept`, `suspension` | history: sessions that were starting during a sweep; the last suspension written |

Strikes leave the window in any order the clock allows, so time itself is not
modelled. `StrikeExpires` may also happen while nobody strikes: the code trims the
list at the next strike, which gives the same counts at every comparison. A write of
the suspension may fail, since the code only logs it.

### `GatedSession` and `MCGatedSession`

One session, with or without gating. A statement's text is abstracted to what the
properties tell apart: does it end a transaction, plainly or with AND CHAIN, does it
begin one, and is its body nothing, a read, a write, or a *hidden* write, one that parses
like a read (`setval`, a view over a function). A text may combine these, which is a
multi-statement query; PostgreSQL refuses those in the extended protocol.

| Model | Code |
|---|---|
| `statements`, `portals`, `batchFailed`, `readOnlyPending` | the session's fields of those names |
| `pc`, `current` | the point the handler of the current message has reached, and the statement it is about; `current.owes` is a restore function waiting in a `defer` |
| `upstream` | `TxStatus`, whether the transaction began read-write, may write now and has run a query, and `default_transaction_read_only` |
| `Simple`, `Parse`, `Bind`, `Describe`, `Execute`, `Close...`, `Sync`, `End` | the cases of `loop` |
| `GrantWrite`, `EnableWrites`, `Run`, `RunFails`, `SendRows`, `WithholdRows`, `Restore` | what `handleSimpleQuery` and `handleExecute` go through |
| `covered`, `chained`, `overdue`, `slipped` | history: an approval covers the open transaction; that transaction took its read-write mode over with AND CHAIN; an unapproved statement ran after an approved write's transaction had ended and before read-only mode was back; the last statement to run was a write that no approval covers, and took effect |

PostgreSQL's part (external): BEGIN makes a transaction writable if the default is
off; an error aborts it; SET LOCAL in a read-only transaction works only before its
first query; a write takes effect only where it may; AND CHAIN ends a transaction and
begins the next in the mode it was in, and is an error outside one. The guard stops
neither form of it, and `enableWrites` owes nothing for a write it let through inside a
transaction (`guarding.go:167-171`), so that the chained one stays read-write unasked:
`UnapprovedWritesAreOverdueOrChained` names that place, beside the overdue debt, and shows
that there is no third. `MCGatedSession` gives the repertoire of texts. Savepoints are
left out: they change no mode.

### `JobLife` and `SandboxJobs`

| Model | Code |
|---|---|
| `jobs`, `stored`, `lost` | `Jobs.jobs`; `<id>.json`; a save that failed unnoticed |
| `pc`, `at` | the goroutine of `run` or `destroy`, and the step it is at |
| `dir`, `marker`, `vm`, `tokens` | the profile directory, the job named by the marker in it, Colima's knowledge of a VM, the owner of the tokens stored under the name |
| `Start`, `Retry`, `Cleanup`, `Dismiss` | the requests, each under `Jobs.mu` |
| `BeginStep`, `StepDone`, `StepWarns`, `StepFails`, `Succeed`, `OpenLogFails` | `run` |
| `Claim` to `UndoTokens` | `prepare`: mkdir, marker, configuration and hook, and the deferred undo |
| `List`, `DeleteVM`, `Recheck`, `Remove`, `Forget`, ... | `destroy` |
| `Restart`, `Reload` | `NewJobs` over the stored copies |
| `Discard` | `colimander destroy` |

`JobLife` is what the app may count on, without goroutines, steps and directories: the
state it is shown of a job (`life`), the state a new daemon would find (`copy`), whose
profile a name is and whose tokens are stored under it. One creation at a time; a job
goes on from a failure, or is tidied up, only while the profile is its own; it takes a
name that is free; it is called cleaned when it owns nothing; and after a crash each job
is what its copy says, a job at work having failed. `JobsLiveUpToIt` says that
`SandboxJobs` implements it.

A job's id stands for its name and creation time, which is how `owns` recognises its
marker. Every sandbox has tokens. Every creator is a job: `colimander create`
(`main.go:260-287`), which looks for a marker and writes one without claiming the
directory, and the terminal wizard (`main.go:722`), which runs the same steps as a job in
a process of its own, are not modelled, and nothing is said of a job that meets one of
them. Simplifications: a
`colima delete` or `RemoveAll` that fails has got as far as nothing, the VM or the
marker, and a child process does not outlive the daemon; the
destroy command is one step, and its file locks, hosts file and messages are left
out; loading a corrupt copy, which the code skips, is left out.

### The broker's state: `SandboxAccess`, `BrokerDaemon`, `EgressTotals`, `FlyTokens`

The four share no state. `MCBrokerState` composes them as a sum: a variable `part`
says which one moves in a behaviour, and the others stay where they started. The
number of states is then the sum of theirs, and one run covers all four. They give no
fairness and only safety is claimed of them.

**`SandboxAccess`**: one sandbox, and processes that run commands on it.

| Model | Code |
|---|---|
| `policy`, `suspended`, `vm` | policy.json (can it be parsed, the handle, is a port set); the suspension file; the handle in the VM's git configuration and in its profile script |
| `task`; `BeginCommand`, `ReadPolicy`, `TruncatePolicy`, `FillPolicy` | rewire, resume, activate, egress enable and disable: `LoadPolicy`, the change in memory, `SavePolicy`'s open with truncation and its write |
| `WireStep`, `WireFails`, `ClearSuspension`, `CommandDies` | `wireBrokerInVM` command by command; its failure, which resume only reports; `clearSuspension`; a death anywhere |
| `SuspendBox` | `Suspend`, from the command line or the app, at any time |
| `CompareHandle`, `AdmitRequest`, `RefuseRequest` | `verifyBasic`, and later `refuseSuspended` |

The histories name what the code does leave open. `overtaken`: a suspension that lands
after a resume has written its handle is cleared with the rest; and a command that
read the policy before a resume (egress disable waits for the VM in between) writes
the old handle back. `request.spans`: a request that compared its handle before the
resume and looks for the suspension after it gets in. Each property excludes these
and shows that there is no other way.

**`BrokerDaemon`**: `stage` follows `brokerRun` through the pid file, the control
socket and the port, `Ends` and the tidying actions its deferred calls, `stopper`
`brokerStop`. A pid may go to another program (`Recycle`), which the check of the
pid file takes for the daemon, as `processAlive` does. `raced`: two starts, or a start
and a stop, that meet can remove each other's files; the property holds outside such a
meeting and again once nothing runs any more.

**`EgressTotals`**: `log` and `rotated` are the two files, identified by their
creation; `writer` is `broker.audit` with its two writes per line, under `auditMu`;
`totals` is the state and the place of `get`. `missed`: the file is moved or created
during a get, or a log comes and goes between two of them. Then an entry can be left
out or counted twice: a get that meets the moment at which the full log has been
renamed and the new one not created reads from offset 0 and keeps the old file's
identity, so that the next one reads the old log again.

**`FlyTokens`**: a step is one run of `fly` or one section under `flyTokensMu`. Fly.io
is external: it makes tokens, also when the command that asked is killed afterwards.
A token whose creation failed on the way is at Fly and on no list, which the code
accepts: its value was never shown.

### The host's state: `MasterKey`, `TokenImport`, `Registry`, `EgressMonitoring`, `BrokerRequests`, `ResultMasking`

Composed by `MCHostState` in the same way.

**`MasterKey`**: registry and vault open with one key file. `LookAtData`, `LoadKey`,
`CreateKey`, `CheckKey` are `initKey` (and the vault's `init`), `EncryptLegacyRows` the
migration's transaction, `ScrubIfPending` and `ClearScrubFlag` the VACUUM and its flag.
A key is its number and a sealed value the number of its key. `CreateKey` publishes by
`os.Link`, which is one step. `lost` and `disturbed`: the user deletes the key file, at
rest or while something opens a database. Only the latter can leave a registry open
with another key than its check value's, since `initKey` looks at that value before it
reads the file.

**`TokenImport`**: `importLegacyTokens` Put by Put, its marker last, before each
operation on the tokens. `crossed`: slots the user changed while another process was
in the middle of its import, which can overwrite them; `tokensMu` is of one process.

**`Registry`**: the rows over time, with a clock: create, update, rotate, delete, and
`sweep` (`DeleteExpired`, then `RotateDue`'s scan and its rotations). `touched`:
connections changed after the scan. The sweep rotates those too, with the time it
began; a connection resumed in between gets yet another password.

**`EgressMonitoring`**: `enabler` is `enableEgress`, `disableEgress` and
`enableEgressOrUndo`, `tick` a `reconcileEgress` under way, `rules` what the VM's
firewall does. A pair of ports is one number; loading and saving a policy is one step
each, because `SandboxAccess` has their interleavings. `overlapped`: two commands on
one sandbox at once. `torn`: policies that cannot be parsed, because somebody is saving
them or died at it; `nextEgressPort` and `egressPorts` pass over them, so that the port of
one is taken for free and its listener is closed. `stuck`: VMs whose rules stayed when
`nft` failed; the script of `disableEgress` ends in another command, whose status counts,
and the policy is cleared with the rules still there. `mixed`: two sandboxes that choose
before either has saved are given the same port, and so is one that chooses while the
other's policy is unreadable; and a tick works with the policies it read at its start.
The properties leave these windows out, name them, and show that no other is left.

**`BrokerRequests`**: the four handlers as decisions on one request, whose path is the
decoded one they look at, and `UpstreamPath` what goes upstream. `matchGlob`,
`matchSingleSegment`, `checkAPIPath`, `checkAPI`, `graphQLQuery`, `checkMutation`,
`parseReceivePackCommands` and the rest carry the source's names. The other half of the
module is external: how GitHub, git and Fly read the same request (`Resource`,
`GraphQLRuns`, `PushDeletes`), and what a pattern means (`Matches`, `SegmentFits`),
defined by cutting the text into pieces where the code walks and backtracks.
`ForwardedRequestsAreAllowed` compares the two readings, the upstream's with dot and empty
segments resolved on every surface. `Overlooked` is where they differ and nothing stops
it: only `handleAPI` calls `checkAPIPath`, so a git or Fly path with such segments is
forwarded as something other than what it was judged as; only the GraphQL handler refuses
a `Content-Encoding` (`broker.go:255`), so a compressed push shows no commands and still
deletes; and `handleDoppler` looks at the first `project` of the query alone. `Matches` gives one `**` its
meaning from the comment at `policy.go:375`. The code tries what follows a `**` at
every place of the path, those before the `**` included, so that `a/**/a` matches `a`;
no rule the program writes has anything behind a `**`. Patterns for pushes are compared with the
repository as the VM wrote it, without folding case, unlike those for the API.

**`ResultMasking`**: `Severity` is `guard.Check` on what it finds in a statement,
`CatalogFor` the schema cache with its two ages and its fall-back to an old snapshot,
`actionForField` the mask of a column. PostgreSQL's part: a plain column has an origin,
a computed one and one behind a set operation has none; a derived table or a CTE keeps it.
The guard compares the name as it is written (`Written`, `guard.go:529-535`), so a column
that such a table has renamed to something no rule names may be computed on or go through
a set operation (`RenamedAway`), which the package comment (`guard.go:5-6`) and
`docs/database-proxy.md:248-250` rule out and `guard.go:8-11` admits of view columns.
`PIILeavesMasked` leaves those statements out and no others: a renamed column that is
selected plainly is masked by its origin. `query.excused`: relations
whose schema changed under a snapshot that still covers them, and all relations if
there is no schema at all when the result is sent. In that case a plain column falls
back to its name, and so an alias of a protected column goes out as it is
(`guarding.go:322-329`).

## 3. What TLC checks

| Run | Instance | Shows |
|---|---|---|
| `approval_broker` | 2 requests, 2 deciders, 1 dashboard | `FailClosed`, `RefusalJustified`, `BadgeMatchesVersion`, `ApproveReturns`, `DashboardCatchesUp`, and that the broker implements the gate (`ImplementsGate`) |
| `tripwire` | 2 sessions, 1 operator, limit 2, 3 passwords, 1 buffered message | `OnlyStartersSurvive`, `LimitMeansSuspending`, `CompromisedPasswordStaysDead`, `SweptSessionsEnd` |
| `gated_session` | 2 statement names, 1 portal, 9 texts, restores may fail | `MutationsAreApproved`, `ReadOnlyIsOwed`, `UnapprovedWritesAreOverdueOrChained` |
| `sandbox_jobs` | 2 jobs, 1 name, 3 steps of which the last is soft, 1 lost save | `OneCreationAtATime`, `SucceededMeansDone`, `CleanedMeansGone`, `JobsSettle`, and that the jobs live up to what the app is promised (`JobsLiveUpToIt`) |
| `broker_state` | 2 commands at once, 2 handles; 3 daemons; 6 connections, a log of 2 lines; 2 requests, 2 tokens, 1 organization | `CondemnedHandleStaysDead`, `CondemnedHandleOpensNothing`, `SoloCommandWiresVM`; `ServingDaemonCanBeFound`; `EveryFlowCountedOnce`; `ShownTokensCanBeRevoked` |
| `host_state` | 2 registry processes, 1 vault, 2 rows, 2 keys; 2 clients, 2 slots; 2 connections, 3 ticks; 2 sandboxes, 2 commands, 2 ports; 37,532 requests; 3 relations, 3 sets of rules, 1 alias | `OneKeySealsEverything`, `OpenRegistryHasItsKey`, `ScrubFlagTellsResidue`; `ImportUndoesNothing`; `SweepRotatesOnlyWhatIsDue`; `RulesFollowPolicy`, `TrafficIsAttributed`; `ForwardedRequestsAreAllowed`; `PIILeavesMasked` |

Each also checks its module's type invariant. Deadlock is not checked: every one of
these systems may stop for good (all requests answered, a client that says nothing,
all jobs dismissed, all daemons gone, the bounded clock or log at its end), except
that the liveness properties say where it may not.

### Where the code and its documents disagree

Each of these runs checks one statement made by a comment, a document or a test, and
ends in a counterexample.

| Run | The statement | What happens |
|---|---|---|
| `late_decision` | Decide returns false if the request timed out | Decide finds the request, the timer fires, the send into the free slot succeeds: Decide returns true for a statement that was denied. |
| `late_registration` | suspension closes every open session | A session that authenticated before and registers after the list was copied is on no list. `OnlyStartersSurvive` shows it is the only kind that escapes. |
| `disconnected_client` | a disconnected client denies | Approve watches the server's context: the request stays pending, and a grant runs the statement. |
| `hidden_write` | read-only until a write is approved | After an approved `BEGIN; INSERT`, the text `COMMIT; SELECT setval(...)` writes unapproved. `UnapprovedWritesAreOverdueOrChained` shows what it takes. |
| `retry_from_start` | Retry starts at the step that failed | A crash between two steps leaves no failed step: Retry starts over, and prepare finds its own directory. |
| `try_again` | "The daemon stopped during clean-up. Try again." | With the marker gone, clean-up is refused for good and the tokens stay. |

### The bounds, and why they are enough

* Two requests and two deciders give every race there is on one request (two
  answers, an answer and a timeout) and one request's influence on another's count.
  A dashboard interacts with no other. The version is bounded by the requests.
* Two sessions give a suspending one and one at any other stage, both suspending
  at once, and strikes from both. A limit of 2 is the smallest at which strikes add
  up. Three passwords allow a rotation on top of a resume; `MaxPassword` bounds it.
  `MaxPipelined` = 1 lets a closed session handle one more message, and so suspend
  again from the buffer.
* One portal and two names suffice to re-parse under a portal or point it elsewhere.
  The texts contain each way of ending, beginning, chaining and writing, alone, and the
  combinations that put a write behind an end or a beginning.
* Two jobs over one name are a claim and its rival; runs over two names would be
  independent but for the busy check, which looks at states only. Step 1 is prepare,
  2 the boot, 3 a soft one. `MaxLostSaves` = 1 lets one copy fall behind, which a
  restart then takes up.

* `broker_state`: two commands are one and whatever overtakes it; two handles are the
  condemned one and its successor (`MaxHandle`). Three daemons are a dead one whose
  files lie about and two that race. A log of 2 lines (`LogLimit`) rotates twice in 6
  connections (`MaxFlows`), so that a get can find the old log complete, partly read
  or gone. Two requests and two tokens give a creation inside a revocation.
* `host_state`: two registry processes and a vault can all be first; two rows, one
  migrated and one not; two keys are one and the one after a loss (`MaxKeys`). The
  clock (`MaxTime`) lets a row of interval 1 fall due, be rotated by hand and fall due
  again during one sweep; ids are not used again, so two connections (`MaxConns`) are
  one the sweep is at and one that waits. Two sandboxes over two ports want the same
  one first (`MaxPort`). One policy at a time is unreadable, and rules stay in one VM at a
  time, which is enough to give its port away. Once commands got mixed up no other begins,
  no policy becomes unreadable and no program takes a port, since little is claimed any
  more. Requests are each deny rule's path for an
  owner inside and outside the policy, and its surroundings: longer, shorter, with an
  empty, dotted or encoded segment, with a query; git endpoints the handler knows and some
  that only the upstream takes for one of those; pushes plain and compressed; Fly paths
  with the wildcard for apps and without; Doppler requests that name no, one or two
  projects. Segment patterns go up to 3 symbols (`MaxGlob`). Statements read each column
  directly, or through a derived table under its own name, the other column's or a foreign
  one. Mutations are gated where everything is strict. The schema has a table with PII, one without, and a view that appears or
  gains a column while snapshots of it are in use.
* Symmetry is used where processes or sandboxes are interchangeable (`Actors`,
  `Requests`; `Enablers`, `Sandboxes`), in runs that check safety only.

The proofs below lift these bounds for safety.

### Fairness

* `ApprovalBroker`: Go's timer always fires, so a select is left; a deferred
  function, a non-blocking send and a woken Watch go on. Nobody has to answer, ask,
  or fail a poll.
* `Tripwire`: a session's goroutine goes on: the connect ends, buffered messages are
  handled, Approve returns (that is `ApproveReturns`), suspend goes from step to
  step. No fairness on clients or operators. An open socket may be silent forever.
* `GatedSession` has none: the client may always stop, and only safety is claimed.
* `SandboxJobs`: goroutines go on and the commands a step runs return, which the
  code leaves to the operating system. Restarts may interrupt this again and again;
  each one settles the jobs itself.
* The modules of `broker_state` and `host_state` have none: a command may never be
  repeated, a user never retry, and only safety is claimed.

## 4. What is proved

The proofs hold for every value of the constants that meets the assumptions in the
modules (finite sets of requests; limits that are natural numbers; at least two
steps, of which the first two are not soft; a `None` that is no member; positive
intervals; processes of the registry and of the vault apart; a missing pid file that
names no process).

| Module | Theorems |
|---|---|
| `ApprovalBrokerProofs` | `TypeCorrect`, `NeverOpensUnasked`, `RefusalsAreJustified`, `NoLostWakeup`, `BrokerImplementsGate` |
| `TripwireProofs` | `TypeCorrect`, `SuspensionSparesStartersOnly`, `LimitAlwaysSuspends`, `CondemnedPasswordIsReplaced` |
| `GatedSessionProofs` | `TypeCorrect`, `WritesAreAsked`, `ReadOnlyIsNeverForgotten`, `WritesEscapeInTwoPlaces` |
| `SandboxJobsProofs` | `TypeCorrect`, `CreationsTakeTurns`, `SuccessIsEarned`, `CleanIsClean`, `JobsImplementLife` |
| `BrokerStateProofs` | of `SandboxAccess`: `AccessTypeCorrect`, `CondemnedStaysDead`, `CondemnedOpensNothing`, `SoloWiresVM`; of `FlyTokens`: `FlyTypeCorrect`, `ShownTokensStayListed`; of the whole: `BrokerRunsItsParts`, `BrokerTypeCorrect`, `BrokerIsSafe` |
| `BrokerDaemonProofs` | `DaemonTypeCorrect`, `DaemonIsFound`; of `EgressMonitoring`: `EgressTypeCorrect`, `RulesAreFollowed`, `TrafficIsOnesOwn`; of `EgressTotals`: `TotalsTypeCorrect`, `FlowsAreCountedOnce` |
| `BrokerRequestsProofs` | `RequestsSafety`; of the patterns: `SegmentMatchIsExact`, `MatchesCovered`, `PlainGlobIsExact`; of the handlers: `CheckAPIIsSafe`, `CheckGraphQLIsSafe`, `CheckGitIsSafe`, `CheckFlyIsSafe`, `CheckDopplerIsSafe` |
| `HostStateProofs` | of `MasterKey`: `KeyTypeCorrect`, `OneKeyForEverything`, `OpenRegistryKey`, `ScrubFlagIsTrue`; of `TokenImport`: `ImportTypeCorrect`, `TokensStay`; of `Registry`: `RegistryTypeCorrect`, `SweepIsDue`; of `ResultMasking`: `MaskingTypeCorrect`, `ResultsAreMasked`; of the whole: `HostRunsItsParts`, `HostTypeCorrect`, `HostIsSafe` |

Along which argument:

* **Broker.** `FailClosed` speaks of results only. Inductively (`DecisionInv`) the
  approval must be followed from `Decide` through the channel to the select
  (`ApprovalsAreEndorsed`), and the map must agree with the calls (`Lifecycle`,
  `LookupsAreOfRequests`). With these every step is one of the gate's or a stutter.
  The badge needs, besides, that no client is ahead of the version and that what a
  blocked Watch sampled is the count at its version (`SamplesAreCurrent`).
* **Tripwire.** A registered session is not starting (`RegisteredIsRunning`). What
  must hold during a suspension is that each open registered session is spared, or
  on some list, or a sweep is still to come (`NoneEscapes`). For the password
  (`PasswordInv`) the row is still suspended, or its number has passed the condemned
  one, for a resume that is halfway too.
* **Gated session.** `Approvals` carries the approval along the handler.
  `ReadOnlyInv` has four parts that need each other: the default that is off is
  owed, a writable transaction is covered, overdue or chained, only a debt can be
  overdue, and a write slips only when overdue or chained.
* **Jobs.** A goroutine matches its job's state (`Watched`); a job about to write
  its marker has the name to itself (`ClaimInv`). For success, both copies of a
  record are coherent (below a failed or running step everything is settled) and the
  goroutine's position divides done from pending (`StepsInv`). For clean-up, a job
  past the removal owns nothing, and past Forget has no tokens, whatever takes the
  name meanwhile (`CleanInv`). With `Watched`, `ClaimInv` and `CleanInv` every step is a
  step of `JobLife` or a stutter, a save that is lost included.
* **Access.** `CondemnedStaysDead` needs to know of every handle on its way to the file
  (`HandleInv`): a fresh one has never been written by anyone (`FreshHandles`), a
  command's stage says what it is (`CommandStages`), nobody fills a file another has
  filled (`OneWriter`), and from the moment a resume has written, no condemned handle
  is in the file, about to be, or held by a request that has seen no resume end
  (`CondemnedAreGone`). For the wiring (`SoloInv`), a command that is alone finds
  policy and VM as it left them at each step.
* **Master key.** Before a loss, every process that holds a key holds the file's
  (`OneKey`). After one, what an opener saw of the check value is still so or was
  stored since with the key in the file (`CheckInv`). The flag is safe to clear since
  nothing becomes plain text again once a process has migrated (`MigratedForGood`).
* **Registry.** What a scan found due and nobody touched is as it was found, so it is
  due now and was last rotated before the sweep began (`FoundStaysDue`); ids above the
  counter have no row.
* **Fly tokens.** A request about to strike a token off has seen it revoked, and one
  about to show a token has it on the list (`FlyInv`); neither depends on what other
  requests do in between, because each section under the lock loads the list anew.
* **Daemon.** Of the daemons past the check of the pid file there is one at most, and
  what it has claimed so far (pid file, socket, port) names it (`OneClaims`), until a
  start meets another start or a stop; `stop` knows one process, and only that one may
  still be there when it tidies up (`StopKnowsWhom`).
* **Monitoring.** What a command read of its sandbox still holds when it acts on it
  (`ReadHolds`), since two commands on one sandbox are recorded as overlapping
  (`RunsAlone`). For the traffic, besides: a tick's wanted pairs are still wanted
  (`TickIsCurrent`), and no port belongs to two sandboxes, in the policies, in the
  listeners or in a choice not yet saved (`PortsDiffer`, `ChoicesDiffer`).
* **Totals.** No connection has two lines, in one file or in two (`LinesDiffer`); the
  log is the latest file made (`FilesInOrder`); of each file exactly the lines up to an
  offset have been counted, which one being told by the file the totals remember
  (`ReadIsCounted`); and a get sees no other log than the one it began with
  (`GetKnowsFile`).
* **Import.** Whoever acts on the tokens, and every slot the user has changed, has the
  marker behind it (`ImportedFirst`); what an import has yet to copy the user has not
  touched, or is recorded as having touched during it (`CopiesAreUntouched`).
* **Masking.** An allowed statement shows a masked column plainly or not at all
  (`AllowedIsPlain`, by cases of what the guard refuses; the name it is written by is
  its own or one a rule has, short of `RenamedAway`); for a plain column, the origin in
  the snapshot finds the rule.
* **Patterns.** The loop of `matchSingleSegment` is a sequence of states
  (`Loop`), and it ends within `Rounds` rounds, since each round moves on in the text or
  takes up a later place for the last star. Of any way to cut the text into the
  pattern's pieces, the star the loop has taken last reaches at least as far as the
  loop's (`InStep`), so the loop finds a match if there is one, and what it finds is one:
  `SegmentMatchIsExact`, for patterns and segments of any length over any alphabet.
  `matchGlob` fills a table from the end; its entries satisfy the recursion the code
  writes, and from that, one segment after another, a path that matches is cut as the
  pattern says (`MatchesCovered`, for at most one `**`), and a pattern without `**`
  matches just those (`PlainGlobIsExact`). The induction over positions is made from a
  set of counterexamples that has a least member, because the library's induction
  theorems take a predicate as parameter.
* **Requests.** A path that passes `checkAPIPath` is the path the upstream reads
  (nothing to decode, no dots, no empty segment), so a rule that covers its pattern covers
  the resource; for each deny rule, the paths GitHub takes for a deletion or a change of
  protection are the ones the rule matches. GraphQL: whichever keys GitHub folds together,
  the body has one query, and what of it may run is no subscription and on the list. Git,
  unless overlooked: what goes upstream is the owner, the repository and the endpoint that
  were looked at, each command of a push is parsed, and a rule that protects a ref
  meets git's reading of it. Fly and Doppler: a path that meets one of the listed patterns
  has that pattern's words, and names an app in scope, or all are; the project looked at
  is the only one there is, unless overlooked. The alphabet is a
  parameter of each lemma. `RequestsSafety` puts them together for the requests of the
  module; its invariant, `RequestsInv`, says that one that was forwarded has passed its
  handler.
* **Composition.** `MCBrokerState` and `MCHostState` are sums: every step of the whole is
  a step of one part and leaves the others where they were (`BrokerRunsItsParts`,
  `HostRunsItsParts`), so that each part's theorem holds of the whole, and with it each
  property the two runs check (`BrokerTypeCorrect`, `BrokerIsSafe`, `HostTypeCorrect`,
  `HostIsSafe`).

**Only model-checked:** the liveness properties `ApproveReturns`,
`DashboardCatchesUp`, `SweptSessionsEnd` and `JobsSettle` (liveness under fairness is
out of the prover's reach). Every invariant, action property and refinement of the
passing runs is proved. What the code computes by going round is
written as a recursive function, so that the proofs can speak of it: no module declares
a RECURSIVE operator.

## 5. What is not modelled

Strings: how a masked value is replaced (HMAC, templates), the scrub scanner's patterns,
the heuristics of PII detection, names and lifetimes of tokens, the bytes of the
protocols, rendering and parsing of flags. The walk of the guard over the parse tree is
abstracted to what it finds, and its lists of functions, settings and statements to one
member each. Derived tables and CTEs are a renaming of the column read through them. A view is a
relation of its own: what its columns show of another relation's is not followed, and the
documents say so. The creators of sandboxes outside the daemon (section 2). The reboot
of a VM, which reloads the rules of its firewall from its disk: `EgressMonitoring` has one
copy of them. Sequences of external commands that keep no state: package installation,
the VM's boot beyond a step that succeeds or fails, TLS and certificates, the app's
window. The Forwarder's copying of traffic and its reading of host names, the log pages
of the app, the loopback mode for development, other traffic as `lsof` reports it. Approvals by HTTP
and on the configuration's word are covered by the gate only. In `Registry`, an update
is what it does to the schedule; its other fields meet nothing that interleaves. Each
component's note in `PROJECT.json` says what is left out of it.

Two hazards have no property: the badge across an unnoticed restart of the proxy, and
the window in which `destroy` may take what another creation has just claimed. Their notes
in `PROJECT.json` say why. Of three more states the models reach, nothing in the
repository says what should follow: a write denied after it has committed, a session that
outlives an edit of its connection, and a directory without a marker.

## 6. Plan

Done: everything in section 2. What would add most next:

1. The proxy's restart in `ApprovalBroker`, and with it the badge's version. Of
   `destroy`'s window, the states in which a job has lost its profile to another's
   clean-up, and what the user can still do about them.
2. Liveness of `EgressMonitoring` (a saved port is listened on in the end, unless
   another program keeps it) under fairness of the daemon's ticks.
3. `colimander create` as a second creator in `SandboxJobs`, which multiplies its states
   by more than a run can hold as it stands and wants a smaller instance of its own.
4. An abstract specification of the policy file as a register, which `SandboxAccess`
   implements when commands do not overlap.
