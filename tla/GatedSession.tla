---------------------------- MODULE GatedSession ----------------------------
(***************************************************************************)
(* How one session of the database proxy keeps its upstream connection     *)
(* read-only until a write is approved (internal/pgproxy/proxy: exec.go,   *)
(* extended.go and the read-only half of guarding.go).                     *)
(*                                                                         *)
(* The guard asks for approval of the writes it recognises.  Behind it, a  *)
(* gated session sets default_transaction_read_only in PostgreSQL, so that *)
(* a write the guard took for a read (setval, a view over a function) is   *)
(* refused.  An approved write lifts that mode, and it is put back once no *)
(* transaction is open, which may be many messages later.                  *)
(*                                                                         *)
(* The session is one goroutine; what makes it hard is the length of the   *)
(* legal message sequences, in two protocols, around PostgreSQL's          *)
(* transactions.  The upstream is external: its variables are what its     *)
(* documentation and TxStatus say of it.                                   *)
(***************************************************************************)
CONSTANTS
  Names,          \* names of prepared statements
  Portals,        \* names of portals
  Statements,     \* the statement texts a client may send, see Statement
  SetMayFail,     \* may PostgreSQL refuse the SET that restores read-only mode
  None            \* no statement, or no name

\* What the properties tell apart of a text: it may end the open transaction,
\* plainly or with AND CHAIN, then begin one, then read or write; a "hidden"
\* write is one that parses like a read.  Several of these in one text make a
\* multi-statement query.
Statement ==
  [ends : {"no", "end", "chain"}, begins : BOOLEAN,
   body : {"none", "read", "hidden", "write"}]

\* What the schema call runs upstream instead of its text.
Introspection == [ends |-> "no", begins |-> FALSE, body |-> "read"]

ASSUME StatementsAssumption == Statements \subseteq Statement /\ Introspection \in Statements
ASSUME SetMayFailAssumption == SetMayFail \in BOOLEAN
ASSUME NoneIsNoName == None \notin Names

VARIABLES
  gated,            \* the policy's GateMutations, fixed for the session
  statements,       \* session.statements: text and kind, by name
  portals,          \* session.portals: the name of the statement, by portal
  batchFailed,      \* session.batchFailed
  readOnlyPending,  \* session.readOnlyPending
  pc,               \* where the handler of the current message is
  current,          \* the statement it is about
  upstream,         \* PostgreSQL's state of the upstream connection
  covered,          \* history: an approval was given for the open transaction
  chained,          \* history: the open transaction took its read-write mode
                    \* over from the one before it, with AND CHAIN
  overdue,          \* history: an unapproved statement has run in the time
                    \* between the end of an approved write's transaction and
                    \* the return of read-only mode
  slipped           \* history: the last statement to run was a write, and took
                    \* effect outside every approved statement and transaction

clientVars == <<gated, statements, portals>>
history == <<covered, chained, overdue, slipped>>
vars == <<gated, statements, portals, batchFailed, readOnlyPending, pc, current,
          upstream, covered, chained, overdue, slipped>>

-----------------------------------------------------------------------------
Kind == {"read", "session", "mutation", "schema"}

\* preparedStmt.  kind is what the guard said when the text was parsed.
Prepared == [text : Statements, kind : Kind]

\* owes: enableWrites has returned a restore function that does something.
Current ==
  [text : Statements, kind : Kind, via : {"simple", "execute"},
   approved : BOOLEAN, owes : BOOLEAN]

\* PgConn.TxStatus; whether the open transaction began read-write, whether it is
\* now, and whether it has run a query; and default_transaction_read_only.
Upstream ==
  [status : {"I", "T", "E"}, began : BOOLEAN, writable : BOOLEAN,
   queried : BOOLEAN, readOnly : BOOLEAN]

PC == {"ready", "asking", "enabling", "running", "oversized", "restoring", "closed"}

TypeOK ==
  /\ gated \in BOOLEAN
  /\ statements \in [Names -> Prepared \cup {None}]
  /\ portals \in [Portals -> Names \cup {None}]
  /\ batchFailed \in BOOLEAN
  /\ readOnlyPending \in BOOLEAN
  /\ pc \in PC
  /\ current \in Current \cup {None}
  /\ pc \notin {"ready", "closed"} => current \in Current
  /\ upstream \in Upstream
  /\ covered \in BOOLEAN
  /\ chained \in BOOLEAN
  /\ overdue \in BOOLEAN
  /\ slipped \in BOOLEAN

\* prepareUpstream has run and refused a superuser.
Init ==
  /\ gated \in BOOLEAN
  /\ statements = [n \in Names |-> None]
  /\ portals = [p \in Portals |-> None]
  /\ batchFailed = FALSE
  /\ readOnlyPending = FALSE
  /\ pc = "ready"
  /\ current = None
  /\ upstream = [status |-> "I", began |-> FALSE, writable |-> FALSE,
                 queried |-> FALSE, readOnly |-> gated]
  /\ covered = FALSE
  /\ chained = FALSE
  /\ overdue = FALSE
  /\ slipped = FALSE

-----------------------------------------------------------------------------
(* PostgreSQL *)

\* Several commands in one text, which only the simple protocol accepts.
Multi(text) ==
  \/ text.ends # "no" /\ text.begins
  \/ (text.ends # "no" \/ text.begins) /\ text.body # "none"

Writes(text) == text.body \in {"hidden", "write"}

\* COMMIT or ROLLBACK, after which AND CHAIN begins the next transaction in the
\* mode the last one was in.
Ended(up, text) ==
  CASE text.ends = "no" -> up
    [] text.ends = "end" ->
         [up EXCEPT !.status = "I", !.began = FALSE, !.writable = FALSE,
                    !.queried = FALSE]
    [] text.ends = "chain" ->
         [up EXCEPT !.status = "T", !.began = up.writable, !.queried = FALSE]

\* AND CHAIN is an error where there is no transaction to chain to.
CanEnd(up, text) == text.ends = "chain" => up.status # "I"

\* BEGIN; inside a transaction it does nothing.
Begun(up, text) ==
  IF text.begins /\ up.status = "I"
  THEN [up EXCEPT !.status = "T", !.began = ~up.readOnly, !.writable = ~up.readOnly]
  ELSE up

\* An error aborts the open transaction, and takes a SET LOCAL back.
Failed(up) ==
  IF up.status = "I"
  THEN up
  ELSE [up EXCEPT !.status = "E", !.writable = up.began, !.queried = FALSE]

CanWrite(up) ==
  \/ up.status = "T" /\ up.writable
  \/ up.status = "I" /\ ~up.readOnly

Queried(up) == IF up.status = "T" THEN [up EXCEPT !.queried = TRUE] ELSE up

-----------------------------------------------------------------------------
(* Read-only mode *)

\* Mutant: the debt is forgotten when it cannot be paid at once.
RestoreForgets(pending) ==
  /\ readOnlyPending' = FALSE
  /\ upstream' = [upstream EXCEPT !.readOnly = (@ \/ (pending /\ upstream.status = "I"))]
  /\ UNCHANGED <<overdue, slipped>>

\* restoreReadOnly, called with pending for readOnlyPending: it does nothing
\* until no transaction is open.  A failing SET closes the client's socket, but
\* the handler goes on, and so does the loop with what it has already read.
RestoreReadOnly(pending) ==
  \/ /\ pending
     /\ upstream.status = "I"
     /\ upstream' = [upstream EXCEPT !.readOnly = TRUE]
     /\ readOnlyPending' = FALSE
     /\ overdue' = FALSE
     /\ slipped' = FALSE
  \/ /\ ~pending \/ upstream.status # "I" \/ SetMayFail
     /\ readOnlyPending' = pending
     /\ UNCHANGED <<upstream, overdue, slipped>>

\* The handler returns, after the restore function if enableWrites made one.
Finish ==
  IF current.owes
  THEN pc' = "restoring" /\ UNCHANGED current
  ELSE pc' = "ready" /\ current' = None

\* The deferred restore function.
Restore ==
  /\ pc = "restoring"
  /\ RestoreReadOnly(TRUE)
  /\ pc' = "ready"
  /\ current' = None
  /\ UNCHANGED <<clientVars, batchFailed, covered, chained>>

\* An error ends the handler and, in the extended protocol, fails the batch.
FailCurrent == batchFailed' = (batchFailed \/ current.via = "execute")

\* Mutant: inside a transaction the session default is switched as well.
EnableWritesForSession ==
  /\ pc = "enabling"
  /\ \/ /\ upstream.status = "I"
        /\ upstream' = [upstream EXCEPT !.readOnly = FALSE]
        /\ current' = [current EXCEPT !.owes = TRUE]
     \/ /\ upstream.status = "T"
        /\ upstream' = [upstream EXCEPT !.writable = TRUE, !.readOnly = FALSE]
        /\ UNCHANGED current
  /\ pc' = "running"
  /\ UNCHANGED <<clientVars, batchFailed, readOnlyPending, history>>

\* enableWrites: SET LOCAL inside a transaction, which PostgreSQL refuses after
\* the first query of a read-only one; otherwise the session default.
EnableWrites ==
  /\ pc = "enabling"
  /\ \/ /\ upstream.status = "I"
        /\ upstream' = [upstream EXCEPT !.readOnly = FALSE]
        /\ current' = [current EXCEPT !.owes = TRUE]
     \/ /\ upstream.status = "T"
        /\ upstream.writable \/ ~upstream.queried
        /\ upstream' = [upstream EXCEPT !.writable = TRUE]
        /\ UNCHANGED current
  /\ pc' = "running"
  /\ UNCHANGED <<clientVars, batchFailed, readOnlyPending, history>>

EnableFails ==
  /\ pc = "enabling"
  /\ upstream' = Failed(upstream)
  /\ FailCurrent
  /\ pc' = "ready"
  /\ current' = None
  /\ covered' = FALSE
  /\ UNCHANGED <<clientVars, readOnlyPending, chained, overdue, slipped>>

-----------------------------------------------------------------------------
(* Running a statement *)

\* Mutant: an execution of a prepared statement does not ask again.
StartUnasked(text, kind, via) ==
  /\ pc' = IF gated /\ kind = "mutation" /\ via = "simple" THEN "asking" ELSE "running"
  /\ current' = [text |-> text, kind |-> kind, via |-> via,
                 approved |-> FALSE, owes |-> FALSE]

Start(text, kind, via) ==
  /\ pc' = IF gated /\ kind = "mutation" THEN "asking" ELSE "running"
  /\ current' = [text |-> text, kind |-> kind, via |-> via,
                 approved |-> FALSE, owes |-> FALSE]

\* approveMutation.
GrantWrite ==
  /\ pc = "asking"
  /\ pc' = "enabling"
  /\ current' = [current EXCEPT !.approved = TRUE]
  /\ UNCHANGED <<clientVars, batchFailed, readOnlyPending, upstream, history>>

DenyWrite ==
  /\ pc = "asking"
  /\ FailCurrent
  /\ pc' = "ready"
  /\ current' = None
  /\ UNCHANGED <<clientVars, readOnlyPending, upstream, history>>

\* The text outlives the transaction an approved write ran in, or began after
\* it, while read-only mode is still off.
RunsOverdue ==
  /\ readOnlyPending
  /\ ~current.approved
  /\ upstream.status = "I" \/ current.text.ends # "no"

StillCovered == covered /\ current.text.ends = "no"

StillChained ==
  CASE current.text.ends = "no" -> chained
    [] current.text.ends = "end" -> FALSE
    [] current.text.ends = "chain" -> upstream.writable

\* The extended protocol and a chain to nothing are refused before they do
\* anything.
Refused ==
  \/ current.via = "execute" /\ Multi(current.text)
  \/ ~CanEnd(upstream, current.text)

\* The state in which the body of the current text is reached.
Reached == Begun(Ended(upstream, current.text), current.text)

\* Exec or ExecParams succeeds.
Run ==
  /\ pc = "running"
  /\ ~Refused
  /\ Reached.status # "E"
  /\ Writes(current.text) => CanWrite(Reached)
  /\ upstream' = IF current.text.body = "none" THEN Reached ELSE Queried(Reached)
  /\ overdue' = (overdue \/ RunsOverdue)
  /\ covered' = (Reached.status = "T" /\ (current.approved \/ StillCovered))
  /\ chained' = StillChained
  /\ slipped' = (/\ gated
                 /\ Writes(current.text)
                 /\ ~current.approved
                 /\ ~StillCovered)
  /\ \/ Finish
     \/ /\ current.text.body # "none" /\ current.kind # "schema"
        /\ pc' = "oversized"
        /\ UNCHANGED current
  /\ UNCHANGED <<clientVars, batchFailed, readOnlyPending>>

\* PostgreSQL refuses the text, at once or at its body.
RunFails ==
  /\ pc = "running"
  /\ upstream' = Failed(IF Refused THEN upstream ELSE Reached)
  /\ overdue' = (overdue \/ RunsOverdue)
  /\ covered' = FALSE
  /\ chained' = IF Refused THEN chained ELSE StillChained
  /\ slipped' = FALSE
  /\ FailCurrent
  /\ Finish
  /\ UNCHANGED <<clientVars, readOnlyPending>>

\* streamResult: a result over MaxRows is held until an operator lets it go.
SendRows ==
  /\ pc = "oversized"
  /\ Finish
  /\ UNCHANGED <<clientVars, batchFailed, readOnlyPending, upstream, history>>

WithholdRows ==
  /\ pc = "oversized"
  /\ FailCurrent
  /\ Finish
  /\ UNCHANGED <<clientVars, readOnlyPending, upstream, history>>

-----------------------------------------------------------------------------
(* The client's messages *)

\* The guard's classification.  A custom function makes a read a mutation if the
\* cached catalog knows it.
Kinds(text) ==
  CASE text.body = "none" -> {"session"}
    [] text.body = "read" -> {"read"}
    [] text.body = "hidden" -> {"read", "mutation"}
    [] text.body = "write" -> {"mutation"}

\* Query: check restores read-only mode first; the guard may refuse the text.
Simple(text) ==
  /\ pc = "ready"
  /\ RestoreReadOnly(readOnlyPending)
  /\ \/ \E kind \in Kinds(text) : Start(text, kind, "simple")
     \/ UNCHANGED <<pc, current>>
  /\ UNCHANGED <<clientVars, batchFailed, covered, chained>>

\* Query with the schema call, which is not checked.
SimpleSchema ==
  /\ pc = "ready"
  /\ Start(Introspection, "schema", "simple")
  /\ UNCHANGED <<clientVars, batchFailed, readOnlyPending, upstream, history>>

\* Parse: checked like a Query, but only remembered.
Parse(n, text) ==
  /\ pc = "ready"
  /\ ~batchFailed
  /\ RestoreReadOnly(readOnlyPending)
  /\ \/ /\ \E kind \in Kinds(text) :
             statements' = [statements EXCEPT ![n] = [text |-> text, kind |-> kind]]
        /\ UNCHANGED batchFailed
     \/ /\ batchFailed' = TRUE
        /\ UNCHANGED statements
  /\ UNCHANGED <<gated, portals, pc, current, covered, chained>>

ParseSchema(n) ==
  /\ pc = "ready"
  /\ ~batchFailed
  /\ statements' = [statements EXCEPT ![n] = [text |-> Introspection, kind |-> "schema"]]
  /\ UNCHANGED <<gated, portals, batchFailed, readOnlyPending, pc, current,
                 upstream, history>>

\* Mutant: the portal holds the statement of the moment, not its name.
BindStatement(p, n) ==
  /\ pc = "ready"
  /\ ~batchFailed
  /\ portals' = [portals EXCEPT ![p] = statements[n]]
  /\ UNCHANGED <<gated, statements, batchFailed, readOnlyPending, pc, current,
                 upstream, history>>

\* Bind keeps the name of the statement, which need not exist yet.
Bind(p, n) ==
  /\ pc = "ready"
  /\ ~batchFailed
  /\ portals' = [portals EXCEPT ![p] = n]
  /\ UNCHANGED <<gated, statements, batchFailed, readOnlyPending, pc, current,
                 upstream, history>>

\* Describe and Execute of a name nobody has parsed or bound.
FailBatch ==
  /\ batchFailed' = TRUE
  /\ UNCHANGED <<clientVars, readOnlyPending, pc, current, upstream, history>>

\* ensureFields prepares the text upstream, the first time it is described.
Describe(n) ==
  /\ pc = "ready"
  /\ ~batchFailed
  /\ \/ statements[n] = None /\ FailBatch
     \/ /\ statements[n] # None
        /\ statements[n].kind # "schema"
        /\ \/ /\ upstream.status # "E"
              /\ ~Multi(statements[n].text)
              /\ upstream' = Queried(upstream)
              /\ UNCHANGED <<batchFailed, covered>>
           \/ /\ upstream' = Failed(upstream)
              /\ batchFailed' = TRUE
              /\ covered' = FALSE
        /\ UNCHANGED <<clientVars, readOnlyPending, pc, current, chained, overdue, slipped>>

DescribePortal(p) ==
  /\ pc = "ready"
  /\ ~batchFailed
  /\ \/ portals[p] = None /\ FailBatch
     \/ portals[p] # None /\ Describe(portals[p])

\* The statement a portal leads to, as of now.
Bound(p) == IF portals[p] = None THEN None ELSE statements[portals[p]]

\* Execute: nothing is checked again, and read-only mode is not restored.
Execute(p) ==
  /\ pc = "ready"
  /\ ~batchFailed
  /\ \/ Bound(p) = None /\ FailBatch
     \/ /\ Bound(p) # None
        /\ Start(Bound(p).text, Bound(p).kind, "execute")
        /\ UNCHANGED <<clientVars, batchFailed, readOnlyPending, upstream, history>>

CloseStatement(n) ==
  /\ pc = "ready"
  /\ ~batchFailed
  /\ statements' = [statements EXCEPT ![n] = None]
  /\ UNCHANGED <<gated, portals, batchFailed, readOnlyPending, pc, current,
                 upstream, history>>

ClosePortal(p) ==
  /\ pc = "ready"
  /\ ~batchFailed
  /\ portals' = [portals EXCEPT ![p] = None]
  /\ UNCHANGED <<gated, statements, batchFailed, readOnlyPending, pc, current,
                 upstream, history>>

Sync ==
  /\ pc = "ready"
  /\ batchFailed' = FALSE
  /\ UNCHANGED <<clientVars, readOnlyPending, pc, current, upstream, history>>

\* Terminate, or the socket is closed: the session and its upstream end.
End ==
  /\ pc = "ready"
  /\ pc' = "closed"
  /\ UNCHANGED <<clientVars, batchFailed, readOnlyPending, current, upstream, history>>

-----------------------------------------------------------------------------
Message ==
  \/ \E text \in Statements : Simple(text)
  \/ SimpleSchema \/ Sync \/ End
  \/ \E n \in Names :
       \/ \E text \in Statements : Parse(n, text)
       \/ ParseSchema(n) \/ Describe(n) \/ CloseStatement(n)
  \/ \E p \in Portals :
       \/ \E n \in Names : Bind(p, n)
       \/ DescribePortal(p) \/ Execute(p) \/ ClosePortal(p)

Handler ==
  \/ GrantWrite \/ DenyWrite \/ EnableWrites \/ EnableFails
  \/ Run \/ RunFails \/ SendRows \/ WithholdRows \/ Restore

Next == Message \/ Handler

\* Safety only: nothing here must ever happen, the client may always stop.
Spec == Init /\ [][Next]_vars

-----------------------------------------------------------------------------
(* Properties *)

\* A statement the guard took for a write runs on a gated session only if this
\* very execution was approved, however often, under whichever portal and after
\* whichever re-parse it is executed (handleSimpleQuery, handleExecute).
MutationsAreApproved ==
  (gated /\ pc = "running" /\ current.kind = "mutation") => current.approved

\* Read-only mode is never lifted for good: whenever the session default is
\* read-write, a running handler or readOnlyPending will see to it, whatever
\* transactions, errors and failed restores came between (enableWrites,
\* restoreReadOnly).
ReadOnlyIsOwed ==
  (gated /\ ~upstream.readOnly) =>
    readOnlyPending \/ (pc \notin {"ready", "closed"} /\ current.owes)

\* A write no approval covers takes effect only in one of two places.  Some
\* statement ran after an approved write's transaction had ended and before
\* read-only mode was put back; or COMMIT or ROLLBACK AND CHAIN, which the guard
\* lets through as any session command, carried the read-write mode that
\* enableWrites gave to one transaction into the next.  Every other sequence of
\* messages of both protocols stops it.
UnapprovedWritesAreOverdueOrChained == slipped => overdue \/ chained

\* docs/database-proxy.md: "Connections run read-only until a write is
\* approved", and the test of a write the classifier misses: "Read-only mode
\* stops it".
HiddenWritesAreStopped == ~slipped

=============================================================================
