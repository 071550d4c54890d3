------------------------------ MODULE Tripwire ------------------------------
(***************************************************************************)
(* How the database proxy stops a connection that misbehaves               *)
(* (internal/pgproxy/proxy and internal/pgproxy/store), for one connection *)
(* of the registry and the sessions an agent opens with its password.      *)
(*                                                                         *)
(* A session authenticates against the row, spends a while connecting      *)
(* upstream, registers with the server and handles statements.  The guard  *)
(* may let a statement run, send it to an operator, block it (a strike) or *)
(* trip.  A trip, or the last strike, suspends the connection in three     *)
(* separate steps: the row is updated, the list of sessions is copied and  *)
(* the strikes cleared under Server.mu, and then each session on the list  *)
(* is closed.  Operators resume in two SQL statements, and meanwhile       *)
(* passwords rotate, the row may be deleted and the proxy may restart.     *)
(***************************************************************************)
EXTENDS Naturals, FiniteSets

CONSTANTS
  Sessions,       \* client connections; one is reused after it has ended
  Operators,      \* callers of Resume: admin handlers and CLI processes
  TripStrikes,    \* blocked statements within the window that suspend (10)
  MaxPassword,    \* bound: passwords are numbered, and rotation stops here
  MaxPipelined    \* bound: messages read from a socket but not yet handled

ASSUME LimitsAssumption ==
  /\ TripStrikes \in Nat \ {0}
  /\ MaxPassword \in Nat \ {0}
  /\ MaxPipelined \in Nat

VARIABLES
  row,            \* the connections row: does it exist, password, suspended
  pc,             \* where each session is
  open,           \* the sessions whose socket nobody has closed
  ahead,          \* messages of a closed session still in its read buffer
  registered,     \* Server.sessions of this connection
  strikes,        \* Server.strikes of this connection, within the window
  kill,           \* what suspend has copied from registered and not closed yet
  resume,         \* where each Resume is
  unswept,        \* history: sessions that were starting during a sweep
  suspension      \* history: the last suspension written

rowVars == <<row, resume, suspension>>
sessionVars == <<pc, open, ahead, registered, strikes, kill, unswept>>
vars == <<row, pc, open, ahead, registered, strikes, kill, resume, unswept,
          suspension>>

-----------------------------------------------------------------------------
PC == {"offline", "starting", "idle", "asking", "granted",
       "tripped", "sweeping", "closing"}

\* The steps of Server.suspend.
Suspending == {"tripped", "sweeping", "closing"}

TypeOK ==
  /\ row \in [exists : BOOLEAN, password : 1..MaxPassword, suspended : BOOLEAN]
  /\ pc \in [Sessions -> PC]
  /\ open \subseteq Sessions
  /\ ahead \in [Sessions -> 0..MaxPipelined]
  /\ registered \subseteq Sessions
  /\ strikes \in Nat
  /\ kill \in [Sessions -> SUBSET Sessions]
  /\ resume \in [Operators -> {"none", "rotated"}]
  /\ unswept \subseteq Sessions
  /\ suspension \in [password : 0..MaxPassword, raced : BOOLEAN]

Init ==
  /\ row = [exists |-> TRUE, password |-> 1, suspended |-> FALSE]
  /\ pc = [s \in Sessions |-> "offline"]
  /\ open = {}
  /\ ahead = [s \in Sessions |-> 0]
  /\ registered = {}
  /\ strikes = 0
  /\ kill = [s \in Sessions |-> {}]
  /\ resume = [o \in Operators |-> "none"]
  /\ unswept = {}
  /\ suspension = [password |-> 0, raced |-> FALSE]

-----------------------------------------------------------------------------
(* A session's life *)

\* authenticate reads the row once; the bcrypt comparison, the check for a
\* suspension and the whole upstream connect work on that snapshot.  Any other
\* password, and a deleted or suspended row, is turned away without a trace.
Authenticate(s, password) ==
  /\ pc[s] = "offline"
  /\ row.exists
  /\ row.password = password
  /\ ~row.suspended
  /\ pc' = [pc EXCEPT ![s] = "starting"]
  /\ open' = open \cup {s}
  /\ UNCHANGED <<rowVars, ahead, registered, strikes, kill, unswept>>

\* What is left of a session when its goroutine returns from serve.
Gone(s) ==
  /\ pc' = [pc EXCEPT ![s] = "offline"]
  /\ open' = open \ {s}
  /\ ahead' = [ahead EXCEPT ![s] = 0]
  /\ registered' = registered \ {s}
  /\ kill' = [t \in Sessions |-> kill[t] \ {s}]
  /\ unswept' = unswept \ {s}
  /\ UNCHANGED <<rowVars, strikes>>

\* The upstream is unreachable or refused, or the client has gone.
StartupFails(s) ==
  /\ pc[s] = "starting"
  /\ Gone(s)

Register(s) ==
  /\ pc[s] = "starting"
  /\ pc' = [pc EXCEPT ![s] = "idle"]
  /\ registered' = registered \cup {s}
  /\ UNCHANGED <<rowVars, open, ahead, strikes, kill, unswept>>

\* A socket is closed by the client or by the proxy.  Messages that the read
\* buffer of the protocol library already holds are still handed out.
CloseSocket(s) ==
  /\ open' = open \ {s}
  /\ IF s \in open
     THEN \E n \in 0..MaxPipelined : ahead' = [ahead EXCEPT ![s] = n]
     ELSE UNCHANGED ahead

HangUp(s) ==
  /\ s \in open
  /\ CloseSocket(s)
  /\ UNCHANGED <<rowVars, pc, registered, strikes, kill, unswept>>

\* Receive fails: loop returns, and serve unregisters and closes.
End(s) ==
  /\ pc[s] = "idle"
  /\ s \notin open
  /\ ahead[s] = 0
  /\ Gone(s)

-----------------------------------------------------------------------------
(* Statements *)

\* Receive hands out a message, from the socket or from the buffer.
Receive(s) ==
  /\ pc[s] = "idle"
  /\ s \in open \/ ahead[s] > 0
  /\ ahead' = IF s \in open THEN ahead ELSE [ahead EXCEPT ![s] = @ - 1]

\* A statement that needs nobody's permission leaves no mark here.
Run(s) ==
  /\ Receive(s)
  /\ UNCHANGED <<rowVars, pc, open, registered, strikes, kill, unswept>>

\* Mutant: the limit itself does not suspend.
StrikeBeyondLimit(s) ==
  /\ Receive(s)
  /\ strikes' = strikes + 1
  /\ pc' = [pc EXCEPT ![s] = IF strikes' > TripStrikes THEN "tripped" ELSE "idle"]
  /\ UNCHANGED <<rowVars, open, registered, kill, unswept>>

\* guard.Block: an event is stored and the strike counted under Server.mu.
Strike(s) ==
  /\ Receive(s)
  /\ strikes' = strikes + 1
  /\ pc' = [pc EXCEPT ![s] = IF strikes' >= TripStrikes THEN "tripped" ELSE "idle"]
  /\ UNCHANGED <<rowVars, open, registered, kill, unswept>>

\* Mutant: a strike expires that was never counted.
ExpireUncounted ==
  /\ strikes' = strikes - 1
  /\ UNCHANGED <<rowVars, pc, open, ahead, registered, kill, unswept>>

\* Time passes and a strike falls out of the window.
StrikeExpires ==
  /\ strikes > 0
  /\ strikes' = strikes - 1
  /\ UNCHANGED <<rowVars, pc, open, ahead, registered, kill, unswept>>

\* guard.Trip.
Trip(s) ==
  /\ Receive(s)
  /\ pc' = [pc EXCEPT ![s] = "tripped"]
  /\ UNCHANGED <<rowVars, open, registered, strikes, kill, unswept>>

\* approveMutation, or a result over the row limit: the goroutine blocks in
\* Approve and does not look at its socket.
Ask(s) ==
  /\ Receive(s)
  /\ pc' = [pc EXCEPT ![s] = "asking"]
  /\ UNCHANGED <<rowVars, open, registered, strikes, kill, unswept>>

\* Approve returns, as the gate allows.
Granted(s) ==
  /\ pc[s] = "asking"
  /\ pc' = [pc EXCEPT ![s] = "granted"]
  /\ UNCHANGED <<rowVars, open, ahead, registered, strikes, kill, unswept>>

\* The statement runs (or its rows are sent), whatever has happened to the
\* session or the connection meanwhile.
RunGranted(s) ==
  /\ pc[s] = "granted"
  /\ pc' = [pc EXCEPT ![s] = "idle"]
  /\ UNCHANGED <<rowVars, open, ahead, registered, strikes, kill, unswept>>

Denied(s) ==
  /\ pc[s] = "asking"
  /\ pc' = [pc EXCEPT ![s] = "idle"]
  /\ UNCHANGED <<rowVars, open, ahead, registered, strikes, kill, unswept>>

-----------------------------------------------------------------------------
(* Server.suspend *)

\* Store.Suspend, one UPDATE.  A deleted row or a failing database is logged
\* and suspend goes on.
Persist(s) ==
  /\ pc[s] = "tripped"
  /\ pc' = [pc EXCEPT ![s] = "sweeping"]
  /\ \/ /\ row.exists
        /\ row' = [row EXCEPT !.suspended = TRUE]
        /\ suspension' = [password |-> row.password,
                          raced |-> \E o \in Operators : resume[o] = "rotated"]
     \/ UNCHANGED <<row, suspension>>
  /\ UNCHANGED <<open, ahead, registered, strikes, kill, resume, unswept>>

\* Mutant: only the offending session is closed.
SweepOffender(s) ==
  /\ pc[s] = "sweeping"
  /\ pc' = [pc EXCEPT ![s] = "closing"]
  /\ kill' = [kill EXCEPT ![s] = {s}]
  /\ strikes' = 0
  /\ unswept' = unswept \cup {t \in Sessions : pc[t] = "starting"}
  /\ UNCHANGED <<rowVars, open, ahead, registered>>

\* Under Server.mu: copy the sessions, forget the strikes.
Sweep(s) ==
  /\ pc[s] = "sweeping"
  /\ pc' = [pc EXCEPT ![s] = "closing"]
  /\ kill' = [kill EXCEPT ![s] = registered]
  /\ strikes' = 0
  /\ unswept' = unswept \cup {t \in Sessions : pc[t] = "starting"}
  /\ UNCHANGED <<rowVars, open, ahead, registered>>

\* Mutant: the other sessions are dropped from the list but stay connected.
CloseOffender(s, t) ==
  /\ pc[s] = "closing"
  /\ t \in kill[s]
  /\ IF s = t THEN CloseSocket(t) ELSE UNCHANGED <<open, ahead>>
  /\ kill' = [kill EXCEPT ![s] = @ \ {t}]
  /\ UNCHANGED <<rowVars, pc, registered, strikes, unswept>>

\* Close the copied sessions one by one, the suspending one among them, and
\* return to the loop.
Close(s, t) ==
  /\ pc[s] = "closing"
  /\ t \in kill[s]
  /\ CloseSocket(t)
  /\ kill' = [kill EXCEPT ![s] = @ \ {t}]
  /\ UNCHANGED <<rowVars, pc, registered, strikes, unswept>>

Suspended(s) ==
  /\ pc[s] = "closing"
  /\ kill[s] = {}
  /\ pc' = [pc EXCEPT ![s] = "idle"]
  /\ UNCHANGED <<rowVars, open, ahead, registered, strikes, kill, unswept>>

-----------------------------------------------------------------------------
(* Operators and the sweeper *)

\* Store.rotate, called by Rotate and RotateDue: a new password, nothing else.
NewPassword ==
  /\ row.exists
  /\ row.password < MaxPassword
  /\ row' = [row EXCEPT !.password = @ + 1]

Rotate ==
  /\ NewPassword
  /\ UNCHANGED <<sessionVars, resume, suspension>>

\* Mutant: the suspension is cleared first, under the old password.
ResumeClearFirst(o) ==
  /\ resume[o] = "none"
  /\ row.exists
  /\ row' = [row EXCEPT !.suspended = FALSE]
  /\ resume' = [resume EXCEPT ![o] = "rotated"]
  /\ UNCHANGED <<sessionVars, suspension>>

\* Store.Resume, first statement.
ResumeRotate(o) ==
  /\ resume[o] = "none"
  /\ NewPassword
  /\ resume' = [resume EXCEPT ![o] = "rotated"]
  /\ UNCHANGED <<sessionVars, suspension>>

\* Second statement; on a deleted row it changes nothing.
ResumeClear(o) ==
  /\ resume[o] = "rotated"
  /\ resume' = [resume EXCEPT ![o] = "none"]
  /\ row' = IF row.exists THEN [row EXCEPT !.suspended = FALSE] ELSE row
  /\ UNCHANGED <<sessionVars, suspension>>

\* The process of a CLI resume dies between its statements, or the second fails.
ResumeDies(o) ==
  /\ resume[o] = "rotated"
  /\ resume' = [resume EXCEPT ![o] = "none"]
  /\ UNCHANGED <<sessionVars, row, suspension>>

\* Delete, or DeleteExpired: sessions already open keep running.
Delete ==
  /\ row.exists
  /\ row' = [row EXCEPT !.exists = FALSE]
  /\ UNCHANGED <<sessionVars, resume, suspension>>

\* The proxy dies and comes back; only the row is left.
Restart ==
  /\ pc' = [s \in Sessions |-> "offline"]
  /\ open' = {}
  /\ ahead' = [s \in Sessions |-> 0]
  /\ registered' = {}
  /\ strikes' = 0
  /\ kill' = [s \in Sessions |-> {}]
  /\ unswept' = {}
  /\ UNCHANGED <<rowVars>>

-----------------------------------------------------------------------------
Statement(s) == Run(s) \/ Strike(s) \/ Trip(s) \/ Ask(s)
Answer(s) == Granted(s) \/ Denied(s) \/ RunGranted(s)
CloseSome(s) == \E t \in Sessions : Close(s, t)

Next ==
  \/ \E s \in Sessions :
       \/ \E password \in 1..MaxPassword : Authenticate(s, password)
       \/ StartupFails(s) \/ Register(s) \/ HangUp(s) \/ End(s)
       \/ Statement(s) \/ Answer(s)
       \/ Persist(s) \/ Sweep(s) \/ CloseSome(s) \/ Suspended(s)
  \/ \E o \in Operators : ResumeRotate(o) \/ ResumeClear(o) \/ ResumeDies(o)
  \/ StrikeExpires \/ Rotate \/ Delete \/ Restart

\* A session's own goroutine keeps running: startup ends, a readable message is
\* handled, Approve returns (ApprovalBroker!ApproveReturns), suspend finishes.
Fairness ==
  \A s \in Sessions :
    /\ WF_vars(StartupFails(s) \/ Register(s))
    /\ WF_vars(s \notin open /\ Statement(s))
    /\ WF_vars(End(s))
    /\ WF_vars(Answer(s))
    /\ WF_vars(Persist(s)) /\ WF_vars(Sweep(s))
    /\ WF_vars(CloseSome(s)) /\ WF_vars(Suspended(s))

Spec == Init /\ [][Next]_vars /\ Fairness

-----------------------------------------------------------------------------
(* Safety *)

\* Once a suspension is written and every suspend has finished, the only
\* sessions left open are those that had authenticated but not yet registered
\* when the list was copied: no interleaving of trips, registrations, hang-ups,
\* resumes and restarts lets a registered session escape (Server.suspend,
\* register, unregister).
OnlyStartersSurvive ==
  (row.suspended /\ \A t \in Sessions : pc[t] \notin Suspending) =>
    registered \cap open \subseteq unswept

\* The strike count cannot stand at its limit, whichever sessions the strikes
\* came from, without a session on its way to suspend the connection (strike
\* and suspend take Server.mu separately).
LimitMeansSuspending ==
  strikes >= TripStrikes => \E s \in Sessions : pc[s] \in {"tripped", "sweeping"}

\* The password in force when a suspension was written never opens a session
\* again, through crashes between Resume's two statements, rotations and second
\* resumes, unless a Resume was halfway through as the suspension landed
\* (Store.Suspend, Resume, rotate).
CompromisedPasswordStaysDead ==
  (row.exists /\ ~row.suspended /\ ~suspension.raced) =>
    row.password > suspension.password

\* guarding.go: suspend stops a connection, "its password stops working, and
\* every open session is closed"; the same promise is made in
\* docs/database-proxy.md.
SuspendedMeansClosed ==
  (row.suspended /\ \A t \in Sessions : pc[t] \notin Suspending) =>
    registered \cap open = {}

\* docs/database-proxy.md on approvals: "a timeout or a disconnected client
\* denies".
DisconnectedClientDenies ==
  [][\A s \in Sessions : Granted(s) => s \in open]_vars

-----------------------------------------------------------------------------
(* Liveness *)

\* Every session that suspend put on its list ends and leaves the registry,
\* even one blocked on an operator, behind buffered messages or suspending the
\* connection itself (the close loop, Approve's timer, loop and serve).
SweptSessionsEnd ==
  \A s \in Sessions :
    (\E t \in Sessions : s \in kill[t]) ~> pc[s] = "offline"

=============================================================================
