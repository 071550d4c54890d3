------------------------------ MODULE Registry ------------------------------
(***************************************************************************)
(* The rows of the connection registry over time: created, edited, rotated *)
(* and deleted from the admin API and the command line, while the proxy's  *)
(* sweeper deletes what has expired and rotates what is due.  Every        *)
(* statement is one step of SQLite; between two of them any other caller   *)
(* may come.  Ids are never used twice (AUTOINCREMENT).  Suspension and    *)
(* the second half of Resume are in Tripwire.                              *)
(***************************************************************************)
EXTENDS Integers, FiniteSets

CONSTANTS
  MaxConns,      \* bound on the connections created
  MaxTime,       \* bound on the clock
  Intervals      \* lifetimes and rotation intervals the operator may give

ASSUME RegistryAssumption ==
  /\ MaxConns \in Nat \ {0} /\ MaxTime \in Nat
  /\ Intervals \subseteq Nat \ {0}

VARIABLES
  now,       \* the clock
  row,       \* each connection's row, Gone before Create and after Delete
  lastId,    \* AUTOINCREMENT's counter
  sweep,     \* the sweeper: its step, the time it began, what it found due
  touched    \* history: connections changed since the sweeper's scan

registryVars == <<now, row, lastId, sweep, touched>>

Ids == 1 .. MaxConns
Never == 0   \* no interval, no expiry
Gone == [there |-> FALSE, every |-> Never, rotated |-> 0, expires |-> Never]
Asleep == [at |-> "asleep", began |-> 0, due |-> {}]

RegistryTypeOK ==
  /\ now \in 0 .. MaxTime
  /\ row \in [Ids -> [there : BOOLEAN, every : Intervals \cup {Never}, rotated : Nat,
                      expires : Nat]]
  /\ lastId \in 0 .. MaxConns
  /\ sweep \in [at : {"asleep", "scan", "rotate"}, began : Nat, due : SUBSET Ids]
  /\ touched \subseteq Ids

RegistryInit ==
  /\ now = 0
  /\ row = [c \in Ids |-> Gone]
  /\ lastId = 0
  /\ sweep = Asleep
  /\ touched = {}

Expired(c, t) == row[c].expires # Never /\ row[c].expires <= t
\* rotated_at + rotate_every <= t: NextRotation, and RotateDue's test of one row.
Due(c, t) == row[c].every # Never /\ row[c].rotated + row[c].every <= t

Deadline(ttl) == IF ttl = Never THEN Never ELSE now + ttl
Given == Intervals \cup {Never}

----------------------------------------------------------------------------
(* Operators *)

\* What the admin API and the command line ask for; the latter gives no expiry.
handleCreate == [every : Given, expires : {Deadline(ttl) : ttl \in Given}]
connAdd == [every : Given, expires : {Never}]

Create(in) ==
  /\ lastId < MaxConns
  /\ row' = [row EXCEPT ![lastId + 1] =
               [there |-> TRUE, every |-> in.every, rotated |-> now, expires |-> in.expires]]
  /\ lastId' = lastId + 1
  /\ UNCHANGED <<now, sweep, touched>>

\* The interval and the expiry are each set or kept; the time of the last rotation stays.
handleUpdate(c) ==
  [every : Given \cup {row[c].every},
   expires : {Deadline(ttl) : ttl \in Given} \cup {row[c].expires}]

UpdateConn(c, in) ==
  /\ row[c].there
  /\ row' = [row EXCEPT ![c].every = in.every, ![c].expires = in.expires]
  /\ touched' = touched \cup {c}
  /\ UNCHANGED <<now, lastId, sweep>>

\* rotate, called by an operator at this moment; Resume begins with it.
RotateConn(c) ==
  /\ row[c].there
  /\ row' = [row EXCEPT ![c].rotated = now]
  /\ touched' = touched \cup {c}
  /\ UNCHANGED <<now, lastId, sweep>>

DeleteConn(c) ==
  /\ row[c].there
  /\ row' = [row EXCEPT ![c] = Gone]
  /\ touched' = touched \cup {c}
  /\ UNCHANGED <<now, lastId, sweep>>

----------------------------------------------------------------------------
(* sweep, at startup and once a minute *)

DeleteExpired ==
  /\ sweep.at = "asleep"
  /\ row' = [c \in Ids |-> IF row[c].there /\ Expired(c, now) THEN Gone ELSE row[c]]
  /\ sweep' = [at |-> "scan", began |-> now, due |-> {}]
  /\ UNCHANGED <<now, lastId, touched>>

\* Mutant: every connection with a schedule is rotated.
ScanScheduled ==
  /\ sweep.at = "scan"
  /\ sweep' = [sweep EXCEPT !.at = "rotate",
                            !.due = {c \in Ids : row[c].there /\ row[c].every # Never}]
  /\ touched' = {}
  /\ UNCHANGED <<now, row, lastId>>

\* RotateDue reads every row with a schedule, against the time the sweep began, and
\* gives the connection to the database back.
ScanDue ==
  /\ sweep.at = "scan"
  /\ sweep' = [sweep EXCEPT !.at = "rotate",
                            !.due = {c \in Ids : row[c].there /\ Due(c, sweep.began)}]
  /\ touched' = {}
  /\ UNCHANGED <<now, row, lastId>>

\* rotate, in the order of the ids, with the time the sweep began; a row deleted
\* meanwhile is left out, and so is one whose rotation fails.
RotateNext(c) ==
  /\ sweep.at = "rotate"
  /\ c \in sweep.due /\ \A d \in sweep.due : c <= d
  /\ \/ row[c].there /\ row' = [row EXCEPT ![c].rotated = sweep.began]
     \/ UNCHANGED row
  /\ sweep' = [sweep EXCEPT !.due = @ \ {c}]
  /\ UNCHANGED <<now, lastId, touched>>

\* The sweep ends, or the proxy does.
SweepEnds ==
  /\ sweep.at # "asleep"
  /\ sweep' = Asleep
  /\ UNCHANGED <<now, row, lastId, touched>>

TimePasses ==
  /\ now < MaxTime
  /\ now' = now + 1
  /\ UNCHANGED <<row, lastId, sweep, touched>>

RegistryNext ==
  \/ \E in \in handleCreate \cup connAdd : Create(in)
  \/ \E c \in Ids :
       \/ \E in \in handleUpdate(c) : UpdateConn(c, in)
       \/ RotateConn(c) \/ DeleteConn(c) \/ RotateNext(c)
  \/ DeleteExpired \/ ScanDue \/ SweepEnds \/ TimePasses

RegistrySpec == RegistryInit /\ [][RegistryNext]_registryVars

----------------------------------------------------------------------------
\* "RotateDue rotates the password of every connection whose automatic rotation is
\* due": a sweep never takes away a password whose time has not come, nor brings a
\* connection back to an earlier schedule, unless the connection was edited, rotated or
\* resumed after the sweep had read it.
SweepRotatesOnlyWhatIsDue ==
  [][\A c \in Ids : RotateNext(c) /\ row' # row /\ c \notin touched
       => Due(c, now) /\ row'[c].rotated >= row[c].rotated]_registryVars
=============================================================================
