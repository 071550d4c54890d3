---------------------------- MODULE EgressTotals ----------------------------
(***************************************************************************)
(* The audit log and the running totals the app polls (egressTotals.get).  *)
(* The daemon appends one line per finished connection and moves a full    *)
(* log to audit.log.1; a get remembers how far it has read and in which    *)
(* file.  auditMu orders the writers and the totals' mutex the gets, but   *)
(* nothing orders the one against the other.                               *)
(*                                                                         *)
(* Connections are numbered; a line is the number of its connection, or    *)
(* Corrupt.  Lines have one length, and offsets count them.                *)
(***************************************************************************)
EXTENDS Integers, Sequences, FiniteSets, Functions

CONSTANTS
  MaxFlows,   \* bound on the connections recorded
  LogLimit    \* maxAuditSize, in lines

ASSUME TotalsAssumption == MaxFlows \in Nat \ {0} /\ LogLimit \in Nat \ {0}

VARIABLES
  log,       \* audit.log: is it there, which file it is, its lines, its unfinished line
  rotated,   \* audit.log.1, the same
  writer,    \* what audit is doing, and for which connection
  totals,    \* egressTotals, and where its get is
  counted,   \* how often each connection is in the totals, up to 2
  owed,      \* history: connections in the files when the last successful get began
  missed     \* history: the log changed during a get, or before a get had seen it

totalsVars == <<log, rotated, writer, totals, counted, owed, missed>>

Flows == 1 .. MaxFlows
Corrupt == 0
NoFile == [there |-> FALSE, id |-> 0, lines |-> <<>>, unfinished |-> -1]
FinishedLine == -1   \* the last line is finished

LogFile == [there : BOOLEAN, id : 0 .. MaxFlows, lines : Seq(0 .. MaxFlows), unfinished : -1 .. MaxFlows]

NewTotals == [at |-> "rest", known |-> FALSE, file |-> 0, offset |-> 0, info |-> 0, seen |-> {}]

TotalsTypeOK ==
  /\ log \in LogFile /\ rotated \in LogFile
  /\ writer \in [at : {"rest", "open", "data", "newline"}, flow : 1 .. MaxFlows + 1, files : 0 .. MaxFlows]
  /\ totals \in [at : {"rest", "first", "stat", "rest of old", "read"}, known : BOOLEAN,
                 file : 0 .. MaxFlows, offset : 0 .. MaxFlows, info : 0 .. MaxFlows,
                 seen : SUBSET Flows]
  /\ counted \in [Flows -> 0 .. 2]
  /\ owed \subseteq Flows
  /\ missed \in BOOLEAN

TotalsInit ==
  /\ log = NoFile /\ rotated = NoFile
  /\ writer = [at |-> "rest", flow |-> 1, files |-> 0]
  /\ totals = NewTotals
  /\ counted = [f \in Flows |-> 0]
  /\ owed = {}
  /\ missed = FALSE

auditFiles == <<log, rotated>>
reading == <<totals, counted, owed>>

----------------------------------------------------------------------------
(* broker.audit, for the flow a Forwarder has recorded *)

\* rotateAudit: the full log replaces the previous audit.log.1, and until the log is
\* opened again there is none.
RotateAudit ==
  /\ writer.at = "rest" /\ writer.flow <= MaxFlows
  /\ writer' = [writer EXCEPT !.at = "open"]
  /\ IF log.there /\ Len(log.lines) >= LogLimit
     THEN /\ rotated' = log
          /\ log' = NoFile
          /\ missed' = (missed \/ totals.at # "rest"
                           \/ (totals.known /\ totals.file # log.id))
     ELSE UNCHANGED <<auditFiles, missed>>
  /\ UNCHANGED reading

OpenLog ==
  /\ writer.at = "open"
  /\ IF log.there
     THEN /\ writer' = [writer EXCEPT !.at = "data"]
          /\ UNCHANGED <<log, missed>>
     ELSE /\ log' = [NoFile EXCEPT !.there = TRUE, !.id = writer.files + 1]
          /\ writer' = [writer EXCEPT !.at = "data", !.files = @ + 1]
          /\ missed' = (missed \/ totals.at # "rest")
  /\ UNCHANGED <<rotated, reading>>

\* The entry and its newline are two writes; what follows an unfinished line makes it corrupt.
WriteEntry ==
  /\ writer.at = "data"
  /\ log' = [log EXCEPT !.unfinished = IF @ = FinishedLine THEN writer.flow ELSE Corrupt]
  /\ writer' = [writer EXCEPT !.at = "newline"]
  /\ UNCHANGED <<rotated, reading, missed>>

WriteNewline ==
  /\ writer.at = "newline"
  /\ log' = [log EXCEPT !.lines = Append(@, log.unfinished), !.unfinished = FinishedLine]
  /\ writer' = [writer EXCEPT !.at = "rest", !.flow = @ + 1]
  /\ UNCHANGED <<rotated, reading, missed>>

----------------------------------------------------------------------------
(* egressTotals.get *)

FlowsIn(file) == Range(file.lines) \ {Corrupt}

\* add: entries that do not parse are skipped.
CountFlows(lines) == counted' = [f \in Flows |->
  LET n == Cardinality({i \in DOMAIN lines : lines[i] = f}) IN
  IF counted[f] + n > 2 THEN 2 ELSE counted[f] + n]

\* readAuditFrom: whole lines from the offset on, from the start if the file is shorter.
LinesFrom(file, offset) ==
  SubSeq(file.lines, IF Len(file.lines) < offset THEN 1 ELSE offset + 1, Len(file.lines))

BeginGet ==
  /\ totals.at = "rest"
  /\ totals' = [totals EXCEPT !.at = IF totals.known THEN "stat" ELSE "first",
                              !.seen = FlowsIn(log) \cup FlowsIn(rotated)]
  /\ missed' = (missed \/ (totals.file # 0 /\ ~log.there))
  /\ UNCHANGED <<auditFiles, writer, counted, owed>>

\* The first read includes the rotated log.
ReadFirst ==
  /\ totals.at = "first"
  /\ totals' = [totals EXCEPT !.at = "stat", !.known = TRUE, !.file = 0, !.offset = 0]
  /\ CountFlows(rotated.lines)
  /\ UNCHANGED <<auditFiles, writer, owed, missed>>

\* Mutant: only the log's size is looked at.
StatSize ==
  /\ totals.at = "stat"
  /\ totals' = [totals EXCEPT !.at = "read", !.file = IF log.there THEN log.id ELSE @]
  /\ UNCHANGED <<auditFiles, writer, counted, owed, missed>>

\* "Size can't reveal a rotation ... So compare the file itself".
StatLog ==
  /\ totals.at = "stat"
  /\ totals' =
       IF log.there /\ totals.file \notin {0, log.id}
       THEN [totals EXCEPT !.at = "rest of old", !.info = log.id]
       ELSE [totals EXCEPT !.at = "read", !.file = IF log.there THEN log.id ELSE @]
  /\ UNCHANGED <<auditFiles, writer, counted, owed, missed>>

\* "... and finish the old one first."
ReadRest ==
  /\ totals.at = "rest of old"
  /\ CountFlows(LinesFrom(rotated, totals.offset))
  /\ totals' = [totals EXCEPT !.at = "read", !.offset = 0, !.file = totals.info, !.info = 0]
  /\ UNCHANGED <<auditFiles, writer, owed, missed>>

\* A log that is not there is no error, and sets the offset to 0.
ReadLog ==
  /\ totals.at = "read"
  /\ CountFlows(LinesFrom(log, totals.offset))
  /\ totals' = [totals EXCEPT !.at = "rest", !.offset = Len(log.lines), !.seen = {}]
  /\ owed' = totals.seen
  /\ UNCHANGED <<auditFiles, writer, missed>>

\* A file cannot be opened or read: the get fails, and the first one starts over.
GetFails ==
  /\ totals.at \in {"first", "rest of old", "read"}
  /\ totals' = [totals EXCEPT !.at = "rest", !.info = 0, !.seen = {}]
  /\ UNCHANGED <<auditFiles, writer, counted, owed, missed>>

\* The daemon dies, with the totals, and is started again.
TotalsLost ==
  /\ writer' = [writer EXCEPT !.at = "rest",
                  !.flow = IF writer.at = "newline" THEN @ + 1 ELSE @]
  /\ totals' = NewTotals
  /\ counted' = [f \in Flows |-> 0]
  /\ owed' = {}
  /\ missed' = FALSE
  /\ UNCHANGED auditFiles

TotalsNext ==
  \/ RotateAudit \/ OpenLog \/ WriteEntry \/ WriteNewline
  \/ BeginGet \/ ReadFirst \/ StatLog \/ ReadRest \/ ReadLog \/ GetFails
  \/ TotalsLost

TotalsSpec == TotalsInit /\ [][TotalsNext]_totalsVars

----------------------------------------------------------------------------
\* The totals count every connection once: no line is read twice, and a get that
\* succeeds has counted every connection that was in the two files when it began,
\* through rotations between the gets, failing gets, torn lines and restarts, as long
\* as the log is neither moved nor created during a get, and no log comes and goes
\* between one get and the next.
EveryFlowCountedOnce ==
  ~missed => /\ \A f \in Flows : counted[f] <= 1
             /\ \A f \in owed : counted[f] = 1
=============================================================================
