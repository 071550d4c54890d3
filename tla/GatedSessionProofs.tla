------------------------- MODULE GatedSessionProofs -------------------------
(***************************************************************************)
(* Proofs about a gated session for any repertoire of statements and any   *)
(* number of prepared statements and portals.                              *)
(***************************************************************************)
EXTENDS GatedSession, TLAPS

-----------------------------------------------------------------------------
(* Types *)

LEMMA UpstreamTypes ==
  ASSUME NEW up \in Upstream, NEW text \in Statement
  PROVE  /\ Ended(up, text) \in Upstream
         /\ Begun(up, text) \in Upstream
         /\ Failed(up) \in Upstream
         /\ Queried(up) \in Upstream
BY DEF Upstream, Statement, Ended, Begun, Failed, Queried

\* Begun after Ended, the state in which a body runs.
LEMMA ReachedTypes ==
  ASSUME TypeOK, pc \notin {"ready", "closed"}
  PROVE  /\ current \in Current
         /\ current.text \in Statement
         /\ Reached \in Upstream
<1>1. current \in Current /\ current.text \in Statement
  BY StatementsAssumption DEF TypeOK, Current
<1>2. QED
  BY <1>1, UpstreamTypes DEF TypeOK, Reached

LEMMA StillChainedType ==
  ASSUME TypeOK, current.text \in Statement
  PROVE  StillChained \in BOOLEAN
BY DEF TypeOK, Statement, StillChained, Upstream

LEMMA RestoreTypes ==
  ASSUME TypeOK, NEW pending \in BOOLEAN, RestoreReadOnly(pending)
  PROVE  /\ upstream' \in Upstream
         /\ readOnlyPending' \in BOOLEAN
         /\ overdue' \in BOOLEAN
         /\ slipped' \in BOOLEAN
BY DEF TypeOK, RestoreReadOnly, Upstream

LEMMA FinishTypes ==
  ASSUME TypeOK, pc \notin {"ready", "closed"}, Finish
  PROVE  /\ pc' \in PC
         /\ current' \in Current \cup {None}
         /\ pc' \notin {"ready", "closed"} => current' \in Current
BY DEF TypeOK, Finish, PC

LEMMA StartTypes ==
  ASSUME TypeOK, NEW text \in Statements, NEW kind \in Kind,
         NEW via \in {"simple", "execute"}, Start(text, kind, via)
  PROVE  pc' \in PC /\ current' \in Current
BY DEF TypeOK, Start, PC, Current

LEMMA KindTypes ==
  ASSUME NEW text \in Statement, NEW kind \in Kinds(text)
  PROVE  kind \in Kind
BY DEF Statement, Kinds, Kind

\* Messages and handlers keep every variable within its type.
THEOREM TypeCorrect == Spec => []TypeOK
<1>1. Init => TypeOK
  <2> SUFFICES ASSUME Init PROVE TypeOK
    OBVIOUS
  <2>1. ASSUME NEW b \in BOOLEAN
        PROVE  [status |-> "I", began |-> FALSE, writable |-> FALSE,
                queried |-> FALSE, readOnly |-> b] \in Upstream
    BY DEF Upstream
  <2>2. upstream \in Upstream
    BY <2>1 DEF Init
  <2>3. QED
    BY <2>2 DEF Init, TypeOK, PC
<1>2. TypeOK /\ [Next]_vars => TypeOK'
  <2> SUFFICES ASSUME TypeOK, [Next]_vars PROVE TypeOK'
    OBVIOUS
  <2>1. ASSUME NEW text \in Statements, Simple(text) PROVE TypeOK'
    <3>1. /\ upstream' \in Upstream
          /\ readOnlyPending' \in BOOLEAN
          /\ overdue' \in BOOLEAN
          /\ slipped' \in BOOLEAN
      BY <2>1, RestoreTypes DEF Simple, TypeOK
    <3>2. CASE UNCHANGED <<pc, current>>
      BY <2>1, <3>1, <3>2 DEF Simple, TypeOK, clientVars
    <3>3. ASSUME NEW kind \in Kinds(text), Start(text, kind, "simple")
          PROVE  TypeOK'
      <4>1. pc' \in PC /\ current' \in Current
        BY <3>3, StartTypes, KindTypes, StatementsAssumption
      <4>2. QED
        BY <2>1, <3>1, <4>1 DEF Simple, TypeOK, clientVars
    <3>4. QED
      BY <2>1, <3>2, <3>3 DEF Simple
  <2>2. CASE SimpleSchema
    <3>1. pc' \in PC /\ current' \in Current
      BY <2>2, StartTypes, StatementsAssumption DEF SimpleSchema, Kind
    <3>2. QED
      BY <2>2, <3>1 DEF SimpleSchema, TypeOK, clientVars, history
  <2>3. ASSUME NEW n \in Names, NEW text \in Statements, Parse(n, text)
        PROVE TypeOK'
    <3>1. /\ upstream' \in Upstream
          /\ readOnlyPending' \in BOOLEAN
          /\ overdue' \in BOOLEAN
          /\ slipped' \in BOOLEAN
      BY <2>3, RestoreTypes DEF Parse, TypeOK
    <3>2. \A kind \in Kinds(text) : [text |-> text, kind |-> kind] \in Prepared
      BY KindTypes, StatementsAssumption DEF Prepared
    <3>3. statements' \in [Names -> Prepared \cup {None}] /\ batchFailed' \in BOOLEAN
      BY <2>3, <3>2 DEF Parse, TypeOK
    <3>4. QED
      BY <2>3, <3>1, <3>3 DEF Parse, TypeOK
  <2>4. ASSUME NEW n \in Names, ParseSchema(n) PROVE TypeOK'
    <3>1. [text |-> Introspection, kind |-> "schema"] \in Prepared
      BY StatementsAssumption DEF Prepared, Kind
    <3>2. QED
      BY <2>4, <3>1 DEF ParseSchema, TypeOK, history
  <2>5. ASSUME NEW n \in Names, Describe(n) PROVE TypeOK'
    <3>1. Queried(upstream) \in Upstream /\ Failed(upstream) \in Upstream
      BY DEF TypeOK, Upstream, Queried, Failed
    <3>2. QED
      BY <2>5, <3>1 DEF Describe, FailBatch, TypeOK, clientVars, history
  <2>6. ASSUME NEW p \in Portals, DescribePortal(p) PROVE TypeOK'
    <3>1. CASE FailBatch
      BY <3>1 DEF FailBatch, TypeOK, clientVars, history
    <3>2. QED
      BY <2>5, <2>6, <3>1 DEF DescribePortal, TypeOK
  <2>7. ASSUME NEW p \in Portals, Execute(p) PROVE TypeOK'
    <3>1. CASE FailBatch
      BY <3>1 DEF FailBatch, TypeOK, clientVars, history
    <3>2. CASE Bound(p) # None /\ Start(Bound(p).text, Bound(p).kind, "execute")
               /\ UNCHANGED <<clientVars, batchFailed, readOnlyPending, upstream, history>>
      <4>1. Bound(p) \in Prepared
        BY <3>2 DEF Bound, TypeOK
      <4>2. pc' \in PC /\ current' \in Current
        BY <3>2, <4>1, StartTypes DEF Prepared
      <4>3. QED
        BY <3>2, <4>2 DEF TypeOK, clientVars, history
    <3>3. QED
      BY <2>7, <3>1, <3>2 DEF Execute
  <2>8. ASSUME NEW p \in Portals, NEW n \in Names, Bind(p, n) PROVE TypeOK'
    BY <2>8 DEF Bind, TypeOK, history
  <2>9. ASSUME NEW n \in Names, CloseStatement(n) PROVE TypeOK'
    BY <2>9 DEF CloseStatement, TypeOK, history
  <2>10. ASSUME NEW p \in Portals, ClosePortal(p) PROVE TypeOK'
    BY <2>10 DEF ClosePortal, TypeOK, history
  <2>11. CASE Sync \/ End
    BY <2>11 DEF Sync, End, TypeOK, PC, clientVars, history
  <2>12. CASE GrantWrite
    BY <2>12 DEF GrantWrite, TypeOK, PC, Current, clientVars, history
  <2>13. CASE DenyWrite
    BY <2>13 DEF DenyWrite, FailCurrent, TypeOK, PC, clientVars, history
  <2>14. CASE EnableWrites
    <3>1. upstream' \in Upstream
      BY <2>14 DEF EnableWrites, TypeOK, Upstream
    <3>2. current' \in Current
      BY <2>14, ReachedTypes DEF EnableWrites, Current
    <3>3. QED
      BY <2>14, <3>1, <3>2 DEF EnableWrites, TypeOK, PC, clientVars, history
  <2>15. CASE EnableFails
    <3>1. upstream' \in Upstream
      BY <2>15 DEF EnableFails, Failed, TypeOK, Upstream
    <3>2. QED
      BY <2>15, <3>1 DEF EnableFails, FailCurrent, TypeOK, PC, clientVars
  <2>16. CASE Run
    <3>1. /\ current \in Current
          /\ current.text \in Statement
          /\ Reached \in Upstream
          /\ Queried(Reached) \in Upstream
      BY <2>16, ReachedTypes, UpstreamTypes DEF Run
    <3>2. /\ pc' \in PC
          /\ current' \in Current \cup {None}
          /\ pc' \notin {"ready", "closed"} => current' \in Current
      BY <2>16, <3>1, FinishTypes DEF Run, PC
    <3>3. upstream' \in Upstream
      BY <2>16, <3>1 DEF Run
    <3>4. /\ overdue' \in BOOLEAN /\ covered' \in BOOLEAN
          /\ chained' \in BOOLEAN /\ slipped' \in BOOLEAN
      BY <2>16, <3>1, StillChainedType DEF Run, TypeOK
    <3>5. QED
      BY <2>16, <3>2, <3>3, <3>4 DEF Run, TypeOK, clientVars
  <2>17. CASE RunFails
    <3>1. Failed(upstream) \in Upstream /\ Failed(Reached) \in Upstream
      BY <2>17, ReachedTypes, UpstreamTypes DEF RunFails, TypeOK
    <3>2. upstream' \in Upstream
      BY <2>17, <3>1 DEF RunFails
    <3>3. /\ overdue' \in BOOLEAN /\ batchFailed' \in BOOLEAN
          /\ chained' \in BOOLEAN
      BY <2>17, ReachedTypes, StillChainedType DEF RunFails, FailCurrent, TypeOK
    <3>4. QED
      BY <2>17, <3>2, <3>3, FinishTypes DEF RunFails, TypeOK, clientVars
  <2>18. CASE SendRows \/ WithholdRows
    BY <2>18, FinishTypes
       DEF SendRows, WithholdRows, FailCurrent, TypeOK, clientVars, history
  <2>19. CASE Restore
    BY <2>19, RestoreTypes DEF Restore, TypeOK, PC, clientVars
  <2>20. CASE UNCHANGED vars
    BY <2>20 DEF vars, TypeOK
  <2>21. QED
    BY <2>1, <2>2, <2>3, <2>4, <2>5, <2>6, <2>7, <2>8, <2>9, <2>10, <2>11, <2>12,
       <2>13, <2>14, <2>15, <2>16, <2>17, <2>18, <2>19, <2>20
       DEF Next, Message, Handler
<1>3. QED
  BY <1>1, <1>2, PTL DEF Spec

-----------------------------------------------------------------------------
(* Approvals *)

\* Beyond the question, a gated mutation carries its approval; a restore
\* function exists only for an approved statement.
Approvals ==
  /\ (gated /\ pc \in {"enabling", "running"} /\ current.kind = "mutation") =>
       current.approved
  /\ pc = "enabling" => current.approved
  /\ (pc \in {"running", "oversized", "restoring"} /\ current.owes) =>
       current.approved
  /\ pc \in {"asking", "enabling"} => ~current.owes

LEMMA ApprovalsStep ==
  ASSUME TypeOK, Approvals, [Next]_vars
  PROVE  Approvals'
<1>1. ASSUME NEW text, NEW kind, NEW via, Start(text, kind, via), UNCHANGED gated
      PROVE  Approvals'
  BY <1>1 DEF Start, Approvals
<1>2. ASSUME UNCHANGED <<gated, pc, current>> PROVE Approvals'
  BY <1>2 DEF Approvals
<1>3. ASSUME Finish, UNCHANGED gated, pc \in {"running", "oversized"} PROVE Approvals'
  BY <1>3 DEF Finish, Approvals, TypeOK
<1>4. ASSUME pc' \in {"ready", "closed"} PROVE Approvals'
  BY <1>4 DEF Approvals
<1>5. ASSUME Message PROVE Approvals'
  <2>1. ASSUME NEW text \in Statements, Simple(text) PROVE Approvals'
    BY <2>1, <1>1, <1>2 DEF Simple, clientVars
  <2>2. CASE SimpleSchema
    BY <2>2, <1>1 DEF SimpleSchema, clientVars
  <2>3. CASE Sync
    BY <2>3, <1>2 DEF Sync, clientVars
  <2>4. CASE End
    BY <2>4, <1>4 DEF End, Approvals
  <2>5. ASSUME NEW n \in Names,
               \/ \E text \in Statements : Parse(n, text)
               \/ ParseSchema(n) \/ Describe(n) \/ CloseStatement(n)
        PROVE Approvals'
    BY <2>5, <1>2 DEF Parse, ParseSchema, Describe, FailBatch, CloseStatement, clientVars
  <2>6. ASSUME NEW p \in Portals, (\E n \in Names : Bind(p, n)) \/ ClosePortal(p)
        PROVE Approvals'
    BY <2>6, <1>2 DEF Bind, ClosePortal
  <2>7. ASSUME NEW p \in Portals, DescribePortal(p) PROVE Approvals'
    BY <2>7, <1>2 DEF DescribePortal, Describe, FailBatch, clientVars
  <2>8. ASSUME NEW p \in Portals, Execute(p) PROVE Approvals'
    BY <2>8, <1>1, <1>2 DEF Execute, FailBatch, clientVars
  <2>9. QED
    BY <1>5, <2>1, <2>2, <2>3, <2>4, <2>5, <2>6, <2>7, <2>8 DEF Message
<1>6. CASE GrantWrite
  BY <1>6 DEF GrantWrite, Approvals, TypeOK, Current, clientVars
<1>7. CASE DenyWrite \/ EnableFails \/ Restore
  BY <1>7, <1>4 DEF DenyWrite, EnableFails, Restore
<1>8. CASE EnableWrites
  <2>1. current \in Current /\ current.approved
    BY <1>8, ReachedTypes DEF EnableWrites, Approvals
  <2>2. current'.approved /\ pc' = "running"
    BY <1>8, <2>1 DEF EnableWrites, Current
  <2>3. QED
    BY <2>2 DEF Approvals
<1>9. CASE Run
  <2>1. CASE Finish
    BY <1>9, <2>1, <1>3 DEF Run, clientVars
  <2>2. CASE pc' = "oversized" /\ UNCHANGED current
    BY <1>9, <2>2 DEF Run, Approvals, clientVars
  <2>3. QED
    BY <1>9, <2>1, <2>2 DEF Run
<1>10. CASE RunFails \/ SendRows \/ WithholdRows
  BY <1>10, <1>3 DEF RunFails, SendRows, WithholdRows, clientVars
<1>11. CASE UNCHANGED vars
  BY <1>11, <1>2 DEF vars
<1>12. QED
  BY <1>5, <1>6, <1>7, <1>8, <1>9, <1>10, <1>11 DEF Next, Handler

\* Every execution of a statement the guard took for a write was approved
\* (MutationsAreApproved).
THEOREM WritesAreAsked == Spec => []MutationsAreApproved
<1>1. Init => Approvals
  BY DEF Init, Approvals
<1>2. Approvals => MutationsAreApproved
  BY DEF Approvals, MutationsAreApproved
<1>3. QED
  BY <1>1, <1>2, ApprovalsStep, TypeCorrect, PTL DEF Spec

LEMMA ApprovalsCorrect == Spec => []Approvals
<1>1. Init => Approvals
  BY DEF Init, Approvals
<1>2. QED
  BY <1>1, ApprovalsStep, TypeCorrect, PTL DEF Spec

-----------------------------------------------------------------------------
(* Read-only mode *)

\* A restore function is still to be called.
Owed == pc \in {"running", "oversized", "restoring"} /\ current.owes

\* The default that is off is owed; the open transaction that may write is
\* covered, being covered, chained or overdue; and only a debt can be overdue.
ReadOnlyInv ==
  /\ (gated /\ ~upstream.readOnly) => readOnlyPending \/ Owed
  /\ (gated /\ upstream.status = "T" /\ upstream.writable) =>
       covered \/ chained \/ overdue \/ (pc = "running" /\ current.approved)
  /\ overdue => readOnlyPending
  /\ slipped => overdue \/ chained

\* Paying the debt ends the time that is overdue; not paying it keeps it.
LEMMA RestoreStep ==
  ASSUME TypeOK, ReadOnlyInv, NEW pending \in BOOLEAN, RestoreReadOnly(pending),
         UNCHANGED <<gated, covered, chained>>,
         pc \in {"ready", "restoring"},
         readOnlyPending => pending,
         pending \/ ~Owed
  PROVE  ReadOnlyInv'
<1> USE DEF TypeOK, ReadOnlyInv, Upstream
<1>1. CASE /\ pending
           /\ upstream.status = "I"
           /\ upstream' = [upstream EXCEPT !.readOnly = TRUE]
           /\ readOnlyPending' = FALSE
           /\ overdue' = FALSE
           /\ slipped' = FALSE
  <2>1. upstream'.readOnly = TRUE /\ upstream'.status = "I"
    BY <1>1
  <2>2. QED
    BY <1>1, <2>1
<1>2. CASE readOnlyPending' = pending /\ UNCHANGED <<upstream, overdue, slipped>>
  BY <1>2 DEF Owed
<1>3. QED
  BY <1>1, <1>2 DEF RestoreReadOnly

\* Between messages, the handler's place decides nothing.
LEMMA QuietStep ==
  ASSUME TypeOK, ReadOnlyInv,
         UNCHANGED <<gated, readOnlyPending, upstream, history>>,
         pc # "running", Owed => Owed'
  PROVE  ReadOnlyInv'
BY DEF ReadOnlyInv, history

\* A refused command leaves no transaction that may write.
LEMMA FailStep ==
  ASSUME TypeOK, ReadOnlyInv, upstream' = Failed(upstream),
         UNCHANGED <<gated, readOnlyPending, chained, overdue, slipped>>, ~Owed
  PROVE  ReadOnlyInv'
<1>1. upstream \in Upstream
  BY DEF TypeOK
<1>2. upstream'.status # "T" /\ upstream'.readOnly = upstream.readOnly
  BY <1>1 DEF Upstream, Failed
<1>3. QED
  BY <1>2 DEF ReadOnlyInv

\* What Run and RunFails reach: a transaction begun by the current text is as
\* writable as the session default, one it chained is as writable as the one
\* before, and otherwise nothing has changed.
LEMMA ReachedFacts ==
  ASSUME TypeOK, pc = "running"
  PROVE  /\ Reached.readOnly = upstream.readOnly
         /\ \/ upstream.status = "T" /\ current.text.ends = "no" /\ Reached = upstream
            \/ /\ current.text.ends = "chain"
               /\ Reached.status = "T" /\ Reached.writable = upstream.writable
            \/ /\ current.text.ends # "chain"
               /\ upstream.status = "I" \/ current.text.ends = "end"
               /\ Reached.status = "T" => Reached.writable = ~upstream.readOnly
            \/ Reached.status = "E"
<1>1. current \in Current /\ current.text \in Statement /\ upstream \in Upstream
  BY ReachedTypes DEF TypeOK
<1>2. QED
  BY <1>1 DEF Reached, Begun, Ended, Upstream, Statement

LEMMA FinishKeepsOwed ==
  ASSUME Finish, pc \in {"running", "oversized"}, Owed
  PROVE  Owed'
BY DEF Finish, Owed

LEMMA RunStep ==
  ASSUME TypeOK, Approvals, ReadOnlyInv, Run
  PROVE  ReadOnlyInv'
<1>1. /\ pc = "running"
      /\ UNCHANGED <<gated, readOnlyPending>>
      /\ current \in Current /\ current.text \in Statement
      /\ upstream \in Upstream /\ Reached \in Upstream
  BY ReachedTypes DEF Run, clientVars, TypeOK
<1>2. /\ upstream'.status = Reached.status
      /\ upstream'.writable = Reached.writable
      /\ upstream'.readOnly = upstream.readOnly
  <2>1. Reached.readOnly = upstream.readOnly
    BY <1>1, ReachedFacts
  <2>2. upstream' = Reached \/ upstream' = Queried(Reached)
    BY DEF Run
  <2>3. QED
    BY <1>1, <2>1, <2>2 DEF Queried, Upstream
<1>3. Owed => Owed'
  <2>1. CASE Finish
    BY <1>1, <2>1, FinishKeepsOwed
  <2>2. CASE pc' = "oversized" /\ UNCHANGED current
    BY <2>2 DEF Owed
  <2>3. QED
    BY <2>1, <2>2 DEF Run
<1>4. (gated /\ ~upstream.readOnly) => readOnlyPending \/ current.approved
  BY <1>1 DEF ReadOnlyInv, Owed, Approvals
<1>5. overdue' = (overdue \/ RunsOverdue)
  BY DEF Run
<1>6. (gated /\ (upstream.status = "I" \/ current.text.ends # "no") /\ ~upstream.readOnly)
        => current.approved \/ overdue'
  BY <1>4, <1>5 DEF RunsOverdue
<1>7. (gated /\ CanWrite(Reached)) =>
        current.approved \/ StillCovered \/ chained' \/ overdue'
  <2>1. SUFFICES ASSUME gated, CanWrite(Reached)
                 PROVE  current.approved \/ StillCovered \/ chained' \/ overdue'
    OBVIOUS
  <2>2. CASE upstream.status = "T" /\ current.text.ends = "no" /\ Reached = upstream
    <3>1. chained' = chained
      BY <2>2 DEF Run, StillChained
    <3>2. QED
      BY <1>1, <1>5, <2>1, <2>2, <3>1 DEF ReadOnlyInv, CanWrite, StillCovered
  <2>3. CASE /\ current.text.ends = "chain"
             /\ Reached.status = "T" /\ Reached.writable = upstream.writable
    <3>1. chained' = upstream.writable
      BY <2>3 DEF Run, StillChained
    <3>2. QED
      BY <2>1, <2>3, <3>1 DEF CanWrite
  <2>4. CASE /\ current.text.ends # "chain"
             /\ upstream.status = "I" \/ current.text.ends = "end"
             /\ Reached.status = "T" => Reached.writable = ~upstream.readOnly
    <3>1. ~upstream.readOnly
      BY <1>1, <2>1, <2>4, ReachedFacts DEF CanWrite
    <3>2. QED
      BY <1>6, <2>1, <2>4, <3>1
  <2>5. CASE Reached.status = "E"
    BY <2>1, <2>5 DEF CanWrite
  <2>6. QED
    BY <1>1, <2>2, <2>3, <2>4, <2>5, ReachedFacts
<1>8. slipped' => overdue' \/ chained'
  BY <1>5, <1>7 DEF Run, ReadOnlyInv
<1>9. overdue' => readOnlyPending'
  BY <1>1, <1>5 DEF RunsOverdue, ReadOnlyInv
<1>10. (gated /\ upstream'.status = "T" /\ upstream'.writable) =>
         covered' \/ chained' \/ overdue'
  BY <1>2, <1>7 DEF Run, CanWrite
<1>11. QED
  BY <1>1, <1>2, <1>3, <1>8, <1>9, <1>10 DEF ReadOnlyInv

LEMMA RunFailsStep ==
  ASSUME TypeOK, ReadOnlyInv, RunFails
  PROVE  ReadOnlyInv'
<1>1. /\ pc = "running"
      /\ UNCHANGED <<gated, readOnlyPending>>
      /\ slipped' = FALSE
      /\ upstream \in Upstream /\ Reached \in Upstream
      /\ Reached.readOnly = upstream.readOnly
  BY ReachedTypes, ReachedFacts DEF RunFails, clientVars, TypeOK
<1>2. upstream'.status # "T" /\ upstream'.readOnly = upstream.readOnly
  BY <1>1 DEF RunFails, Failed, Upstream
<1>3. overdue' = (overdue \/ RunsOverdue)
  BY DEF RunFails
<1>4. Owed => Owed'
  BY <1>1, FinishKeepsOwed DEF RunFails
<1>5. QED
  BY <1>1, <1>2, <1>3, <1>4 DEF ReadOnlyInv, RunsOverdue

LEMMA ReadOnlyStep ==
  ASSUME TypeOK, Approvals, ReadOnlyInv, [Next]_vars
  PROVE  ReadOnlyInv'
<1>1. ASSUME NEW text \in Statements, Simple(text) PROVE ReadOnlyInv'
  BY <1>1, RestoreStep DEF Simple, clientVars, TypeOK, Owed
<1>2. ASSUME NEW n \in Names, NEW text \in Statements, Parse(n, text)
      PROVE  ReadOnlyInv'
  BY <1>2, RestoreStep DEF Parse, TypeOK, Owed
<1>3. ASSUME NEW n \in Names, Describe(n) PROVE ReadOnlyInv'
  <2>1. CASE FailBatch
    BY <1>3, <2>1, QuietStep DEF FailBatch, Describe, clientVars, Owed
  <2>2. CASE /\ upstream' = Queried(upstream)
             /\ UNCHANGED <<clientVars, readOnlyPending, pc, current, covered,
                            chained, overdue, slipped>>
    <3>1. /\ upstream'.status = upstream.status
          /\ upstream'.writable = upstream.writable
          /\ upstream'.readOnly = upstream.readOnly
      BY <2>2 DEF Queried, TypeOK, Upstream
    <3>2. QED
      BY <1>3, <2>2, <3>1 DEF ReadOnlyInv, Owed, Describe, clientVars
  <2>3. CASE /\ upstream' = Failed(upstream)
             /\ UNCHANGED <<clientVars, readOnlyPending, chained, overdue, slipped>>
    BY <1>3, <2>3, FailStep DEF Describe, Owed, clientVars
  <2>4. QED
    BY <1>3, <2>1, <2>2, <2>3 DEF Describe
<1>4. ASSUME NEW p \in Portals, DescribePortal(p) PROVE ReadOnlyInv'
  BY <1>3, <1>4, QuietStep DEF DescribePortal, FailBatch, TypeOK, clientVars, Owed
<1>5. ASSUME NEW p \in Portals, Execute(p) PROVE ReadOnlyInv'
  BY <1>5, QuietStep DEF Execute, FailBatch, Owed, clientVars
<1>6. CASE SimpleSchema \/ Sync \/ End
  BY <1>6, QuietStep DEF SimpleSchema, Sync, End, Owed, clientVars
<1>7. ASSUME NEW n \in Names, ParseSchema(n) \/ CloseStatement(n) PROVE ReadOnlyInv'
  BY <1>7, QuietStep DEF ParseSchema, CloseStatement, Owed
<1>8. ASSUME NEW p \in Portals, (\E n \in Names : Bind(p, n)) \/ ClosePortal(p)
      PROVE ReadOnlyInv'
  BY <1>8, QuietStep DEF Bind, ClosePortal, Owed
<1>9. CASE GrantWrite \/ DenyWrite
  BY <1>9, QuietStep DEF GrantWrite, DenyWrite, Owed, clientVars
<1>10. CASE EnableWrites
  <2>1. /\ upstream \in Upstream
        /\ current \in Current
        /\ current.approved
        /\ ~Owed
    BY <1>10, ReachedTypes DEF EnableWrites, Approvals, Owed, TypeOK
  <2>2. pc' = "running" /\ current'.approved
    BY <1>10, <2>1 DEF EnableWrites, Current
  <2>3. ~upstream'.readOnly => ~upstream.readOnly \/ Owed'
    BY <1>10, <2>1 DEF EnableWrites, Upstream, Current, Owed
  <2>4. QED
    BY <1>10, <2>1, <2>2, <2>3 DEF EnableWrites, ReadOnlyInv, clientVars, history
<1>11. CASE EnableFails
  BY <1>11, FailStep DEF EnableFails, Owed, clientVars
<1>12. CASE SendRows \/ WithholdRows
  BY <1>12, QuietStep, FinishKeepsOwed DEF SendRows, WithholdRows, clientVars
<1>13. CASE Restore
  BY <1>13, RestoreStep DEF Restore, clientVars
<1>14. CASE UNCHANGED vars
  BY <1>14 DEF vars, ReadOnlyInv, Owed
<1>15. QED
  BY <1>1, <1>2, <1>3, <1>4, <1>5, <1>6, <1>7, <1>8, <1>9, <1>10, <1>11, <1>12,
     <1>13, <1>14, RunStep, RunFailsStep
     DEF Next, Message, Handler

LEMMA ReadOnlyCorrect == Spec => []ReadOnlyInv
<1>1. Init => ReadOnlyInv
  BY DEF Init, ReadOnlyInv, Owed
<1>2. QED
  BY <1>1, ReadOnlyStep, TypeCorrect, ApprovalsCorrect, PTL DEF Spec

\* Whatever a client sends, a session default left read-write is going to be
\* put back (ReadOnlyIsOwed).
THEOREM ReadOnlyIsNeverForgotten == Spec => []ReadOnlyIsOwed
<1>1. ReadOnlyInv => ReadOnlyIsOwed
  BY DEF ReadOnlyInv, ReadOnlyIsOwed, Owed
<1>2. QED
  BY <1>1, ReadOnlyCorrect, PTL

\* For every repertoire of statements, the only writes that escape approval are
\* those of the gap between an approved transaction's end and the return of
\* read-only mode, and those of a transaction that AND CHAIN made of one whose
\* mode was read-write (UnapprovedWritesAreOverdueOrChained).
THEOREM WritesEscapeInTwoPlaces == Spec => []UnapprovedWritesAreOverdueOrChained
<1>1. ReadOnlyInv => UnapprovedWritesAreOverdueOrChained
  BY DEF ReadOnlyInv, UnapprovedWritesAreOverdueOrChained
<1>2. QED
  BY <1>1, ReadOnlyCorrect, PTL

=============================================================================
