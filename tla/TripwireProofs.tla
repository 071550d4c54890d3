--------------------------- MODULE TripwireProofs ---------------------------
(***************************************************************************)
(* Proofs about the tripwire for any number of sessions and operators and  *)
(* any limit on strikes.                                                   *)
(***************************************************************************)
EXTENDS Tripwire, TLAPS

-----------------------------------------------------------------------------
(* Types *)

LEMMA GoneTypes ==
  ASSUME TypeOK, NEW s \in Sessions, Gone(s)
  PROVE  TypeOK'
BY LimitsAssumption DEF TypeOK, PC, Gone, rowVars

LEMMA ReceiveTypes ==
  ASSUME TypeOK, NEW s \in Sessions, Receive(s)
  PROVE  ahead' \in [Sessions -> 0..MaxPipelined]
BY LimitsAssumption DEF TypeOK, Receive

LEMMA CloseSocketTypes ==
  ASSUME TypeOK, NEW s \in Sessions, CloseSocket(s)
  PROVE  /\ open' \subseteq Sessions
         /\ ahead' \in [Sessions -> 0..MaxPipelined]
BY DEF TypeOK, CloseSocket

LEMMA NewPasswordTypes ==
  ASSUME TypeOK, NewPassword
  PROVE  /\ row' \in [exists : BOOLEAN, password : 1..MaxPassword, suspended : BOOLEAN]
         /\ row'.password = row.password + 1
         /\ row'.suspended = row.suspended
<1>1. row.password + 1 \in 1..MaxPassword
  BY LimitsAssumption DEF TypeOK, NewPassword
<1>2. QED
  BY <1>1 DEF TypeOK, NewPassword

\* Sessions, operators and restarts keep every variable within its type.
THEOREM TypeCorrect == Spec => []TypeOK
<1>1. Init => TypeOK
  BY LimitsAssumption DEF Init, TypeOK, PC
<1>2. TypeOK /\ [Next]_vars => TypeOK'
  <2> SUFFICES ASSUME TypeOK, [Next]_vars PROVE TypeOK'
    OBVIOUS
  <2> USE DEF TypeOK, PC, rowVars, sessionVars
  <2>1. ASSUME NEW s \in Sessions, NEW p \in 1..MaxPassword, Authenticate(s, p)
        PROVE TypeOK'
    BY <2>1 DEF Authenticate
  <2>2. ASSUME NEW s \in Sessions, StartupFails(s) \/ End(s) PROVE TypeOK'
    BY <2>2, GoneTypes DEF StartupFails, End
  <2>3. ASSUME NEW s \in Sessions, Register(s) PROVE TypeOK'
    BY <2>3 DEF Register
  <2>4. ASSUME NEW s \in Sessions, HangUp(s) PROVE TypeOK'
    BY <2>4, CloseSocketTypes DEF HangUp
  <2>5. ASSUME NEW s \in Sessions, Statement(s) PROVE TypeOK'
    <3>1. ahead' \in [Sessions -> 0..MaxPipelined]
      BY <2>5, ReceiveTypes DEF Statement, Run, Strike, Trip, Ask
    <3>2. QED
      BY <2>5, <3>1 DEF Statement, Run, Strike, Trip, Ask
  <2>6. ASSUME NEW s \in Sessions, Answer(s) PROVE TypeOK'
    BY <2>6 DEF Answer, Granted, Denied, RunGranted
  <2>7. ASSUME NEW s \in Sessions, Persist(s) PROVE TypeOK'
    <3>1. row.password \in 0..MaxPassword
      BY LimitsAssumption
    <3> DEFINE raced == \E o \in Operators : resume[o] = "rotated"
    <3>2. ASSUME NEW n \in 0..MaxPassword, NEW b \in BOOLEAN
          PROVE  [password |-> n, raced |-> b]
                   \in [password : 0..MaxPassword, raced : BOOLEAN]
      OBVIOUS
    <3>3. [password |-> row.password, raced |-> raced]
             \in [password : 0..MaxPassword, raced : BOOLEAN]
      <4>1. raced \in BOOLEAN
        OBVIOUS
      <4> HIDE DEF raced
      <4>2. QED
        BY <3>1, <3>2, <4>1
    <3>4. /\ row' \in [exists : BOOLEAN, password : 1..MaxPassword,
                      suspended : BOOLEAN]
          /\ suspension' \in [password : 0..MaxPassword, raced : BOOLEAN]
      <4>1. CASE row' = [row EXCEPT !.suspended = TRUE]
                 /\ suspension' = [password |-> row.password, raced |-> raced]
        <5>1. suspension' \in [password : 0..MaxPassword, raced : BOOLEAN]
          BY <3>3, <4>1
        <5>2. QED
          BY <4>1, <5>1
      <4>2. CASE UNCHANGED <<row, suspension>>
        BY <4>2
      <4>3. QED
        BY <2>7, <4>1, <4>2 DEF Persist
    <3>5. pc' \in [Sessions -> PC]
      BY <2>7 DEF Persist
    <3>6. QED
      BY <2>7, <3>4, <3>5 DEF Persist
  <2>8. ASSUME NEW s \in Sessions, Sweep(s) PROVE TypeOK'
    BY <2>8 DEF Sweep
  <2>9. ASSUME NEW s \in Sessions, NEW t \in Sessions, Close(s, t) PROVE TypeOK'
    BY <2>9, CloseSocketTypes DEF Close
  <2>10. ASSUME NEW s \in Sessions, Suspended(s) PROVE TypeOK'
    BY <2>10 DEF Suspended
  <2>11. ASSUME NEW o \in Operators,
                ResumeRotate(o) \/ ResumeClear(o) \/ ResumeDies(o)
         PROVE TypeOK'
    BY <2>11, NewPasswordTypes DEF ResumeRotate, ResumeClear, ResumeDies
  <2>12. CASE StrikeExpires
    BY <2>12 DEF StrikeExpires
  <2>13. CASE Rotate
    BY <2>13, NewPasswordTypes DEF Rotate
  <2>14. CASE Delete
    BY <2>14 DEF Delete
  <2>15. CASE Restart
    <3>1. /\ 0 \in 0..MaxPipelined
          /\ {} \in SUBSET Sessions
      BY LimitsAssumption
    <3>2. QED
      BY <2>15, <3>1 DEF Restart
  <2>16. CASE UNCHANGED vars
    BY <2>16 DEF vars
  <2>17. QED
    BY <2>1, <2>2, <2>3, <2>4, <2>5, <2>6, <2>7, <2>8, <2>9, <2>10, <2>11,
       <2>12, <2>13, <2>14, <2>15, <2>16
       DEF Next, CloseSome
<1>3. QED
  BY <1>1, <1>2, PTL DEF Spec

-----------------------------------------------------------------------------
(* Who can survive a suspension *)

\* Server.sessions holds exactly the sessions past startup.
RegisteredIsRunning ==
  \A s \in Sessions : s \in registered <=> pc[s] \notin {"offline", "starting"}

\* While a suspension stands, a connected session is on a list that somebody is
\* closing, or is about to be listed, or was starting when a list was copied.
NoneEscapes ==
  row.suspended =>
    \A s \in open :
      pc[s] # "offline" =>
        \/ s \in unswept
        \/ \E t \in Sessions : pc[t] = "sweeping"
        \/ \E t \in Sessions : pc[t] = "closing" /\ s \in kill[t]

SurvivorInv == RegisteredIsRunning /\ NoneEscapes

\* Neither part depends on which statement a running session is at.
LEMMA RunningMovesKeepSurvivorInv ==
  ASSUME TypeOK, SurvivorInv, NEW s \in Sessions, NEW p \in PC,
         pc[s] \notin {"offline", "starting", "sweeping"},
         pc[s] = "closing" => kill[s] = {},
         p \notin {"offline", "starting"},
         pc' = [pc EXCEPT ![s] = p],
         UNCHANGED <<row, open, registered, kill, unswept>>
  PROVE  SurvivorInv'
BY DEF TypeOK, SurvivorInv, RegisteredIsRunning, NoneEscapes

LEMMA GoneKeepsSurvivorInv ==
  ASSUME TypeOK, SurvivorInv, NEW s \in Sessions, pc[s] \in {"starting", "idle"},
         Gone(s)
  PROVE  SurvivorInv'
<1>1. RegisteredIsRunning'
  BY DEF TypeOK, SurvivorInv, RegisteredIsRunning, Gone
<1>2. NoneEscapes'
  <2>1. SUFFICES ASSUME row.suspended, NEW u \in open, u # s, pc[u] # "offline"
                 PROVE  \/ u \in unswept'
                        \/ \E t \in Sessions : pc'[t] = "sweeping"
                        \/ \E t \in Sessions : pc'[t] = "closing" /\ u \in kill'[t]
    BY DEF TypeOK, Gone, NoneEscapes, rowVars
  <2>2. \A t \in Sessions : pc[t] \in {"sweeping", "closing"} => pc'[t] = pc[t]
    BY DEF TypeOK, Gone
  <2>3. \A t \in Sessions : u \in kill[t] => u \in kill'[t]
    BY <2>1 DEF TypeOK, Gone
  <2>4. u \in unswept => u \in unswept'
    BY <2>1 DEF Gone
  <2>5. QED
    BY <2>1, <2>2, <2>3, <2>4 DEF SurvivorInv, NoneEscapes
<1>3. QED
  BY <1>1, <1>2 DEF SurvivorInv

LEMMA SurvivorInvStep ==
  ASSUME TypeOK, SurvivorInv, [Next]_vars
  PROVE  SurvivorInv'
<1> USE DEF TypeOK, rowVars, sessionVars
<1>1. ASSUME NEW s \in Sessions, NEW p \in 1..MaxPassword, Authenticate(s, p)
      PROVE SurvivorInv'
  BY <1>1 DEF Authenticate, SurvivorInv, RegisteredIsRunning, NoneEscapes
<1>2. ASSUME NEW s \in Sessions, StartupFails(s) \/ End(s) PROVE SurvivorInv'
  BY <1>2, GoneKeepsSurvivorInv DEF StartupFails, End
<1>3. ASSUME NEW s \in Sessions, Register(s) PROVE SurvivorInv'
  BY <1>3 DEF Register, SurvivorInv, RegisteredIsRunning, NoneEscapes
<1>4. ASSUME UNCHANGED <<pc, registered, kill, unswept>>, open' \subseteq open,
             row'.suspended => row.suspended
      PROVE SurvivorInv'
  BY <1>4 DEF SurvivorInv, RegisteredIsRunning, NoneEscapes
<1>5. ASSUME NEW s \in Sessions, HangUp(s) PROVE SurvivorInv'
  BY <1>4, <1>5 DEF HangUp, CloseSocket
<1>6. ASSUME NEW s \in Sessions, Statement(s) PROVE SurvivorInv'
  <2>1. CASE Run(s)
    BY <1>4, <2>1 DEF Run
  <2>2. CASE Strike(s)
    BY <2>2, RunningMovesKeepSurvivorInv DEF Strike, Receive, PC
  <2>3. CASE Trip(s) \/ Ask(s)
    BY <2>3, RunningMovesKeepSurvivorInv DEF Trip, Ask, Receive, PC
  <2>4. QED
    BY <1>6, <2>1, <2>2, <2>3 DEF Statement
<1>7. ASSUME NEW s \in Sessions, Answer(s) PROVE SurvivorInv'
  BY <1>7, RunningMovesKeepSurvivorInv DEF Answer, Granted, Denied, RunGranted, PC
<1>8. ASSUME NEW s \in Sessions, Persist(s) PROVE SurvivorInv'
  <2>1. pc'[s] = "sweeping"
    BY <1>8 DEF Persist
  <2>2. NoneEscapes'
    BY <2>1 DEF NoneEscapes
  <2>3. RegisteredIsRunning'
    BY <1>8 DEF Persist, SurvivorInv, RegisteredIsRunning
  <2>4. QED
    BY <2>2, <2>3 DEF SurvivorInv
<1>9. ASSUME NEW s \in Sessions, Sweep(s) PROVE SurvivorInv'
  <2>1. RegisteredIsRunning'
    BY <1>9 DEF Sweep, SurvivorInv, RegisteredIsRunning
  <2>2. pc'[s] = "closing" /\ kill'[s] = registered
    BY <1>9 DEF Sweep
  <2>3. ASSUME NEW u \in open', pc'[u] # "offline"
        PROVE  u \in unswept' \/ u \in registered
    BY <1>9, <2>3 DEF Sweep, SurvivorInv, RegisteredIsRunning
  <2>4. QED
    BY <2>1, <2>2, <2>3 DEF SurvivorInv, NoneEscapes
<1>10. ASSUME NEW s \in Sessions, NEW t \in Sessions, Close(s, t) PROVE SurvivorInv'
  <2>1. /\ UNCHANGED <<row, pc, registered, unswept>>
        /\ open' = open \ {t}
        /\ \A v \in Sessions, u \in Sessions \ {t} : u \in kill[v] => u \in kill'[v]
    BY <1>10 DEF Close, CloseSocket
  <2>2. QED
    BY <2>1 DEF SurvivorInv, RegisteredIsRunning, NoneEscapes
<1>11. ASSUME NEW s \in Sessions, Suspended(s) PROVE SurvivorInv'
  BY <1>11, RunningMovesKeepSurvivorInv DEF Suspended, PC
<1>12. ASSUME NEW o \in Operators, ResumeRotate(o) \/ ResumeClear(o) \/ ResumeDies(o)
       PROVE SurvivorInv'
  BY <1>4, <1>12, NewPasswordTypes DEF ResumeRotate, ResumeClear, ResumeDies
<1>13. CASE Rotate \/ Delete
  BY <1>4, <1>13, NewPasswordTypes DEF Rotate, Delete
<1>14. CASE StrikeExpires
  BY <1>4, <1>14 DEF StrikeExpires
<1>15. CASE Restart
  BY <1>15 DEF Restart, SurvivorInv, RegisteredIsRunning, NoneEscapes
<1>16. CASE UNCHANGED vars
  BY <1>4, <1>16 DEF vars
<1>17. QED
  BY <1>1, <1>2, <1>3, <1>5, <1>6, <1>7, <1>8, <1>9, <1>10, <1>11, <1>12,
     <1>13, <1>14, <1>15, <1>16
     DEF Next, CloseSome

\* After a suspension is written and every suspend has returned, only sessions
\* that were starting when a list was copied are still open
\* (OnlyStartersSurvive).
THEOREM SuspensionSparesStartersOnly == Spec => []OnlyStartersSurvive
<1>1. Init => SurvivorInv
  BY DEF Init, SurvivorInv, RegisteredIsRunning, NoneEscapes
<1>2. TypeOK /\ SurvivorInv => OnlyStartersSurvive
  BY DEF TypeOK, SurvivorInv, RegisteredIsRunning, NoneEscapes,
         OnlyStartersSurvive, Suspending
<1>3. QED
  BY <1>1, <1>2, SurvivorInvStep, TypeCorrect, PTL DEF Spec

-----------------------------------------------------------------------------
(* Strikes *)

LEMMA LimitStep ==
  ASSUME TypeOK, LimitMeansSuspending, [Next]_vars
  PROVE  LimitMeansSuspending'
<1> USE DEF TypeOK, rowVars, sessionVars, LimitMeansSuspending
<1>1. ASSUME NEW s \in Sessions, pc[s] \notin {"tripped", "sweeping"},
             pc' = [pc EXCEPT ![s] = pc'[s]], UNCHANGED strikes
      PROVE LimitMeansSuspending'
  BY <1>1
<1>2. ASSUME NEW s \in Sessions,
             \/ \E p \in 1..MaxPassword : Authenticate(s, p)
             \/ StartupFails(s) \/ End(s) \/ Register(s)
      PROVE LimitMeansSuspending'
  BY <1>1, <1>2 DEF Authenticate, StartupFails, End, Gone, Register
<1>3. ASSUME UNCHANGED <<pc, strikes>> PROVE LimitMeansSuspending'
  BY <1>3
<1>4. ASSUME NEW s \in Sessions, HangUp(s) \/ Run(s) \/ CloseSome(s)
      PROVE LimitMeansSuspending'
  BY <1>3, <1>4 DEF HangUp, Run, CloseSome, Close
<1>5. ASSUME NEW s \in Sessions, Strike(s) PROVE LimitMeansSuspending'
  BY <1>5, LimitsAssumption DEF Strike, Receive
<1>6. ASSUME NEW s \in Sessions, Trip(s) \/ Ask(s) \/ Answer(s) \/ Suspended(s)
      PROVE LimitMeansSuspending'
  BY <1>1, <1>6 DEF Trip, Ask, Receive, Answer, Granted, Denied, RunGranted, Suspended
<1>7. ASSUME NEW s \in Sessions, Persist(s) PROVE LimitMeansSuspending'
  BY <1>7 DEF Persist
<1>8. ASSUME strikes' = 0 PROVE LimitMeansSuspending'
  BY <1>8, LimitsAssumption
<1>9. ASSUME NEW s \in Sessions, Sweep(s) PROVE LimitMeansSuspending'
  BY <1>8, <1>9 DEF Sweep
<1>10. CASE StrikeExpires
  BY <1>10, LimitsAssumption DEF StrikeExpires
<1>11. ASSUME NEW o \in Operators, ResumeRotate(o) \/ ResumeClear(o) \/ ResumeDies(o)
       PROVE LimitMeansSuspending'
  BY <1>3, <1>11 DEF ResumeRotate, ResumeClear, ResumeDies
<1>12. CASE Rotate \/ Delete
  BY <1>3, <1>12 DEF Rotate, Delete
<1>13. CASE Restart
  BY <1>8, <1>13 DEF Restart
<1>14. CASE UNCHANGED vars
  BY <1>3, <1>14 DEF vars
<1>15. QED
  BY <1>2, <1>4, <1>5, <1>6, <1>7, <1>9, <1>10, <1>11, <1>12, <1>13, <1>14
     DEF Next, Statement

\* Strikes cannot pile up to the limit, from however many sessions, with no
\* session on its way to suspend the connection (LimitMeansSuspending).
THEOREM LimitAlwaysSuspends == Spec => []LimitMeansSuspending
<1>1. Init => LimitMeansSuspending
  BY LimitsAssumption DEF Init, LimitMeansSuspending
<1>2. QED
  BY <1>1, LimitStep, TypeCorrect, PTL DEF Spec

-----------------------------------------------------------------------------
(* Passwords *)

\* The password has moved on since the suspension was written whenever the row
\* is back in use, and as soon as a Resume has done its first half.
PasswordInv ==
  /\ suspension.password <= row.password
  /\ (/\ ~suspension.raced
      /\ ~row.suspended \/ \E o \in Operators : resume[o] = "rotated") =>
         row.password > suspension.password

LEMMA PasswordStep ==
  ASSUME TypeOK, PasswordInv, [Next]_vars
  PROVE  PasswordInv'
<1> USE DEF TypeOK, PasswordInv
<1>1. ASSUME UNCHANGED rowVars PROVE PasswordInv'
  BY <1>1 DEF rowVars
<1>2. ASSUME NEW s \in Sessions, Persist(s) PROVE PasswordInv'
  BY <1>2 DEF Persist
<1>3. ASSUME NEW s \in Sessions,
             \/ \E p \in 1..MaxPassword : Authenticate(s, p)
             \/ StartupFails(s) \/ Register(s) \/ HangUp(s) \/ End(s)
             \/ Statement(s) \/ Answer(s) \/ Sweep(s) \/ CloseSome(s) \/ Suspended(s)
      PROVE PasswordInv'
  BY <1>1, <1>3
     DEF Authenticate, StartupFails, Register, HangUp, End, Gone, Statement, Run,
         Strike, Trip, Ask, Answer, Granted, Denied, RunGranted, Sweep, CloseSome,
         Close, Suspended
<1>4. ASSUME NewPassword, UNCHANGED suspension PROVE PasswordInv'
  BY <1>4, NewPasswordTypes
<1>5. ASSUME NEW o \in Operators, ResumeClear(o) \/ ResumeDies(o) PROVE PasswordInv'
  BY <1>5 DEF ResumeClear, ResumeDies
<1>6. ASSUME NEW o \in Operators, ResumeRotate(o) PROVE PasswordInv'
  BY <1>4, <1>6 DEF ResumeRotate
<1>7. CASE Rotate
  BY <1>4, <1>7 DEF Rotate
<1>8. CASE Delete
  BY <1>8 DEF Delete
<1>9. CASE StrikeExpires \/ Restart
  BY <1>1, <1>9 DEF StrikeExpires, Restart
<1>10. CASE UNCHANGED vars
  BY <1>1, <1>10 DEF vars, rowVars
<1>11. QED
  BY <1>2, <1>3, <1>5, <1>6, <1>7, <1>8, <1>9, <1>10 DEF Next

\* The password a suspension condemned opens no session again, unless a Resume
\* was halfway through when it landed (CompromisedPasswordStaysDead).
THEOREM CondemnedPasswordIsReplaced == Spec => []CompromisedPasswordStaysDead
<1>1. Init => PasswordInv
  BY DEF Init, PasswordInv
<1>2. PasswordInv => CompromisedPasswordStaysDead
  BY DEF PasswordInv, CompromisedPasswordStaysDead
<1>3. QED
  BY <1>1, <1>2, PasswordStep, TypeCorrect, PTL DEF Spec

=============================================================================
