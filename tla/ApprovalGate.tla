---------------------------- MODULE ApprovalGate ----------------------------
(***************************************************************************)
(* What an Approver of internal/pgproxy/approval promises the session      *)
(* that calls Approve, without saying how: a request is submitted, an      *)
(* operator may speak for or against it at any time afterwards, and the    *)
(* request ends once, approved only if an operator approved it.  A denial  *)
(* needs no operator: timeouts, shutdowns and errors all deny              *)
(* (approval.go: "Implementations must fail closed").  The auto_approve    *)
(* mode, whose configuration answers in the operator's place, is left out. *)
(***************************************************************************)

CONSTANT Requests       \* the approval requests, one per gated statement

VARIABLES
  status,               \* where each request is
  endorsed              \* the requests some operator has approved

gateVars == <<status, endorsed>>

Status == {"idle", "waiting", "approved", "denied"}

GateInit ==
  /\ status = [r \in Requests |-> "idle"]
  /\ endorsed = {}

Submit(r) ==
  /\ status[r] = "idle"
  /\ status' = [status EXCEPT ![r] = "waiting"]
  /\ UNCHANGED endorsed

\* An operator's approval may arrive late: it then changes no outcome.
Endorse(r) ==
  /\ status[r] # "idle"
  /\ endorsed' = endorsed \cup {r}
  /\ UNCHANGED status

Grant(r) ==
  /\ status[r] = "waiting"
  /\ r \in endorsed
  /\ status' = [status EXCEPT ![r] = "approved"]
  /\ UNCHANGED endorsed

Deny(r) ==
  /\ status[r] = "waiting"
  /\ status' = [status EXCEPT ![r] = "denied"]
  /\ UNCHANGED endorsed

GateNext ==
  \E r \in Requests :
    \/ Submit(r)
    \/ Endorse(r)
    \/ Grant(r)
    \/ Deny(r)

GateSpec == GateInit /\ [][GateNext]_gateVars

=============================================================================
