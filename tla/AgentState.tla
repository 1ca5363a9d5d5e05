----------------------------- MODULE AgentState -----------------------------
(***************************************************************************)
(* The durable agent state of a registration: src/qurl/bootstrap.go's      *)
(* AgentState with the pending records of native_agent_runtime.go, the     *)
(* recovery horizon of recovery_horizon.go and the validation every load   *)
(* repeats (validateLoadedAgentAssignment).                                *)
(*                                                                         *)
(* A nil pointer is None, an empty string and a zero time are 0.  Agent    *)
(* ids (with the keypair they are stored with), assignment tickets and     *)
(* device credential candidates are random values of the code that only    *)
(* have to be distinct: they are positive serial numbers here.             *)
(***************************************************************************)
EXTENDS AgentAssignment

CONSTANTS
  None,            \* nil
  Cells,           \* cell ids the Hub can assign
  Endpoints,       \* UDP endpoints (host, port, server key)
  Horizon          \* AgentRegistrationRecoveryHorizon, 90 days in the code

ASSUME HorizonAssumption == Horizon \in Nat \ {0}

\* Schema versions: the first one with a recovery deadline, and the current.
registrationRecoveryStateSchemaVersion == 6
agentStateSchemaVersion == 8

Assignment == AssignmentSet(Cells, Nat \ {0}, Nat \ {0}, Endpoints, Nat)

\* An assignment ticket as the authority sees it: the agent and cell it was
\* minted for, its expiry, and the instant "dead" from which the cell can no
\* longer commit it (account tickets die with their one-time code, 52101,
\* which expires no later than the ticket itself, 52111).
Ticket == [n : Nat \ {0}, agent : Nat \ {0}, cell : Cells, account : BOOLEAN,
           exp : Nat, dead : Nat]

\* PendingAgentActivation and PendingAgentCompletion.
Activation == [ticket : Ticket, asg : Assignment, anchor : Nat, deadline : Nat]
Completion == [cand : Nat \ {0}, cell : Cells, gen : Nat \ {0},
               anchor : Nat, deadline : Nat]

\* AgentState, registration part.
State == [schema : Nat, agent : Nat, registered : BOOLEAN, key : Nat,
          asg : Assignment \cup {None},
          act : Activation \cup {None},
          cmp : Completion \cup {None}]

\* The Hub's answer to an assignment request; a refresh brings no ticket.
HubAnswer == [asg : Assignment, ticket : Ticket \cup {None}]

ASSUME NoneAssumption ==
  /\ None \notin Assignment /\ None \notin Ticket /\ None \notin HubAnswer
  /\ None \notin Activation /\ None \notin Completion /\ None \notin State

\* newAgentState: a fresh keypair, no native marker yet.
NewAgentState(id) ==
  [schema |-> 0, agent |-> id, registered |-> FALSE, key |-> 0,
   asg |-> None, act |-> None, cmp |-> None]

\* isNativeAgentRuntimeState, registration part.
NativeMarker(s) == s.asg # None \/ s.act # None \/ s.cmp # None \/ s.key # 0

\* agentRecoveryDeadline.
RecoveryDeadline(anchor) == anchor + Horizon

\* validateRecoveryDeadlineFields: both fields absent before schema 6, the
\* exact horizon from a nonzero anchor since.
ValidRecoveryDeadline(p, schema) ==
  IF schema < registrationRecoveryStateSchemaVersion
  THEN p.anchor = 0 /\ p.deadline = 0
  ELSE p.anchor # 0 /\ p.deadline = RecoveryDeadline(p.anchor)

\* validatePendingAgentActivation.
ValidActivation(s) ==
  /\ s.asg # None
  /\ s.act.ticket.exp # 0
  /\ ValidRecoveryDeadline(s.act, s.schema)
  /\ s.act.ticket.agent = s.agent
  /\ s.act.asg = s.asg
  /\ s.act.asg.lease > s.act.ticket.exp

\* validateLoadedAgentAssignment, the clauses of a registration: what every
\* load, of any store, requires before the state is used.
ValidState(s) ==
  /\ s.schema <= agentStateSchemaVersion
  /\ NativeMarker(s) => s.agent # 0
  /\ s.act # None =>
       ValidActivation(s) /\ s.cmp = None /\ ~s.registered /\ s.key = 0
  /\ s.cmp # None =>
       /\ s.asg # None
       /\ s.cmp.cell = s.asg.cell
       /\ s.cmp.gen = s.asg.gen
       /\ ValidRecoveryDeadline(s.cmp, s.schema)
       /\ ~s.registered /\ s.key = 0

\* pendingRecoveryDeadline: the deadline of the pending phase, 0 for none.
PendingDeadline(s) ==
  IF s = None THEN 0
  ELSE IF s.act # None THEN s.act.deadline
  ELSE IF s.cmp # None THEN s.cmp.deadline
  ELSE 0

=============================================================================
