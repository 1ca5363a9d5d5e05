-------------------------- MODULE SessionOperation --------------------------
(***************************************************************************)
(* Sessions of a registered agent and the durable operations that make     *)
(* them recoverable:                                                       *)
(*                                                                         *)
(*   src/qurl/native_session_operation.go  PrepareLive..., Recover...      *)
(*   src/qurl/native_agent_runtime.go      KnockRegisteredAgent, Retire... *)
(*                                                                         *)
(* A caller prepares an operation against the live placement, writes it to *)
(* its own journal together with the endpoint, then knocks.  The knock     *)
(* asks the binding for a placement again (LeaseRenewal), which may have   *)
(* moved meanwhile.  A KNK may be lost, or reach the cell long after the   *)
(* caller gave up or its process died; the journal survives the process,   *)
(* session receipts do not.  Recovery goes to the journaled endpoint,      *)
(* retirement to the endpoint of the receipt, never to the current one.    *)
(*                                                                         *)
(* Operation identities (a hash of key, run and attempt) are serial        *)
(* numbers; an address is a cell with one of its endpoints.  The cells are *)
(* modelled from the verdicts the client interprets.                       *)
(***************************************************************************)
EXTENDS LeaseRenewal

CONSTANTS
  Serialized,   \* callers keep the documented critical section
  Window,       \* creation window of an operation, at most 30 minutes
  Resume,       \* nativeSessionOperationResumeHorizon, 24 hours
  Skew,         \* nativeSessionOperationMaxClockSkew, 30 seconds
  MaxKnocks     \* bound: operations prepared and plain knocks sent

Address == [cell : Cells, endpoint : Endpoints]
AddressOf(a) == [cell |-> a.cell, endpoint |-> a.endpoint]

\* NativeSessionOperation and the endpoint returned with it; "delivered" is the
\* instant PrepareLiveNativeSessionOperation returned.
Operation == [id : Nat \ {0}, cell : Cells, endpoint : Endpoints,
              prepared : Nat, expires : Nat, delivered : Nat]

\* A KNK on the wire, identified by its run.  op is 0 for a plain knock.
Knk == [run : Nat \ {0}, op : Nat, to : Address]

\* NativeSessionReceipt: the session and the address it was issued from.
Receipt == [run : Nat \ {0}, op : Nat, at : Address, holder : Bindings]

ASSUME SessionAssumption ==
  /\ Serialized \in BOOLEAN
  /\ {Window, Resume, Skew, MaxKnocks} \subseteq Nat
  /\ None \notin Operation

VARIABLES
  stage,      \* what each caller is doing with its placement
  op,         \* operation each caller works on, None for a plain knock
  run,        \* run of the knock each caller has sent, 0 for none
  runs,       \* serial number of runs and operations drawn so far
  journal,    \* operations the callers have made durable
  knks,       \* KNK datagrams ever sent
  receipts,   \* session receipts held in memory
  resolved,   \* operations recovery has reported complete
  sessions,   \* open sessions, as the KNK that opened them
  closed      \* runs and operations each cell holds a terminal record of

sessionVars == <<stage, op, run, runs, journal, knks, receipts, resolved>>
cellVars == <<sessions, closed>>
allVars == <<vars, sessionVars, cellVars>>

Stages == {"none", "preparing", "prepared", "committed", "knocking", "plain", "waiting"}

\* Somebody works between preparation and knock of an operation on b.
InSection(b) ==
  \E c \in Users(b) : stage[c] = "preparing" \/ op[c] # None

Stop(c) ==
  /\ stage' = [stage EXCEPT ![c] = "none"]
  /\ op' = [op EXCEPT ![c] = None]
  /\ run' = [run EXCEPT ![c] = 0]

-----------------------------------------------------------------------------
(* Preparation.                                                            *)

\* PrepareLiveNativeSessionOperation asks for a placement, strictly.
BeginPrepare(c) ==
  /\ stage[c] = "none" /\ runs < MaxKnocks
  /\ Serialized => ~InSection(BindingOf[c])
  /\ AskPlacement(c, TRUE)
  /\ stage' = [stage EXCEPT ![c] = "preparing"]
  /\ UNCHANGED <<op, run, runs, journal, knks, receipts, resolved, cellVars>>

\* Re-sampled after a possibly slow renewal: lease, journal margin and lead.
FaultyMarginHolds(c) == now + Lead < call[c].asg.lease
MarginHolds(c) == now + Margin + Lead < call[c].asg.lease

\* The operation names the cell of the placement that was just validated; its
\* preparation instant is the caller's, sampled before the call.
NewOperation(c) ==
  [id |-> runs + 1, cell |-> call[c].asg.cell, endpoint |-> call[c].asg.endpoint,
   prepared |-> call[c].at - Margin, expires |-> call[c].at - Margin + Window,
   delivered |-> now]

PrepareOperation(c) ==
  /\ pc[c] = "use" /\ stage[c] = "preparing"
  /\ ~LeaseExpired(call[c].asg, now) /\ MarginHolds(c)
  /\ op' = [op EXCEPT ![c] = NewOperation(c)]
  /\ runs' = runs + 1
  /\ stage' = [stage EXCEPT ![c] = "prepared"]
  /\ EndUse(c)
  /\ UNCHANGED <<run, journal, knks, receipts, resolved, cellVars>>

\* No placement, or not enough lease left: no operation exists.
PrepareFails(c) ==
  /\ stage[c] = "preparing"
  /\ \/ pc[c] = "idle" /\ UNCHANGED vars
     \/ /\ pc[c] = "use"
        /\ LeaseExpired(call[c].asg, now) \/ ~MarginHolds(c)
        /\ EndUse(c)
  /\ Stop(c)
  /\ UNCHANGED <<runs, journal, knks, receipts, resolved, cellVars>>

\* The caller's own durable write of operation and endpoint.
CommitOperation(c) ==
  /\ stage[c] = "prepared"
  /\ journal' = journal \cup {op[c]}
  /\ stage' = [stage EXCEPT ![c] = "committed"]
  /\ UNCHANGED <<vars, op, run, runs, knks, receipts, resolved, cellVars>>

-----------------------------------------------------------------------------
(* KnockRegisteredAgent.                                                   *)

BeginKnock(c) ==
  /\ \/ stage[c] = "committed" /\ stage' = [stage EXCEPT ![c] = "knocking"]
     \/ stage[c] = "none" /\ runs < MaxKnocks /\ stage' = [stage EXCEPT ![c] = "plain"]
  /\ AskPlacement(c, FALSE)
  /\ UNCHANGED <<op, run, runs, journal, knks, receipts, resolved, cellVars>>

\* validateNativeSessionOperationAdmission.
FaultyAdmissible(o, a) == o.prepared <= now + Skew /\ now < o.expires
Admissible(o, a) ==
  /\ o.cell = a.cell
  /\ o.prepared <= now + Skew
  /\ now < o.expires

CanSend(c) ==
  /\ ~LeaseExpired(call[c].asg, now)
  /\ stage[c] = "knocking" => Admissible(op[c], call[c].asg)

SendKnock(c) ==
  /\ pc[c] = "use" /\ stage[c] \in {"knocking", "plain"} /\ CanSend(c)
  /\ LET plain == stage[c] = "plain"
         id == IF plain THEN runs + 1 ELSE op[c].id
     IN /\ plain => runs < MaxKnocks
        /\ runs' = IF plain THEN id ELSE runs
        /\ run' = [run EXCEPT ![c] = id]
        /\ knks' = knks \cup {[run |-> id, op |-> IF plain THEN 0 ELSE id,
                               to |-> AddressOf(call[c].asg)]}
  /\ stage' = [stage EXCEPT ![c] = "waiting"]
  /\ EndUse(c)
  /\ UNCHANGED <<op, journal, receipts, resolved, cellVars>>

\* No placement, an expired one, or one the operation does not belong to.
KnockFails(c) ==
  /\ stage[c] \in {"knocking", "plain"}
  /\ \/ pc[c] = "idle" /\ UNCHANGED vars
     \/ pc[c] = "use" /\ ~CanSend(c) /\ EndUse(c)
  /\ Stop(c)
  /\ UNCHANGED <<runs, journal, knks, receipts, resolved, cellVars>>

\* The ACK of an admission: the receipt keeps the address that was knocked.
ReceiveAdmission(c) ==
  /\ stage[c] = "waiting"
  /\ \E k \in sessions :
       /\ k.run = run[c]
       /\ receipts' = receipts \cup
            {[run |-> k.run, op |-> k.op, at |-> k.to, holder |-> BindingOf[c]]}
  /\ Stop(c)
  /\ UNCHANGED <<vars, runs, journal, knks, resolved, cellVars>>

\* A denial, a malformed reply, or none: the outcome is unknown here.
KnockUnanswered(c) ==
  /\ stage[c] = "waiting"
  /\ Stop(c)
  /\ UNCHANGED <<vars, runs, journal, knks, receipts, resolved, cellVars>>

-----------------------------------------------------------------------------
(* RetireRegisteredAgentSession and RecoverNativeSessionOperation.         *)

\* Where an exact-session close is sent.
FaultyRetirementAddress(r) == AddressOf(live[r.holder])
RetirementAddress(r) == r.at

\* One EXT exchange: the cell that has the session closes it and acknowledges.
Retire(r) ==
  /\ \E k \in sessions :
       /\ k.run = r.run /\ k.to.cell = RetirementAddress(r).cell
       /\ sessions' = sessions \ {k}
       /\ closed' = closed \cup {[cell |-> k.to.cell, run |-> k.run]}
  /\ receipts' = receipts \ {r}
  /\ UNCHANGED <<vars, stage, op, run, runs, journal, knks, resolved>>

\* An operation nobody is working on any more, whose verdict is not known.
Recoverable(o) ==
  /\ o \in journal /\ o \notin resolved
  /\ \A c \in Callers : op[c] # o
  /\ \E b \in Bindings : live[b] # None

\* The journaled address, whatever the binding's placement is now.
RecoveryAddress(o) == AddressOf(o)

\* nativeSessionOperationAbsentRecoveryDeadline.
AbsentRecoveryDeadline(o) ==
  IF o.expires + Margin > o.prepared + Resume THEN o.expires + Margin
                                              ELSE o.prepared + Resume

\* Verdict "required": the cell has an open session and starts closing it.
RecoverCloses(o) ==
  /\ Recoverable(o)
  /\ \E k \in sessions :
       /\ k.op = o.id /\ k.to.cell = RecoveryAddress(o).cell
       /\ sessions' = sessions \ {k}
       /\ closed' = closed \cup {[cell |-> k.to.cell, run |-> o.id]}
  /\ UNCHANGED <<vars, sessionVars>>

\* No session: the cell has a terminal record of the operation, or never saw it
\* and, before the deadline for absent operations, writes one.
Terminal(o) ==
  /\ Recoverable(o)
  /\ \A k \in sessions : ~(k.op = o.id /\ k.to.cell = RecoveryAddress(o).cell)
  /\ LET record == [cell |-> RecoveryAddress(o).cell, run |-> o.id]
     IN /\ record \in closed \/ now < AbsentRecoveryDeadline(o)
        /\ closed' = closed \cup {record}
  /\ UNCHANGED <<vars, stage, op, run, runs, journal, knks, receipts, sessions>>

\* Verdict "complete", received or lost.
RecoverCompletes(o) == Terminal(o) /\ resolved' = resolved \cup {o}
RecoverUnanswered(o) == Terminal(o) /\ UNCHANGED resolved

\* An incompatible cell admits the recovery KNK: the receipt goes to the caller,
\* the operation is not complete.
RecoverAdmitted(o) ==
  /\ Recoverable(o)
  /\ [cell |-> RecoveryAddress(o).cell, run |-> o.id] \notin closed
  /\ \A k \in sessions : k.op # o.id
  /\ LET k == [run |-> o.id, op |-> o.id, to |-> RecoveryAddress(o)]
     IN /\ sessions' = sessions \cup {k}
        /\ \/ \E b \in Bindings :
                /\ live[b] # None
                /\ receipts' = receipts \cup
                     {[run |-> k.run, op |-> k.op, at |-> k.to, holder |-> b]}
           \/ UNCHANGED receipts
  /\ UNCHANGED <<vars, stage, op, run, runs, journal, knks, resolved, closed>>

-----------------------------------------------------------------------------
(* The cells and the processes.                                            *)

\* A KNK reaches its cell, at any time after it was sent, once or again.
CellAdmits(k) ==
  /\ [cell |-> k.to.cell, run |-> k.run] \notin closed
  /\ \A s \in sessions : s.run # k.run \/ s.to.cell # k.to.cell
  /\ sessions' = sessions \cup {k}
  /\ UNCHANGED <<vars, sessionVars, closed>>

\* A crash loses receipts and everything not journaled.
Crash(b) ==
  /\ CrashProcess(b)
  /\ stage' = [c \in Callers |-> IF c \in Users(b) THEN "none" ELSE stage[c]]
  /\ op' = [c \in Callers |-> IF c \in Users(b) THEN None ELSE op[c]]
  /\ run' = [c \in Callers |-> IF c \in Users(b) THEN 0 ELSE run[c]]
  /\ receipts' = {r \in receipts : r.holder # b}
  /\ UNCHANGED <<runs, journal, knks, resolved, cellVars>>

SessionInit ==
  /\ Init
  /\ stage = [c \in Callers |-> "none"]
  /\ op = [c \in Callers |-> None]
  /\ run = [c \in Callers |-> 0]
  /\ runs = 0 /\ journal = {} /\ knks = {} /\ receipts = {} /\ resolved = {}
  /\ sessions = {} /\ closed = {}

CallerStep(c) ==
  \/ RenewalStep(c) /\ UNCHANGED <<sessionVars, cellVars>>
  \/ BeginPrepare(c) \/ PrepareOperation(c) \/ PrepareFails(c) \/ CommitOperation(c)
  \/ BeginKnock(c) \/ SendKnock(c) \/ KnockFails(c)
  \/ ReceiveAdmission(c) \/ KnockUnanswered(c)

Recover(o) ==
  RecoverCloses(o) \/ RecoverCompletes(o) \/ RecoverUnanswered(o) \/ RecoverAdmitted(o)

SessionEnvironment ==
  /\ OtherLifecycle \/ HubPublishes \/ Tick \/ \E b \in Bindings : OpenBinding(b)
  /\ UNCHANGED <<sessionVars, cellVars>>

SessionNext ==
  \/ \E c \in Callers : CallerStep(c)
  \/ \E r \in receipts : Retire(r)
  \/ \E o \in journal : Recover(o)
  \/ \E k \in knks : CellAdmits(k)
  \/ \E b \in Bindings : Crash(b)
  \/ SessionEnvironment

SessionSpec == SessionInit /\ [][SessionNext]_allVars

-----------------------------------------------------------------------------
(* Properties.                                                             *)

\* Types; a caller between preparation and answer has an operation.
SessionTypeOK ==
  /\ TypeOK
  /\ stage \in [Callers -> Stages]
  /\ op \in [Callers -> Operation \cup {None}]
  /\ run \in [Callers -> Nat] /\ runs \in Nat
  /\ journal \subseteq Operation /\ resolved \subseteq journal
  /\ knks \subseteq Knk /\ sessions \subseteq Knk
  /\ receipts \subseteq Receipt
  /\ closed \subseteq [cell : Cells, run : Nat \ {0}]
  /\ \A c \in Callers :
       /\ stage[c] \in {"prepared", "committed", "knocking"} => op[c] # None
       /\ stage[c] \in {"none", "preparing", "plain"} => op[c] = None
       /\ stage[c] = "waiting" <=> run[c] # 0
       /\ stage[c] \in {"none", "prepared", "committed", "waiting"} => pc[c] = "idle"

\* Recovery that reports an operation complete leaves no session of it open in
\* any cell, whatever moved between preparation, knock and recovery and however
\* late its KNK arrives.
ResolvedMeansClosed ==
  \A o \in resolved : \A k \in sessions : k.op # o.id

\* Every session an operation opened, answered or not, is reachable from the
\* journal, also after the process died.
SessionsJournaled ==
  \A k \in sessions : k.op # 0 =>
    \E o \in journal : o.id = k.op /\ RecoveryAddress(o).cell = k.to.cell

\* No session escapes recovery: an open one is in reach of the journal, and none
\* is open once its operation was reported complete.
NoSessionEscapes == ResolvedMeansClosed /\ SessionsJournaled

\* A caller that keeps the documented contract (preparation, commit and knock in
\* one critical section, the knock sent within the journal margin) knocks exactly
\* the placement it prepared: until then no renewal is due, neither its own nor
\* that of a plain knock on the same binding.
PreparedPlacementHolds ==
  \A c \in Callers :
    /\ Serialized
    /\ pc[c] = "use" /\ stage[c] = "knocking"
    /\ now <= op[c].delivered + Margin
    => AddressOf(call[c].asg) = AddressOf(op[c])

\* A close reaches the session: whatever has become of the binding's placement
\* since the ACK, retirement goes to the cell that has the session open.
HeldSessionsInReach ==
  \A r \in receipts, k \in sessions :
    k.run = r.run => k.to.cell = RetirementAddress(r).cell

=============================================================================
