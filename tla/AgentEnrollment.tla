-------------------------- MODULE AgentEnrollment --------------------------
(***************************************************************************)
(* ConnectAgentRuntime and RefreshAgentRuntime: the crash-safe enrollment  *)
(* of one agent, src/qurl/native_agent_runtime.go.                         *)
(*                                                                         *)
(* One lifecycle call at a time holds the setup lock and works on "mem",   *)
(* its copy of the durable "store".  It walks                              *)
(*                                                                         *)
(*   identity -> Hub ticket -> (one-time code) -> save pending activation  *)
(*   -> REG to the assigned cell -> save candidate -> completion LST to    *)
(*   the same cell -> save completed credential -> (renew expired lease)   *)
(*                                                                         *)
(* and may stop anywhere: the process dies, the caller cancels, a provider *)
(* callback or the network fails, a save is refused or commits without an  *)
(* acknowledgement.  A later call resumes from what is durable.  The cell  *)
(* and the Hub are external: datagrams reach them late, twice or never,    *)
(* and they keep what they committed.                                      *)
(*                                                                         *)
(* Definitions named Faulty... are not part of the specification: each is  *)
(* a plausible bug of the definition below it, kept to confirm that the    *)
(* properties would notice it.                                             *)
(***************************************************************************)
EXTENDS AgentState

CONSTANTS
  TicketLife,      \* lifetime of an assignment ticket
  LeaseLife,       \* lifetime of an assignment lease, longer than a ticket
  OTPMinRemaining, \* nativeAccountOTPMinimumTicketRemaining
  MaxTime, MaxTickets, MaxCands, MaxIds, MaxGen, MaxRev   \* bounds of a run

ASSUME LifeAssumption ==
  /\ TicketLife \in Nat \ {0} /\ LeaseLife \in Nat /\ LeaseLife > TicketLife
  /\ OTPMinRemaining \in Nat \ {0}
  /\ {MaxTime, MaxTickets, MaxCands, MaxIds, MaxGen, MaxRev} \subseteq Nat
  /\ MaxIds >= 1 /\ MaxTickets >= 1 /\ MaxCands >= 1

VARIABLES
  now,        \* the clock
  store,      \* durable agent state, None before the first save
  pc,         \* step of the lifecycle call in progress, "idle" for none
  mem,        \* the call's working copy of the state
  got,        \* authenticated Hub answer not saved yet
  attempt,    \* activation attempt of the call, 0 or 1
  resumed,    \* the call resumed a pending completion
  sent,       \* the exchange in progress has put a datagram on the wire
  ids, tickets, cands,   \* serial numbers drawn so far
  regs,       \* tickets of the REG datagrams ever sent
  lists,      \* completion LST datagrams ever sent
  committed,  \* tickets the cells have committed
  bound,      \* device credential the authority holds for an agent, 0 for none
  placements  \* placements the Hub has published, without their lease

clientVars == <<store, pc, mem, got, attempt, resumed, sent>>
authorityVars == <<committed, bound, placements>>
serials == <<ids, tickets, cands>>
vars == <<now, clientVars, serials, regs, lists, authorityVars>>

Placement == [cell : Cells, gen : 1..MaxGen, rev : 1..MaxRev, endpoint : Endpoints]
CompletionRequest == [agent : 1..MaxIds, cell : Cells, cand : 1..MaxCands]

\* An assignment is a published placement with a lease.
Leased(p, lease) ==
  [cell |-> p.cell, gen |-> p.gen, rev |-> p.rev, endpoint |-> p.endpoint, lease |-> lease]

\* A ticket the cell can no longer commit.
Dead(t) == now >= t.dead

\* agentRecoveryBoundary.checkAt: live strictly before the durable deadline.
RecoveryLive(s) == now < PendingDeadline(s)

Steps == {"idle", "identity", "fetch", "credential", "code", "pend", "reg",
          "advance", "complete", "promote", "renew", "adopt"}

-----------------------------------------------------------------------------
(* Durable saves and the end of a call.                                    *)

Return ==
  /\ pc' = "idle" /\ mem' = None /\ got' = None
  /\ attempt' = 0 /\ resumed' = FALSE /\ sent' = FALSE

Goto(step) == pc' = step /\ sent' = FALSE

\* SaveAgentState either commits and is acknowledged, after which the call
\* continues, or commits and still ends the call (the acknowledgement failed,
\* or the process died right after).  A save that does not commit is Abandon.
SaveThen(s, step) ==
  /\ store' = s
  /\ \/ mem' = s /\ got' = None /\ Goto(step) /\ UNCHANGED <<attempt, resumed>>
     \/ Return

\* The last save of a call: acknowledged or not, the call is over.
SaveAndReturn(s) == store' = s /\ Return

\* The call ends with nothing durable changed: a crash, a cancelled caller,
\* an exhausted retry budget, a refused save, a provider error, a terminal
\* denial or an expired recovery deadline.
Abandon ==
  /\ pc # "idle"
  /\ Return
  /\ UNCHANGED <<now, store, serials, regs, lists, authorityVars>>

-----------------------------------------------------------------------------
(* Entry: registerLocked and refreshAgentRuntimeLocked.                    *)

\* Nothing registered and nothing pending: mint an identity if the store has
\* none, then save it before any packet.
ConnectFresh ==
  /\ pc = "idle"
  /\ \/ /\ store = None /\ ids < MaxIds
        /\ ids' = ids + 1
        /\ mem' = [NewAgentState(ids + 1) EXCEPT !.schema = agentStateSchemaVersion]
     \/ /\ store # None /\ ValidState(store) /\ ~store.registered
        /\ store.act = None /\ store.cmp = None
        /\ mem' = store /\ UNCHANGED ids
  /\ Goto("identity")
  /\ UNCHANGED <<now, store, got, attempt, resumed, tickets, cands, regs, lists, authorityVars>>

SaveIdentity ==
  /\ pc = "identity"
  /\ SaveThen(mem, "fetch")
  /\ UNCHANGED <<now, serials, regs, lists, authorityVars>>

\* The pre-6 record with its anchor and deadline derived from the ticket.
DatedActivation(a) ==
  [ticket |-> a.ticket, asg |-> a.asg,
   anchor |-> a.ticket.exp, deadline |-> RecoveryDeadline(a.ticket.exp)]

\* preparePendingRecovery on a pre-6 pending activation: derive the deadline
\* from the ticket expiry and save it, expired or not, before any packet.
MigrateLegacyActivation ==
  /\ pc = "idle"
  /\ store # None /\ ValidState(store) /\ ~store.registered
  /\ store.act # None /\ store.act.deadline = 0
  /\ store' = [store EXCEPT !.schema = agentStateSchemaVersion,
                            !.act = DatedActivation(store.act)]
  /\ UNCHANGED <<now, pc, mem, got, attempt, resumed, sent, serials, regs, lists, authorityVars>>

\* A live pending activation is replayed, never replaced, by a new call:
\* pendingRegistrationCredential corroborates the original credential.
ResumeActivation ==
  /\ pc = "idle"
  /\ store # None /\ ValidState(store) /\ ~store.registered
  /\ store.act # None /\ RecoveryLive(store)
  /\ mem' = store /\ Goto("reg")
  /\ UNCHANGED <<now, store, got, attempt, resumed, serials, regs, lists, authorityVars>>

FaultyNeedsLease(s) == RecoveryLive(s) /\ ~LeaseExpired(s.asg, now)
CompletionResumable(s) == RecoveryLive(s)

\* A live pending completion is finished first, at the placement its
\* candidate is bound to, whatever the lease says.
ResumeCompletion ==
  /\ pc = "idle"
  /\ store # None /\ ValidState(store) /\ ~store.registered
  /\ store.cmp # None /\ CompletionResumable(store)
  /\ mem' = store /\ resumed' = TRUE /\ Goto("complete")
  /\ UNCHANGED <<now, store, got, attempt, serials, regs, lists, authorityVars>>

\* A completed registration is renewed when its lease ran out (Connect) or
\* when the caller asks for it (Refresh).
BeginRenewal ==
  /\ pc = "idle"
  /\ store # None /\ ValidState(store) /\ store.registered
  /\ mem' = store /\ Goto("renew")
  /\ UNCHANGED <<now, store, got, attempt, resumed, serials, regs, lists, authorityVars>>

-----------------------------------------------------------------------------
(* A fresh ticket: persistFreshPendingActivation.                          *)

\* With a pending activation the whole fetch runs under its deadline.
WithinEpisode == mem.act # None => RecoveryLive(mem)

\* The Hub answers an initial assignment request: a placement, a ticket that
\* is live now and a lease that outlives it.
HubAssigns ==
  /\ pc = "fetch" /\ WithinEpisode /\ tickets < MaxTickets
  /\ tickets' = tickets + 1
  /\ \E p \in placements, account \in BOOLEAN, dead \in (now + 1)..(now + TicketLife) :
       /\ ~account => dead = now + TicketLife
       /\ got' = [asg |-> Leased(p, now + LeaseLife),
                  ticket |-> [n |-> tickets + 1, agent |-> mem.agent, cell |-> p.cell,
                              account |-> account, exp |-> now + TicketLife, dead |-> dead]]
  /\ Goto("credential")
  /\ UNCHANGED <<now, store, mem, attempt, resumed, ids, cands, regs, lists, authorityVars>>

\* registrationCredential: an account ticket with enough lifetime left has
\* its one-time code dispatched, before anything is saved.
AcquireCredential ==
  /\ pc = "credential"
  /\ \/ ~got.ticket.account /\ Goto("pend")
     \/ got.ticket.account /\ now + OTPMinRemaining <= got.ticket.exp /\ Goto("code")
  /\ UNCHANGED <<now, store, mem, got, attempt, resumed, serials, regs, lists, authorityVars>>

\* The provider returns the code inside the ticket's window.
ReceiveCode ==
  /\ pc = "code" /\ now < got.ticket.exp
  /\ Goto("pend")
  /\ UNCHANGED <<now, store, mem, got, attempt, resumed, serials, regs, lists, authorityVars>>

\* The anchor of the new pending record: a replacement inherits the one of
\* the record it replaces, and with it the deadline.
FaultyAnchor == got.ticket.exp
RecoveryAnchor == IF mem.act = None THEN got.ticket.exp ELSE mem.act.anchor

\* newPendingAgentActivationWithRecoveryAnchor.
NewActivation ==
  [ticket |-> got.ticket, asg |-> got.asg,
   anchor |-> RecoveryAnchor, deadline |-> RecoveryDeadline(RecoveryAnchor)]

\* The state saved before REG.
PendingState == [mem EXCEPT !.asg = got.asg, !.act = NewActivation,
                            !.schema = agentStateSchemaVersion]

SavePendingActivation ==
  /\ pc = "pend" /\ WithinEpisode
  /\ SaveThen(PendingState, "reg")
  /\ UNCHANGED <<now, serials, regs, lists, authorityVars>>

-----------------------------------------------------------------------------
(* REG: registerPendingActivation and activateAndComplete.                 *)

\* Every write, retries included, passes the recovery fence.
SendREG ==
  /\ pc = "reg" /\ RecoveryLive(mem)
  /\ regs' = regs \cup {mem.act.ticket} /\ sent' = TRUE
  /\ UNCHANGED <<now, store, pc, mem, got, attempt, resumed, serials, lists, authorityVars>>

\* An authenticated success, still inside the deadline.
RegisterAcknowledged ==
  /\ pc = "reg" /\ sent /\ mem.act.ticket \in committed
  /\ RecoveryLive(mem)
  /\ Goto("advance")
  /\ UNCHANGED <<now, store, mem, got, attempt, resumed, serials, regs, lists, authorityVars>>

\* registrationVerdictPermitsReplacement: 52111, or 52101 on an account
\* ticket, is the only verdict that allows one more ticket in this call.
FaultySilencePermits == mem.act.ticket \notin committed
VerdictPermitsReplacement == mem.act.ticket \notin committed /\ Dead(mem.act.ticket)

AttemptLeft == attempt = 0

RegisterExpired ==
  /\ pc = "reg" /\ sent
  /\ VerdictPermitsReplacement
  /\ RecoveryLive(mem) /\ AttemptLeft
  /\ attempt' = attempt + 1 /\ Goto("fetch")
  /\ UNCHANGED <<now, store, mem, got, resumed, serials, regs, lists, authorityVars>>

\* The pending completion that replaces the activation: a fresh candidate
\* bound to the cell and generation, under the same anchor and deadline.
NewCompletion ==
  [cand |-> cands + 1, cell |-> mem.asg.cell, gen |-> mem.asg.gen,
   anchor |-> mem.act.anchor, deadline |-> mem.act.deadline]

AdvancedState == [mem EXCEPT !.act = None, !.cmp = NewCompletion,
                             !.schema = agentStateSchemaVersion]

\* transitionPendingActivation: the candidate is saved before it is sent.
AdvanceToCompletion ==
  /\ pc = "advance" /\ cands < MaxCands
  /\ cands' = cands + 1
  /\ SaveThen(AdvancedState, "complete")
  /\ UNCHANGED <<now, ids, tickets, regs, lists, authorityVars>>

-----------------------------------------------------------------------------
(* Completion: completePending.                                            *)

SendCompletion ==
  /\ pc = "complete" /\ RecoveryLive(mem)
  /\ lists' = lists \cup {[agent |-> mem.agent, cell |-> mem.asg.cell, cand |-> mem.cmp.cand]}
  /\ sent' = TRUE
  /\ UNCHANGED <<now, store, pc, mem, got, attempt, resumed, serials, regs, authorityVars>>

\* An authenticated success wins over a deadline that closes as it arrives.
CompletionAcknowledged ==
  /\ pc = "complete" /\ sent /\ bound[mem.agent] = mem.cmp.cand
  /\ Goto("promote")
  /\ UNCHANGED <<now, store, mem, got, attempt, resumed, serials, regs, lists, authorityVars>>

FaultyDropCandidate == [mem EXCEPT !.registered = TRUE, !.cmp = None,
                                   !.schema = agentStateSchemaVersion]
CompletedState == [mem EXCEPT !.registered = TRUE, !.key = mem.cmp.cand, !.cmp = None,
                              !.schema = agentStateSchemaVersion]

\* The final save runs detached from the caller.  A resumed call then renews
\* an expired lease; any other call returns, or fails on the expired lease.
PromoteCandidate ==
  /\ pc = "promote"
  /\ IF resumed /\ LeaseExpired(mem.asg, now)
     THEN SaveThen(CompletedState, "renew")
     ELSE SaveAndReturn(CompletedState)
  /\ UNCHANGED <<now, serials, regs, lists, authorityVars>>

-----------------------------------------------------------------------------
(* Renewal of a completed registration: renewCompletedAssignment.          *)

\* The Hub answers with any placement it ever published (an answer may come
\* from a lagging replica); a move is adopted unless the caller pinned it.
\* A refused answer, or one equal to the durable assignment, ends the call
\* with nothing saved.
HubRefreshes ==
  /\ pc = "renew"
  /\ \E p \in placements, adopt \in BOOLEAN :
       LET fresh == Leased(p, now + LeaseLife)
       IN /\ EnsureRefreshAssignmentContinuity(mem.asg, fresh, adopt)
          /\ fresh # mem.asg
          /\ got' = [asg |-> fresh, ticket |-> None]
  /\ Goto("adopt")
  /\ UNCHANGED <<now, store, mem, attempt, resumed, serials, regs, lists, authorityVars>>

SaveRenewedAssignment ==
  /\ pc = "adopt"
  /\ SaveAndReturn([mem EXCEPT !.asg = got.asg])
  /\ UNCHANGED <<now, serials, regs, lists, authorityVars>>

-----------------------------------------------------------------------------
(* The authority and the clock.                                            *)

\* A cell commits a live ticket from a REG datagram, whenever it arrives.
CellRegisters ==
  /\ \E t \in regs \ committed :
       ~Dead(t) /\ committed' = committed \cup {t}
  /\ UNCHANGED <<now, clientVars, serials, regs, lists, bound, placements>>

\* The cell of a committed registration binds the first candidate it sees;
\* the same candidate again is a replay, another one a conflict (52303).
CellCompletes ==
  /\ \E m \in lists :
       /\ \E t \in committed : t.agent = m.agent /\ t.cell = m.cell
       /\ bound[m.agent] = 0
       /\ bound' = [bound EXCEPT ![m.agent] = m.cand]
  /\ UNCHANGED <<now, clientVars, serials, regs, lists, committed, placements>>

\* LayerV moves the agent, or republishes the endpoint of its cell.
HubPublishes ==
  /\ \E p \in Placement :
       /\ \A q \in placements :
            p.gen > q.gen \/ (p.gen = q.gen /\ p.cell = q.cell /\ p.rev > q.rev)
       /\ placements' = placements \cup {p}
  /\ UNCHANGED <<now, clientVars, serials, regs, lists, committed, bound>>

Tick ==
  /\ now < MaxTime
  /\ now' = now + 1
  /\ UNCHANGED <<clientVars, serials, regs, lists, authorityVars>>

-----------------------------------------------------------------------------
\* A store written by an SDK before schema 6, holding a pending activation
\* (sent and committed or not) or a pending completion (bound or not).
LegacyTicket(p, account, t) ==
  [n |-> 1, agent |-> 1, cell |-> p.cell, account |-> account,
   exp |-> t + TicketLife, dead |-> t + TicketLife]

LegacyState(p, t, act, cmp) ==
  [schema |-> registrationRecoveryStateSchemaVersion - 1, agent |-> 1, registered |-> FALSE,
   key |-> 0, asg |-> Leased(p, t + LeaseLife), act |-> act, cmp |-> cmp]

InitFresh ==
  /\ store = None /\ ids = 0 /\ tickets = 0 /\ cands = 0
  /\ regs = {} /\ lists = {} /\ committed = {}
  /\ bound = [a \in 1..MaxIds |-> 0]

InitLegacyActivation ==
  /\ ids = 1 /\ tickets = 1 /\ cands = 0
  /\ \E p \in placements, account \in BOOLEAN :
       LET t == LegacyTicket(p, account, now)
       IN /\ store = LegacyState(p, now,
                        [ticket |-> t, asg |-> Leased(p, now + LeaseLife),
                         anchor |-> 0, deadline |-> 0], None)
          /\ regs \in {{}, {t}} /\ committed \in {{}, regs}
  /\ lists = {} /\ bound = [a \in 1..MaxIds |-> 0]

InitLegacyCompletion ==
  /\ ids = 1 /\ tickets = 1 /\ cands = 1
  /\ \E p \in placements, account \in BOOLEAN :
       LET t == LegacyTicket(p, account, now)
       IN /\ store = LegacyState(p, now, None,
                        [cand |-> 1, cell |-> p.cell, gen |-> p.gen,
                         anchor |-> 0, deadline |-> 0])
          /\ regs = {t} /\ committed = {t}
          /\ lists \in {{}, {[agent |-> 1, cell |-> p.cell, cand |-> 1]}}
  /\ bound \in {[a \in 1..MaxIds |-> 0]} \cup
               (IF lists = {} THEN {} ELSE {[a \in 1..MaxIds |-> IF a = 1 THEN 1 ELSE 0]})

Init ==
  /\ now = 1
  /\ placements \in {{p} : p \in {q \in Placement : q.gen = 1 /\ q.rev = 1}}
  /\ pc = "idle" /\ mem = None /\ got = None
  /\ attempt = 0 /\ resumed = FALSE /\ sent = FALSE
  /\ InitFresh \/ InitLegacyActivation \/ InitLegacyCompletion

Client ==
  \/ ConnectFresh \/ SaveIdentity \/ MigrateLegacyActivation
  \/ ResumeActivation \/ ResumeCompletion \/ BeginRenewal
  \/ HubAssigns \/ AcquireCredential \/ ReceiveCode \/ SavePendingActivation
  \/ SendREG \/ RegisterAcknowledged \/ RegisterExpired \/ AdvanceToCompletion
  \/ SendCompletion \/ CompletionAcknowledged \/ PromoteCandidate
  \/ HubRefreshes \/ SaveRenewedAssignment

Authority == CellRegisters \/ CellCompletes \/ HubPublishes

Next == Client \/ Abandon \/ Authority \/ Tick

Spec == Init /\ [][Next]_vars

\* The caller keeps re-running ConnectAgentRuntime (the documented pattern for
\* every start), and calls do not fail forever at the same step: an exchange
\* that is retried is eventually answered, a save that is retried eventually
\* commits.  Nothing is assumed of the clock or of Abandon.
Fairness ==
  /\ WF_vars(MigrateLegacyActivation)
  /\ SF_vars(ResumeActivation) /\ SF_vars(ResumeCompletion)
  /\ SF_vars(SendREG) /\ SF_vars(RegisterAcknowledged) /\ SF_vars(AdvanceToCompletion)
  /\ SF_vars(SendCompletion) /\ SF_vars(CompletionAcknowledged) /\ SF_vars(PromoteCandidate)
  /\ WF_vars(CellCompletes)

FairSpec == Spec /\ Fairness

-----------------------------------------------------------------------------
(* Properties.                                                             *)

TypeOK ==
  /\ now \in Nat
  /\ store \in State \cup {None}
  /\ pc \in Steps
  /\ mem \in State \cup {None}
  /\ got \in HubAnswer \cup {None}
  /\ attempt \in 0..1 /\ resumed \in BOOLEAN /\ sent \in BOOLEAN
  /\ ids \in 0..MaxIds /\ tickets \in 0..MaxTickets /\ cands \in 0..MaxCands
  /\ regs \subseteq Ticket /\ committed \subseteq Ticket
  /\ lists \subseteq CompletionRequest
  /\ bound \in [1..MaxIds -> 0..MaxCands]
  /\ placements \subseteq Placement

\* Whatever order saves, crashes and replays happen in, every state the
\* lifecycle makes durable is one its own loader accepts
\* (validateLoadedAgentAssignment): a call never bricks the store.
LoaderAccepts == store # None => ValidState(store)

\* Once a cell has committed a REG, the durable state keeps the proof that
\* replays it: the same ticket pending, or the completion or registration
\* that grew out of it, under the same agent identity.
ReplayProofDurable ==
  \A t \in committed :
    /\ store # None /\ store.agent = t.agent
    /\ store.act # None => store.act.ticket = t
    /\ store.act # None \/ store.cmp # None \/ store.registered

\* At most one ticket of an agent is ever committed, and the Hub is never
\* asked for another one after that: a replacement is only requested on a
\* verdict that rules the pending ticket out for good.
OneCommit ==
  /\ \A t, u \in committed : t = u
  /\ pc \in {"identity", "fetch", "credential", "code", "pend"} => committed = {}

\* All completion requests ever sent for the agent carry one candidate, so
\* the cell never has two to choose from (52303 cannot be our own doing).
OneCandidate == \A m1, m2 \in lists : m1 = m2

\* The credential the authority has bound is always durable on the client:
\* still the pending candidate, or already the completed device key.
CredentialDurable ==
  \A a \in 1..MaxIds : bound[a] # 0 =>
    /\ store # None /\ store.agent = a
    /\ \/ store.cmp # None /\ store.cmp.cand = bound[a]
       \/ store.registered /\ store.key = bound[a]

\* Whatever step of activateAndComplete the process dies in, the durable state
\* loads, and neither the proof that replays a committed REG nor the credential
\* the authority has bound is missing from it.
ProofDurable == LoaderAccepts /\ ReplayProofDurable /\ CredentialDurable

\* However often calls are retried, crash or are answered late, the agent ends
\* with one commit and one credential.
OneRegistration == OneCommit /\ OneCandidate

\* The recovery deadline of an episode is set once: replacing a ticket or
\* advancing from activation to completion never moves it.
DeadlineImmutable ==
  [][PendingDeadline(store) # 0 /\ PendingDeadline(store') # 0
       => PendingDeadline(store') = PendingDeadline(store)]_store

\* A completed registration stays completed with the same credential and
\* identity, and its durable placement never goes back to an older one, even
\* when the Hub answers from a stale view.
RegistrationStable ==
  [][store # None /\ store.registered
       => /\ store' # None /\ store'.registered
          /\ store'.key = store.key /\ store'.agent = store.agent
          /\ NotOlder(store.asg, store'.asg)]_store

\* What an episode or a registration has fixed stays fixed, whatever tickets are
\* replaced and whatever a lagging Hub answers.
EpisodeStable == DeadlineImmutable /\ RegistrationStable

\* Registration is finished, or its horizon passes: a pending completion, and
\* an activation the cell committed, do not wait forever, whatever happened
\* to the lease and the placement in the meantime.
CommittedFinishes ==
  (store # None /\ (store.cmp # None \/ (store.act # None /\ store.act.ticket \in committed)))
    ~> ((store # None /\ store.registered) \/ ~RecoveryLive(store))

=============================================================================
