----------------------- MODULE AgentEnrollmentProofs -----------------------
(***************************************************************************)
(* Safety of AgentEnrollment for every value of its constants.             *)
(*                                                                         *)
(* The invariants of the specification are not inductive.  What makes them *)
(* so is what a step leaves true about the call in progress (CallInv: the  *)
(* working copy equals the durable state from the first packet on, and     *)
(* each step has the pending record it works on) and about the wire        *)
(* (RegInv, ListInv: a REG a cell could still commit is the durable one, a *)
(* completion request carries the durable candidate).                      *)
(***************************************************************************)
EXTENDS AgentEnrollment, TLAPS

\* Steps of persistFreshPendingActivation after the identity is durable.
Fetching == {"fetch", "credential", "code", "pend"}

\* Nothing has been registered or started for the agent.
Untouched(s) == s.act = None /\ s.cmp = None /\ ~s.registered /\ s.key = 0

CallIdle == pc = "idle" <=> mem = None

CallMem ==
  /\ mem # None => ValidState(mem) /\ mem.agent \in 1..ids
  /\ pc = "identity" => (store = None \/ mem = store) /\ mem # None /\ Untouched(mem)
  /\ pc \notin {"idle", "identity"} => mem = store

CallStep ==
  /\ pc \in Fetching =>
       /\ ~mem.registered /\ mem.cmp = None /\ mem.key = 0
       /\ mem.act # None => mem.act.deadline # 0 /\ Dead(mem.act.ticket)
  /\ pc \in {"reg", "advance"} => mem.act # None /\ mem.act.deadline # 0
  /\ pc = "advance" => mem.act.ticket \in committed
  /\ pc \in {"complete", "promote"} => mem.cmp # None
  /\ pc = "promote" => bound[mem.agent] = mem.cmp.cand
  /\ pc \in {"renew", "adopt"} => mem.registered

CallGot ==
  /\ pc \in {"credential", "code", "pend"} =>
       /\ got # None /\ got.ticket # None
       /\ got.ticket.agent = mem.agent /\ got.ticket.exp # 0
       /\ got.asg.lease > got.ticket.exp
  /\ pc = "adopt" => got # None /\ NotOlder(mem.asg, got.asg)

CallInv == CallIdle /\ CallMem /\ CallStep /\ CallGot

StoreInv ==
  store # None =>
    /\ ValidState(store)
    /\ store.agent \in 1..ids
    /\ store.cmp # None => store.cmp.cand \in 1..cands
    /\ store.key \in 0..cands
    /\ store.registered => store.asg # None
    /\ store.key # 0 => store.registered

RegInv ==
  /\ committed \subseteq regs
  /\ \A t \in regs :
       /\ t \in committed \/ Dead(t) \/ (store # None /\ store.act # None /\ t = store.act.ticket)
       /\ store # None /\ ~Untouched(store)

ListInv ==
  /\ \A m \in lists :
       /\ store # None /\ m.agent = store.agent
       /\ \/ store.cmp # None /\ m.cand = store.cmp.cand /\ m.cell = store.cmp.cell
          \/ store.registered /\ m.cand = store.key
  /\ \A a \in 1..MaxIds : bound[a] # 0 => \E m \in lists : m.agent = a /\ m.cand = bound[a]

IInv ==
  /\ TypeOK /\ CallInv /\ StoreInv /\ RegInv /\ ListInv
  /\ ReplayProofDurable /\ OneCommit /\ OneCandidate

-----------------------------------------------------------------------------
(***************************************************************************)
(* Two facts about the end of a call and about leaving a step.             *)
(***************************************************************************)

\* Every Return leaves an idle, well-typed call.
LEMMA ReturnFacts == ASSUME Return
                     PROVE  /\ pc' = "idle" /\ pc' \in Steps /\ mem' = None /\ got' = None
                            /\ attempt' \in 0..1 /\ resumed' \in BOOLEAN /\ sent' \in BOOLEAN
                            /\ CallInv'
<1>1. resumed' \in BOOLEAN /\ sent' \in BOOLEAN BY Zenon DEF Return
<1>2. attempt' \in 0..1 /\ pc' = "idle" /\ pc' \in Steps /\ mem' = None /\ got' = None
  BY DEF Return, Steps
<1>3. CallInv' BY <1>2 DEF CallInv, CallIdle, CallMem, CallStep, CallGot, Fetching
<1> QED BY <1>1, <1>2, <1>3

\* Leaving for another step starts an exchange that has sent nothing.
LEMMA GotoFacts == ASSUME NEW step \in Steps, Goto(step)
                   PROVE  pc' = step /\ pc' \in Steps /\ sent' \in BOOLEAN
<1>1. sent' \in BOOLEAN BY Zenon DEF Goto
<1> QED BY <1>1 DEF Goto

\* From the first packet on, the working copy is the durable state.
LEMMA MemFacts == ASSUME IInv, pc \notin {"idle", "identity"}
                  PROVE  /\ mem \in State /\ mem = store /\ mem # None /\ store \in State
                         /\ ValidState(mem) /\ mem.agent \in 1..ids /\ mem.agent \in 1..MaxIds
<1>1. mem # None BY DEF IInv, CallInv, CallIdle
<1>2. mem \in State BY <1>1 DEF IInv, TypeOK
<1>3. mem = store /\ ValidState(mem) /\ mem.agent \in 1..ids
  BY <1>1 DEF IInv, CallInv, CallMem
<1>4. mem.agent \in 1..MaxIds BY <1>3, LifeAssumption DEF IInv, TypeOK
<1> QED BY <1>1, <1>2, <1>3, <1>4

\* A ticket the cell cannot commit now can never be committed later.
LEMMA DeadForever == ASSUME TypeOK, now' \in Nat, now' >= now, NEW t \in Ticket, Dead(t)
                     PROVE  Dead(t)'
BY DEF TypeOK, Dead, Ticket

(***************************************************************************)
(* Steps that leave the durable state alone.                               *)
(***************************************************************************)

\* What no step outside the saves touches keeps its invariants.
LEMMA FrameStore ==
  ASSUME IInv, UNCHANGED <<now, store, serials, regs, lists, authorityVars>>
  PROVE  /\ StoreInv' /\ RegInv' /\ ListInv' /\ ReplayProofDurable' /\ OneCandidate'
         /\ now' \in Nat /\ store' \in State \cup {None}
         /\ ids' \in 0..MaxIds /\ tickets' \in 0..MaxTickets /\ cands' \in 0..MaxCands
         /\ regs' \subseteq Ticket /\ committed' \subseteq Ticket
         /\ lists' \subseteq CompletionRequest
         /\ bound' \in [1..MaxIds -> 0..MaxCands] /\ placements' \subseteq Placement
<1> USE DEF IInv, serials, authorityVars
<1>1. StoreInv' BY DEF StoreInv
<1>2. RegInv' BY DEF RegInv, Dead
<1>3. ListInv' BY DEF ListInv
<1>4. ReplayProofDurable' /\ OneCandidate' BY DEF ReplayProofDurable, OneCandidate
<1> QED BY <1>1, <1>2, <1>3, <1>4 DEF TypeOK

\* A call that ends with nothing saved (a crash, a cancelled caller, a failed
\* exchange) keeps the invariant.
LEMMA AbandonStep == ASSUME IInv, Abandon PROVE IInv'
<1>1. UNCHANGED <<now, store, serials, regs, lists, authorityVars>> /\ Return BY DEF Abandon
<1>2. OneCommit' BY <1>1, ReturnFacts DEF IInv, OneCommit, authorityVars
<1>3. TypeOK' BY <1>1, ReturnFacts, FrameStore DEF TypeOK
<1> QED BY <1>1, <1>2, <1>3, ReturnFacts, FrameStore DEF IInv

\* Time only moves tickets from live to dead.
LEMMA TickStep == ASSUME IInv, Tick PROVE IInv'
<1> USE DEF IInv, Tick, clientVars, serials, authorityVars
<1>1. TypeOK' BY DEF TypeOK
<1>0. \A t \in Ticket : Dead(t) => Dead(t)' BY DEF TypeOK, Dead, Ticket
<1>2. CallInv' 
  <2>1. CallIdle' /\ CallMem' /\ CallGot' BY DEF CallInv, CallIdle, CallMem, CallGot
  <2>2. CallStep' BY <1>0 DEF CallInv, CallStep, TypeOK, State, Activation, CallIdle, Fetching
  <2> QED BY <2>1, <2>2 DEF CallInv
<1>3. StoreInv' /\ ListInv' BY DEF StoreInv, ListInv
<1>4. RegInv' BY <1>0 DEF RegInv, TypeOK
<1>5. ReplayProofDurable' /\ OneCommit' /\ OneCandidate'
  BY DEF ReplayProofDurable, OneCommit, OneCandidate
<1> QED BY <1>1, <1>2, <1>3, <1>4, <1>5

\* A new placement at the Hub touches nothing the client or a cell holds.
LEMMA HubPublishesStep == ASSUME IInv, HubPublishes PROVE IInv'
<1> USE DEF IInv, HubPublishes, clientVars, serials
<1>1. TypeOK' BY DEF TypeOK
<1>2. CallInv' BY DEF CallInv, CallIdle, CallMem, CallStep, CallGot, Dead
<1>3. StoreInv' /\ ListInv' /\ RegInv' BY DEF StoreInv, ListInv, RegInv, Dead
<1>4. ReplayProofDurable' /\ OneCommit' /\ OneCandidate'
  BY DEF ReplayProofDurable, OneCommit, OneCandidate
<1> QED BY <1>1, <1>2, <1>3, <1>4

\* A late or duplicated REG commits nothing but the durable pending ticket,
\* and nothing at all while a replacement is being fetched.
LEMMA CellRegistersStep == ASSUME IInv, CellRegisters PROVE IInv'
<1> USE DEF IInv, clientVars, serials
<1>1. PICK t \in regs \ committed : ~Dead(t) /\ committed' = committed \cup {t}
  BY DEF CellRegisters
<1>2. UNCHANGED <<now, clientVars, serials, regs, lists, bound, placements>>
  BY DEF CellRegisters
<1>3. store # None /\ store.act # None /\ t = store.act.ticket BY <1>1 DEF RegInv
<1>4. store \in State /\ ValidState(store) /\ store.act.ticket.agent = store.agent
  BY <1>3 DEF StoreInv, TypeOK, ValidState, ValidActivation
<1>5. committed' = {t}
  BY <1>1, <1>3 DEF ReplayProofDurable
<1>6. pc \notin {"identity", "fetch", "credential", "code", "pend"}
  <2>1. pc \notin Fetching
    BY <1>1, <1>3 DEF CallInv, CallStep, CallMem, Fetching
  <2>2. pc # "identity" BY <1>3 DEF CallInv, CallMem, Untouched
  <2> QED BY <2>1, <2>2 DEF Fetching
<1>7. TypeOK' BY <1>1, <1>2 DEF TypeOK
<1>8. CallInv' BY <1>1, <1>2 DEF CallInv, CallIdle, CallMem, CallStep, CallGot, Dead
<1>9. StoreInv' /\ ListInv' BY <1>2 DEF StoreInv, ListInv
<1>10. RegInv' BY <1>1, <1>2 DEF RegInv, Dead
<1>11. ReplayProofDurable' BY <1>2, <1>3, <1>4, <1>5 DEF ReplayProofDurable
<1>12. OneCommit' /\ OneCandidate' BY <1>2, <1>5, <1>6 DEF OneCommit, OneCandidate
<1> QED BY <1>7, <1>8, <1>9, <1>10, <1>11, <1>12

\* A cell binds only a candidate that was sent, and sends come from the store.
LEMMA CellCompletesStep == ASSUME IInv, CellCompletes PROVE IInv'
<1> USE DEF IInv, clientVars, serials
<1>1. PICK m \in lists : bound[m.agent] = 0 /\ bound' = [bound EXCEPT ![m.agent] = m.cand]
  BY DEF CellCompletes
<1>2. UNCHANGED <<now, clientVars, serials, regs, lists, committed, placements>>
  BY DEF CellCompletes
<1>3. m.agent \in 1..MaxIds /\ m.cand \in 1..MaxCands BY <1>1 DEF TypeOK, CompletionRequest
<1>4. TypeOK' BY <1>1, <1>2, <1>3 DEF TypeOK
<1>5. CallInv'
  <2>1. CallIdle' /\ CallMem' /\ CallGot' BY <1>2 DEF CallInv, CallIdle, CallMem, CallGot
  <2>2. pc = "promote" => bound'[mem.agent] = mem.cmp.cand
    <3> SUFFICES ASSUME pc = "promote" PROVE bound'[mem.agent] = mem.cmp.cand OBVIOUS
    <3>1. mem \in State /\ mem = store /\ store.agent \in 1..MaxIds
          /\ mem.cmp # None /\ bound[mem.agent] = mem.cmp.cand
      BY MemFacts DEF CallInv, CallStep
    <3>2. mem.cmp.cand # 0 BY <3>1 DEF State, Completion
    <3> QED BY <1>1, <1>3, <3>1, <3>2 DEF TypeOK
  <2>3. CallStep' BY <1>2, <2>2 DEF CallInv, CallStep, Dead
  <2> QED BY <2>1, <2>3 DEF CallInv
<1>6. StoreInv' /\ RegInv' BY <1>2 DEF StoreInv, RegInv, Dead
<1>7. ListInv' BY <1>1, <1>2, <1>3 DEF ListInv, TypeOK
<1>8. ReplayProofDurable' /\ OneCommit' /\ OneCandidate'
  BY <1>2 DEF ReplayProofDurable, OneCommit, OneCandidate
<1> QED BY <1>4, <1>5, <1>6, <1>7, <1>8

(***************************************************************************)
(* Steps of the call that save nothing.                                    *)
(***************************************************************************)

\* Loading a durable state into a fresh call.
LEMMA LoadStep ==
  ASSUME IInv, pc = "idle", store # None, mem' = store,
         UNCHANGED <<now, store, serials, regs, lists, authorityVars>>,
         got' = got, attempt' = attempt, resumed' \in BOOLEAN, sent' \in BOOLEAN,
         pc' \in {"reg", "complete", "renew"},
         pc' = "reg" => store.act # None /\ store.act.deadline # 0,
         pc' = "complete" => store.cmp # None,
         pc' = "renew" => store.registered
  PROVE  IInv'
<1> USE DEF IInv
<1>1. store \in State /\ ValidState(store) /\ store.agent \in 1..ids BY DEF TypeOK, StoreInv
<1>2. TypeOK' BY <1>1, FrameStore DEF TypeOK, Steps
<1>3. CallInv'
  <2>1. CallIdle' /\ CallMem' /\ CallGot' BY <1>1 DEF CallIdle, CallMem, CallGot, serials
  <2>2. CallStep' BY DEF CallStep, Fetching
  <2> QED BY <2>1, <2>2 DEF CallInv
<1>4. OneCommit' BY DEF OneCommit, authorityVars
<1> QED BY <1>2, <1>3, <1>4, FrameStore

\* registerLocked resumes a pending activation whose deadline is set and live.
LEMMA ResumeActivationStep == ASSUME IInv, ResumeActivation PROVE IInv'
<1>1. store.act.deadline # 0
  BY DEF ResumeActivation, RecoveryLive, PendingDeadline, IInv, TypeOK
<1>2. sent' \in BOOLEAN /\ resumed' \in BOOLEAN
  BY GotoFacts DEF ResumeActivation, Steps, IInv, TypeOK
<1> QED BY <1>1, <1>2, LoadStep DEF ResumeActivation, Goto

\* registerLocked resumes a pending completion.
LEMMA ResumeCompletionStep == ASSUME IInv, ResumeCompletion PROVE IInv'
<1>1. sent' \in BOOLEAN /\ resumed' \in BOOLEAN
  <2>1. sent' \in BOOLEAN BY GotoFacts DEF ResumeCompletion, Steps
  <2>2. resumed' \in BOOLEAN BY Zenon DEF ResumeCompletion
  <2> QED BY <2>1, <2>2
<1> QED BY <1>1, LoadStep DEF ResumeCompletion, Goto

\* registerLocked or RefreshAgentRuntime picks up a completed registration.
LEMMA BeginRenewalStep == ASSUME IInv, BeginRenewal PROVE IInv'
<1>1. sent' \in BOOLEAN /\ resumed' \in BOOLEAN
  BY GotoFacts DEF BeginRenewal, Steps, IInv, TypeOK
<1> QED BY <1>1, LoadStep DEF BeginRenewal, Goto

\* A first call works on a new identity, or on one nothing was sent for.
LEMMA ConnectFreshStep == ASSUME IInv, ConnectFresh PROVE IInv'
<1> USE DEF IInv
<1>0. pc = "idle" /\ pc' = "identity" /\ sent' \in BOOLEAN /\ pc' \in Steps
  BY GotoFacts DEF ConnectFresh, Steps, Goto
<1>1. UNCHANGED <<now, store, got, attempt, resumed, tickets, cands, regs, lists, authorityVars>>
  BY DEF ConnectFresh
<1>2. /\ ids' \in 0..MaxIds /\ ids' >= ids /\ mem' \in State /\ mem' # None
      /\ ValidState(mem') /\ mem'.agent \in 1..ids' /\ Untouched(mem')
      /\ store = None \/ mem' = store
  <2>1. CASE store = None /\ ids < MaxIds /\ ids' = ids + 1
             /\ mem' = [NewAgentState(ids + 1) EXCEPT !.schema = agentStateSchemaVersion]
    <3>1. mem' = [schema |-> 8, agent |-> ids + 1, registered |-> FALSE, key |-> 0,
                  asg |-> None, act |-> None, cmp |-> None]
      BY <2>1 DEF NewAgentState, agentStateSchemaVersion
    <3>2. mem' \in State BY <3>1 DEF State, TypeOK
    <3>3. ids' \in 0..MaxIds /\ ids' >= ids /\ ids + 1 \in 1..ids'
      BY <2>1, LifeAssumption DEF TypeOK
    <3>4. ValidState(mem') /\ Untouched(mem')
      BY <3>1, <3>3 DEF ValidState, Untouched, NativeMarker, agentStateSchemaVersion
    <3>5. mem'.agent \in 1..ids' BY <3>1, <3>3
    <3> QED BY <2>1, <3>2, <3>3, <3>4, <3>5, NoneAssumption
  <2>2. CASE store # None /\ ValidState(store) /\ ~store.registered
             /\ store.act = None /\ store.cmp = None /\ mem' = store /\ ids' = ids
    <3>1. store \in State /\ store.agent \in 1..ids BY <2>2 DEF TypeOK, StoreInv
    <3>2. store.key = 0 BY <2>2 DEF StoreInv, TypeOK, State
    <3> QED BY <2>2, <3>1, <3>2, LifeAssumption DEF Untouched, TypeOK
  <2> QED BY <2>1, <2>2 DEF ConnectFresh
<1>3. regs = {} /\ committed = {}
  <2>1. store = None \/ Untouched(store) BY <1>2
  <2> QED BY <2>1 DEF RegInv
<1>4. TypeOK' BY <1>0, <1>1, <1>2 DEF TypeOK, authorityVars
<1>5. CallInv'
  <2>1. CallIdle' /\ CallMem' BY <1>0, <1>1, <1>2 DEF CallIdle, CallMem
  <2>2. CallStep' /\ CallGot' BY <1>0 DEF CallStep, CallGot, Fetching
  <2> QED BY <2>1, <2>2 DEF CallInv
<1>6. StoreInv' BY <1>1, <1>2 DEF StoreInv, TypeOK
<1>7. RegInv' /\ ListInv' BY <1>1, <1>2, <1>3 DEF RegInv, ListInv, authorityVars
<1>8. ReplayProofDurable' /\ OneCommit' /\ OneCandidate'
  BY <1>1, <1>3 DEF ReplayProofDurable, OneCommit, OneCandidate, authorityVars
<1> QED BY <1>4, <1>5, <1>6, <1>7, <1>8

\* An answer moves the call to its next step: only what the answer says about
\* the step and the value it carries has to be shown.
LEMMA MoveStep ==
  ASSUME IInv, pc \notin {"idle", "identity"}, mem' = mem,
         UNCHANGED <<now, store, ids, cands, regs, lists, authorityVars>>,
         tickets' \in 0..MaxTickets, attempt' \in 0..1, resumed' = resumed,
         got' \in HubAnswer \cup {None},
         NEW step \in Steps \ {"idle", "identity"}, Goto(step),
         CallStep', CallGot', step \in Fetching => committed = {}
  PROVE  IInv'
<1> USE DEF IInv, authorityVars
<1>1. pc' = step /\ pc' \in Steps /\ sent' \in BOOLEAN BY GotoFacts
<1>2. TypeOK' BY <1>1 DEF TypeOK
<1>3. CallIdle' /\ CallMem' BY <1>1, MemFacts DEF CallInv, CallIdle, CallMem
<1>4. StoreInv' /\ RegInv' /\ ListInv' BY DEF StoreInv, RegInv, ListInv, Dead
<1>5. ReplayProofDurable' /\ OneCandidate' BY DEF ReplayProofDurable, OneCandidate
<1>6. OneCommit' BY <1>1 DEF OneCommit, Fetching
<1> QED BY <1>2, <1>3, <1>4, <1>5, <1>6 DEF CallInv

\* persistFreshPendingActivation gets a ticket for its own agent, inside the
\* lease of the placement that came with it.
LEMMA HubAssignsStep == ASSUME IInv, HubAssigns PROVE IInv'
<1> USE DEF IInv
<1>1. PICK p \in placements, account \in BOOLEAN, dead \in (now + 1)..(now + TicketLife) :
        got' = [asg |-> Leased(p, now + LeaseLife),
                ticket |-> [n |-> tickets + 1, agent |-> mem.agent, cell |-> p.cell,
                            account |-> account, exp |-> now + TicketLife, dead |-> dead]]
  BY DEF HubAssigns
<1>2. pc = "fetch" /\ pc' = "credential" /\ mem' = mem BY DEF HubAssigns, Goto
<1>3. mem \in State /\ mem.agent \in 1..MaxIds BY <1>2, MemFacts
<1>4. p.cell \in Cells /\ p.gen \in Nat \ {0} /\ p.rev \in Nat \ {0} /\ p.endpoint \in Endpoints
  BY LifeAssumption DEF TypeOK, Placement
<1>5. now + TicketLife \in Nat /\ now + LeaseLife \in Nat /\ dead \in Nat /\ now + TicketLife # 0
      /\ tickets + 1 \in Nat \ {0} /\ now + LeaseLife > now + TicketLife
      /\ mem.agent \in Nat \ {0}
  <2>1. now \in Nat /\ tickets \in Nat BY DEF TypeOK
  <2>2. TicketLife \in Nat \ {0} /\ LeaseLife \in Nat /\ LeaseLife > TicketLife
    BY LifeAssumption
  <2>3. dead \in Nat BY <2>1, <2>2
  <2>4. mem.agent \in Nat \ {0} BY <1>3
  <2> QED BY <2>1, <2>2, <2>3, <2>4
<1>6. got'.asg \in Assignment /\ got'.ticket \in Ticket
      /\ got' \in HubAnswer
  BY <1>1, <1>4, <1>5 DEF Leased, Assignment, AssignmentSet, Ticket, HubAnswer
<1>7. tickets' \in 0..MaxTickets
  <2>1. tickets' = tickets + 1 /\ tickets < MaxTickets BY DEF HubAssigns
  <2>2. tickets \in 0..MaxTickets BY DEF TypeOK
  <2> QED BY <2>1, <2>2, LifeAssumption
<1>8. CallStep' BY <1>2 DEF HubAssigns, CallInv, CallStep, Fetching, Dead
<1>9. CallGot' 
  <2>1. got' # None /\ got'.ticket # None
    BY <1>6, NoneAssumption
  <2>2. got'.ticket.agent = mem'.agent /\ got'.ticket.exp # 0 /\ got'.asg.lease > got'.ticket.exp
    BY <1>1, <1>2, <1>5 DEF Leased
  <2> QED BY <1>2, <2>1, <2>2 DEF CallGot
<1>10. committed = {} BY <1>2 DEF OneCommit
<1> QED
  BY <1>2, <1>6, <1>7, <1>8, <1>9, <1>10, MoveStep DEF HubAssigns, Steps, TypeOK, authorityVars

\* registrationCredential keeps the ticket it was given.
LEMMA AcquireCredentialStep == ASSUME IInv, AcquireCredential PROVE IInv'
<1>1. pc = "credential" /\ pc' \in {"pend", "code"} /\ Goto(pc') BY DEF AcquireCredential, Goto
<1>2. CallStep' BY <1>1 DEF AcquireCredential, IInv, CallInv, CallStep, Fetching, Dead
<1>3. CallGot' BY <1>1 DEF AcquireCredential, IInv, CallInv, CallGot
<1>4. committed = {} BY <1>1 DEF IInv, OneCommit
<1> QED
  BY <1>1, <1>2, <1>3, <1>4, MoveStep DEF AcquireCredential, Steps, IInv, TypeOK, serials

\* The provider's code changes nothing but the step.
LEMMA ReceiveCodeStep == ASSUME IInv, ReceiveCode PROVE IInv'
<1>1. pc = "code" /\ pc' = "pend" BY DEF ReceiveCode, Goto
<1>2. CallStep' BY <1>1 DEF ReceiveCode, IInv, CallInv, CallStep, Fetching, Dead
<1>3. CallGot' BY <1>1 DEF ReceiveCode, IInv, CallInv, CallGot
<1>4. committed = {} BY <1>1 DEF IInv, OneCommit
<1> QED
  BY <1>1, <1>2, <1>3, <1>4, MoveStep DEF ReceiveCode, Steps, IInv, TypeOK, serials

\* A success verdict is about the ticket this call has pending.
LEMMA RegisterAcknowledgedStep == ASSUME IInv, RegisterAcknowledged PROVE IInv'
<1>1. pc = "reg" /\ pc' = "advance" BY DEF RegisterAcknowledged, Goto
<1>2. CallStep'
  BY <1>1 DEF RegisterAcknowledged, IInv, CallInv, CallStep, Fetching, authorityVars
<1>3. CallGot' BY <1>1 DEF CallGot
<1> QED
  BY <1>1, <1>2, <1>3, MoveStep
  DEF RegisterAcknowledged, Steps, IInv, TypeOK, serials, Fetching

\* The expiry verdict starts a replacement only when the pending ticket was not
\* committed and is dead: no commit can be lost.
LEMMA RegisterExpiredStep == ASSUME IInv, RegisterExpired PROVE IInv'
<1>1. pc = "reg" /\ pc' = "fetch" /\ mem' = mem BY DEF RegisterExpired, Goto
<1>2. /\ mem \in State /\ mem = store /\ mem # None /\ ValidState(mem)
      /\ mem.act # None /\ mem.act.deadline # 0
  BY <1>1, MemFacts DEF IInv, CallInv, CallStep
<1>3. mem.act.ticket \notin committed /\ Dead(mem.act.ticket)
  BY DEF RegisterExpired, VerdictPermitsReplacement
<1>4. committed = {} BY <1>2, <1>3 DEF IInv, ReplayProofDurable
<1>5. CallStep'
  <2>1. ~mem.registered /\ mem.cmp = None /\ mem.key = 0 BY <1>2 DEF ValidState
  <2> QED BY <1>1, <1>2, <1>3, <2>1 DEF RegisterExpired, CallStep, Fetching, Dead
<1>6. CallGot' BY <1>1 DEF CallGot
<1>7. attempt' \in 0..1 BY DEF RegisterExpired, AttemptLeft
<1> QED
  BY <1>1, <1>4, <1>5, <1>6, <1>7, MoveStep DEF RegisterExpired, Steps, IInv, TypeOK, serials

\* A completion success names the candidate this call has pending.
LEMMA CompletionAcknowledgedStep == ASSUME IInv, CompletionAcknowledged PROVE IInv'
<1>1. pc = "complete" /\ pc' = "promote" BY DEF CompletionAcknowledged, Goto
<1>2. CallStep'
  BY <1>1 DEF CompletionAcknowledged, IInv, CallInv, CallStep, Fetching, authorityVars
<1>3. CallGot' BY <1>1 DEF CallGot
<1> QED
  BY <1>1, <1>2, <1>3, MoveStep
  DEF CompletionAcknowledged, Steps, IInv, TypeOK, serials, Fetching

\* The continuity rules let through only placements that are not older.
LEMMA ContinuityNotOlder ==
  ASSUME NEW prev \in Assignment, NEW cur \in Assignment, NEW adopt \in BOOLEAN,
         EnsureRefreshAssignmentContinuity(prev, cur, adopt)
  PROVE  NotOlder(prev, cur)
BY DEF EnsureRefreshAssignmentContinuity, EnsureAssignmentContinuity, Reassigned, NotOlder

\* renewCompletedAssignment holds an answer that passed the continuity rules.
LEMMA HubRefreshesStep == ASSUME IInv, HubRefreshes PROVE IInv'
<1> USE DEF IInv
<1>1. PICK p \in placements, adopt \in BOOLEAN :
        /\ EnsureRefreshAssignmentContinuity(mem.asg, Leased(p, now + LeaseLife), adopt)
        /\ got' = [asg |-> Leased(p, now + LeaseLife), ticket |-> None]
  BY DEF HubRefreshes
<1>2. pc = "renew" /\ pc' = "adopt" /\ mem' = mem BY DEF HubRefreshes, Goto
<1>3. mem \in State /\ mem = store /\ mem # None /\ mem.registered
  BY <1>2, MemFacts DEF CallInv, CallStep
<1>4. mem.asg \in Assignment BY <1>3 DEF StoreInv, State
<1>5. p.cell \in Cells /\ p.gen \in Nat \ {0} /\ p.rev \in Nat \ {0} /\ p.endpoint \in Endpoints
  BY LifeAssumption DEF TypeOK, Placement
<1>6. got'.asg \in Assignment /\ got' \in HubAnswer
  BY <1>1, <1>5, LifeAssumption DEF Leased, Assignment, AssignmentSet, HubAnswer, TypeOK
<1>7. NotOlder(mem.asg, got'.asg) BY <1>1, <1>4, <1>6, ContinuityNotOlder
<1>8. CallGot' BY <1>2, <1>6, <1>7, NoneAssumption DEF CallGot
<1>9. CallStep' BY <1>2, <1>3 DEF CallStep, Fetching
<1> QED
  BY <1>2, <1>6, <1>8, <1>9, MoveStep DEF HubRefreshes, Steps, TypeOK, serials, Fetching

\* Every REG carries the durable pending ticket.
LEMMA SendREGStep == ASSUME IInv, SendREG PROVE IInv'
<1> USE DEF IInv, SendREG
<1>1. /\ mem \in State /\ mem = store /\ mem # None /\ mem.act # None
      /\ mem.act.ticket \in Ticket
  <2>1. mem \in State /\ mem = store /\ mem # None BY MemFacts
  <2>2. mem.act # None BY DEF CallInv, CallStep
  <2> QED BY <2>1, <2>2 DEF State, Activation
<1>2. sent' \in BOOLEAN BY Zenon
<1>3. TypeOK' BY <1>1, <1>2 DEF TypeOK, serials, authorityVars
<1>4. CallInv'
  BY DEF CallInv, CallIdle, CallMem, CallStep, CallGot, Dead, serials, authorityVars
<1>5. StoreInv' /\ ListInv' BY DEF StoreInv, ListInv, serials, authorityVars
<1>6. RegInv' BY <1>1 DEF RegInv, Dead, Untouched, authorityVars
<1>7. ReplayProofDurable' /\ OneCommit' /\ OneCandidate'
  BY DEF ReplayProofDurable, OneCommit, OneCandidate, authorityVars
<1> QED BY <1>3, <1>4, <1>5, <1>6, <1>7

\* Every completion request carries the durable candidate and its cell.
LEMMA SendCompletionStep == ASSUME IInv, SendCompletion PROVE IInv'
<1> USE DEF IInv, SendCompletion
<1>1. /\ mem \in State /\ mem = store /\ mem # None /\ ValidState(mem)
      /\ mem.agent \in 1..MaxIds /\ mem.cmp # None
  BY MemFacts DEF CallInv, CallStep
<1>2. mem.asg # None /\ mem.cmp.cell = mem.asg.cell BY <1>1 DEF ValidState
<1>3. mem.cmp.cand \in 1..MaxCands /\ mem.asg.cell \in Cells
  <2>1. mem.cmp.cand \in 1..cands BY <1>1 DEF StoreInv
  <2>2. mem.asg.cell \in Cells BY <1>1, <1>2 DEF State, Assignment, AssignmentSet
  <2> QED BY <2>1, <2>2, LifeAssumption DEF TypeOK
<1> DEFINE m == [agent |-> mem.agent, cell |-> mem.asg.cell, cand |-> mem.cmp.cand]
<1>4. m \in CompletionRequest /\ lists' = lists \cup {m} BY <1>1, <1>3 DEF CompletionRequest
<1>5. sent' \in BOOLEAN BY Zenon
<1>6. TypeOK' BY <1>4, <1>5 DEF TypeOK, serials, authorityVars
<1>7. CallInv'
  BY DEF CallInv, CallIdle, CallMem, CallStep, CallGot, Dead, serials, authorityVars
<1>8. StoreInv' /\ RegInv' BY DEF StoreInv, RegInv, Dead, serials, authorityVars
<1>9. ListInv'
  <2>1. m.agent = store.agent /\ m.cand = store.cmp.cand /\ m.cell = store.cmp.cell
    BY <1>1, <1>2
  <2> HIDE DEF m
  <2> QED BY <1>1, <1>4, <2>1 DEF ListInv, authorityVars
<1>10. \A k \in lists : k = m
  <2> SUFFICES ASSUME NEW k \in lists PROVE k = m OBVIOUS
  <2>1. ~mem.registered BY <1>1 DEF ValidState
  <2>2. k.agent = mem.agent /\ k.cand = mem.cmp.cand /\ k.cell = mem.asg.cell
    BY <1>1, <1>2, <2>1 DEF ListInv
  <2>3. k \in CompletionRequest BY DEF TypeOK
  <2> QED BY <2>2, <2>3 DEF CompletionRequest
<1>11. OneCandidate' BY <1>4, <1>10 DEF OneCandidate
<1>12. ReplayProofDurable' /\ OneCommit' BY DEF ReplayProofDurable, OneCommit, authorityVars
<1> QED BY <1>6, <1>7, <1>8, <1>9, <1>11, <1>12

(***************************************************************************)
(* The durable saves.                                                      *)
(***************************************************************************)

\* A save that commits: the call either continues with the saved state as its
\* working copy or ends.  What has to be shown of the saved state is that the
\* loader accepts it and that it still backs what is on the wire.
LEMMA SaveStep ==
  ASSUME IInv, pc # "idle", NEW s \in State, NEW step \in Steps \ {"idle", "identity"},
         SaveThen(s, step) \/ SaveAndReturn(s),
         UNCHANGED <<now, ids, tickets, regs, lists, authorityVars>>,
         cands' \in 0..MaxCands, ValidState(s), s.agent \in 1..ids,
         s.cmp # None => s.cmp.cand \in 1..cands', s.key \in 0..cands',
         s.registered => s.asg # None, s.key # 0 => s.registered,
         RegInv', ListInv', ReplayProofDurable',
         step \in Fetching => committed = {} /\ Untouched(s),
         step \in {"reg", "complete", "renew"} \/ step = "fetch",
         step = "reg" => s.act # None /\ s.act.deadline # 0,
         step = "complete" => s.cmp # None,
         step = "renew" => s.registered
  PROVE  IInv'
<1> USE DEF IInv, authorityVars
<1>1. s # None /\ store' = s BY NoneAssumption DEF SaveThen, SaveAndReturn
<1>2. StoreInv' BY <1>1 DEF StoreInv
<1>3. OneCandidate' BY DEF OneCandidate
<1>4. CASE Return
  <2>1. TypeOK' BY <1>1, <1>4, ReturnFacts DEF TypeOK
  <2>2. OneCommit' BY <1>4, ReturnFacts DEF OneCommit
  <2> QED BY <1>2, <1>3, <1>4, <2>1, <2>2, ReturnFacts
<1>5. CASE mem' = s /\ got' = None /\ Goto(step) /\ UNCHANGED <<attempt, resumed>>
  <2>1. pc' = step /\ pc' \in Steps /\ sent' \in BOOLEAN BY <1>5, GotoFacts
  <2>2. TypeOK' BY <1>1, <1>5, <2>1 DEF TypeOK
  <2>3. CallIdle' /\ CallMem' BY <1>1, <1>5, <2>1 DEF CallIdle, CallMem
  <2>4. CallStep' BY <1>5, <2>1 DEF CallStep, Fetching, Untouched
  <2>5. CallGot' BY <1>5, <2>1 DEF CallGot
  <2>6. OneCommit' BY <2>1 DEF OneCommit, Fetching
  <2> QED BY <1>2, <1>3, <2>2, <2>3, <2>4, <2>5, <2>6 DEF CallInv
<1> QED BY <1>4, <1>5 DEF SaveThen, SaveAndReturn

\* The identity is saved while nothing was ever sent for the agent.
LEMMA SaveIdentityStep == ASSUME IInv, SaveIdentity PROVE IInv'
<1> USE DEF IInv
<1>1. pc = "identity" /\ SaveThen(mem, "fetch") /\ store' = mem BY DEF SaveIdentity, SaveThen
<1>2. mem \in State /\ ValidState(mem) /\ mem.agent \in 1..ids /\ Untouched(mem)
      /\ (store = None \/ mem = store)
  BY <1>1 DEF CallInv, CallMem, TypeOK
<1>3. regs = {} /\ lists = {} /\ committed = {}
  BY <1>1, <1>2 DEF RegInv, ListInv, OneCommit, Untouched
<1>4. RegInv' BY <1>3 DEF SaveIdentity, RegInv, authorityVars
<1>5. ListInv' BY <1>3 DEF SaveIdentity, ListInv, authorityVars
<1>6. ReplayProofDurable' BY <1>3 DEF SaveIdentity, ReplayProofDurable, authorityVars
<1>7. mem.key \in 0..cands /\ mem.cmp = None /\ ~mem.registered /\ mem.key = 0
  BY <1>2 DEF Untouched, TypeOK
<1> QED
  BY <1>1, <1>2, <1>3, <1>4, <1>5, <1>6, <1>7, SaveStep
  DEF SaveIdentity, Steps, serials, TypeOK

\* Deriving the deadline of an old pending activation keeps its ticket.
LEMMA MigrateLegacyActivationStep == ASSUME IInv, MigrateLegacyActivation PROVE IInv'
<1> USE DEF IInv
<1>0. /\ pc = "idle" /\ store # None /\ ValidState(store) /\ ~store.registered
      /\ store.act # None /\ store.act.deadline = 0
      /\ UNCHANGED <<now, pc, mem, got, attempt, resumed, sent, serials, regs, lists, authorityVars>>
  BY DEF MigrateLegacyActivation
<1>1. store \in State /\ store.act \in Activation /\ store.agent \in 1..ids
  BY <1>0 DEF TypeOK, StoreInv, State
<1> DEFINE e == store.act.ticket.exp
           a == DatedActivation(store.act)
<1>2. e \in Nat /\ e # 0 /\ e + Horizon \in Nat /\ e + Horizon # 0
  <2>1. e \in Nat BY <1>1 DEF Activation, Ticket
  <2>2. e # 0 BY <1>0 DEF ValidState, ValidActivation
  <2> QED BY <2>1, <2>2, HorizonAssumption
<1>3. a \in Activation /\ a # None /\ a.ticket = store.act.ticket /\ a.asg = store.act.asg
      /\ a.anchor = e /\ a.deadline = RecoveryDeadline(e)
  BY <1>1, <1>2, NoneAssumption DEF Activation, RecoveryDeadline, DatedActivation
<1>4. store' = [store EXCEPT !.schema = agentStateSchemaVersion, !.act = a]
  BY DEF MigrateLegacyActivation
<1> HIDE DEF a
<1>5. /\ store' \in State /\ store' # None
      /\ store'.schema = 8 /\ store'.act = a /\ store'.agent = store.agent
      /\ ~store'.registered /\ store'.key = store.key
      /\ store'.asg = store.asg /\ store'.cmp = store.cmp
  <2>1. store'.schema = 8 /\ store'.act = a /\ store'.agent = store.agent /\ store'.key = store.key
        /\ store'.asg = store.asg /\ store'.cmp = store.cmp /\ store'.registered = store.registered
    BY <1>1, <1>4 DEF State, agentStateSchemaVersion
  <2>2. store' \in State BY <1>1, <1>3, <1>4 DEF State, agentStateSchemaVersion
  <2> QED BY <1>0, <2>1, <2>2, NoneAssumption
<1>6. ValidState(store')
  BY <1>0, <1>1, <1>2, <1>3, <1>5
  DEF ValidState, ValidActivation, ValidRecoveryDeadline, NativeMarker,
      registrationRecoveryStateSchemaVersion, agentStateSchemaVersion
<1>7. TypeOK' BY <1>0, <1>5 DEF TypeOK, serials, authorityVars
<1>8. CallInv'
  BY <1>0 DEF CallInv, CallIdle, CallMem, CallStep, CallGot, Fetching, serials
<1>9. StoreInv' BY <1>0, <1>1, <1>5, <1>6 DEF StoreInv, serials
<1>10. RegInv' BY <1>0, <1>3, <1>5 DEF RegInv, Untouched, Dead, authorityVars
<1>11. ListInv' BY <1>0, <1>5 DEF ListInv, authorityVars
<1>12. ReplayProofDurable' BY <1>0, <1>3, <1>5 DEF ReplayProofDurable, authorityVars
<1>13. OneCommit' /\ OneCandidate' BY <1>0 DEF OneCommit, OneCandidate, authorityVars
<1> QED BY <1>7, <1>8, <1>9, <1>10, <1>11, <1>12, <1>13

\* The pending activation is durable before its REG: it replaces nothing but a
\* dead ticket and keeps the deadline of the one it replaces.
LEMMA SavePendingActivationStep == ASSUME IInv, SavePendingActivation PROVE IInv'
<1> USE DEF IInv
<1>1. pc = "pend" /\ SaveThen(PendingState, "reg") BY DEF SavePendingActivation
<1>2. mem \in State /\ mem = store /\ mem # None /\ ValidState(mem) /\ mem.agent \in 1..ids
  BY <1>1, MemFacts
<1>3. /\ ~mem.registered /\ mem.cmp = None /\ mem.key = 0
      /\ mem.act # None => mem.act.deadline # 0 /\ Dead(mem.act.ticket)
  BY <1>1 DEF CallInv, CallStep, Fetching
<1>4. /\ got \in HubAnswer /\ got.asg \in Assignment /\ got.ticket \in Ticket
      /\ got.ticket.agent = mem.agent /\ got.ticket.exp # 0
      /\ got.asg.lease > got.ticket.exp
  BY <1>1 DEF CallInv, CallGot, TypeOK, HubAnswer
<1>5. RecoveryAnchor \in Nat /\ RecoveryAnchor # 0
  <2>1. CASE mem.act = None BY <1>4, <2>1 DEF RecoveryAnchor, Ticket
  <2>2. CASE mem.act # None
    <3>1. mem.act \in Activation /\ mem.schema \in Nat BY <1>2, <2>2 DEF State
    <3>2. mem.act.anchor # 0 BY <1>2, <1>3, <2>2, <3>1 DEF ValidState, ValidActivation, ValidRecoveryDeadline
    <3> QED BY <2>2, <3>1, <3>2 DEF RecoveryAnchor, Activation
  <2> QED BY <2>1, <2>2
<1>6. RecoveryDeadline(RecoveryAnchor) \in Nat /\ RecoveryDeadline(RecoveryAnchor) # 0
  BY <1>5, HorizonAssumption DEF RecoveryDeadline
<1>7. NewActivation \in Activation /\ NewActivation # None
  BY <1>4, <1>5, <1>6, NoneAssumption DEF NewActivation, Activation
<1> DEFINE s == PendingState
<1>8. /\ s \in State /\ s.schema = 8 /\ s.act = NewActivation /\ s.asg = got.asg
      /\ s.agent = mem.agent /\ s.cmp = None /\ ~s.registered /\ s.key = 0
  BY <1>2, <1>3, <1>4, <1>7 DEF PendingState, State, agentStateSchemaVersion
<1>9. store' = s BY <1>1 DEF SaveThen
<1> HIDE DEF s
<1>10. ValidState(s)
  BY <1>2, <1>4, <1>5, <1>7, <1>8, NoneAssumption
  DEF ValidState, ValidActivation, ValidRecoveryDeadline, NewActivation, NativeMarker, Ticket,
      registrationRecoveryStateSchemaVersion, agentStateSchemaVersion
<1>11. committed = {} BY <1>1 DEF OneCommit
<1>12. \A t \in regs : Dead(t)
  BY <1>2, <1>3, <1>11 DEF RegInv
<1>13. RegInv'
  BY <1>7, <1>8, <1>9, <1>11, <1>12, NoneAssumption
  DEF SavePendingActivation, RegInv, Untouched, Dead, authorityVars
<1>14. lists = {} BY <1>2, <1>3 DEF ListInv
<1>15. ListInv' BY <1>14 DEF SavePendingActivation, ListInv, authorityVars
<1>16. ReplayProofDurable' BY <1>11 DEF SavePendingActivation, ReplayProofDurable, authorityVars
<1>17. s.act.deadline # 0 BY <1>6, <1>8 DEF NewActivation
<1>18. s.key \in 0..cands BY <1>8 DEF TypeOK
<1>19. SaveThen(s, "reg") BY <1>1 DEF s
<1> QED
  BY <1>1, <1>2, <1>7, <1>8, <1>10, <1>13, <1>15, <1>16, <1>17, <1>18, <1>19, SaveStep
  DEF SavePendingActivation, Steps, serials, TypeOK, Fetching

\* The candidate is durable before it is sent, in place of a committed ticket
\* and under the same deadline.
LEMMA AdvanceToCompletionStep == ASSUME IInv, AdvanceToCompletion PROVE IInv'
<1> USE DEF IInv
<1>1. /\ pc = "advance" /\ SaveThen(AdvancedState, "complete") /\ cands' = cands + 1
      /\ cands' \in 0..MaxCands /\ cands \in Nat
  BY LifeAssumption DEF AdvanceToCompletion, TypeOK
<1>2. mem \in State /\ mem = store /\ mem # None /\ ValidState(mem) /\ mem.agent \in 1..ids
  BY <1>1, MemFacts
<1>3. mem.act # None /\ mem.act.deadline # 0 /\ mem.act.ticket \in committed
  BY <1>1 DEF CallInv, CallStep
<1>4. /\ mem.act \in Activation /\ mem.asg \in Assignment /\ mem.asg # None /\ mem.schema \in Nat
      /\ ValidRecoveryDeadline(mem.act, mem.schema)
      /\ ~mem.registered /\ mem.cmp = None /\ mem.key = 0
  <2>1. ValidActivation(mem) /\ ~mem.registered /\ mem.cmp = None /\ mem.key = 0
    BY <1>2, <1>3 DEF ValidState
  <2> QED BY <1>2, <1>3, <2>1 DEF ValidActivation, State
<1>5. mem.act.anchor # 0 /\ mem.act.deadline = RecoveryDeadline(mem.act.anchor)
  BY <1>3, <1>4 DEF ValidRecoveryDeadline
<1>6. /\ NewCompletion \in Completion /\ NewCompletion # None
      /\ NewCompletion.cell = mem.asg.cell /\ NewCompletion.gen = mem.asg.gen
      /\ NewCompletion.cand = cands + 1
      /\ NewCompletion.anchor = mem.act.anchor /\ NewCompletion.deadline = mem.act.deadline
  <2>1. NewCompletion \in Completion
    BY <1>1, <1>4 DEF NewCompletion, Completion, Assignment, AssignmentSet, Activation
  <2> QED BY <2>1, NoneAssumption DEF NewCompletion
<1> DEFINE s == AdvancedState
<1>7. /\ s \in State /\ s.schema = 8 /\ s.act = None /\ s.cmp = NewCompletion
      /\ s.agent = mem.agent /\ s.asg = mem.asg /\ ~s.registered /\ s.key = 0
  <2>1. /\ s.schema = 8 /\ s.act = None /\ s.cmp = NewCompletion /\ s.agent = mem.agent
        /\ s.asg = mem.asg /\ s.registered = mem.registered /\ s.key = mem.key
    BY <1>2 DEF AdvancedState, State, agentStateSchemaVersion
  <2>2. s \in State BY <1>2, <1>6 DEF AdvancedState, State, agentStateSchemaVersion
  <2> QED BY <1>4, <2>1, <2>2
<1>8. store' = s BY <1>1 DEF SaveThen
<1>9. SaveThen(s, "complete") BY <1>1
<1> HIDE DEF s
<1>10. ValidState(s)
  BY <1>2, <1>4, <1>5, <1>6, <1>7
  DEF ValidState, ValidRecoveryDeadline, NativeMarker,
      registrationRecoveryStateSchemaVersion, agentStateSchemaVersion
<1>11. UNCHANGED <<now, ids, tickets, regs, lists, authorityVars>> BY DEF AdvanceToCompletion
<1>12. RegInv'
  BY <1>2, <1>3, <1>6, <1>7, <1>8, <1>11, NoneAssumption
  DEF RegInv, Untouched, Dead, authorityVars
<1>13. lists = {} BY <1>2, <1>4 DEF ListInv
<1>14. ListInv' BY <1>11, <1>13 DEF ListInv, authorityVars
<1>15. ReplayProofDurable'
  BY <1>2, <1>6, <1>7, <1>8, <1>11, NoneAssumption DEF ReplayProofDurable, authorityVars
<1>16. s.cmp.cand \in 1..cands' /\ s.key \in 0..cands' BY <1>1, <1>6, <1>7
<1> QED
  BY <1>1, <1>2, <1>6, <1>7, <1>9, <1>10, <1>11, <1>12, <1>14, <1>15, <1>16, SaveStep
  DEF Steps, Fetching

\* The final save turns the pending candidate into the device key.
LEMMA PromoteCandidateStep == ASSUME IInv, PromoteCandidate PROVE IInv'
<1> USE DEF IInv
<1>1. pc = "promote" /\ (SaveThen(CompletedState, "renew") \/ SaveAndReturn(CompletedState))
  BY DEF PromoteCandidate
<1>2. mem \in State /\ mem = store /\ mem # None /\ ValidState(mem) /\ mem.agent \in 1..ids
      /\ mem.cmp # None
  BY <1>1, MemFacts DEF CallInv, CallStep
<1>3. /\ mem.cmp \in Completion /\ mem.cmp.cand \in 1..cands /\ mem.cmp.cand \in Nat \ {0}
      /\ mem.act = None /\ mem.asg # None
  BY <1>2 DEF State, Completion, StoreInv, ValidState
<1> DEFINE s == CompletedState
<1>4. /\ s \in State /\ s.schema = 8 /\ s.registered /\ s.key = mem.cmp.cand
      /\ s.cmp = None /\ s.agent = mem.agent /\ s.act = None /\ s.asg = mem.asg
  <2>1. /\ s.schema = 8 /\ s.key = mem.cmp.cand /\ s.cmp = None
        /\ s.agent = mem.agent /\ s.act = mem.act /\ s.asg = mem.asg
    BY <1>2 DEF CompletedState, State, agentStateSchemaVersion
  <2>2. s.registered BY <1>2 DEF CompletedState, State
  <2>3. s \in State BY <1>2, <1>3 DEF CompletedState, State, agentStateSchemaVersion
  <2> QED BY <1>3, <2>1, <2>2, <2>3
<1>5. store' = s BY <1>1 DEF SaveThen, SaveAndReturn
<1>6. SaveThen(s, "renew") \/ SaveAndReturn(s) BY <1>1
<1> HIDE DEF s
<1>7. ValidState(s) BY <1>2, <1>3, <1>4 DEF ValidState, NativeMarker, agentStateSchemaVersion
<1>8. UNCHANGED <<now, serials, regs, lists, authorityVars>> BY DEF PromoteCandidate
<1>9. s # None BY <1>4, NoneAssumption
<1>10. RegInv' BY <1>2, <1>3, <1>4, <1>5, <1>8, <1>9 DEF RegInv, Untouched, Dead, authorityVars
<1>11. ListInv'
  <2>1. ~mem.registered BY <1>2 DEF ValidState
  <2> QED BY <1>2, <1>4, <1>5, <1>8, <1>9, <2>1 DEF ListInv, authorityVars
<1>12. ReplayProofDurable'
  BY <1>2, <1>4, <1>5, <1>8, <1>9 DEF ReplayProofDurable, authorityVars
<1>13. s.key \in 0..cands /\ cands' \in 0..MaxCands BY <1>3, <1>4, <1>8 DEF serials, TypeOK
<1> QED
  BY <1>1, <1>2, <1>3, <1>4, <1>6, <1>7, <1>8, <1>10, <1>11, <1>12, <1>13, SaveStep
  DEF Steps, Fetching, serials

\* A renewal replaces the placement of a completed registration and nothing else.
LEMMA SaveRenewedAssignmentStep == ASSUME IInv, SaveRenewedAssignment PROVE IInv'
<1> USE DEF IInv
<1>1. pc = "adopt" /\ SaveAndReturn([mem EXCEPT !.asg = got.asg]) BY DEF SaveRenewedAssignment
<1>2. mem \in State /\ mem = store /\ mem # None /\ ValidState(mem) /\ mem.agent \in 1..ids
      /\ mem.registered
  BY <1>1, MemFacts DEF CallInv, CallStep
<1>3. got \in HubAnswer /\ got.asg \in Assignment
  BY <1>1 DEF CallInv, CallGot, TypeOK, HubAnswer
<1>4. mem.act = None /\ mem.cmp = None /\ mem.key \in 0..cands
  BY <1>2 DEF ValidState, StoreInv
<1> DEFINE s == [mem EXCEPT !.asg = got.asg]
<1>5. /\ s \in State /\ s.schema = mem.schema /\ s.registered /\ s.key = mem.key
      /\ s.cmp = None /\ s.agent = mem.agent /\ s.act = None /\ s.asg = got.asg
  <2>1. /\ s.schema = mem.schema /\ s.registered = mem.registered /\ s.key = mem.key
        /\ s.cmp = mem.cmp /\ s.agent = mem.agent /\ s.act = mem.act /\ s.asg = got.asg
    BY <1>2 DEF State
  <2>2. s \in State BY <1>2, <1>3 DEF State
  <2> QED BY <1>2, <1>4, <2>1, <2>2
<1>6. store' = s /\ SaveAndReturn(s) BY <1>1 DEF SaveAndReturn
<1> HIDE DEF s
<1>7. ValidState(s) BY <1>2, <1>4, <1>5 DEF ValidState, NativeMarker, State
<1>8. UNCHANGED <<now, serials, regs, lists, authorityVars>> BY DEF SaveRenewedAssignment
<1>9. s # None /\ s.asg # None BY <1>3, <1>5, NoneAssumption
<1>10. RegInv' BY <1>2, <1>4, <1>5, <1>6, <1>8, <1>9 DEF RegInv, Untouched, Dead, authorityVars
<1>11. ListInv' BY <1>2, <1>4, <1>5, <1>6, <1>8, <1>9 DEF ListInv, authorityVars
<1>12. ReplayProofDurable'
  BY <1>2, <1>5, <1>6, <1>8, <1>9 DEF ReplayProofDurable, authorityVars
<1>13. s.key \in 0..cands' /\ cands' \in 0..MaxCands BY <1>4, <1>5, <1>8 DEF serials, TypeOK
<1>14. "renew" \in Steps \ {"idle", "identity"} BY DEF Steps
<1> QED
  BY <1>1, <1>2, <1>5, <1>6, <1>7, <1>8, <1>9, <1>10, <1>11, <1>12, <1>13, <1>14, SaveStep
  DEF Fetching, serials

(***************************************************************************)
(* The initial states, and the theorems of the specification.              *)
(***************************************************************************)

\* A store written before schema 6 is one the loader accepts.
LEMMA LegacyFacts ==
  ASSUME NEW p \in Placement, NEW account \in BOOLEAN, NEW t0 \in Nat \ {0}
  PROVE  /\ LegacyTicket(p, account, t0) \in Ticket
         /\ Leased(p, t0 + LeaseLife) \in Assignment
         /\ p.cell \in Cells /\ p.gen \in Nat \ {0}
<1>1. p.cell \in Cells /\ p.gen \in Nat \ {0} /\ p.rev \in Nat \ {0} /\ p.endpoint \in Endpoints
  BY LifeAssumption DEF Placement
<1>2. t0 + TicketLife \in Nat /\ t0 + LeaseLife \in Nat BY LifeAssumption
<1>3. LegacyTicket(p, account, t0) \in Ticket BY <1>1, <1>2 DEF LegacyTicket, Ticket
<1>4. Leased(p, t0 + LeaseLife) \in Assignment
  BY <1>1, <1>2 DEF Leased, Assignment, AssignmentSet
<1> QED BY <1>1, <1>3, <1>4

\* An idle client with nothing in memory satisfies what is said of calls.
LEMMA InitCall == ASSUME Init PROVE CallInv /\ pc \in Steps /\ sent \in BOOLEAN
                                    /\ resumed \in BOOLEAN /\ now \in Nat
                                    /\ placements \subseteq Placement
<1>1. sent \in BOOLEAN /\ resumed \in BOOLEAN BY Zenon DEF Init
<1>2. CallInv BY DEF Init, CallInv, CallIdle, CallMem, CallStep, CallGot, Fetching
<1>3. placements \subseteq Placement BY Zenon DEF Init
<1> QED BY <1>1, <1>2, <1>3 DEF Init, Steps

\* Every store a run may start from, empty or written before schema 6, fits
\* the invariant.
LEMMA InitInv == ASSUME Init PROVE IInv
<1>0. now = 1 /\ mem = None /\ got = None /\ attempt = 0 /\ pc = "idle" BY DEF Init
<1>00. 1 \in 1..MaxIds /\ 1 \in 1..MaxCands /\ 1 \in 0..MaxTickets /\ 0 \in 0..MaxTickets
       /\ 0 \in 0..MaxCands /\ 0 \in 0..MaxIds /\ 1 \in 0..MaxIds /\ 1 \in 0..MaxCands
  BY LifeAssumption
<1>1. CASE InitFresh
  <2> USE <1>1 DEF InitFresh
  <2>1. bound \in [1..MaxIds -> 0..MaxCands] BY <1>00
  <2>2. TypeOK BY <1>0, <1>00, <2>1, InitCall DEF TypeOK
  <2>3. StoreInv /\ RegInv /\ ReplayProofDurable /\ OneCandidate /\ OneCommit
    BY <1>0 DEF StoreInv, RegInv, ReplayProofDurable, OneCandidate, OneCommit
  <2>4. ListInv BY DEF ListInv
  <2> QED BY <2>2, <2>3, <2>4, InitCall DEF IInv
<1>2. CASE InitLegacyActivation
  <2>1. PICK p \in placements, account \in BOOLEAN :
          /\ store = LegacyState(p, now,
                        [ticket |-> LegacyTicket(p, account, now),
                         asg |-> Leased(p, now + LeaseLife), anchor |-> 0, deadline |-> 0], None)
          /\ regs \in {{}, {LegacyTicket(p, account, now)}} /\ committed \in {{}, regs}
    BY <1>2 DEF InitLegacyActivation
  <2>2. ids = 1 /\ tickets = 1 /\ cands = 0 /\ lists = {} /\ bound = [a \in 1..MaxIds |-> 0]
    BY <1>2 DEF InitLegacyActivation
  <2> DEFINE t == LegacyTicket(p, account, now)
             l == Leased(p, now + LeaseLife)
             a == [ticket |-> t, asg |-> l, anchor |-> 0, deadline |-> 0]
  <2>3. t \in Ticket /\ l \in Assignment BY <1>0, InitCall, LegacyFacts
  <2>4. t.agent = 1 /\ t.exp = now + TicketLife /\ l.lease = now + LeaseLife
    BY DEF LegacyTicket, Leased
  <2>5. store = [schema |-> 5, agent |-> 1, registered |-> FALSE, key |-> 0,
                 asg |-> l, act |-> a, cmp |-> None]
    BY <2>1 DEF LegacyState, registrationRecoveryStateSchemaVersion
  <2>6. regs \in {{}, {t}} /\ committed \in {{}, regs} BY <2>1
  <2> HIDE DEF t, l
  <2>7. a \in Activation /\ a # None /\ l # None BY <2>3, NoneAssumption DEF Activation
  <2>8. store \in State BY <2>3, <2>5, <2>7 DEF State
  <2>9. ValidState(store)
    <3>1. l.lease > t.exp /\ t.exp # 0 BY <1>0, <2>4, LifeAssumption
    <3> QED
      BY <2>4, <2>5, <2>7, <3>1
      DEF ValidState, ValidActivation, ValidRecoveryDeadline, NativeMarker,
          registrationRecoveryStateSchemaVersion, agentStateSchemaVersion
  <2>10. bound \in [1..MaxIds -> 0..MaxCands] BY <1>00, <2>2
  <2>11. TypeOK BY <1>0, <1>00, <2>2, <2>3, <2>6, <2>8, <2>10, InitCall DEF TypeOK
  <2>12. store # None /\ store.agent = 1 /\ store.act = a /\ a.ticket = t
    BY <2>5, <2>8, NoneAssumption
  <2>13. StoreInv BY <2>2, <2>5, <2>9 DEF StoreInv
  <2>14. RegInv BY <2>6, <2>7, <2>12 DEF RegInv, Untouched
  <2>15. ListInv BY <2>2 DEF ListInv
  <2>16. ReplayProofDurable BY <2>4, <2>6, <2>7, <2>12 DEF ReplayProofDurable
  <2>17. OneCommit /\ OneCandidate BY <1>0, <2>2, <2>6 DEF OneCommit, OneCandidate
  <2> QED BY <2>11, <2>13, <2>14, <2>15, <2>16, <2>17, InitCall DEF IInv
<1>3. CASE InitLegacyCompletion
  <2>1. PICK p \in placements, account \in BOOLEAN :
          /\ store = LegacyState(p, now, None,
                        [cand |-> 1, cell |-> p.cell, gen |-> p.gen, anchor |-> 0, deadline |-> 0])
          /\ regs = {LegacyTicket(p, account, now)} /\ committed = {LegacyTicket(p, account, now)}
          /\ lists \in {{}, {[agent |-> 1, cell |-> p.cell, cand |-> 1]}}
    BY <1>3 DEF InitLegacyCompletion
  <2>2. /\ ids = 1 /\ tickets = 1 /\ cands = 1
        /\ \/ bound = [b \in 1..MaxIds |-> 0]
           \/ lists # {} /\ bound = [b \in 1..MaxIds |-> IF b = 1 THEN 1 ELSE 0]
    BY <1>3 DEF InitLegacyCompletion
  <2> DEFINE t == LegacyTicket(p, account, now)
             l == Leased(p, now + LeaseLife)
             c == [cand |-> 1, cell |-> p.cell, gen |-> p.gen, anchor |-> 0, deadline |-> 0]
             m == [agent |-> 1, cell |-> p.cell, cand |-> 1]
  <2>3. t \in Ticket /\ l \in Assignment /\ p.cell \in Cells /\ p.gen \in Nat \ {0}
    BY <1>0, InitCall, LegacyFacts
  <2>4. t.agent = 1 /\ l.cell = p.cell /\ l.gen = p.gen BY DEF LegacyTicket, Leased
  <2>5. store = [schema |-> 5, agent |-> 1, registered |-> FALSE, key |-> 0,
                 asg |-> l, act |-> None, cmp |-> c]
    BY <2>1 DEF LegacyState, registrationRecoveryStateSchemaVersion
  <2>6. regs = {t} /\ committed = {t} /\ lists \in {{}, {m}} BY <2>1
  <2> HIDE DEF t, l
  <2>7. c \in Completion /\ c # None /\ l # None BY <2>3, NoneAssumption DEF Completion
  <2>8. store \in State BY <2>3, <2>5, <2>7 DEF State
  <2>9. ValidState(store)
    BY <2>4, <2>5, <2>7
    DEF ValidState, ValidRecoveryDeadline, NativeMarker,
        registrationRecoveryStateSchemaVersion, agentStateSchemaVersion
  <2>10. bound \in [1..MaxIds -> 0..MaxCands] BY <1>00, <2>2
  <2>11. m \in CompletionRequest BY <1>00, <2>3 DEF CompletionRequest
  <2>12. TypeOK BY <1>0, <1>00, <2>2, <2>3, <2>6, <2>8, <2>10, <2>11, InitCall DEF TypeOK
  <2>13. store # None /\ store.agent = 1 /\ store.cmp = c /\ store.act = None
    BY <2>5, <2>8, NoneAssumption
  <2>14. StoreInv BY <2>2, <2>5, <2>9 DEF StoreInv
  <2>15. RegInv BY <2>6, <2>7, <2>13 DEF RegInv, Untouched
  <2>16. ListInv
    <3>1. m.agent = store.agent /\ m.cand = store.cmp.cand /\ m.cell = store.cmp.cell BY <2>13
    <3>2. \A b \in 1..MaxIds : bound[b] # 0 => b = 1 /\ bound[b] = 1 /\ lists = {m}
      BY <2>2, <2>6
    <3>3. m.agent = 1 /\ m.cand = 1 OBVIOUS
    <3> HIDE DEF m
    <3> QED BY <2>6, <2>7, <2>13, <3>1, <3>2, <3>3 DEF ListInv
  <2>17. ReplayProofDurable BY <2>4, <2>6, <2>7, <2>13 DEF ReplayProofDurable
  <2>18. OneCommit /\ OneCandidate BY <1>0, <2>6 DEF OneCommit, OneCandidate
  <2> QED BY <2>12, <2>14, <2>15, <2>16, <2>17, <2>18, InitCall DEF IInv
<1> QED BY <1>1, <1>2, <1>3 DEF Init

\* No step of the client, the authority or the clock leaves the invariant.
LEMMA NextInv == ASSUME IInv, [Next]_vars PROVE IInv'
<1>1. CASE Client
  BY <1>1, ConnectFreshStep, SaveIdentityStep, MigrateLegacyActivationStep,
     ResumeActivationStep, ResumeCompletionStep, BeginRenewalStep, HubAssignsStep,
     AcquireCredentialStep, ReceiveCodeStep, SavePendingActivationStep, SendREGStep,
     RegisterAcknowledgedStep, RegisterExpiredStep, AdvanceToCompletionStep,
     SendCompletionStep, CompletionAcknowledgedStep, PromoteCandidateStep,
     HubRefreshesStep, SaveRenewedAssignmentStep
  DEF Client
<1>2. CASE Abandon BY <1>2, AbandonStep
<1>3. CASE Authority
  BY <1>3, CellRegistersStep, CellCompletesStep, HubPublishesStep DEF Authority
<1>4. CASE Tick BY <1>4, TickStep
<1>5. CASE UNCHANGED vars
  <2> USE <1>5 DEF vars, clientVars, serials, authorityVars, IInv
  <2>1. TypeOK' BY DEF TypeOK
  <2>2. CallInv' BY DEF CallInv, CallIdle, CallMem, CallStep, CallGot, Dead
  <2>3. StoreInv' /\ RegInv' /\ ListInv' BY DEF StoreInv, RegInv, ListInv, Dead
  <2>4. ReplayProofDurable' /\ OneCommit' /\ OneCandidate'
    BY DEF ReplayProofDurable, OneCommit, OneCandidate
  <2> QED BY <2>1, <2>2, <2>3, <2>4
<1> QED BY <1>1, <1>2, <1>3, <1>4, <1>5 DEF Next

\* The inductive invariant holds in every behaviour of the enrollment.
THEOREM InvariantHolds == Spec => []IInv
<1>1. Init => IInv BY InitInv
<1>2. IInv /\ [Next]_vars => IInv' BY NextInv
<1> QED BY <1>1, <1>2, PTL DEF Spec

\* Every variable of the enrollment keeps its type: in particular a call never
\* makes a third activation attempt (activateAndComplete's bound of two).
THEOREM TypeCorrect == Spec => []TypeOK
<1>1. IInv => TypeOK BY DEF IInv
<1> QED BY <1>1, InvariantHolds, PTL

\* Every state registerLocked, activateAndComplete and renewCompletedAssignment
\* make durable is accepted by validateLoadedAgentAssignment.
THEOREM LoaderAlwaysAccepts == Spec => []LoaderAccepts
<1>1. IInv => LoaderAccepts BY DEF IInv, StoreInv, LoaderAccepts
<1> QED BY <1>1, InvariantHolds, PTL

\* What a cell has committed from a REG is never orphaned: the durable state
\* replays it or has grown out of it (persistFreshPendingActivation saves first).
THEOREM ReplayProofNeverLost == Spec => []ReplayProofDurable
<1>1. IInv => ReplayProofDurable BY DEF IInv
<1> QED BY <1>1, InvariantHolds, PTL

\* At most one ticket is ever committed, and none while a replacement is being
\* obtained (registrationVerdictPermitsReplacement).
THEOREM SingleCommit == Spec => []OneCommit
<1>1. IInv => OneCommit BY DEF IInv
<1> QED BY <1>1, InvariantHolds, PTL

\* All completion requests carry one device credential candidate
\* (transitionPendingActivation, completePending).
THEOREM SingleCandidate == Spec => []OneCandidate
<1>1. IInv => OneCandidate BY DEF IInv
<1> QED BY <1>1, InvariantHolds, PTL

\* The credential the authority has bound is durable on the client, pending or
\* completed, at every instant (completePending).
THEOREM CredentialNeverLost == Spec => []CredentialDurable
<1>1. IInv => CredentialDurable
  <2> SUFFICES ASSUME IInv, NEW a \in 1..MaxIds, bound[a] # 0
               PROVE  /\ store # None /\ store.agent = a
                      /\ \/ store.cmp # None /\ store.cmp.cand = bound[a]
                         \/ store.registered /\ store.key = bound[a]
    BY DEF CredentialDurable
  <2>1. PICK m \in lists : m.agent = a /\ m.cand = bound[a] BY DEF IInv, ListInv
  <2> QED BY <2>1 DEF IInv, ListInv
<1> QED BY <1>1, InvariantHolds, PTL

\* A save of the final step or of a renewal touches no deadline; the other
\* saves inherit it.  Steps outside the saves leave the store alone.
LEMMA SavesOnly ==
  ASSUME [Next]_vars, store' # store
  PROVE  \/ SaveIdentity \/ MigrateLegacyActivation \/ SavePendingActivation
         \/ AdvanceToCompletion \/ PromoteCandidate \/ SaveRenewedAssignment
BY DEF Next, Client, Authority, vars, clientVars, ConnectFresh, ResumeActivation,
       ResumeCompletion, BeginRenewal, HubAssigns, AcquireCredential, ReceiveCode, SendREG,
       RegisterAcknowledged, RegisterExpired, SendCompletion, CompletionAcknowledged,
       HubRefreshes, Abandon, CellRegisters, CellCompletes, HubPublishes, Tick

\* The recovery deadline of an episode never moves: not when a ticket is
\* replaced, not when the activation becomes a completion
\* (newPendingAgentActivationWithRecoveryAnchor, transitionPendingActivation).
THEOREM DeadlineNeverMoves == Spec => DeadlineImmutable
<1>1. IInv /\ [Next]_vars
        => [PendingDeadline(store) # 0 /\ PendingDeadline(store') # 0
              => PendingDeadline(store') = PendingDeadline(store)]_store
  <2> SUFFICES ASSUME IInv, [Next]_vars, store' # store,
                      PendingDeadline(store) # 0, PendingDeadline(store') # 0
               PROVE  PendingDeadline(store') = PendingDeadline(store)
    OBVIOUS
  <2>1. store # None /\ (store.act # None \/ store.cmp # None) BY DEF PendingDeadline
  <2>2. CASE SaveIdentity
    <3>1. store = None \/ Untouched(store)
      BY <2>2 DEF SaveIdentity, IInv, CallInv, CallMem
    <3> QED BY <2>1, <3>1 DEF Untouched
  <2>3. CASE MigrateLegacyActivation
    BY <2>3 DEF MigrateLegacyActivation, PendingDeadline
  <2>4. CASE SavePendingActivation
    <3>1. mem \in State /\ mem = store /\ mem # None /\ ValidState(mem) /\ mem.cmp = None
      BY <2>4, MemFacts DEF SavePendingActivation, IInv, CallInv, CallStep, Fetching
    <3>2. mem.act # None /\ mem.act.deadline # 0 BY <2>1, <3>1 DEF PendingDeadline
    <3>3. mem.act \in Activation /\ mem.schema \in Nat BY <3>1, <3>2 DEF State
    <3>4. mem.act.deadline = RecoveryDeadline(mem.act.anchor)
      BY <3>1, <3>2, <3>3 DEF ValidState, ValidActivation, ValidRecoveryDeadline
    <3>5. store' = PendingState /\ PendingState.act = NewActivation
      BY <2>4, <3>1 DEF SavePendingActivation, SaveThen, PendingState, State
    <3>6. NewActivation.deadline = mem.act.deadline /\ store' # None
      BY <2>1, <3>1, <3>2, <3>4, NoneAssumption DEF NewActivation, RecoveryAnchor, PendingDeadline
    <3>8. store'.cmp = None
      BY <2>4, <3>1 DEF SavePendingActivation, SaveThen, PendingState, State
    <3> QED BY <3>1, <3>2, <3>5, <3>6, <3>8 DEF PendingDeadline
  <2>5. CASE AdvanceToCompletion
    <3>1. mem \in State /\ mem = store /\ mem # None /\ mem.act # None
      BY <2>5, MemFacts DEF AdvanceToCompletion, IInv, CallInv, CallStep
    <3>2. store' = AdvancedState /\ store'.act = None /\ store'.cmp = NewCompletion
      BY <2>5, <3>1 DEF AdvanceToCompletion, SaveThen, AdvancedState, State
    <3>3. NewCompletion.deadline = store.act.deadline BY <3>1 DEF NewCompletion
    <3> QED BY <3>1, <3>2, <3>3 DEF PendingDeadline
  <2>6. CASE PromoteCandidate
    <3>1. mem \in State /\ mem = store /\ mem # None /\ ValidState(mem) /\ mem.cmp # None
      BY <2>6, MemFacts DEF PromoteCandidate, IInv, CallInv, CallStep
    <3>2. mem.act = None BY <3>1 DEF ValidState
    <3>3. store'.act = None /\ store'.cmp = None
      BY <2>6, <3>1, <3>2
      DEF PromoteCandidate, SaveThen, SaveAndReturn, CompletedState, State
    <3> QED BY <3>3 DEF PendingDeadline
  <2>7. CASE SaveRenewedAssignment
    <3>1. mem \in State /\ mem = store /\ mem # None /\ ValidState(mem) /\ mem.registered
      BY <2>7, MemFacts DEF SaveRenewedAssignment, IInv, CallInv, CallStep
    <3> QED BY <2>1, <3>1 DEF ValidState
  <2> QED BY <2>2, <2>3, <2>4, <2>5, <2>6, <2>7, SavesOnly
<1> QED BY <1>1, InvariantHolds, PTL DEF Spec, DeadlineImmutable

\* A completed registration keeps its credential and identity, and its durable
\* placement never goes back (renewCompletedAssignment with
\* ensureRefreshAssignmentContinuity), whatever the Hub answers.
THEOREM RegistrationNeverRegresses == Spec => RegistrationStable
<1>1. IInv /\ [Next]_vars
        => [store # None /\ store.registered
              => /\ store' # None /\ store'.registered
                 /\ store'.key = store.key /\ store'.agent = store.agent
                 /\ NotOlder(store.asg, store'.asg)]_store
  <2> SUFFICES ASSUME IInv, [Next]_vars, store' # store, store # None, store.registered
               PROVE  /\ store' # None /\ store'.registered
                      /\ store'.key = store.key /\ store'.agent = store.agent
                      /\ NotOlder(store.asg, store'.asg)
    OBVIOUS
  <2>1. ValidState(store) /\ store.act = None /\ store.cmp = None
    BY DEF IInv, StoreInv, ValidState
  <2>2. CASE SaveIdentity
    BY <2>2 DEF SaveIdentity, IInv, CallInv, CallMem, Untouched
  <2>3. CASE MigrateLegacyActivation BY <2>1, <2>3 DEF MigrateLegacyActivation
  <2>4. CASE SavePendingActivation
    BY <2>4, MemFacts DEF SavePendingActivation, IInv, CallInv, CallStep, Fetching
  <2>5. CASE AdvanceToCompletion
    BY <2>1, <2>5, MemFacts DEF AdvanceToCompletion, IInv, CallInv, CallStep
  <2>6. CASE PromoteCandidate
    BY <2>1, <2>6, MemFacts DEF PromoteCandidate, IInv, CallInv, CallStep
  <2>7. CASE SaveRenewedAssignment
    <3>1. mem \in State /\ mem = store /\ NotOlder(mem.asg, got.asg)
      BY <2>7, MemFacts DEF SaveRenewedAssignment, IInv, CallInv, CallGot
    <3>2. store' = [mem EXCEPT !.asg = got.asg]
      BY <2>7 DEF SaveRenewedAssignment, SaveAndReturn
    <3>3. store'.registered = store.registered /\ store'.key = store.key
          /\ store'.agent = store.agent /\ store'.asg = got.asg
      BY <3>1, <3>2 DEF State
    <3>4. store' # None
      <4>2. got \in HubAnswer BY <2>7 DEF SaveRenewedAssignment, IInv, CallInv, CallGot, TypeOK
      <4>3. store' \in State BY <3>1, <3>2, <4>2 DEF State, HubAnswer
      <4> QED BY <4>3, NoneAssumption
    <3> QED BY <3>1, <3>3, <3>4
  <2> QED BY <2>2, <2>3, <2>4, <2>5, <2>6, <2>7, SavesOnly
<1> QED BY <1>1, InvariantHolds, PTL DEF Spec, RegistrationStable

\* The durable state loads and holds every proof and credential it must
\* (persistFreshPendingActivation, completePending).
THEOREM ProofNeverLost == Spec => []ProofDurable
BY LoaderAlwaysAccepts, ReplayProofNeverLost, CredentialNeverLost, PTL DEF ProofDurable

\* One commit and one candidate, whatever is retried (activateAndComplete).
THEOREM SingleRegistration == Spec => []OneRegistration
BY SingleCommit, SingleCandidate, PTL DEF OneRegistration

\* Deadline, credential, identity and placement are stable
\* (transitionPendingActivation, renewCompletedAssignment).
THEOREM EpisodeNeverMoves == Spec => EpisodeStable
BY DeadlineNeverMoves, RegistrationNeverRegresses DEF EpisodeStable

=============================================================================
