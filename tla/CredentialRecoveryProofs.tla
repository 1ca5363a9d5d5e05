---------------------- MODULE CredentialRecoveryProofs ----------------------
(***************************************************************************)
(* Safety of CredentialRecovery for every value of its constants.          *)
(*                                                                         *)
(* The properties are not inductive.  What carries them is a picture of    *)
(* the current episode shared by client, wire and authority: the call      *)
(* works on the durable state (CallInv); the nonce of a durable intent is  *)
(* the only one whose answer is still open (NonceInv); the only Complete   *)
(* request a cell could still commit is that of the durable grant          *)
(* (WireInv); and a grant that is asked for, or was rejected, belongs to a *)
(* revocation nobody has answered yet (EpisodeInv).                        *)
(***************************************************************************)
EXTENDS CredentialRecovery, TLAPS

Completing == {"complete", "promote"}
Refreshing == {"refresh", "adopt", "open"}
Issuing == {"intent", "issue", "grant"}

\* The Complete request of a state with a pending grant.
RequestOf(s) == [nonce |-> s.pend.nonce, cell |-> s.pend.asg.cell, cand |-> s.pend.cand]

\* A call works on the durable state, and each step has what it needs in it.
CallIdle == pc = "idle" <=> mem = None
CallMem == mem # None => mem = store
CallStep ==
  /\ pc \in Issuing => ~mem.refresh /\ cred # None /\ (mem.pend # None => mem.pend.stale)
  /\ pc = "intent" => mem.issue = None
  /\ pc \in {"issue", "grant"} => mem.issue # None
  /\ pc \in Completing => mem.pend # None /\ ~mem.pend.stale
  /\ pc = "promote" => CompleteRequest \in replaced
  /\ pc \in Refreshing => mem.key # 0 /\ mem.pend = None /\ mem.issue = None
CallGot ==
  /\ pc = "grant" =>
       /\ got # None /\ got.nonce = mem.issue.nonce
       /\ \E g \in grants : g.nonce = got.nonce /\ g.exp = got.exp /\ g.asg = got.asg
       /\ got.exp < got.asg.lease
       /\ got.stale => now >= got.exp
  /\ pc = "adopt" => got # None /\ NotOlder(mem.asg, got.asg)
  /\ pc \in {"adopt", "open"} => mem.key \in seen
CallInv == CallIdle /\ CallMem /\ CallStep /\ CallGot

\* Serial numbers are drawn before they are used, and a credential that may be
\* used has been refreshed.
StoreInv ==
  /\ ValidState(store)
  /\ store.key \in 0..cands
  /\ store.key # 0 /\ ~store.refresh => store.key \in seen
  /\ store.issue # None => store.issue.nonce \in 1..nonces
  /\ store.pend # None => store.pend.cand \in 1..cands /\ store.pend.nonce \in settled

\* An Issue request is answered, or is that of the durable intent; the Hub has
\* bound each nonce to one grant.
NonceInv ==
  /\ settled \subseteq 1..nonces
  /\ \A r \in requests :
       r.nonce \in settled \/ (store.issue # None /\ r.nonce = store.issue.nonce)
  /\ store.issue # None => store.issue.nonce \notin settled
  /\ \A g \in grants : \E r \in requests : r.nonce = g.nonce
  /\ \A g, h \in grants : g.nonce = h.nonce => g = h
  /\ \A g \in grants : g.exp # 0 /\ g.episode <= episode

\* Of the Complete requests on the wire only that of the durable, not rejected
\* grant can still be committed.
WireInv ==
  /\ \A m \in completes :
       /\ m.nonce \in settled /\ \E g \in grants : g.nonce = m.nonce
       /\ store.pend # None /\ m.nonce = store.pend.nonce => m = RequestOf(store)
       /\ \/ m \in replaced \/ GrantDead(m.nonce)
          \/ store.pend # None /\ ~store.pend.stale /\ m.nonce = store.pend.nonce
  /\ store.pend # None /\ store.pend.stale =>
       \A m \in replaced : m.nonce # store.pend.nonce
  /\ store.pend # None =>
       \E g \in grants : g.nonce = store.pend.nonce
  /\ store.pend # None /\ store.pend.stale => GrantDead(store.pend.nonce)

\* A commit ends its revocation.  The grant of the durable intent, and that of
\* the pending record unless its request was committed, are of the open one,
\* and the candidate is that of all requests of its revocation.
EpisodeInv ==
  /\ \A m \in replaced, g \in grants :
       g.nonce = m.nonce /\ g.episode = episode => ~revoked
  /\ \A g \in grants :
       store.issue # None /\ g.nonce = store.issue.nonce => revoked /\ g.episode = episode
  /\ \A g \in grants :
       store.pend # None /\ g.nonce = store.pend.nonce =>
         \/ revoked /\ g.episode = episode
         \/ RequestOf(store) \in replaced
  /\ store.pend = None =>
       \A m \in completes, g \in grants :
         g.nonce = m.nonce /\ g.episode = episode => ~revoked
  /\ store.pend # None =>
       \A m \in completes, g, h \in grants :
         g.nonce = m.nonce /\ h.nonce = store.pend.nonce =>
           /\ g.episode <= h.episode
           /\ g.episode = h.episode => m.cand = store.pend.cand

DurableInv ==
  /\ StoreInv /\ NonceInv /\ WireInv /\ EpisodeInv
  /\ CandidateDurable /\ OneCandidate /\ OpenedAfterRefresh

IInv == TypeOK /\ CallInv /\ DurableInv

\* The parts of TypeOK about what a call keeps and about everything else.
CallType ==
  /\ pc \in Steps
  /\ mem \in State \cup {None}
  /\ got \in Answer \cup {None}
  /\ round \in 1..2 /\ cred \in Credentials \cup {None} /\ sent \in BOOLEAN

WireType ==
  /\ requests \subseteq [nonce : 1..MaxNonces, cred : Credentials]
  /\ completes \subseteq [nonce : 1..MaxNonces, cell : Cells, cand : 1..MaxCands]
  /\ grants \subseteq Grant /\ replaced \subseteq completes
  /\ bound \in 1..MaxCands /\ revoked \in BOOLEAN /\ episode \in 0..MaxRevocations
  /\ placements \subseteq Placement

DurableType ==
  /\ now \in Nat
  /\ store \in State
  /\ nonces \in 0..MaxNonces /\ cands \in 1..MaxCands
  /\ WireType
  /\ settled \subseteq 1..MaxNonces
  /\ seen \subseteq 0..MaxCands /\ opened \subseteq 0..MaxCands

-----------------------------------------------------------------------------
(***************************************************************************)
(* What the records hold, and what the end of a call and a change of step  *)
(* leave behind.                                                           *)
(***************************************************************************)

\* The fields of a durable state.
LEMMA StateFields ==
  ASSUME NEW s \in State
  PROVE  /\ s.key \in Nat /\ s.asg \in Assignment /\ s.refresh \in BOOLEAN
         /\ s.pend \in Pending \cup {None} /\ s.issue \in Issue \cup {None}
BY DEF State

\* The fields of a pending grant.
LEMMA PendingFields ==
  ASSUME NEW p \in Pending
  PROVE  /\ p.nonce \in Nat \ {0} /\ p.exp \in Nat /\ p.anchor \in Nat /\ p.deadline \in Nat
         /\ p.cand \in Nat \ {0} /\ p.asg \in Assignment /\ p.stale \in BOOLEAN
BY DEF Pending

\* The fields of a placement with its lease.
LEMMA AssignmentFields ==
  ASSUME NEW a \in Assignment
  PROVE  /\ a.cell \in Cells /\ a.gen \in Nat /\ a.rev \in Nat /\ a.endpoint \in Endpoints
         /\ a.lease \in Nat
BY DEF Assignment, AssignmentSet

\* The fields of an authenticated answer.
LEMMA AnswerFields ==
  ASSUME NEW a \in Answer
  PROVE  a.nonce \in Nat /\ a.exp \in Nat /\ a.asg \in Assignment /\ a.stale \in BOOLEAN
BY DEF Answer

\* Every Return leaves an idle, well-typed call.
LEMMA ReturnFacts == ASSUME Return PROVE CallType' /\ CallInv'
<1>1. sent' \in BOOLEAN BY Zenon DEF Return
<1>2. pc' = "idle" /\ mem' = None /\ got' = None /\ round' = 1 /\ cred' = None BY DEF Return
<1>3. CallInv'
  BY <1>2 DEF CallInv, CallIdle, CallMem, CallStep, CallGot, Issuing, Completing, Refreshing
<1> QED BY <1>1, <1>2, <1>3 DEF CallType, Steps

\* Leaving for another step starts an exchange that has sent nothing.
LEMMA GotoFacts == ASSUME NEW step \in Steps, Goto(step)
                   PROVE  pc' = step /\ pc' \in Steps /\ sent' \in BOOLEAN
<1>1. sent' \in BOOLEAN BY Zenon DEF Goto
<1> QED BY <1>1 DEF Goto

\* The working copy of a call is the durable state.
LEMMA MemFacts ==
  ASSUME IInv, pc # "idle"
  PROVE  /\ mem = store /\ mem # None /\ mem \in State /\ ValidState(mem)
BY DEF IInv, CallInv, CallIdle, CallMem, DurableInv, StoreInv, TypeOK

\* A grant the cell will not commit now is never committed later.
LEMMA DeadForever ==
  ASSUME NonceInv, now \in Nat, now' \in Nat, now' >= now, grants \subseteq grants',
         grants \subseteq Grant,
         episode \in Nat, episode' \in Nat, episode' >= episode, NEW n, GrantDead(n)
  PROVE  GrantDead(n)'
BY DEF GrantDead, NonceInv, Grant

(***************************************************************************)
(* Steps that leave the durable state alone.                               *)
(***************************************************************************)

\* What no step outside the saves touches keeps its invariants; credentials
\* may be refreshed and opened meanwhile.
LEMMA FrameDurable ==
  ASSUME IInv, UNCHANGED <<now, store, nonces, cands, wire, authorityVars, settled>>,
         seen \subseteq seen', seen' \subseteq 0..MaxCands, opened' \subseteq seen'
  PROVE  DurableType' /\ DurableInv'
<1> USE DEF IInv, DurableInv, wire, authorityVars, credentialVars
<1>1. StoreInv' BY DEF StoreInv
<1>2. NonceInv' /\ EpisodeInv' BY DEF NonceInv, EpisodeInv, RequestOf
<1>3. WireInv' BY DEF WireInv, RequestOf, GrantDead
<1>4. CandidateDurable' /\ OneCandidate' BY DEF CandidateDurable, OneCandidate
<1>5. OpenedAfterRefresh' BY DEF OpenedAfterRefresh
<1>6. DurableType' BY DEF TypeOK, DurableType, WireType
<1> QED BY <1>1, <1>2, <1>3, <1>4, <1>5, <1>6

\* A call that ends with nothing saved keeps the invariant.
LEMMA AbandonStep == ASSUME IInv, Abandon PROVE IInv'
<1>1. UNCHANGED <<now, store, nonces, cands, wire, authorityVars, settled, seen, opened>> /\ Return
  BY DEF Abandon, history
<1>2. seen' \subseteq 0..MaxCands /\ opened' \subseteq seen'
  BY <1>1 DEF IInv, TypeOK, DurableInv, OpenedAfterRefresh
<1>3. CallType' /\ CallInv' BY <1>1, ReturnFacts
<1>4. DurableType' /\ DurableInv' BY <1>1, <1>2, FrameDurable
<1> QED BY <1>3, <1>4 DEF IInv, TypeOK, CallType, DurableType, WireType

\* A step that moves the call on: only what it says about the next step and the
\* answer it carries has to be shown.
LEMMA MoveStep ==
  ASSUME IInv, mem' = store,
         UNCHANGED <<now, store, nonces, cands, wire, authorityVars, settled, opened, round>>,
         seen \subseteq seen', seen' \subseteq 0..MaxCands,
         got' \in Answer \cup {None}, cred' \in Credentials \cup {None},
         NEW step \in Steps \ {"idle"}, Goto(step), CallStep', CallGot'
  PROVE  IInv'
<1>1. pc' = step /\ pc' \in Steps /\ sent' \in BOOLEAN BY GotoFacts
<1>2. opened' \subseteq seen' BY DEF IInv, DurableInv, OpenedAfterRefresh
<1>3. DurableType' /\ DurableInv' BY <1>2, FrameDurable
<1>4. CallIdle' /\ CallMem' BY <1>1, ConstantsAssumption DEF IInv, TypeOK, CallIdle, CallMem
<1>5. CallType' BY <1>1 DEF IInv, TypeOK, CallType
<1> QED BY <1>3, <1>4, <1>5 DEF IInv, CallInv, TypeOK, CallType, DurableType, WireType

\* A call without a usable grant starts with the intent, or replays it.
LEMMA RecoverIssueStep == ASSUME IInv, RecoverIssue PROVE IInv'
<1> DEFINE step == IF store.issue = None THEN "intent" ELSE "issue"
<1>1. step \in Steps \ {"idle"} /\ Goto(step) BY DEF RecoverIssue, Steps
<1>2. cred' \in Credentials /\ cred' # None BY ConstantsAssumption DEF RecoverIssue
<1>3. mem' = store /\ UNCHANGED <<now, store, got, round, nonces, cands, wire, authorityVars,
                                  settled, seen, opened>>
  BY DEF RecoverIssue, history
<1>4. pc' = step BY <1>1 DEF Goto
<1>5. CallStep'
  BY <1>2, <1>3, <1>4 DEF RecoverIssue, CallStep, Issuing, Completing, Refreshing
<1>6. CallGot' BY <1>4 DEF CallGot
<1> QED BY <1>1, <1>2, <1>3, <1>5, <1>6, MoveStep DEF IInv, TypeOK

\* A call picks up a grant that was live when it was saved.
LEMMA ResumeCompleteStep == ASSUME IInv, ResumeComplete PROVE IInv'
<1>1. mem' = store /\ Goto("complete")
      /\ UNCHANGED <<now, store, got, round, cred, nonces, cands, wire, authorityVars,
                     settled, seen, opened>>
  BY DEF ResumeComplete, history
<1>2. pc' = "complete" BY <1>1 DEF Goto
<1>3. CallStep' BY <1>1, <1>2 DEF ResumeComplete, CallStep, Issuing, Completing, Refreshing
<1>4. CallGot' BY <1>2 DEF CallGot
<1> QED BY <1>1, <1>3, <1>4, MoveStep DEF IInv, TypeOK, Steps

\* A call starts the refresh of a state with no recovery in progress.
LEMMA BeginRefreshStep == ASSUME IInv, BeginRefresh PROVE IInv'
<1>1. mem' = store /\ Goto("refresh")
      /\ UNCHANGED <<now, store, got, round, cred, nonces, cands, wire, authorityVars,
                     settled, seen, opened>>
  BY DEF BeginRefresh, history
<1>2. pc' = "refresh" BY <1>1 DEF Goto
<1>3. CallStep'
  BY <1>1, <1>2 DEF BeginRefresh, CallStep, Issuing, Completing, Refreshing, Usable, ValidState
<1>4. CallGot' BY <1>2 DEF CallGot
<1> QED BY <1>1, <1>3, <1>4, MoveStep DEF IInv, TypeOK, Steps

\* The answer of an Issue carries the grant the Hub bound to its nonce.
LEMMA IssueAnsweredStep == ASSUME IInv, IssueAnswered PROVE IInv'
<1>0. pc = "issue" BY DEF IssueAnswered
<1>1. mem = store /\ mem.issue # None /\ ~mem.refresh /\ cred # None
      /\ (mem.pend # None => mem.pend.stale)
  BY <1>0, MemFacts DEF IInv, CallInv, CallStep, Issuing
<1>2. PICK g \in grants :
        /\ g.nonce = mem.issue.nonce /\ g.exp < g.asg.lease
        /\ got' = [nonce |-> g.nonce, exp |-> g.exp, asg |-> g.asg,
                   stale |-> now >= g.exp \/ LeaseExpired(g.asg, now)]
  BY DEF IssueAnswered
<1>3. g \in Grant /\ now \in Nat BY DEF IInv, TypeOK
<1>4. g.nonce \in Nat \ {0} /\ g.exp \in Nat /\ g.asg \in Assignment BY <1>3 DEF Grant
<1>5. got' \in Answer BY <1>2, <1>4 DEF Answer
<1>6. got'.stale => now >= g.exp
  <2>1. got'.stale = (now >= g.exp \/ LeaseExpired(g.asg, now)) BY Zenon, <1>2
  <2>2. LeaseExpired(g.asg, now) => now >= g.exp
    BY <1>2, <1>3, <1>4, AssignmentFields DEF LeaseExpired
  <2> QED BY <2>1, <2>2
<1>7. Goto("grant") /\ UNCHANGED <<now, store, mem, round, cred, nonces, cands, wire,
                                   authorityVars, settled, seen, opened>>
  BY DEF IssueAnswered, history
<1>8. pc' = "grant" BY <1>7 DEF Goto
<1>9. CallStep' BY <1>1, <1>7, <1>8 DEF CallStep, Issuing, Completing, Refreshing
<1>10. CallGot'
  BY <1>1, <1>2, <1>5, <1>6, <1>7, <1>8, ConstantsAssumption DEF CallGot, authorityVars
<1>11. cred' \in Credentials \cup {None} /\ "grant" \in Steps \ {"idle"}
  BY <1>7 DEF IInv, TypeOK, Steps
<1>12. seen \subseteq seen' /\ seen' \subseteq 0..MaxCands BY <1>7 DEF IInv, TypeOK
<1> QED BY <1>1, <1>5, <1>7, <1>9, <1>10, <1>11, <1>12, MoveStep

\* The cell has acknowledged the Complete request of the durable grant.
LEMMA CompleteAcknowledgedStep == ASSUME IInv, CompleteAcknowledged PROVE IInv'
<1>0. pc = "complete" /\ CompleteRequest \in replaced BY DEF CompleteAcknowledged
<1>1. mem = store /\ mem.pend # None /\ ~mem.pend.stale
  BY <1>0, MemFacts DEF IInv, CallInv, CallStep, Completing
<1>2. Goto("promote") /\ UNCHANGED <<now, store, mem, got, round, cred, nonces, cands, wire,
                                     authorityVars, settled, seen, opened>>
  BY DEF CompleteAcknowledged, history
<1>3. pc' = "promote" BY <1>2 DEF Goto
<1>4. CompleteRequest' \in replaced' BY <1>0, <1>2 DEF CompleteRequest, authorityVars
<1>5. CallStep' BY <1>1, <1>2, <1>3, <1>4 DEF CallStep, Issuing, Completing, Refreshing
<1>6. CallGot' BY <1>3 DEF CallGot
<1> QED BY <1>1, <1>2, <1>5, <1>6, MoveStep DEF IInv, TypeOK, Steps

\* The continuity rules of a refresh never adopt an older placement.
LEMMA ContinuityNotOlder ==
  ASSUME NEW prev \in Assignment, NEW cur \in Assignment, NEW adopt \in BOOLEAN,
         EnsureRefreshAssignmentContinuity(prev, cur, adopt)
  PROVE  NotOlder(prev, cur)
BY AssignmentFields
   DEF EnsureRefreshAssignmentContinuity, EnsureAssignmentContinuity, Reassigned, NotOlder

\* A placement of the Hub, with a lease.
LEMMA LeasedFacts ==
  ASSUME NEW p \in Placement, NEW lease \in Nat
  PROVE  Leased(p, lease) \in Assignment
BY ConstantsAssumption DEF Placement, Leased, Assignment, AssignmentSet

\* An authenticated Hub refresh covers the credential of the call.
LEMMA HubRefreshesStep == ASSUME IInv, HubRefreshes PROVE IInv'
<1>0. pc = "refresh" BY DEF HubRefreshes
<1>1. mem = store /\ mem \in State /\ mem.key # 0 /\ mem.pend = None /\ mem.issue = None
  BY <1>0, MemFacts DEF IInv, CallInv, CallStep, Refreshing
<1>2. PICK p \in placements, adopt \in BOOLEAN :
        /\ EnsureRefreshAssignmentContinuity(mem.asg, Leased(p, now + LeaseLife), adopt)
        /\ IF Leased(p, now + LeaseLife) = mem.asg
           THEN got' = None /\ Goto("open")
           ELSE /\ got' = [nonce |-> 0, exp |-> 0, asg |-> Leased(p, now + LeaseLife),
                           stale |-> FALSE]
                /\ Goto("adopt")
  BY DEF HubRefreshes
<1> DEFINE fresh == Leased(p, now + LeaseLife)
<1>3. fresh \in Assignment BY LeasedFacts, ConstantsAssumption DEF IInv, TypeOK
<1>4. NotOlder(mem.asg, fresh) BY <1>1, <1>2, <1>3, ContinuityNotOlder, StateFields
<1>5. seen' = seen \cup {mem.key} /\ UNCHANGED <<now, store, mem, round, cred, nonces, cands,
                                                 wire, authorityVars, settled, opened>>
  BY DEF HubRefreshes
<1>6. mem.key \in 0..MaxCands
  BY <1>1, ConstantsAssumption DEF IInv, DurableInv, StoreInv, TypeOK
<1>7. seen \subseteq seen' /\ seen' \subseteq 0..MaxCands BY <1>5, <1>6 DEF IInv, TypeOK
<1> HIDE DEF fresh
<1>8. CASE fresh = mem.asg
  <2>1. got' = None /\ Goto("open") /\ pc' = "open" BY <1>2, <1>8 DEF fresh, Goto
  <2>2. CallStep' BY <1>1, <1>5, <2>1 DEF CallStep, Issuing, Completing, Refreshing
  <2>3. CallGot' BY <1>5, <2>1 DEF CallGot
  <2> QED BY <1>1, <1>5, <1>7, <2>1, <2>2, <2>3, MoveStep DEF IInv, TypeOK, Steps
<1>9. CASE fresh # mem.asg
  <2>1. got' = [nonce |-> 0, exp |-> 0, asg |-> fresh, stale |-> FALSE]
        /\ Goto("adopt") /\ pc' = "adopt"
    BY <1>2, <1>9 DEF fresh, Goto
  <2>2. got' \in Answer BY <1>3, <2>1 DEF Answer
  <2>6. got' # None BY <2>2, ConstantsAssumption
  <2>3. CallStep' BY <1>1, <1>5, <2>1 DEF CallStep, Issuing, Completing, Refreshing
  <2>4. CallGot' BY <1>4, <1>5, <2>1, <2>6 DEF CallGot
  <2>5. cred' \in Credentials \cup {None} /\ "adopt" \in Steps \ {"idle"}
    BY <1>5 DEF IInv, TypeOK, Steps
  <2> QED BY <1>1, <1>5, <1>7, <2>1, <2>2, <2>3, <2>4, <2>5, <2>6, MoveStep
<1> QED BY <1>8, <1>9

\* A usable state has no phase of a recovery in it, and its key was refreshed.
LEMMA OpenRegisteredAgentStep == ASSUME IInv, OpenRegisteredAgent PROVE IInv'
<1>1. Usable(store) /\ opened' = opened \cup {store.key}
      /\ UNCHANGED <<now, clientVars, nonces, cands, wire, authorityVars, settled, seen>>
  BY DEF OpenRegisteredAgent
<1>2. store.key \in seen BY <1>1 DEF Usable, IInv, DurableInv, StoreInv
<1>3. opened' \subseteq seen' /\ seen' \subseteq 0..MaxCands
  BY <1>1, <1>2 DEF IInv, TypeOK, DurableInv, OpenedAfterRefresh
<1>4. DurableType' /\ DurableInv' BY <1>1, <1>3, FrameDurable DEF clientVars
<1>5. CallType' BY <1>1 DEF IInv, TypeOK, CallType, clientVars
<1>6. CallInv'
  BY <1>1 DEF IInv, CallInv, CallIdle, CallMem, CallStep, CallGot, CompleteRequest,
              clientVars, authorityVars
<1> QED BY <1>4, <1>5, <1>6 DEF IInv, TypeOK, CallType, DurableType, WireType

(***************************************************************************)
(* The wire, the authority and the clock.                                  *)
(***************************************************************************)

\* A call in progress does not notice what others do meanwhile.
LEMMA FrameCall ==
  ASSUME IInv, UNCHANGED <<clientVars, seen>>, replaced \subseteq replaced',
         grants \subseteq grants', now' \in Nat, now' >= now
  PROVE  CallType' /\ CallInv'
<1> USE DEF IInv, clientVars
<1>1. CallType' BY DEF TypeOK, CallType
<1>2. CallIdle' /\ CallMem' BY DEF CallInv, CallIdle, CallMem
<1>3. CallStep' BY DEF CallInv, CallStep, CompleteRequest
<1>4. CallGot'
  <2>1. got # None => got.exp \in Nat BY AnswerFields DEF TypeOK
  <2>2. now \in Nat BY DEF TypeOK
  <2> QED BY <2>1, <2>2 DEF CallInv, CallGot
<1> QED BY <1>1, <1>2, <1>3, <1>4 DEF CallInv

\* Time only moves grants from live to dead.
LEMMA TickStep == ASSUME IInv, Tick PROVE IInv'
<1>1. now' = now + 1 /\ UNCHANGED <<clientVars, nonces, cands, wire, authorityVars, history>>
  BY DEF Tick
<1>2. now \in Nat /\ now' \in Nat /\ now' >= now BY <1>1 DEF IInv, TypeOK
<1>3. CallType' /\ CallInv' BY <1>1, <1>2, FrameCall DEF authorityVars, history
<1> USE DEF IInv, DurableInv, clientVars, wire, authorityVars, credentialVars, history
<1>4. DurableType' BY <1>1, <1>2 DEF TypeOK, DurableType, WireType
<1>5. StoreInv' BY <1>1 DEF StoreInv
<1>6. NonceInv' /\ EpisodeInv' BY <1>1 DEF NonceInv, EpisodeInv, RequestOf
<1>7. WireInv'
  <2>1. \A n : GrantDead(n) => GrantDead(n)' BY <1>1, <1>2, DeadForever DEF TypeOK
  <2> QED BY <1>1, <2>1 DEF WireInv, RequestOf
<1>8. CandidateDurable' /\ OneCandidate' /\ OpenedAfterRefresh'
  BY <1>1 DEF CandidateDurable, OneCandidate, OpenedAfterRefresh
<1> QED BY <1>3, <1>4, <1>5, <1>6, <1>7, <1>8 DEF TypeOK, CallType, DurableType, WireType

\* A new placement at the Hub touches nothing the client or a cell holds.
LEMMA HubPublishesStep == ASSUME IInv, HubPublishes PROVE IInv'
<1>1. UNCHANGED <<now, clientVars, nonces, cands, wire, grants, replaced, credentialVars, history>>
  BY DEF HubPublishes
<1>2. placements' \subseteq Placement BY DEF HubPublishes, IInv, TypeOK
<1>3. CallType' /\ CallInv' BY <1>1, FrameCall DEF IInv, TypeOK, history
<1> USE DEF IInv, DurableInv, clientVars, wire, credentialVars, history
<1>4. DurableType' BY <1>1, <1>2 DEF TypeOK, DurableType, WireType
<1>5. StoreInv' BY <1>1 DEF StoreInv
<1>6. NonceInv' /\ EpisodeInv' BY <1>1 DEF NonceInv, EpisodeInv, RequestOf
<1>7. WireInv' BY <1>1 DEF WireInv, RequestOf, GrantDead
<1>8. CandidateDurable' /\ OneCandidate' /\ OpenedAfterRefresh'
  BY <1>1 DEF CandidateDurable, OneCandidate, OpenedAfterRefresh
<1> QED BY <1>3, <1>4, <1>5, <1>6, <1>7, <1>8 DEF TypeOK, CallType, DurableType, WireType

\* A revocation starts an episode that no grant belongs to yet; it can only come
\* once the durable request, if there is one, has been committed.
LEMMA RevokeStep == ASSUME IInv, Revoke PROVE IInv'
<1>1. /\ ~revoked /\ episode < MaxRevocations /\ revoked' = TRUE /\ episode' = episode + 1
      /\ UNCHANGED <<now, clientVars, nonces, cands, wire, grants, replaced, bound,
                     placements, history>>
  BY DEF Revoke
<1>2. CallType' /\ CallInv' BY <1>1, FrameCall DEF IInv, TypeOK, history
<1> USE DEF IInv, DurableInv, clientVars, wire, history
<1>3. episode \in Nat /\ episode' \in 0..MaxRevocations /\ grants \subseteq Grant
  BY <1>1, ConstantsAssumption DEF TypeOK
<1>4. DurableType' BY <1>1, <1>3 DEF TypeOK, DurableType, WireType
<1>5. StoreInv' BY <1>1 DEF StoreInv
<1>6. NonceInv' BY <1>1, <1>3 DEF NonceInv, Grant
<1>7. \A g \in grants : g.episode # episode' BY <1>1, <1>3 DEF NonceInv, Grant
<1>8. EpisodeInv' BY <1>1, <1>7 DEF EpisodeInv, RequestOf
<1>9. WireInv'
  <2>1. \A n : GrantDead(n) => GrantDead(n)' BY <1>1, <1>7 DEF GrantDead
  <2> QED BY <1>1, <2>1 DEF WireInv, RequestOf
<1>10. CandidateDurable' /\ OneCandidate' /\ OpenedAfterRefresh'
  BY <1>1 DEF CandidateDurable, OneCandidate, OpenedAfterRefresh
<1> QED BY <1>2, <1>4, <1>5, <1>6, <1>8, <1>9, <1>10 DEF TypeOK, CallType, DurableType, WireType

\* A cell commits nothing but the request of the durable grant.
LEMMA CellReplacesStep == ASSUME IInv, CellReplaces PROVE IInv'
<1>1. PICK m \in completes \ replaced :
        ~GrantDead(m.nonce) /\ replaced' = replaced \cup {m} /\ bound' = m.cand
  BY DEF CellReplaces
<1>2. /\ revoked /\ revoked' = FALSE
      /\ UNCHANGED <<now, clientVars, nonces, cands, wire, grants, episode, placements, history>>
  BY DEF CellReplaces
<1>3. CallType' /\ CallInv' BY <1>1, <1>2, FrameCall DEF IInv, TypeOK, history
<1> USE DEF IInv, DurableInv, clientVars, wire, history
<1>4. store.pend # None /\ ~store.pend.stale /\ m = RequestOf(store) BY <1>1 DEF WireInv
<1>5. m.cand = store.pend.cand /\ m.cand \in 1..MaxCands BY <1>1, <1>4 DEF RequestOf, TypeOK
<1>6. store.issue = None BY <1>4 DEF StoreInv, ValidState
<1>7. DurableType' BY <1>1, <1>2, <1>5 DEF TypeOK, DurableType, WireType
<1>8. StoreInv' BY <1>2 DEF StoreInv
<1>9. NonceInv' BY <1>2 DEF NonceInv
<1>10. EpisodeInv' BY <1>1, <1>2, <1>4, <1>6 DEF EpisodeInv, RequestOf
<1>11. WireInv' BY <1>1, <1>2, <1>4 DEF WireInv, RequestOf, GrantDead
<1>12. CandidateDurable' BY <1>1, <1>2, <1>4, <1>5 DEF CandidateDurable
<1>13. OneCandidate' /\ OpenedAfterRefresh' BY <1>2 DEF OneCandidate, OpenedAfterRefresh
<1> QED BY <1>3, <1>7, <1>8, <1>9, <1>10, <1>11, <1>12, <1>13
        DEF TypeOK, CallType, DurableType, WireType

\* The Hub binds one grant to a nonce that has none: not to that of a Complete
\* request, and not to that of the durable grant.
LEMMA HubIssuesStep == ASSUME IInv, HubIssues PROVE IInv'
<1>1. PICK r \in requests, p \in placements :
        /\ \A g \in grants : g.nonce # r.nonce
        /\ grants' = grants \cup {[nonce |-> r.nonce, episode |-> episode,
                                   asg |-> Leased(p, now + LeaseLife), exp |-> now + GrantLife]}
  BY DEF HubIssues
<1> DEFINE new == [nonce |-> r.nonce, episode |-> episode,
                   asg |-> Leased(p, now + LeaseLife), exp |-> now + GrantLife]
<1>2. /\ revoked
      /\ UNCHANGED <<now, clientVars, nonces, cands, wire, replaced, credentialVars, placements, history>>
  BY DEF HubIssues
<1>3. CallType' /\ CallInv' BY <1>1, <1>2, FrameCall DEF IInv, TypeOK, history
<1> USE DEF IInv, DurableInv, clientVars, wire, credentialVars, history
<1>4. /\ new \in Grant /\ new.nonce = r.nonce /\ new.episode = episode
      /\ new.exp # 0 /\ new.episode <= episode
  <2>1. Leased(p, now + LeaseLife) \in Assignment
    BY LeasedFacts, ConstantsAssumption DEF TypeOK
  <2>2. r.nonce \in Nat \ {0} /\ episode \in Nat /\ now + GrantLife \in Nat \ {0}
    BY ConstantsAssumption DEF TypeOK
  <2> QED BY <2>1, <2>2 DEF Grant
<1> HIDE DEF new
<1>5. grants' = grants \cup {new} BY <1>1 DEF new
<1>6. \A m \in completes : m.nonce # r.nonce BY <1>1 DEF WireInv
<1>7. store.pend # None => store.pend.nonce # r.nonce BY <1>1 DEF WireInv
<1>8. DurableType' BY <1>2, <1>4, <1>5 DEF TypeOK, DurableType, WireType
<1>9. StoreInv' BY <1>2 DEF StoreInv
<1>10. NonceInv' BY <1>1, <1>2, <1>4, <1>5 DEF NonceInv
<1>11. EpisodeInv'
  BY <1>2, <1>4, <1>5, <1>6, <1>7 DEF EpisodeInv, RequestOf, TypeOK
<1>12. WireInv'
  <2>1. \A n : GrantDead(n) => GrantDead(n)' BY <1>2, <1>5 DEF GrantDead
  <2> QED BY <1>2, <1>5, <2>1 DEF WireInv, RequestOf
<1>13. CandidateDurable' /\ OpenedAfterRefresh'
  BY <1>2 DEF CandidateDurable, OpenedAfterRefresh
<1>14. OneCandidate' BY <1>2, <1>4, <1>5, <1>6, <1>7 DEF OneCandidate, TypeOK
<1> QED BY <1>3, <1>8, <1>9, <1>10, <1>11, <1>12, <1>13, <1>14
        DEF TypeOK, CallType, DurableType, WireType

\* What a step that only sends a datagram leaves of the call.
LEMMA FrameSend ==
  ASSUME IInv, sent' = TRUE,
         UNCHANGED <<now, store, pc, mem, got, round, cred, authorityVars, settled, seen>>
  PROVE  CallType' /\ CallInv'
<1> USE DEF IInv, authorityVars
<1>1. CallType' BY DEF TypeOK, CallType
<1>2. CallInv' BY DEF CallInv, CallIdle, CallMem, CallStep, CallGot, CompleteRequest
<1> QED BY <1>1, <1>2

\* An Issue datagram carries the nonce of the durable intent.
LEMMA SendIssueStep == ASSUME IInv, SendIssue PROVE IInv'
<1>1. /\ pc = "issue" /\ sent' = TRUE
      /\ requests' = requests \cup {[nonce |-> mem.issue.nonce, cred |-> cred]}
      /\ UNCHANGED <<now, store, pc, mem, got, round, cred, nonces, cands, completes,
                     authorityVars, settled, seen, opened>>
  BY DEF SendIssue, history
<1>2. CallType' /\ CallInv' BY <1>1, FrameSend
<1>3. mem = store /\ store.issue # None /\ cred \in Credentials
  BY <1>1, MemFacts DEF IInv, CallInv, CallStep, Issuing, TypeOK
<1> USE DEF IInv, DurableInv, authorityVars, credentialVars
<1>4. store.issue.nonce \in 1..MaxNonces BY <1>3, ConstantsAssumption DEF StoreInv, TypeOK
<1> DEFINE new == [nonce |-> store.issue.nonce, cred |-> cred]
<1>5. new \in [nonce : 1..MaxNonces, cred : Credentials] BY <1>3, <1>4
<1>6. requests' = requests \cup {new} /\ new.nonce = store.issue.nonce BY <1>1, <1>3
<1> HIDE DEF new
<1>7. DurableType' BY <1>1, <1>5, <1>6 DEF TypeOK, DurableType, WireType
<1>8. StoreInv' BY <1>1 DEF StoreInv
<1>9. NonceInv' BY <1>1, <1>3, <1>6 DEF NonceInv
<1>10. EpisodeInv' /\ WireInv' BY <1>1 DEF EpisodeInv, WireInv, RequestOf, GrantDead
<1>11. CandidateDurable' /\ OneCandidate' /\ OpenedAfterRefresh'
  BY <1>1 DEF CandidateDurable, OneCandidate, OpenedAfterRefresh
<1> QED BY <1>2, <1>7, <1>8, <1>9, <1>10, <1>11 DEF TypeOK, CallType, DurableType, WireType

\* A Complete datagram is the request of the durable grant, and carries the
\* candidate of all requests of its revocation.
LEMMA SendCompleteStep == ASSUME IInv, SendComplete PROVE IInv'
<1>1. /\ pc = "complete" /\ sent' = TRUE /\ completes' = completes \cup {CompleteRequest}
      /\ UNCHANGED <<now, store, pc, mem, got, round, cred, nonces, cands, requests,
                     authorityVars, settled, seen, opened>>
  BY DEF SendComplete, history
<1>2. CallType' /\ CallInv' BY <1>1, FrameSend
<1>3. mem = store /\ store.pend # None /\ ~store.pend.stale
  BY <1>1, MemFacts DEF IInv, CallInv, CallStep, Completing
<1> DEFINE new == RequestOf(store)
<1>4. completes' = completes \cup {new} BY <1>1, <1>3 DEF CompleteRequest, RequestOf
<1> USE DEF IInv, DurableInv, authorityVars, credentialVars
<1>5. new.nonce = store.pend.nonce /\ new.cand = store.pend.cand /\ new.nonce \in settled
  BY <1>3 DEF StoreInv, RequestOf
<1>6. new \in [nonce : 1..MaxNonces, cell : Cells, cand : 1..MaxCands]
  <2>1. store.pend \in Pending BY <1>3, StateFields DEF TypeOK
  <2>2. store.pend.asg.cell \in Cells BY <2>1, PendingFields, AssignmentFields
  <2>3. store.pend.nonce \in 1..MaxNonces BY <1>5 DEF TypeOK
  <2>4. store.pend.cand \in 1..MaxCands BY <1>3, ConstantsAssumption DEF StoreInv, TypeOK
  <2> QED BY <2>2, <2>3, <2>4 DEF RequestOf
<1>7. PICK g \in grants : g.nonce = new.nonce BY <1>3, <1>5 DEF WireInv
<1>8. \A h \in grants : h.nonce = new.nonce => h = g BY <1>7 DEF NonceInv
<1>9. \A m \in completes, h \in grants :
        h.nonce = m.nonce => /\ h.episode <= g.episode
                             /\ h.episode = g.episode => m.cand = new.cand
  BY <1>3, <1>5, <1>7 DEF EpisodeInv
<1>10. g.episode \in Nat BY DEF TypeOK, Grant
<1>11. DurableType' BY <1>1, <1>4, <1>6 DEF TypeOK, DurableType, WireType
<1>12. StoreInv' /\ NonceInv' BY <1>1 DEF StoreInv, NonceInv
<1>13. EpisodeInv'
  <2>1. new = RequestOf(store) OBVIOUS
  <2> HIDE DEF new
  <2> QED BY <1>1, <1>3, <1>4, <1>5, <1>8, <1>9, <1>10, <2>1 DEF EpisodeInv, RequestOf
<1>14. WireInv'
  <2>1. new = RequestOf(store) OBVIOUS
  <2> HIDE DEF new
  <2> QED BY <1>1, <1>3, <1>4, <1>5, <1>7, <2>1 DEF WireInv, RequestOf, GrantDead
<1>15. CandidateDurable' /\ OpenedAfterRefresh'
  BY <1>1 DEF CandidateDurable, OpenedAfterRefresh
<1>16. OneCandidate'
  <2> HIDE DEF new
  <2> QED BY <1>1, <1>4, <1>8, <1>9 DEF OneCandidate
<1> QED BY <1>2, <1>11, <1>12, <1>13, <1>14, <1>15, <1>16
        DEF TypeOK, CallType, DurableType, WireType

(***************************************************************************)
(* Saves.                                                                  *)
(***************************************************************************)

\* A save leaves the call idle, or at a step that works on what was saved.
LEMMA SaveFacts ==
  ASSUME IInv, NEW s \in State, NEW step \in Steps \ {"idle", "grant", "adopt"},
         store' = s,
         \/ /\ mem' = s /\ got' = None /\ Goto(step) /\ round' \in 1..2 /\ cred' = cred
            /\ step \in Issuing => ~s.refresh /\ cred # None /\ (s.pend # None => s.pend.stale)
            /\ step = "intent" => s.issue = None
            /\ step = "issue" => s.issue # None
            /\ step \in Completing => s.pend # None /\ ~s.pend.stale
            /\ step # "promote"
            /\ step \in Refreshing => s.key # 0 /\ s.pend = None /\ s.issue = None
            /\ step = "open" => s.key \in seen'
         \/ Return
  PROVE  CallType' /\ CallInv'
<1>1. CASE Return BY <1>1, ReturnFacts
<1>2. CASE ~Return
  <2>1. pc' = step /\ pc' \in Steps /\ sent' \in BOOLEAN BY <1>2, GotoFacts
  <2>2. CallType' BY <1>2, <2>1 DEF IInv, TypeOK, CallType
  <2>3. CallIdle' /\ CallMem' BY <1>2, <2>1, ConstantsAssumption DEF CallIdle, CallMem
  <2>4. CallStep' BY <1>2, <2>1 DEF CallStep, Issuing, Completing, Refreshing
  <2>5. CallGot' BY <1>2, <2>1 DEF CallGot
  <2> QED BY <2>2, <2>3, <2>4, <2>5 DEF CallInv
<1> QED BY <1>1, <1>2

\* A save that keeps key and pending grant leaves the wire and the episodes as
\* they are, as long as the intent it leaves is not answered by an old grant.
LEMMA SamePending ==
  ASSUME IInv, store'.pend = store.pend, store'.key = store.key,
         UNCHANGED <<now, completes, authorityVars>>, settled \subseteq settled',
         \A g \in grants : store'.issue # None /\ g.nonce = store'.issue.nonce
                             => revoked /\ g.episode = episode
  PROVE  WireInv' /\ EpisodeInv' /\ CandidateDurable' /\ OneCandidate'
<1> USE DEF IInv, DurableInv, authorityVars, credentialVars
<1>1. RequestOf(store)' = RequestOf(store) BY DEF RequestOf
<1>2. WireInv' BY <1>1 DEF WireInv, GrantDead
<1>3. EpisodeInv' BY <1>1 DEF EpisodeInv
<1>4. CandidateDurable' /\ OneCandidate' BY DEF CandidateDurable, OneCandidate
<1> QED BY <1>2, <1>3, <1>4

\* The cutoff of a new intent is a time, and inside the episode it renews.
LEMMA CutoffFacts ==
  ASSUME now \in Nat, mem \in State, ValidState(mem)
  PROVE  /\ ReplayNotAfter \in Nat \ {0}
         /\ mem.pend # None => ReplayNotAfter <= mem.pend.deadline
<1>1. now + Horizon \in Nat \ {0} BY ConstantsAssumption
<1>2. CASE mem.pend = None BY <1>1, <1>2 DEF ReplayNotAfter, credentialRecoveryDeadline
<1>3. CASE mem.pend # None
  <2>1. mem.pend \in Pending BY <1>3, StateFields
  <2>2. mem.pend.deadline = mem.pend.anchor + Horizon /\ mem.pend.anchor \in Nat
    BY <1>3, <2>1, PendingFields DEF ValidState, ValidPending, credentialRecoveryDeadline
  <2>3. mem.pend.deadline \in Nat \ {0} BY <2>2, ConstantsAssumption
  <2> QED BY <1>1, <2>3 DEF ReplayNotAfter, credentialRecoveryDeadline
<1> QED BY <1>2, <1>3

\* An Issue intent is saved with a fresh nonce, one no grant can have.
LEMMA SaveIntentStep == ASSUME IInv, SaveIntent PROVE IInv'
<1> DEFINE s == IntentState
<1>1. /\ pc = "intent" /\ nonces < MaxNonces /\ nonces' = nonces + 1
      /\ UNCHANGED <<now, cands, wire, authorityVars, settled, seen, opened>>
      /\ SaveThen(s, "issue")
  BY DEF SaveIntent, history
<1>2. /\ mem = store /\ mem \in State /\ ValidState(mem) /\ mem.issue = None /\ ~mem.refresh
      /\ cred # None /\ (mem.pend # None => mem.pend.stale)
  BY <1>1, MemFacts DEF IInv, CallInv, CallStep, Issuing
<1>3. cred \in Credentials /\ now \in Nat /\ nonces \in Nat /\ nonces' \in 0..MaxNonces
  BY <1>1, <1>2, ConstantsAssumption DEF IInv, TypeOK
<1>4. ReplayNotAfter \in Nat \ {0} /\ (mem.pend # None => ReplayNotAfter <= mem.pend.deadline)
  BY <1>2, <1>3, CutoffFacts
<1> DEFINE i == [nonce |-> nonces + 1, until |-> ReplayNotAfter, cred |-> cred]
<1>5. i \in Issue /\ i # None BY <1>3, <1>4, ConstantsAssumption DEF Issue
<1>6. i.nonce = nonces + 1 /\ i.until = ReplayNotAfter OBVIOUS
<1>7. s = [store EXCEPT !.issue = i] BY <1>2 DEF IntentState
<1> HIDE DEF i, s
<1>8. /\ s \in State /\ s.key = store.key /\ s.asg = store.asg /\ s.pend = store.pend
      /\ s.refresh = store.refresh /\ s.issue = i
  BY <1>2, <1>5, <1>7 DEF State
<1>9. ValidState(s)
  BY <1>2, <1>4, <1>6, <1>8 DEF ValidState, ValidPending
<1>10. store' = s BY <1>1 DEF SaveThen
<1>11. CallType' /\ CallInv'
  <2>1. \/ mem' = s /\ got' = None /\ Goto("issue") /\ UNCHANGED <<round, cred>>
        \/ Return
    BY <1>1 DEF SaveThen
  <2>2. "issue" \in Steps \ {"idle", "grant", "adopt"} /\ round \in 1..2
    BY DEF Steps, IInv, TypeOK
  <2> QED BY <1>2, <1>5, <1>8, <1>10, <2>1, <2>2, SaveFacts DEF Issuing, Completing, Refreshing
<1> USE DEF IInv, DurableInv, wire
<1>12. \A g \in grants : g.nonce # i.nonce
  <2>1. \A r \in requests : r.nonce \in settled BY <1>2 DEF NonceInv
  <2> QED BY <1>3, <1>6, <2>1 DEF NonceInv
<1>13. WireInv' /\ EpisodeInv' /\ CandidateDurable' /\ OneCandidate'
  BY <1>1, <1>8, <1>10, <1>12, SamePending
<1>14. DurableType'
  BY <1>1, <1>3, <1>8, <1>10 DEF TypeOK, DurableType, WireType, authorityVars, credentialVars
<1>15. StoreInv' BY <1>1, <1>2, <1>3, <1>6, <1>8, <1>9, <1>10 DEF StoreInv
<1>16. NonceInv'
  BY <1>1, <1>2, <1>3, <1>6, <1>8, <1>10 DEF NonceInv, authorityVars, credentialVars
<1>17. OpenedAfterRefresh' BY <1>1 DEF OpenedAfterRefresh
<1> QED BY <1>11, <1>13, <1>14, <1>15, <1>16, <1>17
        DEF TypeOK, CallType, DurableType, WireType

\* A denied Issue gives its nonce up together with the intent.
LEMMA IssueDeniedStep == ASSUME IInv, IssueDenied PROVE IInv'
<1> DEFINE s == [mem EXCEPT !.issue = None]
<1>1. /\ pc = "issue" /\ SaveAndReturn(s) /\ settled' = settled \cup {mem.issue.nonce}
      /\ UNCHANGED <<now, nonces, cands, wire, authorityVars, seen, opened>>
  BY DEF IssueDenied
<1>2. mem = store /\ mem \in State /\ ValidState(mem) /\ mem.issue # None /\ ~mem.refresh
  BY <1>1, MemFacts DEF IInv, CallInv, CallStep, Issuing
<1>3. /\ s \in State /\ s.key = store.key /\ s.asg = store.asg /\ s.pend = store.pend
      /\ s.refresh = store.refresh /\ s.issue = None
  BY <1>2 DEF State
<1> HIDE DEF s
<1>4. store' = s /\ CallType' /\ CallInv' BY <1>1, ReturnFacts DEF SaveAndReturn
<1> USE DEF IInv, DurableInv, wire
<1>5. store.issue.nonce \in 1..nonces /\ nonces \in Nat
  BY <1>2, ConstantsAssumption DEF StoreInv, TypeOK
<1>6. settled' \subseteq 1..nonces BY <1>1, <1>2, <1>5 DEF NonceInv
<1>7. ValidState(s) BY <1>2, <1>3 DEF ValidState, ValidPending
<1>8. WireInv' /\ EpisodeInv' /\ CandidateDurable' /\ OneCandidate'
  BY <1>1, <1>3, <1>4, SamePending
<1>9. DurableType'
  BY <1>1, <1>3, <1>4, <1>5, <1>6, ConstantsAssumption
     DEF TypeOK, DurableType, WireType, authorityVars, credentialVars
<1>10. StoreInv' BY <1>1, <1>2, <1>3, <1>4, <1>7 DEF StoreInv
<1>11. NonceInv'
  BY <1>1, <1>2, <1>3, <1>4, <1>6 DEF NonceInv, authorityVars, credentialVars
<1>12. OpenedAfterRefresh' BY <1>1 DEF OpenedAfterRefresh
<1> QED BY <1>4, <1>8, <1>9, <1>10, <1>11, <1>12 DEF TypeOK, CallType, DurableType, WireType

\* An adopted placement replaces that of a state with no recovery in it.
LEMMA SaveRefreshedAssignmentStep == ASSUME IInv, SaveRefreshedAssignment PROVE IInv'
<1> DEFINE s == [mem EXCEPT !.asg = got.asg]
<1>1. /\ pc = "adopt" /\ SaveThen(s, "open")
      /\ UNCHANGED <<now, nonces, cands, wire, authorityVars, settled, seen, opened>>
  BY DEF SaveRefreshedAssignment, history
<1>2. /\ mem = store /\ mem \in State /\ ValidState(mem) /\ mem.key # 0 /\ mem.pend = None
      /\ mem.issue = None /\ mem.key \in seen /\ got # None
  BY <1>1, MemFacts DEF IInv, CallInv, CallStep, CallGot, Refreshing
<1>3. got.asg \in Assignment BY <1>2, AnswerFields DEF IInv, TypeOK
<1>4. /\ s \in State /\ s.key = store.key /\ s.asg = got.asg /\ s.pend = store.pend
      /\ s.refresh = store.refresh /\ s.issue = store.issue
  BY <1>2, <1>3 DEF State
<1> HIDE DEF s
<1>5. store' = s BY <1>1 DEF SaveThen
<1>6. CallType' /\ CallInv'
  <2>1. \/ mem' = s /\ got' = None /\ Goto("open") /\ UNCHANGED <<round, cred>>
        \/ Return
    BY <1>1 DEF SaveThen
  <2>2. "open" \in Steps \ {"idle", "grant", "adopt"} /\ round \in 1..2
    BY DEF Steps, IInv, TypeOK
  <2> QED BY <1>1, <1>2, <1>4, <1>5, <2>1, <2>2, SaveFacts DEF Issuing, Completing, Refreshing
<1> USE DEF IInv, DurableInv, wire
<1>7. ValidState(s) BY <1>2, <1>4 DEF ValidState
<1>8. WireInv' /\ EpisodeInv' /\ CandidateDurable' /\ OneCandidate'
  BY <1>1, <1>2, <1>4, <1>5, SamePending
<1>9. DurableType'
  BY <1>1, <1>4, <1>5 DEF TypeOK, DurableType, WireType, authorityVars, credentialVars
<1>10. StoreInv' BY <1>1, <1>2, <1>4, <1>5, <1>7 DEF StoreInv
<1>11. NonceInv' BY <1>1, <1>4, <1>5 DEF NonceInv, authorityVars, credentialVars
<1>12. OpenedAfterRefresh' BY <1>1 DEF OpenedAfterRefresh
<1> QED BY <1>6, <1>8, <1>9, <1>10, <1>11, <1>12 DEF TypeOK, CallType, DurableType, WireType

\* The refresh phase is cleared, and the runtime handed out, for a credential
\* this call has refreshed.
LEMMA FinishRefreshStep == ASSUME IInv, FinishRefresh PROVE IInv'
<1> DEFINE s == [mem EXCEPT !.refresh = FALSE]
<1>1. /\ pc = "open" /\ SaveAndReturn(s)
      /\ UNCHANGED <<now, nonces, cands, wire, authorityVars, settled, seen>>
      /\ opened' = opened \cup {mem.key} \/ opened' = opened
  BY DEF FinishRefresh
<1>2. /\ mem = store /\ mem \in State /\ ValidState(mem) /\ mem.key # 0 /\ mem.pend = None
      /\ mem.issue = None /\ mem.key \in seen
  BY <1>1, MemFacts DEF IInv, CallInv, CallStep, CallGot, Refreshing
<1>3. /\ s \in State /\ s.key = store.key /\ s.asg = store.asg /\ s.pend = store.pend
      /\ ~s.refresh /\ s.issue = store.issue
  BY <1>2 DEF State
<1> HIDE DEF s
<1>4. store' = s /\ CallType' /\ CallInv' BY <1>1, ReturnFacts DEF SaveAndReturn
<1> USE DEF IInv, DurableInv, wire
<1>5. opened' \subseteq seen' BY <1>1, <1>2 DEF OpenedAfterRefresh
<1>6. ValidState(s) BY <1>2, <1>3 DEF ValidState
<1>7. WireInv' /\ EpisodeInv' /\ CandidateDurable' /\ OneCandidate'
  BY <1>1, <1>2, <1>3, <1>4, SamePending
<1>8. DurableType'
  BY <1>1, <1>3, <1>4, <1>5 DEF TypeOK, DurableType, WireType, authorityVars, credentialVars
<1>9. StoreInv' BY <1>1, <1>2, <1>3, <1>4, <1>6 DEF StoreInv
<1>10. NonceInv' BY <1>1, <1>3, <1>4 DEF NonceInv, authorityVars, credentialVars
<1>11. OpenedAfterRefresh' BY <1>5 DEF OpenedAfterRefresh
<1> QED BY <1>4, <1>7, <1>8, <1>9, <1>10, <1>11 DEF TypeOK, CallType, DurableType, WireType

\* A saved grant is completed if it is live; a stale one takes the call back to
\* a new intent, once.
LEMMA AfterGrantFacts ==
  ASSUME IInv, NEW s \in State, AfterGrant(s), cred # None,
         ~s.refresh, s.issue = None, s.pend # None, s.pend.stale = got.stale
  PROVE  store' = s /\ CallType' /\ CallInv'
<1>1. store' = s BY DEF AfterGrant, SaveThen, SaveAndReturn
<1>2. CASE Return BY <1>1, <1>2, ReturnFacts
<1>3. CASE ~Return /\ ~got.stale
  <2>1. mem' = s /\ got' = None /\ Goto("complete") /\ UNCHANGED <<round, cred>>
    BY <1>3 DEF AfterGrant, SaveThen
  <2>2. "complete" \in Steps \ {"idle", "grant", "adopt"} /\ round \in 1..2
    BY DEF Steps, IInv, TypeOK
  <2> QED BY <1>1, <1>3, <2>1, <2>2, SaveFacts DEF Issuing, Completing, Refreshing
<1>4. CASE ~Return /\ got.stale
  <2>1. mem' = s /\ got' = None /\ Goto("intent") /\ round' = 2 /\ cred' = cred
    BY <1>4 DEF AfterGrant, SaveAndReturn
  <2>2. "intent" \in Steps \ {"idle", "grant", "adopt"} /\ round' \in 1..2
    BY <2>1 DEF Steps
  <2> QED BY <1>1, <1>4, <2>1, <2>2, SaveFacts DEF Issuing, Completing, Refreshing
<1> QED BY <1>2, <1>3, <1>4

\* The grant a call holds: the one the Hub bound to the durable intent, in an
\* episode that is still open.
LEMMA GotFacts ==
  ASSUME IInv, pc = "grant"
  PROVE  /\ mem = store /\ store.issue # None /\ got # None /\ got \in Answer /\ cred # None
         /\ got.nonce = store.issue.nonce /\ got.nonce \in 1..nonces /\ got.nonce \notin settled
         /\ got.nonce \in 1..MaxNonces /\ got.exp # 0 /\ got.exp < got.asg.lease
         /\ revoked /\ ~store.refresh
         /\ \E g \in grants : g.nonce = got.nonce /\ g.episode = episode
         /\ \A g \in grants : g.nonce = got.nonce => g.episode = episode
         /\ got.stale => GrantDead(got.nonce)
         /\ store.pend # None => store.pend.stale
         /\ \A m \in completes : m.nonce # got.nonce
<1> USE DEF IInv, DurableInv
<1>1. /\ mem = store /\ mem.issue # None /\ got # None /\ got.nonce = mem.issue.nonce
      /\ ~mem.refresh /\ cred # None /\ (mem.pend # None => mem.pend.stale)
      /\ got.exp < got.asg.lease /\ (got.stale => now >= got.exp)
  BY MemFacts DEF CallInv, CallStep, CallGot, Issuing
<1>2. PICK g \in grants : g.nonce = got.nonce /\ g.exp = got.exp BY DEF CallInv, CallGot
<1>3. g.exp # 0 /\ revoked /\ g.episode = episode BY <1>1, <1>2 DEF NonceInv, EpisodeInv
<1>4. \A h \in grants : h.nonce = got.nonce => h = g BY <1>2 DEF NonceInv
<1>5. got.nonce \in 1..nonces /\ got.nonce \notin settled BY <1>1 DEF StoreInv, NonceInv
<1>6. got.nonce \in 1..MaxNonces BY <1>5, ConstantsAssumption DEF TypeOK
<1>7. got.stale => GrantDead(got.nonce) BY <1>1, <1>2 DEF GrantDead
<1>8. \A m \in completes : m.nonce # got.nonce BY <1>5 DEF WireInv
<1>9. got \in Answer BY <1>1 DEF TypeOK
<1> QED BY <1>1, <1>2, <1>3, <1>4, <1>5, <1>6, <1>7, <1>8, <1>9

\* Once its answer is durable the nonce is settled, and no intent is left.
LEMMA SettleFacts ==
  ASSUME IInv, pc = "grant", store'.issue = None, settled' = settled \cup {got.nonce},
         UNCHANGED <<nonces, wire, authorityVars>>
  PROVE  NonceInv' /\ settled' \subseteq 1..MaxNonces
<1>1. /\ mem = store /\ got.nonce = store.issue.nonce /\ got.nonce \in 1..nonces
      /\ got.nonce \in 1..MaxNonces
  BY GotFacts
<1>2. settled' \subseteq 1..nonces BY <1>1 DEF IInv, DurableInv, NonceInv
<1>3. settled' \subseteq 1..MaxNonces BY <1>1 DEF IInv, TypeOK
<1>4. NonceInv'
  BY <1>1, <1>2 DEF IInv, DurableInv, NonceInv, wire, authorityVars, credentialVars
<1> QED BY <1>3, <1>4

\* A grant that replaces none, or one whose request was rejected or never
\* committed, is the only one a cell could commit from now on.
LEMMA NewGrantWire ==
  ASSUME IInv, pc = "grant", NEW s \in State, store' = s, s.pend # None, s.issue = None,
         s.pend.nonce = got.nonce, s.pend.stale = got.stale,
         UNCHANGED <<now, wire, authorityVars>>, settled' = settled \cup {got.nonce}
  PROVE  WireInv'
<1> USE DEF IInv, DurableInv, wire, authorityVars, credentialVars
<1>1. /\ store.pend # None => store.pend.stale
      /\ \A m \in completes : m.nonce # got.nonce
      /\ \E g \in grants : g.nonce = got.nonce
      /\ got.stale => GrantDead(got.nonce)
  BY GotFacts
<1>2. \A n : GrantDead(n)' <=> GrantDead(n) BY DEF GrantDead
<1>3. replaced \subseteq completes BY DEF TypeOK
<1> QED BY <1>1, <1>2, <1>3 DEF WireInv

\* The first grant of an episode anchors it and draws its candidate.
LEMMA PersistInitialStep == ASSUME IInv, PersistInitial PROVE IInv'
<1> DEFINE s == InitialState
<1>1. /\ pc = "grant" /\ mem.pend = None /\ cands < MaxCands /\ cands' = cands + 1
      /\ AfterGrant(s) /\ settled' = settled \cup {got.nonce}
      /\ UNCHANGED <<now, nonces, wire, authorityVars, seen, opened>>
  BY DEF PersistInitial
<1>2. /\ mem = store /\ got \in Answer /\ cred # None /\ got.exp # 0
      /\ got.exp < got.asg.lease /\ revoked /\ got.nonce \in 1..MaxNonces
      /\ \A g \in grants : g.nonce = got.nonce => g.episode = episode
  BY <1>1, GotFacts
<1>3. /\ got.nonce \in Nat \ {0} /\ got.exp \in Nat /\ got.asg \in Assignment
      /\ got.stale \in BOOLEAN /\ cands + 1 \in Nat \ {0} /\ cands + 1 \in 1..MaxCands
      /\ got.exp + Horizon \in Nat
  BY <1>1, <1>2, AnswerFields, ConstantsAssumption DEF IInv, TypeOK
<1> DEFINE p == [nonce |-> got.nonce, exp |-> got.exp, anchor |-> got.exp,
                 deadline |-> credentialRecoveryDeadline(got.exp),
                 cand |-> cands + 1, asg |-> got.asg, stale |-> got.stale]
<1>4. p \in Pending BY <1>3 DEF Pending, credentialRecoveryDeadline
<1>5. p # None BY <1>4, ConstantsAssumption
<1>6. /\ p.nonce = got.nonce /\ p.exp = got.exp /\ p.anchor = got.exp /\ p.asg = got.asg
      /\ p.deadline = credentialRecoveryDeadline(got.exp) /\ p.cand = cands + 1
      /\ p.stale = got.stale
  OBVIOUS
<1>7. s = [key |-> 0, asg |-> got.asg, issue |-> None, refresh |-> FALSE, pend |-> p]
  BY DEF InitialState
<1> HIDE DEF p, s
<1>8. s \in State BY <1>3, <1>4, <1>7 DEF State
<1>9. s.key = 0 /\ s.asg = got.asg /\ s.issue = None /\ ~s.refresh /\ s.pend = p BY <1>7
<1>10. store' = s /\ CallType' /\ CallInv'
  BY <1>1, <1>2, <1>5, <1>6, <1>8, <1>9, AfterGrantFacts
<1>11. ValidState(s) BY <1>2, <1>5, <1>6, <1>9 DEF ValidState, ValidPending
<1>12. NonceInv' /\ settled' \subseteq 1..MaxNonces
  BY <1>1, <1>9, <1>10, SettleFacts
<1>13. WireInv' BY <1>1, <1>5, <1>6, <1>8, <1>9, <1>10, NewGrantWire
<1> USE DEF IInv, DurableInv, wire
<1>14. DurableType'
  BY <1>1, <1>3, <1>8, <1>10, <1>12
     DEF TypeOK, DurableType, WireType, authorityVars, credentialVars
<1>15. StoreInv'
  BY <1>1, <1>3, <1>6, <1>9, <1>10, <1>11, ConstantsAssumption DEF StoreInv, TypeOK
<1>16. EpisodeInv'
  <2>1. \A g \in grants : g.episode <= episode BY DEF NonceInv
  <2>2. \A m \in completes, g \in grants : g.nonce = m.nonce => g.episode # episode
    BY <1>1, <1>2 DEF EpisodeInv
  <2>3. \A m \in replaced, g \in grants : g.nonce = m.nonce => g.episode # episode
    BY <2>2 DEF TypeOK
  <2> QED BY <1>1, <1>2, <1>5, <1>6, <1>9, <1>10, <2>1, <2>2, <2>3
          DEF EpisodeInv, authorityVars, credentialVars
<1>17. CandidateDurable' /\ OneCandidate' /\ OpenedAfterRefresh'
  BY <1>1, <1>2
     DEF CandidateDurable, OneCandidate, OpenedAfterRefresh, authorityVars, credentialVars
<1> QED BY <1>10, <1>12, <1>13, <1>14, <1>15, <1>16, <1>17
        DEF TypeOK, CallType, DurableType, WireType

\* A renewed grant is of the same revocation as the one it replaces, and keeps
\* its candidate, anchor and deadline.
LEMMA PersistRenewedStep == ASSUME IInv, PersistRenewed PROVE IInv'
<1> DEFINE s == RenewedState
<1>1. /\ pc = "grant" /\ mem.pend # None
      /\ AfterGrant(s) /\ settled' = settled \cup {got.nonce}
      /\ UNCHANGED <<now, nonces, cands, wire, authorityVars, seen, opened>>
  BY DEF PersistRenewed
<1>2. /\ mem = store /\ store \in State /\ ValidState(store) /\ got \in Answer /\ cred # None
      /\ ~store.refresh /\ got.exp < got.asg.lease /\ revoked /\ got.nonce \in 1..MaxNonces
      /\ store.pend.stale
      /\ \A g \in grants : g.nonce = got.nonce => g.episode = episode
  BY <1>1, GotFacts, MemFacts
<1>3. /\ got.nonce \in Nat \ {0} /\ got.exp \in Nat /\ got.asg \in Assignment
      /\ got.stale \in BOOLEAN /\ store.pend \in Pending
  BY <1>1, <1>2, AnswerFields, StateFields
<1> DEFINE p == [store.pend EXCEPT !.nonce = got.nonce, !.exp = got.exp,
                                   !.asg = got.asg, !.stale = got.stale]
<1>4. p \in Pending BY <1>3 DEF Pending
<1>5. p # None BY <1>4, ConstantsAssumption
<1>6. /\ p.nonce = got.nonce /\ p.exp = got.exp /\ p.anchor = store.pend.anchor
      /\ p.asg = got.asg /\ p.deadline = store.pend.deadline /\ p.cand = store.pend.cand
      /\ p.stale = got.stale
  BY <1>3 DEF Pending
<1>7. s = [store EXCEPT !.asg = got.asg, !.issue = None, !.pend = p] BY <1>2 DEF RenewedState
<1> HIDE DEF p, s
<1>8. /\ s \in State /\ s.key = store.key /\ s.asg = got.asg /\ s.issue = None
      /\ s.refresh = store.refresh /\ s.pend = p
  BY <1>2, <1>3, <1>4, <1>7 DEF State
<1>9. store' = s /\ CallType' /\ CallInv'
  BY <1>1, <1>2, <1>5, <1>6, <1>8, AfterGrantFacts
<1>10. ValidState(s) BY <1>1, <1>2, <1>5, <1>6, <1>8 DEF ValidState, ValidPending
<1>11. NonceInv' /\ settled' \subseteq 1..MaxNonces
  BY <1>1, <1>8, <1>9, SettleFacts
<1>12. WireInv' BY <1>1, <1>5, <1>6, <1>8, <1>9, NewGrantWire
<1> USE DEF IInv, DurableInv, wire
<1>13. DurableType'
  BY <1>1, <1>8, <1>9, <1>11 DEF TypeOK, DurableType, WireType, authorityVars, credentialVars
<1>14. StoreInv' BY <1>1, <1>2, <1>6, <1>8, <1>9, <1>10 DEF StoreInv
<1>15. EpisodeInv'
  <2>1. \A g \in grants : g.episode <= episode BY DEF NonceInv
  <2>2. PICK h \in grants : h.nonce = store.pend.nonce BY <1>1, <1>2 DEF WireInv
  <2>3. RequestOf(store) \notin replaced BY <1>1, <1>2 DEF WireInv, RequestOf
  <2>4. h.episode = episode BY <1>1, <1>2, <2>2, <2>3 DEF EpisodeInv
  <2>5. \A m \in completes, g \in grants :
          g.nonce = m.nonce /\ g.episode = episode => m.cand = store.pend.cand
    BY <1>1, <1>2, <2>2, <2>4 DEF EpisodeInv
  <2> QED BY <1>1, <1>2, <1>5, <1>6, <1>8, <1>9, <2>1, <2>5
          DEF EpisodeInv, authorityVars, credentialVars
<1>16. CandidateDurable' /\ OneCandidate' /\ OpenedAfterRefresh'
  BY <1>1, <1>2
     DEF CandidateDurable, OneCandidate, OpenedAfterRefresh, authorityVars, credentialVars
<1> QED BY <1>9, <1>11, <1>12, <1>13, <1>14, <1>15, <1>16
        DEF TypeOK, CallType, DurableType, WireType

\* A rejected grant was not committed and never will be.
LEMMA GrantRejectedStep == ASSUME IInv, GrantRejected PROVE IInv'
<1> DEFINE s == RejectedState
<1>1. /\ pc = "complete" /\ CompleteRequest \notin replaced /\ GrantDead(mem.pend.nonce)
      /\ SaveAndReturn(s)
      /\ UNCHANGED <<now, nonces, cands, wire, authorityVars, settled, seen, opened>>
  BY DEF GrantRejected
<1>2. /\ mem = store /\ store \in State /\ ValidState(store) /\ store.pend # None
      /\ ~store.pend.stale
  BY <1>1, MemFacts DEF IInv, CallInv, CallStep, Completing
<1>3. store.pend \in Pending /\ store.issue = None BY <1>2, StateFields DEF ValidState
<1> DEFINE p == [store.pend EXCEPT !.stale = TRUE]
<1>4. p \in Pending BY <1>3 DEF Pending
<1>5. p # None BY <1>4, ConstantsAssumption
<1>6. /\ p.nonce = store.pend.nonce /\ p.exp = store.pend.exp /\ p.anchor = store.pend.anchor
      /\ p.asg = store.pend.asg /\ p.deadline = store.pend.deadline
      /\ p.cand = store.pend.cand /\ p.stale
  BY <1>3 DEF Pending
<1>7. s = [store EXCEPT !.pend = p] BY <1>2 DEF RejectedState
<1> HIDE DEF p, s
<1>8. /\ s \in State /\ s.key = store.key /\ s.asg = store.asg /\ s.issue = None
      /\ s.refresh = store.refresh /\ s.pend = p
  BY <1>2, <1>3, <1>4, <1>7 DEF State
<1>9. store' = s /\ CallType' /\ CallInv' BY <1>1, ReturnFacts DEF SaveAndReturn
<1>10. ValidState(s) BY <1>2, <1>3, <1>5, <1>6, <1>8 DEF ValidState, ValidPending
<1>11. RequestOf(s) = RequestOf(store) /\ RequestOf(store) \notin replaced
  BY <1>1, <1>2, <1>6, <1>8 DEF RequestOf, CompleteRequest
<1> USE DEF IInv, DurableInv, wire
<1>12. DurableType'
  BY <1>1, <1>8, <1>9 DEF TypeOK, DurableType, WireType, authorityVars, credentialVars
<1>13. StoreInv' BY <1>1, <1>2, <1>6, <1>8, <1>9, <1>10 DEF StoreInv
<1>14. NonceInv' BY <1>1, <1>3, <1>8, <1>9 DEF NonceInv, authorityVars, credentialVars
<1>15. WireInv'
  <2>1. \A n : GrantDead(n)' <=> GrantDead(n) BY <1>1 DEF GrantDead, authorityVars, credentialVars
  <2>2. \A m \in replaced : m.nonce # store.pend.nonce
    BY <1>2, <1>11 DEF WireInv, TypeOK
  <2>3. GrantDead(store.pend.nonce) BY <1>1, <1>2
  <2> QED BY <1>1, <1>2, <1>5, <1>6, <1>8, <1>9, <1>11, <2>1, <2>2, <2>3
          DEF WireInv, authorityVars, credentialVars
<1>16. EpisodeInv'
  BY <1>1, <1>2, <1>3, <1>5, <1>6, <1>8, <1>9, <1>11
     DEF EpisodeInv, authorityVars, credentialVars
<1>17. CandidateDurable' /\ OneCandidate' /\ OpenedAfterRefresh'
  BY <1>1, <1>2, <1>5, <1>6, <1>8, <1>9
     DEF CandidateDurable, OneCandidate, OpenedAfterRefresh, authorityVars, credentialVars
<1> QED BY <1>9, <1>12, <1>13, <1>14, <1>15, <1>16, <1>17
        DEF TypeOK, CallType, DurableType, WireType

\* The promoted candidate is the credential the commit has bound, if it still
\* is, and no request is left that a cell could commit.
LEMMA PromoteStep == ASSUME IInv, Promote PROVE IInv'
<1> DEFINE s == PromotedState
<1>1. /\ pc = "promote" /\ SaveThen(s, "refresh")
      /\ UNCHANGED <<now, nonces, cands, wire, authorityVars, settled, seen, opened>>
  BY DEF Promote, history
<1>2. /\ mem = store /\ store \in State /\ ValidState(store) /\ store.pend # None
      /\ ~store.pend.stale /\ RequestOf(store) \in replaced
  BY <1>1, MemFacts DEF IInv, CallInv, CallStep, Completing, CompleteRequest, RequestOf
<1>3. /\ store.pend.cand \in Nat \ {0} /\ store.pend.asg \in Assignment
      /\ store.issue = None /\ store.key = 0
  BY <1>2, StateFields, PendingFields DEF ValidState
<1>4. /\ s.key = store.pend.cand /\ s.asg = store.pend.asg /\ s.pend = None
      /\ s.issue = None /\ s.refresh
  BY <1>2 DEF PromotedState
<1>5. s \in State BY <1>2, <1>3 DEF PromotedState, State
<1> HIDE DEF s
<1>6. store' = s BY <1>1 DEF SaveThen
<1>7. CallType' /\ CallInv'
  <2>1. \/ mem' = s /\ got' = None /\ Goto("refresh") /\ UNCHANGED <<round, cred>>
        \/ Return
    BY <1>1 DEF SaveThen
  <2>2. "refresh" \in Steps \ {"idle", "grant", "adopt"} /\ round \in 1..2
    BY DEF Steps, IInv, TypeOK
  <2> QED BY <1>3, <1>4, <1>5, <1>6, <2>1, <2>2, SaveFacts DEF Issuing, Completing, Refreshing
<1>8. ValidState(s) BY <1>3, <1>4 DEF ValidState
<1> USE DEF IInv, DurableInv, wire
<1>9. DurableType'
  BY <1>1, <1>5, <1>6 DEF TypeOK, DurableType, WireType, authorityVars, credentialVars
<1>10. StoreInv'
  BY <1>1, <1>2, <1>4, <1>6, <1>8, ConstantsAssumption DEF StoreInv, TypeOK
<1>11. NonceInv' BY <1>1, <1>3, <1>4, <1>6 DEF NonceInv, authorityVars, credentialVars
<1>12. WireInv'
  <2>1. \A n : GrantDead(n)' <=> GrantDead(n) BY <1>1 DEF GrantDead, authorityVars, credentialVars
  <2>2. \A m \in completes : m \in replaced \/ GrantDead(m.nonce) BY <1>2 DEF WireInv
  <2> QED BY <1>1, <1>4, <1>6, <2>1, <2>2 DEF WireInv, authorityVars, credentialVars
<1>13. EpisodeInv'
  <2>1. PICK h \in grants : h.nonce = store.pend.nonce BY <1>2 DEF WireInv
  <2>2. h.episode <= episode BY <2>1 DEF NonceInv
  <2>3. h.episode = episode => ~revoked BY <1>2, <2>1 DEF EpisodeInv, RequestOf
  <2>4. \A m \in completes, g \in grants :
          g.nonce = m.nonce /\ g.episode = episode => ~revoked
    <3> SUFFICES ASSUME NEW m \in completes, NEW g \in grants, g.nonce = m.nonce,
                        g.episode = episode
                 PROVE  ~revoked
      OBVIOUS
    <3>1. episode <= h.episode BY <1>2, <2>1 DEF EpisodeInv
    <3>2. h.episode \in Nat /\ episode \in Nat BY ConstantsAssumption DEF TypeOK, Grant
    <3> QED BY <2>2, <2>3, <3>1, <3>2
  <2> QED BY <1>1, <1>4, <1>6, <2>4 DEF EpisodeInv, authorityVars, credentialVars
<1>14. CandidateDurable'
  <2>1. bound \in 1..MaxCands BY DEF TypeOK
  <2> QED BY <1>1, <1>3, <1>4, <1>6, <2>1 DEF CandidateDurable, authorityVars, credentialVars
<1>15. OneCandidate' /\ OpenedAfterRefresh'
  BY <1>1 DEF OneCandidate, OpenedAfterRefresh, authorityVars, credentialVars
<1> QED BY <1>7, <1>9, <1>10, <1>11, <1>12, <1>13, <1>14, <1>15
        DEF TypeOK, CallType, DurableType, WireType

-----------------------------------------------------------------------------
(***************************************************************************)
(* The invariant holds in every reachable state.                           *)
(***************************************************************************)

\* A registered agent with an intact or a lost device key.
LEMMA InitInv == Init => IInv
<1> SUFFICES ASSUME Init PROVE IInv OBVIOUS
<1> USE ConstantsAssumption DEF Init
<1>1. PICK p \in placements, key \in {0, 1} :
        store = [key |-> key, asg |-> Leased(p, now + LeaseLife),
                 pend |-> None, issue |-> None, refresh |-> FALSE]
  OBVIOUS
<1>2. placements \subseteq Placement OBVIOUS
<1>3. Leased(p, now + LeaseLife) \in Assignment BY <1>2, LeasedFacts
<1>4. store \in State BY <1>1, <1>3 DEF State
<1>5. store.pend = None /\ store.issue = None /\ ~store.refresh /\ store.key \in {0, 1}
  BY <1>1
<1>6. TypeOK
  <2>0. sent \in BOOLEAN /\ revoked \in BOOLEAN BY Zenon
  <2>1. CallType
    <3>1. pc \in Steps BY DEF Steps
    <3> QED BY <2>0, <3>1 DEF CallType
  <2>2. WireType
    <3>1. bound \in 1..MaxCands /\ episode \in 0..MaxRevocations OBVIOUS
    <3>2. /\ requests \subseteq [nonce : 1..MaxNonces, cred : Credentials]
          /\ completes \subseteq [nonce : 1..MaxNonces, cell : Cells, cand : 1..MaxCands]
          /\ grants \subseteq Grant /\ replaced \subseteq completes
      OBVIOUS
    <3> QED BY <1>2, <2>0, <3>1, <3>2 DEF WireType
  <2>3. now \in Nat /\ nonces \in 0..MaxNonces /\ cands \in 1..MaxCands OBVIOUS
  <2>4. settled \subseteq 1..MaxNonces /\ seen \subseteq 0..MaxCands /\ opened \subseteq 0..MaxCands
    OBVIOUS
  <2> QED BY <1>4, <2>1, <2>2, <2>3, <2>4 DEF TypeOK, CallType, WireType
<1>7. CallInv BY DEF CallInv, CallIdle, CallMem, CallStep, CallGot, Issuing, Completing, Refreshing
<1>8. StoreInv BY <1>5 DEF StoreInv, ValidState
<1>9. NonceInv /\ WireInv /\ EpisodeInv BY <1>5 DEF NonceInv, WireInv, EpisodeInv
<1>10. CandidateDurable /\ OneCandidate /\ OpenedAfterRefresh
  BY DEF CandidateDurable, OneCandidate, OpenedAfterRefresh
<1> QED BY <1>6, <1>7, <1>8, <1>9, <1>10 DEF IInv, DurableInv

\* Every step keeps the invariant.
LEMMA NextInv == IInv /\ [Next]_vars => IInv'
<1> SUFFICES ASSUME IInv, [Next]_vars PROVE IInv' OBVIOUS
<1>1. CASE UNCHANGED vars
  <2>1. UNCHANGED <<now, clientVars, nonces, cands, wire, authorityVars, settled, seen, opened>>
    BY <1>1 DEF vars, history
  <2>2. CallType' /\ CallInv' BY <2>1, FrameCall DEF authorityVars, IInv, TypeOK
  <2>3. seen' \subseteq 0..MaxCands /\ opened' \subseteq seen'
    BY <2>1 DEF IInv, TypeOK, DurableInv, OpenedAfterRefresh
  <2>4. DurableType' /\ DurableInv' BY <2>1, <2>3, FrameDurable DEF clientVars
  <2> QED BY <2>2, <2>4 DEF IInv, TypeOK, CallType, DurableType, WireType
<1>2. CASE Client
  BY <1>2, RecoverIssueStep, SaveIntentStep, SendIssueStep, IssueAnsweredStep, IssueDeniedStep,
     PersistInitialStep, PersistRenewedStep, ResumeCompleteStep, SendCompleteStep,
     CompleteAcknowledgedStep, GrantRejectedStep, PromoteStep, BeginRefreshStep,
     HubRefreshesStep, SaveRefreshedAssignmentStep, FinishRefreshStep, OpenRegisteredAgentStep
     DEF Client
<1>3. CASE Abandon BY <1>3, AbandonStep
<1>4. CASE Authority
  BY <1>4, HubIssuesStep, CellReplacesStep, RevokeStep, HubPublishesStep DEF Authority
<1>5. CASE Tick BY <1>5, TickStep
<1> QED BY <1>1, <1>2, <1>3, <1>4, <1>5 DEF Next

\* The invariant is one of the specification.
THEOREM InvariantHolds == Spec => []IInv
BY InitInv, NextInv, PTL DEF Spec

\* The variables keep their types.
THEOREM TypeCorrect == Spec => []TypeOK
<1>1. IInv => TypeOK BY DEF IInv
<1> QED BY <1>1, InvariantHolds, PTL

\* Every durable state a recovery leaves, at whatever step it dies, is one
\* validateLoadedAgentAssignment accepts: the agent is never bricked.
THEOREM LoaderAcceptsHolds == Spec => []LoaderAccepts
<1>1. IInv => LoaderAccepts BY DEF IInv, DurableInv, StoreInv, LoaderAccepts
<1> QED BY <1>1, InvariantHolds, PTL

\* The credential a cell has bound is the durable candidate or the durable key
\* until it is revoked, and all Complete requests of one revocation carry one
\* candidate: persistInitialCredentialRecovery draws it, renewal, rejection and
\* replay keep it.
THEOREM OneDurableCandidateHolds == Spec => []OneDurableCandidate
<1>1. IInv => OneDurableCandidate BY DEF IInv, DurableInv, OneDurableCandidate
<1> QED BY <1>1, InvariantHolds, PTL

\* No crash orphans a grant, because persistCredentialRecoveryIssueIntent saves
\* the nonce before the first datagram; and no open, not even a lock-free one,
\* uses a promoted credential before finishCredentialRecoveryRefresh.
THEOREM NoPhaseSkippedHolds == Spec => []NoPhaseSkipped
<1>1. IInv => GrantReplayable
  <2> SUFFICES ASSUME IInv, NEW g \in grants
               PROVE  g.nonce \in settled \/ (store.issue # None /\ store.issue.nonce = g.nonce)
    BY DEF GrantReplayable
  <2>1. PICK r \in requests : r.nonce = g.nonce BY DEF IInv, DurableInv, NonceInv
  <2> QED BY <2>1 DEF IInv, DurableInv, NonceInv
<1>2. IInv => OpenedAfterRefresh BY DEF IInv, DurableInv
<1> QED BY <1>1, <1>2, InvariantHolds, PTL DEF NoPhaseSkipped

-----------------------------------------------------------------------------
(***************************************************************************)
(* What a save may change.                                                 *)
(***************************************************************************)

\* The durable state changes only when a call saves.
LEMMA SavesOnly ==
  ASSUME IInv, [Next]_vars, store' # store
  PROVE  SaveIntent \/ IssueDenied \/ PersistInitial \/ PersistRenewed \/ GrantRejected
         \/ Promote \/ SaveRefreshedAssignment \/ FinishRefresh
<1>1. ~UNCHANGED vars BY DEF vars, clientVars
<1>2. ~(Abandon \/ Tick \/ Authority)
  BY DEF Abandon, Tick, Authority, HubIssues, CellReplaces, Revoke, HubPublishes, clientVars
<1>3. ~(RecoverIssue \/ SendIssue \/ IssueAnswered \/ ResumeComplete \/ SendComplete
        \/ CompleteAcknowledged \/ BeginRefresh \/ HubRefreshes \/ OpenRegisteredAgent)
  BY DEF RecoverIssue, SendIssue, IssueAnswered, ResumeComplete, SendComplete,
         CompleteAcknowledged, BeginRefresh, HubRefreshes, OpenRegisteredAgent, clientVars
<1> QED BY <1>1, <1>2, <1>3 DEF Next, Client

\* A save that has a pending grant before and after it keeps its candidate,
\* anchor and deadline, and no save takes the placement back.
LEMMA SaveKeepsEpisode ==
  ASSUME IInv, [Next]_vars
  PROVE  /\ store.pend # None /\ store'.pend # None
              => /\ store'.pend.cand = store.pend.cand
                 /\ store'.pend.anchor = store.pend.anchor
                 /\ store'.pend.deadline = store.pend.deadline
         /\ NotOlder(store.asg, store'.asg)
<1> DEFINE Kept == /\ store.pend # None /\ store'.pend # None
                        => /\ store'.pend.cand = store.pend.cand
                           /\ store'.pend.anchor = store.pend.anchor
                           /\ store'.pend.deadline = store.pend.deadline
                   /\ NotOlder(store.asg, store'.asg)
<1> USE DEF SaveThen, SaveAndReturn
<1>1. store \in State BY DEF IInv, TypeOK
<1>2. store.asg \in Assignment /\ NotOlder(store.asg, store.asg)
  BY <1>1, StateFields, AssignmentFields DEF NotOlder
<1>3. store.pend # None => store.pend \in Pending /\ store.pend.asg = store.asg
  BY <1>1, StateFields DEF IInv, DurableInv, StoreInv, ValidState, ValidPending
<1>4. CASE store' = store BY <1>2, <1>4
<1>5. CASE SaveIntent
  <2>1. mem = store BY <1>5, MemFacts DEF SaveIntent
  <2> QED BY <1>1, <1>2, <1>5, <2>1 DEF SaveIntent, IntentState, State
<1>6. CASE IssueDenied
  <2>1. mem = store BY <1>6, MemFacts DEF IssueDenied
  <2> QED BY <1>1, <1>2, <1>6, <2>1 DEF IssueDenied, State
<1>7. CASE PersistInitial
  <2>1. mem = store /\ mem.pend = None /\ got.asg \in Assignment
        /\ EnsureRefreshAssignmentContinuity(mem.asg, got.asg, TRUE) /\ AfterGrant(InitialState)
    BY <1>7, GotFacts, AnswerFields DEF PersistInitial
  <2>2. NotOlder(store.asg, got.asg) BY <1>2, <2>1, ContinuityNotOlder
  <2>3. store' = InitialState BY <2>1 DEF AfterGrant
  <2> QED BY <2>1, <2>2, <2>3 DEF InitialState
<1>8. CASE PersistRenewed
  <2>1. mem = store /\ mem.pend # None /\ got.asg \in Assignment
        /\ EnsureRefreshAssignmentContinuity(mem.pend.asg, got.asg, TRUE)
        /\ AfterGrant(RenewedState)
    BY <1>8, GotFacts, AnswerFields DEF PersistRenewed, Renewable
  <2>2. NotOlder(store.asg, got.asg) BY <1>2, <1>3, <2>1, ContinuityNotOlder
  <2>3. store' = RenewedState BY <2>1 DEF AfterGrant
  <2> QED BY <1>1, <1>3, <2>1, <2>2, <2>3 DEF RenewedState, State, Pending
<1>9. CASE GrantRejected
  <2>1. mem = store BY <1>9, MemFacts DEF GrantRejected
  <2>2. mem.pend # None BY <1>9 DEF GrantRejected, IInv, CallInv, CallStep, Completing
  <2> QED BY <1>1, <1>2, <1>3, <1>9, <2>1, <2>2 DEF GrantRejected, RejectedState, State, Pending
<1>10. CASE Promote
  <2>1. mem = store BY <1>10, MemFacts DEF Promote
  <2>2. mem.pend # None BY <1>10 DEF Promote, IInv, CallInv, CallStep, Completing
  <2> QED BY <1>2, <1>3, <1>10, <2>1, <2>2 DEF Promote, PromotedState
<1>11. CASE SaveRefreshedAssignment
  <2>1. mem = store /\ NotOlder(mem.asg, got.asg)
    BY <1>11, MemFacts DEF SaveRefreshedAssignment, IInv, CallInv, CallGot
  <2> QED BY <1>1, <1>11, <2>1 DEF SaveRefreshedAssignment, State
<1>12. CASE FinishRefresh
  <2>1. mem = store BY <1>12, MemFacts DEF FinishRefresh
  <2> QED BY <1>1, <1>2, <1>12, <2>1 DEF FinishRefresh, State
<1> QED BY <1>4, <1>5, <1>6, <1>7, <1>8, <1>9, <1>10, <1>11, <1>12, SavesOnly

\* Renewal, rejection and replay never rotate the candidate of an episode nor
\* move its anchor or deadline, and persistInitialCredentialRecovery,
\* persistRenewedCredentialRecovery and the refresh never make an older
\* placement durable.
THEOREM EpisodeStableHolds == Spec => EpisodeStable
<1>1. IInv /\ [Next]_vars =>
        /\ [store.pend # None /\ store'.pend # None
              => /\ store'.pend.cand = store.pend.cand
                 /\ store'.pend.anchor = store.pend.anchor
                 /\ store'.pend.deadline = store.pend.deadline]_store
        /\ [NotOlder(store.asg, store'.asg)]_store
  BY SaveKeepsEpisode
<1> QED BY <1>1, InvariantHolds, PTL DEF Spec, EpisodeStable, EpisodeFixed, PlacementNeverRegresses

=============================================================================
