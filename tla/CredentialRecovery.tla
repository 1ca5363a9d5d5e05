------------------------- MODULE CredentialRecovery -------------------------
(***************************************************************************)
(* RecoverAgentRuntime: replacing the revoked or lost device credential of *)
(* a registered agent, src/qurl/agent_credential_recovery.go, with the     *)
(* refresh and open paths that share its durable state.                    *)
(*                                                                         *)
(* One call at a time holds the setup lock and walks                       *)
(*                                                                         *)
(*   save Issue intent -> Issue LST to the Hub -> save grant, candidate    *)
(*   and placement -> Complete LST to the assigned cell -> save the        *)
(*   promoted credential -> mandatory Hub refresh -> open, clear the phase *)
(*                                                                         *)
(* and may stop anywhere.  The next call resumes from what is durable.     *)
(* OpenRegisteredAgent takes no lock and may read the store at any step.   *)
(* Identity, keypair and registration of the agent never change here and   *)
(* are left out; credentials, nonces and grants are serial numbers.        *)
(*                                                                         *)
(* Definitions named Faulty... are not part of the specification: each is  *)
(* a plausible bug of the definition below it, kept to confirm that the    *)
(* properties would notice it.                                             *)
(***************************************************************************)
EXTENDS AgentAssignment

CONSTANTS
  None,                   \* nil
  Cells, Endpoints,       \* placements the Hub can choose
  Credentials,            \* recovery credentials a caller may bring ...
  Active,                 \* ... and those the Hub accepts
  GrantLife,              \* credentialRecoveryGrantLifetime, 15 minutes
  LeaseLife,              \* lifetime of an assignment lease
  Horizon,                \* AgentCredentialRecoveryHorizon, 90 days
  MaxTime, MaxNonces, MaxCands, MaxRevocations, MaxGen, MaxRev  \* bounds of a run

Assignment == AssignmentSet(Cells, Nat \ {0}, Nat \ {0}, Endpoints, Nat)

\* PendingAgentCredentialRecovery: the current grant (named by the nonce of
\* its Issue request), the immutable episode, the candidate and NeedsFreshGrant.
Pending == [nonce : Nat \ {0}, exp : Nat, anchor : Nat, deadline : Nat,
            cand : Nat \ {0}, asg : Assignment, stale : BOOLEAN]

\* PendingAgentCredentialRecoveryIssue: the replay identity of one Issue.
Issue == [nonce : Nat \ {0}, until : Nat, cred : Credentials]

\* AgentState, the part recovery reads or writes.
State == [key : Nat, asg : Assignment, pend : Pending \cup {None},
          issue : Issue \cup {None}, refresh : BOOLEAN]

\* A grant as the Hub issued it; "episode" counts revocations.
Grant == [nonce : Nat \ {0}, episode : Nat, asg : Assignment, exp : Nat]

\* A Hub answer the call has authenticated: a grant, or a refreshed placement.
Answer == [nonce : Nat, exp : Nat, asg : Assignment, stale : BOOLEAN]

ASSUME ConstantsAssumption ==
  /\ Active \subseteq Credentials
  /\ GrantLife \in Nat \ {0} /\ LeaseLife \in Nat /\ LeaseLife > GrantLife
  /\ Horizon \in Nat \ {0}
  /\ {MaxTime, MaxNonces, MaxCands, MaxRevocations, MaxGen, MaxRev} \subseteq Nat
  /\ MaxCands >= 1
  /\ None \notin Pending /\ None \notin Issue /\ None \notin Answer
  /\ None \notin State /\ None \notin Credentials

VARIABLES
  now,        \* the clock
  store,      \* durable agent state
  pc,         \* step of the lifecycle call in progress, "idle" for none
  mem,        \* the call's working copy
  got,        \* authenticated Hub answer not saved yet
  round,      \* outer Issue operation of the call, 1 or 2
  cred,       \* recovery credential the call brought
  sent,       \* the exchange in progress has put a datagram on the wire
  nonces, cands,     \* serial numbers drawn so far
  requests,   \* Issue datagrams ever sent
  completes,  \* Complete datagrams ever sent
  grants,     \* grants the Hub has issued
  replaced,   \* Complete requests the cells have committed
  bound, revoked, episode,   \* the authority's view of the device credential
  placements, \* placements the Hub has published, without their lease
  settled,    \* history: nonces whose answer is durable
  seen,       \* history: credentials an authenticated Hub refresh has covered
  opened      \* history: credentials a runtime or client was opened with

clientVars == <<store, pc, mem, got, round, cred, sent>>
wire == <<requests, completes>>
credentialVars == <<bound, revoked, episode>>
authorityVars == <<grants, replaced, credentialVars, placements>>
history == <<settled, seen, opened>>
vars == <<now, clientVars, nonces, cands, wire, authorityVars, history>>

Placement == [cell : Cells, gen : 1..MaxGen, rev : 1..MaxRev, endpoint : Endpoints]

Leased(p, lease) ==
  [cell |-> p.cell, gen |-> p.gen, rev |-> p.rev, endpoint |-> p.endpoint, lease |-> lease]

Steps == {"idle", "intent", "issue", "grant", "complete", "promote",
          "refresh", "adopt", "open"}

-----------------------------------------------------------------------------
(* The durable state and its deadlines.                                    *)

credentialRecoveryDeadline(anchor) == anchor + Horizon

\* validatePendingAgentCredentialRecovery.
ValidPending(s) ==
  /\ s.pend.asg = s.asg
  /\ s.pend.exp < s.pend.asg.lease
  /\ s.pend.anchor # 0
  /\ s.pend.deadline = credentialRecoveryDeadline(s.pend.anchor)

\* validateLoadedAgentAssignment, the clauses of credential recovery.
ValidState(s) ==
  /\ s.issue # None =>
       /\ s.issue.until # 0
       /\ s.pend # None => s.pend.stale /\ s.issue.until <= s.pend.deadline
  /\ s.pend # None => s.key = 0 /\ ValidPending(s)
  /\ s.refresh => s.pend = None /\ s.issue = None /\ s.key # 0

\* validatePersistedNativeDeviceCredential: what every ordinary open needs.
Usable(s) == ~s.refresh /\ s.pend = None /\ s.issue = None /\ s.key # 0

\* The write boundary: the episode's deadline once a grant has anchored it,
\* the conservative cutoff of the Issue intent before that.
Boundary(s) == IF s.pend # None THEN s.pend.deadline ELSE s.issue.until
RecoveryLive(s) == now < Boundary(s)

-----------------------------------------------------------------------------
(* Saves and the end of a call.                                            *)

Return ==
  /\ pc' = "idle" /\ mem' = None /\ got' = None
  /\ round' = 1 /\ cred' = None /\ sent' = FALSE

Goto(step) == pc' = step /\ sent' = FALSE

\* saveCredentialRecoveryState: the save commits, and the call continues (the
\* acknowledgement arrived or a reload shows the expected state) or ends
\* anyway.  A save that does not commit is Abandon.
SaveThen(s, step) ==
  /\ store' = s
  /\ \/ mem' = s /\ got' = None /\ Goto(step) /\ UNCHANGED <<round, cred>>
     \/ Return

SaveAndReturn(s) == store' = s /\ Return

\* The call ends with nothing durable changed: a crash, a cancelled caller,
\* an exhausted retry budget, a refused save, a refused answer, a conflict or
\* identity verdict of the cell, an expired deadline.
Abandon ==
  /\ pc # "idle"
  /\ Return
  /\ UNCHANGED <<now, store, nonces, cands, wire, authorityVars, history>>

-----------------------------------------------------------------------------
(* Hub Issue: issueAndPersistCredentialRecovery.                           *)

\* RecoverAgentRuntime with no grant, or only a rejected or stale one: an
\* intent left by an earlier call must be replayed, with the same credential.
RecoverIssue ==
  /\ pc = "idle"
  /\ ValidState(store) /\ ~store.refresh
  /\ store.pend # None => store.pend.stale /\ RecoveryLive(store)
  /\ store.pend = None /\ store.issue # None => RecoveryLive(store)
  /\ cred' \in Credentials
  /\ IF store.issue = None THEN Goto("intent")
                           ELSE store.issue.cred = cred' /\ Goto("issue")
  /\ mem' = store
  /\ UNCHANGED <<now, store, got, round, nonces, cands, wire, authorityVars, history>>

\* The replay cutoff of a new intent never exceeds the episode it renews.
FaultyCutoff == now + Horizon
ReplayNotAfter ==
  LET cutoff == credentialRecoveryDeadline(now)
  IN IF mem.pend # None /\ mem.pend.deadline < cutoff THEN mem.pend.deadline ELSE cutoff

IntentState ==
  [mem EXCEPT !.issue = [nonce |-> nonces + 1, until |-> ReplayNotAfter, cred |-> cred]]

\* persistCredentialRecoveryIssueIntent: a fresh nonce, saved before the first
\* datagram that carries it.
SaveIntent ==
  /\ pc = "intent" /\ nonces < MaxNonces
  /\ mem.pend # None => RecoveryLive(mem)
  /\ nonces' = nonces + 1
  /\ SaveThen(IntentState, "issue")
  /\ UNCHANGED <<now, cands, wire, authorityVars, history>>

\* issueCredentialRecovery: every write, retries included, passes the fence.
SendIssue ==
  /\ pc = "issue" /\ RecoveryLive(mem)
  /\ requests' = requests \cup {[nonce |-> mem.issue.nonce, cred |-> cred]}
  /\ sent' = TRUE
  /\ UNCHANGED <<now, store, pc, mem, got, round, cred, nonces, cands, completes,
                 authorityVars, history>>

\* parseCredentialRecoveryIssueReply: an exact replay may bring a grant, or a
\* lease, that is no longer live; it is then marked stale.  A renewal also
\* checks its boundary once more.
IssueAnswered ==
  /\ pc = "issue" /\ sent
  /\ mem.pend # None => RecoveryLive(mem)
  /\ \E g \in grants :
       /\ g.nonce = mem.issue.nonce
       /\ g.exp < g.asg.lease
       /\ got' = [nonce |-> g.nonce, exp |-> g.exp, asg |-> g.asg,
                  stale |-> now >= g.exp \/ LeaseExpired(g.asg, now)]
  /\ Goto("grant")
  /\ UNCHANGED <<now, store, mem, round, cred, nonces, cands, wire, authorityVars, history>>

\* clearCredentialRecoveryIssueIntent: an authenticated terminal denial (the
\* credential is not accepted, or the device key is not revoked, 52403)
\* releases the intent, so that a corrected call can start over.
IssueDenied ==
  /\ pc = "issue" /\ sent
  /\ \A g \in grants : g.nonce # mem.issue.nonce
  /\ cred \notin Active \/ ~revoked
  /\ SaveAndReturn([mem EXCEPT !.issue = None])
  /\ settled' = settled \cup {mem.issue.nonce}
  /\ UNCHANGED <<now, nonces, cands, wire, authorityVars, seen, opened>>

\* A stale result is saved but never sent to a cell: the call spends one more
\* nonce, and gives up if that answer is stale too.
AfterGrant(s) ==
  \/ ~got.stale /\ SaveThen(s, "complete")
  \/ got.stale /\ round = 2 /\ SaveAndReturn(s)
  \/ /\ got.stale /\ round = 1 /\ store' = s
     /\ \/ mem' = s /\ got' = None /\ Goto("intent") /\ round' = 2 /\ UNCHANGED cred
        \/ Return

\* persistInitialCredentialRecovery: the first grant anchors the episode and
\* the revoked key is dropped beside a new candidate.
InitialState ==
  [key |-> 0, asg |-> got.asg, issue |-> None, refresh |-> FALSE,
   pend |-> [nonce |-> got.nonce, exp |-> got.exp, anchor |-> got.exp,
             deadline |-> credentialRecoveryDeadline(got.exp),
             cand |-> cands + 1, asg |-> got.asg, stale |-> got.stale]]

PersistInitial ==
  /\ pc = "grant" /\ mem.pend = None /\ cands < MaxCands
  /\ EnsureRefreshAssignmentContinuity(mem.asg, got.asg, TRUE)
  /\ cands' = cands + 1
  /\ AfterGrant(InitialState)
  /\ settled' = settled \cup {got.nonce}
  /\ UNCHANGED <<now, nonces, wire, authorityVars, seen, opened>>

\* persistRenewedCredentialRecovery: grant, times and placement are replaced,
\* candidate, anchor and deadline are not.
FaultyReanchor ==
  [mem EXCEPT !.asg = got.asg, !.issue = None,
              !.pend = [mem.pend EXCEPT !.nonce = got.nonce, !.exp = got.exp,
                          !.anchor = got.exp, !.deadline = credentialRecoveryDeadline(got.exp),
                          !.asg = got.asg, !.stale = got.stale]]
RenewedState ==
  [mem EXCEPT !.asg = got.asg, !.issue = None,
              !.pend = [mem.pend EXCEPT !.nonce = got.nonce, !.exp = got.exp,
                                        !.asg = got.asg, !.stale = got.stale]]

\* The placement a renewed grant may move to.
Renewable == EnsureRefreshAssignmentContinuity(mem.pend.asg, got.asg, TRUE)

PersistRenewed ==
  /\ pc = "grant" /\ mem.pend # None
  /\ RecoveryLive(mem) /\ Renewable
  /\ AfterGrant(RenewedState)
  /\ settled' = settled \cup {got.nonce}
  /\ UNCHANGED <<now, nonces, cands, wire, authorityVars, seen, opened>>

-----------------------------------------------------------------------------
(* Assigned-cell completion: completeCredentialRecovery.                   *)

\* A grant that was live when it was saved is completed first, by an exact
\* replay of its request, even after it has expired.
FaultyResumeLiveGrant ==
  /\ pc = "idle"
  /\ ValidState(store) /\ ~store.refresh
  /\ store.pend # None /\ ~store.pend.stale /\ now < store.pend.exp
  /\ mem' = store /\ Goto("complete")
  /\ UNCHANGED <<now, store, got, round, cred, nonces, cands, wire, authorityVars, history>>

ResumeComplete ==
  /\ pc = "idle"
  /\ ValidState(store) /\ ~store.refresh
  /\ store.pend # None /\ ~store.pend.stale /\ RecoveryLive(store)
  /\ mem' = store /\ Goto("complete")
  /\ UNCHANGED <<now, store, got, round, cred, nonces, cands, wire, authorityVars, history>>

CompleteRequest == [nonce |-> mem.pend.nonce, cell |-> mem.pend.asg.cell, cand |-> mem.pend.cand]

SendComplete ==
  /\ pc = "complete" /\ RecoveryLive(mem)
  /\ completes' = completes \cup {CompleteRequest}
  /\ sent' = TRUE
  /\ UNCHANGED <<now, store, pc, mem, got, round, cred, nonces, cands, requests,
                 authorityVars, history>>

\* An authenticated success wins over a deadline that closes as it arrives.
CompleteAcknowledged ==
  /\ pc = "complete" /\ sent /\ CompleteRequest \in replaced
  /\ Goto("promote")
  /\ UNCHANGED <<now, store, mem, got, round, cred, nonces, cands, wire, authorityVars, history>>

\* A grant the cell will never commit: expired, or of an earlier revocation.
GrantDead(n) ==
  \E g \in grants : g.nonce = n /\ (now >= g.exp \/ g.episode # episode)

\* markCredentialRecoveryGrantRejected: an authenticated 52411 marks the grant
\* for renewal by the next call; candidate and episode stay.
FaultyForgetCandidate == [mem EXCEPT !.pend = None]
RejectedState == [mem EXCEPT !.pend.stale = TRUE]

GrantRejected ==
  /\ pc = "complete" /\ sent
  /\ CompleteRequest \notin replaced /\ GrantDead(mem.pend.nonce)
  /\ SaveAndReturn(RejectedState)
  /\ UNCHANGED <<now, nonces, cands, wire, authorityVars, settled, seen, opened>>

\* The promoted credential is saved, detached from the caller, together with
\* the phase that forces an authenticated refresh before any use.
FaultyNoRefreshPhase == [key |-> mem.pend.cand, asg |-> mem.pend.asg,
                         pend |-> None, issue |-> None, refresh |-> FALSE]
PromotedState == [key |-> mem.pend.cand, asg |-> mem.pend.asg,
                  pend |-> None, issue |-> None, refresh |-> TRUE]

Promote ==
  /\ pc = "promote"
  /\ SaveThen(PromotedState, "refresh")
  /\ UNCHANGED <<now, nonces, cands, wire, authorityVars, history>>

-----------------------------------------------------------------------------
(* Refresh and open.                                                       *)

\* RecoverAgentRuntime resuming the refresh-only phase, RefreshAgentRuntime
\* in that phase or on a usable state, ConnectAgentRuntime on an expired lease.
BeginRefresh ==
  /\ pc = "idle"
  /\ ValidState(store) /\ (store.refresh \/ Usable(store))
  /\ mem' = store /\ Goto("refresh")
  /\ UNCHANGED <<now, store, got, round, cred, nonces, cands, wire, authorityVars, history>>

\* The Hub answers with any placement it ever published; a move is adopted
\* unless the caller pinned its assignment.
HubRefreshes ==
  /\ pc = "refresh"
  /\ \E p \in placements, adopt \in BOOLEAN :
       LET fresh == Leased(p, now + LeaseLife)
       IN /\ EnsureRefreshAssignmentContinuity(mem.asg, fresh, adopt)
          /\ IF fresh = mem.asg
             THEN got' = None /\ Goto("open")
             ELSE /\ got' = [nonce |-> 0, exp |-> 0, asg |-> fresh, stale |-> FALSE]
                  /\ Goto("adopt")
  /\ seen' = seen \cup {mem.key}
  /\ UNCHANGED <<now, store, mem, round, cred, nonces, cands, wire, authorityVars,
                 settled, opened>>

SaveRefreshedAssignment ==
  /\ pc = "adopt"
  /\ SaveThen([mem EXCEPT !.asg = got.asg], "open")
  /\ UNCHANGED <<now, nonces, cands, wire, authorityVars, history>>

\* finishCredentialRecoveryRefresh: the runtime must open against a live lease
\* before the phase is cleared; it is handed out only if that save is
\* acknowledged.
FinishRefresh ==
  /\ pc = "open" /\ ~LeaseExpired(mem.asg, now)
  /\ SaveAndReturn([mem EXCEPT !.refresh = FALSE])
  /\ \/ opened' = opened \cup {mem.key}
     \/ mem.refresh /\ UNCHANGED opened
  /\ UNCHANGED <<now, nonces, cands, wire, authorityVars, settled, seen>>

\* OpenRegisteredAgent: one lock-free load, whatever call is in progress.
OpenRegisteredAgent ==
  /\ ValidState(store) /\ Usable(store)
  /\ opened' = opened \cup {store.key}
  /\ UNCHANGED <<now, clientVars, nonces, cands, wire, authorityVars, settled, seen>>

-----------------------------------------------------------------------------
(* The authority and the clock.                                            *)

\* The Hub issues one grant per nonce, only while the key is revoked.
HubIssues ==
  /\ revoked
  /\ \E r \in requests, p \in placements :
       /\ r.cred \in Active
       /\ \A g \in grants : g.nonce # r.nonce
       /\ grants' = grants \cup {[nonce |-> r.nonce, episode |-> episode,
                                  asg |-> Leased(p, now + LeaseLife), exp |-> now + GrantLife]}
  /\ UNCHANGED <<now, clientVars, nonces, cands, wire, replaced, credentialVars, placements, history>>

\* The cell commits a Complete request under a live grant and answers exact
\* replays of it with success ever after.
CellReplaces ==
  /\ revoked
  /\ \E m \in completes \ replaced :
       /\ ~GrantDead(m.nonce)
       /\ replaced' = replaced \cup {m}
       /\ bound' = m.cand
  /\ revoked' = FALSE
  /\ UNCHANGED <<now, clientVars, nonces, cands, wire, grants, episode, placements, history>>

\* An operator revokes the current device credential.
Revoke ==
  /\ ~revoked /\ episode < MaxRevocations
  /\ revoked' = TRUE /\ episode' = episode + 1
  /\ UNCHANGED <<now, clientVars, nonces, cands, wire, grants, replaced, bound, placements, history>>

HubPublishes ==
  /\ \E p \in Placement :
       /\ \A q \in placements :
            p.gen > q.gen \/ (p.gen = q.gen /\ p.cell = q.cell /\ p.rev > q.rev)
       /\ placements' = placements \cup {p}
  /\ UNCHANGED <<now, clientVars, nonces, cands, wire, grants, replaced, credentialVars, history>>

Tick ==
  /\ now < MaxTime
  /\ now' = now + 1
  /\ UNCHANGED <<clientVars, nonces, cands, wire, authorityVars, history>>

-----------------------------------------------------------------------------
\* A registered agent whose durable device key is intact or lost.
Init ==
  /\ now = 1
  /\ placements \in {{p} : p \in {q \in Placement : q.gen = 1 /\ q.rev = 1}}
  /\ \E p \in placements, key \in {0, 1} :
       store = [key |-> key, asg |-> Leased(p, now + LeaseLife),
                pend |-> None, issue |-> None, refresh |-> FALSE]
  /\ pc = "idle" /\ mem = None /\ got = None /\ round = 1 /\ cred = None /\ sent = FALSE
  /\ nonces = 0 /\ cands = 1
  /\ requests = {} /\ completes = {} /\ grants = {} /\ replaced = {}
  /\ bound = 1 /\ revoked = FALSE /\ episode = 0
  /\ settled = {} /\ seen = {1} /\ opened = {}

Client ==
  \/ RecoverIssue \/ SaveIntent \/ SendIssue \/ IssueAnswered \/ IssueDenied
  \/ PersistInitial \/ PersistRenewed
  \/ ResumeComplete \/ SendComplete \/ CompleteAcknowledged \/ GrantRejected \/ Promote
  \/ BeginRefresh \/ HubRefreshes \/ SaveRefreshedAssignment \/ FinishRefresh
  \/ OpenRegisteredAgent

Authority == HubIssues \/ CellReplaces \/ Revoke \/ HubPublishes

Next == Client \/ Abandon \/ Authority \/ Tick

Spec == Init /\ [][Next]_vars

\* The caller retries until it succeeds (Start), and retried calls do not fail
\* forever: datagrams eventually leave and are eventually answered, saves
\* eventually commit, the authority eventually acts.  A call never hangs: every
\* exchange has a retry budget and every save a timeout, so a call that does
\* not move on ends (Abandon).  Nothing is assumed of clock or revocations.
Start == RecoverIssue \/ ResumeComplete \/ BeginRefresh
Send == SendIssue \/ SendComplete
Answered == IssueAnswered \/ CompleteAcknowledged \/ HubRefreshes
Save == SaveIntent \/ PersistRenewed \/ GrantRejected \/ Promote
        \/ SaveRefreshedAssignment \/ FinishRefresh

Fairness ==
  /\ SF_vars(Start) /\ SF_vars(Send) /\ SF_vars(Answered) /\ SF_vars(Save)
  /\ SF_vars(HubIssues \/ CellReplaces)
  /\ WF_vars(Abandon)

FairSpec == Spec /\ Fairness

-----------------------------------------------------------------------------
(* Properties.                                                             *)

TypeOK ==
  /\ now \in Nat
  /\ store \in State
  /\ pc \in Steps
  /\ mem \in State \cup {None}
  /\ got \in Answer \cup {None}
  /\ round \in 1..2 /\ cred \in Credentials \cup {None} /\ sent \in BOOLEAN
  /\ nonces \in 0..MaxNonces /\ cands \in 1..MaxCands
  /\ requests \subseteq [nonce : 1..MaxNonces, cred : Credentials]
  /\ completes \subseteq [nonce : 1..MaxNonces, cell : Cells, cand : 1..MaxCands]
  /\ grants \subseteq Grant /\ replaced \subseteq completes
  /\ bound \in 1..MaxCands /\ revoked \in BOOLEAN /\ episode \in 0..MaxRevocations
  /\ placements \subseteq Placement
  /\ settled \subseteq 1..MaxNonces
  /\ seen \subseteq 0..MaxCands /\ opened \subseteq 0..MaxCands

\* Every state a recovery makes durable is one the loader accepts: an Issue
\* intent only beside a grant that needs renewal and never outliving its
\* episode, a pending grant never beside the revoked key, a refresh phase
\* never beside another transition.
LoaderAccepts == ValidState(store)

\* A replacement credential a cell has bound is never lost: it is the durable
\* candidate, or the durable device key, until it is revoked in its turn.
CandidateDurable ==
  bound # 1 /\ ~revoked =>
    store.key = bound \/ (store.pend # None /\ store.pend.cand = bound)

\* One candidate per revocation: whatever is rejected, renewed, replayed or
\* moved to another cell, all Complete requests under the grants of one
\* revocation carry the same credential.
OneCandidate ==
  \A m1, m2 \in completes, g1, g2 \in grants :
    m1.nonce = g1.nonce /\ m2.nonce = g2.nonce /\ g1.episode = g2.episode
      => m1.cand = m2.cand

\* The credential of a recovery is neither lost nor doubled, whatever step the
\* process dies in.
OneDurableCandidate == CandidateDurable /\ OneCandidate

\* A grant the Hub issued is never orphaned by a crash or a lost answer: its
\* nonce stays in the durable intent until its answer is durable.
GrantReplayable ==
  \A g \in grants : g.nonce \in settled \/ (store.issue # None /\ store.issue.nonce = g.nonce)

\* No client or runtime is opened with a replacement credential before an
\* authenticated Hub refresh has covered it, not even by a lock-free open
\* between the promotion and the refresh.
OpenedAfterRefresh == opened \subseteq seen

\* No crash or racing open skips an end of the recovery: its grant can be asked
\* for again until it is durable, its credential is refreshed before any use.
NoPhaseSkipped == GrantReplayable /\ OpenedAfterRefresh

\* The episode is set by its first grant: renewing a grant, even under a new
\* placement, never rotates the candidate or moves the anchor or deadline.
EpisodeFixed ==
  [][store.pend # None /\ store'.pend # None
       => /\ store'.pend.cand = store.pend.cand
          /\ store'.pend.anchor = store.pend.anchor
          /\ store'.pend.deadline = store.pend.deadline]_store

\* No recovery step takes the durable placement back to an older one, even
\* when the Hub replays an old grant or answers from a stale view.
PlacementNeverRegresses == [][NotOlder(store.asg, store'.asg)]_store

\* Retries and replayed answers leave episode and placement where they are, or
\* move the placement forward.
EpisodeStable == EpisodeFixed /\ PlacementNeverRegresses

\* The Hub has bound the pending nonce to a placement that is older than the
\* durable one: its exact replays are refused until the episode ends.
AnswerRefused ==
  /\ store.issue # None
  /\ \E g \in grants :
       /\ g.nonce = store.issue.nonce
       /\ ~EnsureRefreshAssignmentContinuity(store.asg, g.asg, TRUE)

\* A recovery with a grant finishes: the agent has a usable credential again,
\* or the episode's horizon passes, or the Hub answered a renewal from a stale
\* view (or the run has no nonce left to draw).
RecoveryFinishes ==
  (store.pend # None \/ store.refresh)
    ~> \/ Usable(store)
       \/ store.pend # None /\ ~RecoveryLive(store)
       \/ AnswerRefused
       \/ nonces = MaxNonces

=============================================================================
