# TLA+ verification of qurl-go

qurl-go is the Go SDK of LayerV's qURL service. Its hard part is not HTTP: it is
the native agent lifecycle. An agent enrolls, registers, renews its placement and
replaces a revoked credential over NHP/UDP with a Hub and an assigned cell that
keep what they commit, while the agent itself may crash between any two steps,
lose or delay datagrams, and fail to learn whether a save took effect. Everything
it can still do afterwards it must find in one durable record, `AgentState`. This
project models that lifecycle from both ends: below it the bounded UDP exchange and
the three places the record is kept in (a pinned state directory, a sealed file, AWS
stores); above it the sessions an agent opens, the portals it keeps open, the links
it requests and the credential its clients share. All of it is model-checked with
TLC, and every safety property the runs check is also proved with TLAPS for all values
of the constants, two refinements among them: the state directory implements an
abstract register, and sessions implement the lease renewal they are built on.

Paths below are relative to the repository; line numbers are in `PROJECT.json`.

## 1. Inventory

| Component | State it keeps | Operations | Interacts with |
|---|---|---|---|
| Enrollment (`qurl/native_agent_runtime.go`) | durable `AgentState`: identity, assignment, pending activation, pending completion, device key | `ConnectAgentRuntime`, `RefreshAgentRuntime` | Hub (tickets, placements), cell (REG, completion LST), OTP provider, state store |
| Credential recovery (`qurl/agent_credential_recovery.go`) | pending Issue intent, pending grant + candidate, refresh phase | `RecoverAgentRuntime`, resumed by `RefreshAgentRuntime` | Hub (Issue, refresh), cell (Complete), `OpenRegisteredAgent` (lock-free reader) |
| Recovery horizon (`qurl/recovery_horizon.go`) | anchor and deadline of an episode | derive, validate, fence every write | both of the above |
| Assignment and continuity (`qurl/agent_assignment.go`) | placement, lease | parse, validate, continuity rules | every renewal |
| Native exchange (`runNativeExchange`) | attempts, budget, backoff of one operation | retry with one body and one nonce | transport |
| Native UDP transport (`relayknock/nativeudp`) | socket, cookie, address list of one exchange | KNK/ACK/COK/RKN, LST/COK/LRT, REG/RAK | network |
| Binding and lease renewal (`qurl/agent_lifecycle.go`) | live placement, renewal mutex, key owner | renew, fall back, borrow key, destroy | state store and setup lock shared by processes, Hub |
| Native session operation (`qurl/native_session_operation.go`) | prepared operation (in the caller's journal), session receipts | prepare, knock, retire, recover | binding, cells |
| State directory (`qurl/pinned_state_dir*.go`, `flock*.go`) | directory handle and its references, lock file, state file, temp files | open, load, lock, atomic save, close | file system, other processes, an operator |
| Sealed state (`qurl/sealed_state.go`, `awsstore/kms_key_wrapper.go`) | sealed envelope, wrapped data key | seal, verify, commit, open | KMS or a caller's wrapper, state directory |
| AWS stores (`awsstore/`) | one secret or parameter | save, load | Secrets Manager, Parameter Store |
| Credential cache (`qurl/client.go`, `qurl/register.go`) | credential, expiry, refresh in flight | authorize a request | state store, goroutines of one agent |
| Connector resources (`qurl/connector_resource*.go`) | - | create, resolve over NHP | device key of the binding, cell |
| Portal opener (`qurl/portal_opener.go`) | active handle, target, secret, renewal loop | `Start`, `Do`, `Close` | NHP opens, callers |
| Portals and retirement (`qurl/portal*.go`) | session secret and device key of a handle | enter, retire | relay, cell |
| Discovery (`qurl/discovery*.go`, `qurl/deployment.go`) | default provider, its version floor | install, resolve | untrusted manifest transport |
| CRID links (`qurl/crid_link*.go`) | one request, a device key in flight | request a link anonymously or as a device | server, `DeviceKeySource` |
| QV2 links, CRID codec, consumer and publisher requests | - | parse, verify, one HTTP exchange each | service API |

Behaviour that is hard to test: a crash or an unacknowledged save between any two
steps; datagrams that commit at the authority after the caller has given up;
verdicts that allow a replacement only when the first attempt can never commit;
deadlines that must not move over months of retries; lease expiry in the middle
of a resumed transition; a Hub answering from a lagging replica; a lock-free
reader between two saves of a locked transition; several processes renewing one
store; a placement that moves between preparing, knocking and recovering; a system
call that fails or a machine that stops between any two of a save; an answer that
arrives after the call it was for was cancelled or its owner closed; a cached value
that several goroutines refresh. `PROJECT.json` lists each hazard with the line where
it bites and the properties that cover it, or the reason why none does.

## 2. Modules

| Module | Models | Extends |
|---|---|---|
| `AgentAssignment` | placement value, `LeaseExpired`, the continuity rules | - |
| `AgentState` | durable registration state, deadlines, the loader's validation | `AgentAssignment` |
| `AgentEnrollment` | `ConnectAgentRuntime` / `RefreshAgentRuntime` with Hub, cells, clock | `AgentState` |
| `AgentEnrollmentProofs` | TLAPS proofs about `AgentEnrollment` | `AgentEnrollment` |
| `CredentialRecovery` | `RecoverAgentRuntime`, the refresh-only phase, lock-free open | `AgentAssignment` |
| `CredentialRecoveryProofs` | TLAPS proofs about `CredentialRecovery` | `CredentialRecovery` |
| `LeaseRenewal` | held bindings of several processes renewing one store: `liveSessionAssignment`, `renewSessionAssignment` | `AgentAssignment` |
| `SessionOperation` | operations, knocks, receipts, retirement and recovery, composed with the renewal each knock performs | `LeaseRenewal` |
| `LeaseRenewalProofs` | TLAPS proofs about `LeaseRenewal` and `SessionOperation` | `SessionOperation` |
| `NativeExchange` | one operation over native UDP: `runNativeExchange`, the flights of `nativeudp`, the write fence | - |
| `NativeExchangeProofs` | TLAPS proofs about `NativeExchange` and `RuntimeClient` | both |
| `StateRegister` | abstract: what a state directory promises, an atomic register that never loses an acknowledged save | - |
| `StateDirectory` | handles, setup lock, lock-free loads, the atomic save and close, as system calls; implements `StateRegister` | - |
| `StateDirectoryProofs` | TLAPS proofs about `StateDirectory`, with the step simulation of `StateRegister` | `StateDirectory` |
| `StateCustody` | the sealed file with its key wrapper, Secrets Manager, Parameter Store | - |
| `StateCustodyProofs` | TLAPS proofs about `StateCustody` | `StateCustody` |
| `Discovery` | which fetched manifest a provider accepts | - |
| `LinkOpening` | entering a portal and requesting a CRID link with the shared configuration | `Discovery` |
| `LinkOpeningProofs` | TLAPS proofs about `LinkOpening` | `LinkOpening` |
| `PortalOpener` | one qURL kept open: `Start`, `Do`, `Close` and the renewal loop | - |
| `PortalOpenerProofs` | TLAPS proofs about `PortalOpener` | `PortalOpener` |
| `RuntimeClient` | what goroutines of a running agent share: credential cache, device key, session retirement | - |
| `MC...` | the instances TLC checks, one per module with behaviour | the above |

Common conventions of the two lifecycle modules. `store` is what is durable, `mem` the working copy of the one
lifecycle call that holds the setup lock, `pc` the step it is at, `got` an
authenticated answer not yet saved. A call advances one protocol step per action.
`SaveThen` is a save that commits and either continues the call or ends it (the
acknowledgement is lost, or the process dies right after); `Abandon` ends the call
with nothing durable changed and stands for crashes, cancellation, exhausted
retry budgets, refused saves and every terminal error return. Datagrams that were
sent stay in a set for ever, so they may arrive late, repeatedly or never. Random
values (agent ids, tickets, nonces, candidates) are serial numbers, because the
code only relies on their being distinct. `None` is a nil pointer.

Definitions named `Faulty...` are not part of any specification. Each is a
plausible bug of the definition that follows it; substituting it makes the
property named in `PROJECT.json` fail, which shows the property is not vacuous.

### AgentEnrollment

| Action | Code |
|---|---|
| `ConnectFresh`, `SaveIdentity` | `registerLocked`, `ensureNativeAgentIdentity` |
| `MigrateLegacyActivation`, `ResumeActivation`, `ResumeCompletion` | `preparePendingRecovery`, `pendingRegistrationCredential`, `registerLocked` |
| `HubAssigns`, `AcquireCredential`, `ReceiveCode`, `SavePendingActivation` | `persistFreshPendingActivation`, `registrationCredential` |
| `SendREG`, `RegisterAcknowledged`, `RegisterExpired` | `registerPendingActivation`, `activateAndComplete` |
| `AdvanceToCompletion` | `transitionPendingActivation` |
| `SendCompletion`, `CompletionAcknowledged`, `PromoteCandidate` | `completePending` |
| `BeginRenewal`, `HubRefreshes`, `SaveRenewedAssignment` | `RefreshAgentRuntime`, `renewCompletedAssignment` |
| `CellRegisters`, `CellCompletes`, `HubPublishes`, `Tick` | external: cell, Hub, clock |

`Init` starts from an empty store, or from a store written before schema 6 with a
pending activation or completion without deadline, whose requests the authority
may or may not have committed.

### CredentialRecovery

| Action | Code |
|---|---|
| `RecoverIssue`, `SaveIntent`, `SendIssue` | `recoverAgentRuntimeLocked`, `persistCredentialRecoveryIssueIntent`, `issueCredentialRecovery` |
| `IssueAnswered`, `IssueDenied` | `parseCredentialRecoveryIssueReply`, `clearCredentialRecoveryIssueIntent` |
| `PersistInitial`, `PersistRenewed` | `persistInitialCredentialRecovery`, `persistRenewedCredentialRecovery`, second Issue of a call |
| `ResumeComplete`, `SendComplete`, `CompleteAcknowledged` | `completeCredentialRecovery` |
| `GrantRejected` | `markCredentialRecoveryGrantRejected` |
| `Promote` | end of `recoverAgentRuntimeLocked` |
| `BeginRefresh`, `HubRefreshes`, `SaveRefreshedAssignment`, `FinishRefresh` | `finishRecoveredRuntime`, `renewCompletedAssignment`, `finishCredentialRecoveryRefresh` |
| `OpenRegisteredAgent` | lock-free open |
| `HubIssues`, `CellReplaces`, `Revoke`, `HubPublishes`, `Tick` | external |

`settled`, `seen` and `opened` are history variables that only the
properties read. Assumed of the authority: a grant per nonce; a cell
commits under a live grant of the current revocation and answers exact replays of
a committed request with success (`TestRecoverAgentRuntime_CommittedReplayAfterGrantExpiry...`);
a refresh may be answered from any placement ever published.

### LeaseRenewal

| Action | Code |
|---|---|
| `AskPlacement` | `liveSessionAssignment`, `liveSessionAssignmentStrict`: the decision instant, sampled before the mutex |
| `AnswerOffline`, `AnswerCurrent`, `BeginRenewal` | `liveSessionAssignmentWithPolicy`: no renewal attached; lease long enough; renewal due |
| `LoadUnderLock` | `renewSessionAssignment`: setup lock, load, adopt what another process persisted |
| `HubRefreshes`, `SaveRenewed` | Hub exchange and continuity; save, then `adoptRenewedAssignmentLocked` |
| `RenewalFails` | every error return in between, with the fallback to a live placement |
| `OtherLifecycle` | `RefreshAgentRuntime`, credential recovery: other writers under the setup lock |
| `OpenBinding`, `CrashProcess` | lock-free open of a live registration; process death |
| `EndUse`, `HubPublishes`, `Tick` | the caller, the Hub, the clock |

State: `mu` is the binding's `renewal.mu`, `setup` the store's setup lock, `live` is
`livePlacement`, `origin` the exported fields, `call` one call in progress. The open
is atomic at its load: nothing else can see the binding before it returns.

### SessionOperation

| Action | Code |
|---|---|
| `BeginPrepare`, `PrepareOperation`, `PrepareFails` | `PrepareLiveNativeSessionOperation` |
| `CommitOperation` | the caller's durable journal (external, required by the documentation) |
| `BeginKnock`, `SendKnock`, `KnockFails` | `KnockRegisteredAgent`, `validateNativeSessionOperationAdmission` |
| `ReceiveAdmission`, `KnockUnanswered` | `interpretNativeAgentKnockReply` |
| `Retire` | `RetireRegisteredAgentSession` to the receipt's endpoint |
| `RecoverCloses`, `RecoverCompletes`, `RecoverUnanswered`, `RecoverAdmitted` | `RecoverNativeSessionOperation` to the journaled endpoint, by verdict |
| `CellAdmits`, `Crash` | external |

Between `Begin...` and the next step of the same caller run the renewal steps of
`LeaseRenewal`, so a knock can meet any renewal outcome. Assumed of a cell: one
session per run; no admission of a run it holds a terminal record of; a recovery of
an operation it never saw writes such a record until the deadline for absent ones.

### NativeExchange

| Action | Code |
|---|---|
| `BeginAttempt`, `BeginProof` (`BuildPacket`) | `exchange`, `AssignmentList`, `SendOTP`: input checks, fresh randomness, packet |
| `ContinuityLost` | `beforeExchange` of `runNativeExchange` |
| `Resolve` | `resolveAddresses` |
| `Dial`, `Write`, `WriteFails` | `dialWithDeadline`, `sendOne`, `sendDatagram`: context and fence before each write |
| `ReadTimeout`, `ReadFails`, `NextAddress` | `sendOne`, `sendToAddresses`: fallback, and what counts as no reply |
| `ReadForeign`, `ReadReply` | `decryptAuthenticatedReply`, `correlateDecryptedReply`, `correlateAssignmentReply`, `sessioncookie.Parse` |
| `Judge`, `Wake` | `runNativeExchange` after an attempt, `backoff`, `sleepAssignmentBackoff` |
| `ReturnSingle` | `KnockRegisteredAgent`, the OTP request: one exchange without a driver |
| `Tick`, `BudgetFires`, `CallerCancels`, `WallClockSteps` | external: clocks, timers, caller |

`profile` says which operation runs: `assignment` (two flights and the driver),
`completion` and `register` (one flight and the driver, under the recovery fence),
`knock` (one flight, or two on a challenge) and `otp` (one datagram). `pc` is the step,
`flight` the packet being exchanged, `silence` and `lastSilent` the driver's own
variables; `heard` and `faulted` are history that only properties read.
Assumed of the environment: the server may answer any datagram that was written, any
number of times and at any later moment, and the answer may reach the socket of any
later flight, because the system may give it the port of an earlier one; an error of a
write does not say that the datagram is not out; the timer behind the budget may lag
behind the socket deadline that was clamped to it; the caller's context may end at any
step (its deadline, or that of a ticket or grant, is not told apart from
cancellation); the wall clock the fence reads may be stepped both ways.

The lifecycle modules use a coarser picture of the same exchange: a request stays in
the network, and an answer arrives or the call is abandoned. `AnswerIsCurrent`,
`VerdictWins` and `OneOTP` are what entitles them to it: an answer a call acts on is one
to its own request, a verdict is never lost to a deadline, and a code is requested once.

### StateDirectory and StateRegister

| Action | Code |
|---|---|
| `Open`, `CloseBegins`, `CloseEnds`, `Release` | `openPinnedStateDir`, `pinnedStateDir.close`, the lease of an operation |
| `RetainAndLoad` | lock-free load: `withAgentStoreContinuity` |
| `RetainAndLock`, `OpenLock`, `TakeFlock`, `CheckLock`, `StopWaiting` | `acquireLock`: open the lock file, `flock`, check that it is still the one in the directory |
| `OpenState`, `TrackState`, `ReadState`, `ReadFails`, `AfterLoad` | `readFile`, `trackActiveEntry` |
| `WriteTemp`, `PrepareCommit`, `Rename`, `SyncDirectory`, `Acknowledge` | `writeFileAtomic` |
| `SaveFails`, `RemoveTemp` | its error returns and the deferred removal of the temp file |
| `Deactivate`, `CloseLock` | `pinnedSetupLock.Close` |
| `ProcessDies`, `PowerLoss`, `ReplaceDirectory`, `RestoreDirectory`, `RemoveLockFile` | external, at most `MaxFaults` of them |

The content of a state file is the history of the saves it was computed from, so an
update that is lost shows. `Visible` maps the directories to the register: what a load
that opens the state file now would find. A save maps to the register's write at its
rename, its acknowledgement to the register's promise, a power loss that undoes an
unsynchronised rename to the register's right to fall back to any state no older than
the last acknowledged one. Windows takes the same steps. Its lock file is opened with sharing of deletes, so
it can be removed and replaced under a holder there, too, as `RemoveLockFile` does.
A blind `SaveAgentState` is the same save without the load before it. The final
continuity check that `withAgentSetupLock` defers only turns a result into an error.

`orphans` is history: the temp files of saves whose own process died, by a crash or a power
loss, between creating and removing them. Nothing sweeps those. `TempsAreRemoved` speaks of
all others: a save that refuses midway, because the directory was replaced, the lock file
removed or the state entry changed, removes its temp file in the directory it holds open,
which may no longer be the one the path names. `RemoveTemp` always succeeds; an unlink
that the system refuses is not modelled.

### StateCustody

| Action | Code |
|---|---|
| `SaveSealed`, `Wrap`, `VerifyKey`, `Commit` | `saveAgentStateRetained`: wrap the data key, unwrap it again, validate, hand the file to the directory |
| `LoadSealed`, `Unwrap` | `loadAgentStateRetained`, `decodeSealedAgentState` |
| `SaveRemote`, `CheckKMSKey`, `PutSecretValue`, `CreateSecret`, `Recheck`, `PutAfterRace` | `SecretsManagerStore.SaveAgentState`, call by call |
| `Overwrite` | `ParameterStore.SaveAgentState` |
| `LoadSecret`, `LoadParameter` | the loads and what they call missing, corrupt or unavailable |
| `Abandon` | a cancelled context |
| `Retarget`, `Replace` | external: the KMS alias moves; what is stored is deleted, altered, recombined |

A state is an agent and the number of the save that wrote it; an envelope opens only
with the data key of that number and under the additional data it was sealed with. A
service call may fail before or after its effect. `Init` chooses the store, so one run
covers the sealed file with the KMS wrapper or a caller's own (which may answer
wrongly), with and without an expected agent, and both AWS stores. `result` is what the
last step reported and the value it had read, so a verdict is held against that value.

What an honest verdict can be depends on what the store can tell. A caller's wrapper that
cannot tell its failures apart has to answer an outage, too, with
`ErrInvalidWrappedAgentStateKey` (`qurl/sealed_state.go:90-93`), which a load reports as an
invalid state: `Answers` lets a custom wrapper do so at any time, and
`VerdictsAreHonest` does not promise that what it calls invalid was corrupt. In the same way
a reply of Secrets Manager or Parameter Store that succeeds and carries no value
(`Valueless`) is reported as an invalid state whatever is stored. Everything else is
promised: "not found" only when nothing was stored, and "invalid", with the KMS wrapper
and in AWS, only for a value that no save wrote, so that neither an outage nor a moved alias
is taken for corruption.

KMS is ideal here: a Decrypt that answers with another key than the request named, which
`awsstore/kms_key_wrapper.go:163-166` refuses, does not occur. The state that is saved is
taken to be one that the loader's own checks (`qurl/sealed_state.go:352-361`) accept;
a save does not run them.

### LinkOpening and Discovery

| Action | Code |
|---|---|
| `OpenerCalls`, `RequesterCalls`, `GateRefuses` | `EnterPortal`, `EnterPortalForCRID`; `OpenCRID`, `OpenCRIDAsDevice`, `...FromKeySource` and their argument checks |
| `ReadDeployment`, `StartFetch`, `FetchManifest`, `AdoptManifest`, `SetDefaultProvider` | `resolveDefaultConfig`, `DiscoveryProvider.Resolve` (`Acceptable`, then the floor under the mutex) |
| `SendAnonymous`, `AnonymousAnswered`, `DeviceAnswered`, `RequestFails` | `requestCRIDLink`, `requestCRIDLinkOnce`, `interpretCRIDLinkReply` |
| `AskForKey`, `SourceAnswers`, `TakeAnswer`, `SourceVanished`, `GiveUp`, `SourceDiscards` | `askDeviceKeySource`, `deviceKeyAsk.wait` and the goroutine between them |
| `OpenLink`, `KnockReturns` | `EnterPortalWith`, `interpretReply` |
| `ContextEnds`, `Tick` | external |

The transport of manifests is untrusted: `Envelopes` are what it may hand over, genuine
or not. `newest` is history: the highest manifest version any call has adopted, which the
property compares every later adoption with. The device key source is a caller's function: it may answer, fail, panic, hang
or answer after the call has returned.

### PortalOpener

| Action | Code |
|---|---|
| `StartCalled`, `StartDecides`, `StartLooksAgain`, `StartGivesUp` | `Start`: join, wait for the loop, or own the open |
| `StartOwns`, `StartOpens`, `StartSucceeds`, `StartFails`, `StartClosed` | `runStart`, `installLocked` |
| `LoopWakes`, `LoopOpens`, `LoopInstalls`, `LoopFails`, `LoopExpires`, `LoopRetries`, `LoopHeld`, `LoopExits` | `renewLoop` |
| `DoTakesHandle`, `DoSends` | `do` |
| `CloseBegins`, `CloseEnds` | `Close` before and after it waits |

An open is sent in one step and returns in another, so a `Close`, an expiry or a second
`Start` can come between; `Confirms` is the check that a later open names the first target.

### RuntimeClient

| Action | Code |
|---|---|
| `Authorize`, `ReadClock`, `UseCache`, `StartRefresh`, `AwaitRefresh`, `WaitCancelled` | `cachedCredentialProvider.Authorize` |
| `LoadCredential`, `FinishRefresh`, `RefreshFails` | `refresh`, `storeCredentialProvider.Authorize`, `finishRefresh` |
| `Borrow`, `ExchangeEnds` | `withBorrow` around an exchange of `ResolveRegisteredAgentConnectorResource` |
| `Take`, `Destroy` | `TakeDeviceStaticPrivateKey`, `Destroy` |
| `RetireSession`, `ExitAnswered`, `ExitFails` | `ResourceHandle.RetireSession` |
| `Rotate`, `Reidentify`, `CellCloses`, `ClockTicks` | external |

`refresher` is the goroutine that refreshes (`refreshDone` is not nil); `replaced`, `moved`
and `authorized` are history that only the properties read.

Freshness is by the clock the caller has read, and says no more than the code does.
`Authorize` reads the clock before it takes the mutex, and a goroutine may sleep in between
for as long as the scheduler likes: a credential that was fresh by that reading may be put
on a request much later, and no property covers that. The TTL starts when a refresh
ends, so a credential that is replaced in the store while a slow load has already read it
stays in use for a TTL after that load, which is why `CredentialFresh` adds the time the
load took. `qurl/register.go:178-181` says that the TTL bounds how long a revoked
credential stays in use; that is so up to these two delays. That the CRID of a
resource continues over resolutions is not modelled.

## 3. Runs

| Run | Question | Bounds |
|---|---|---|
| `enrollment` | Can a crash, a lost answer or a retry lose a commit, double it, lose the credential, brick the store, stretch the horizon or roll a placement back? Does a committed registration finish? | 2 cells, 1 identity, 2 tickets, 2 candidates, 2 generations, 4 ticks |
| `recovery` | The same for a credential recovery, over two revocations | 2 cells, 3 nonces, 3 credentials, 2 revocations, 2 generations, 4 ticks |
| `recovery_liveness` | Does a recovery with a grant finish? | 1 cell, 2 generations, 3 nonces, 4 ticks, horizon 2 |
| `lease` | Can a renewal run ahead of the store, use an expired placement or move it back? Does a call waiting for the mutex return? | 2 goroutines on one binding, 1 on an offline binding, other lifecycle calls on the store, 2 cells, 2 generations, 2 ticks |
| `pinned_assignment_doc` | Does a pinned binding never move, as the option says? No (a finding: the fast path adopts a sibling's move) | 2 processes, one pinned, 4 ticks |
| `session` | Can an operation's session escape recovery, does the documented critical section keep preparation and knock on one placement, does a close by receipt reach the session across moves? | 2 goroutines on one binding, 1 operation or plain knock, 2 cells, 2 generations, lead and margin 1, lease 3, window 3, 4 ticks |
| `exchange` | Can an operation accept a stale or unproven answer, lose a verdict to a deadline, misreport silence, send two codes, write after the horizon or never return? | all 5 profiles, 2 attempts, 2 addresses, budget 3, socket timeout 1, backoff up to 1 |
| `state_directory` | Does the directory implement the register? Is every temp file removed, also when the save refuses midway, a descriptor closed exactly when its last user is done? | 2 processes, 2 savers, 1 loader, 2 directories, 2 files and 2 lock files each, 1 fault |
| `custody` | Does what was committed reopen, do loads say honestly what they found, as far as the store can tell, is only what was saved ever loaded, is an acknowledged save under the promised key? | 3 writers (checked, default and foreign key), 2 saves, 2 keys, 2 agents, 1 outside change |
| `link_opening` | Is what is opened what was asked for, trust genuine and never older than what any call has adopted, the device hidden until "not found", every key wiped? Does a call whose context ended return? | 1 opener, 1 requester, 5 envelopes, 4 links, 2 deployments, 3 ticks |
| `portal_opener` | One visitor, one target, no live handle dropped, nothing left after `Close`? Does every call return? | 2 starters, 1 requester, 2 targets, 2 successful starts, 5 ticks |
| `runtime_client` | Is a replaced credential out of use in time, do requests never go back to an older one, do keys outlive their use, does every call return? | 2 goroutines with 2 calls each, 2 credentials, TTL 1, 3 ticks |

`state_directory` is a refinement: the property `ImplementsRegister` is the
specification of `StateRegister` under the mapping of `Visible`.

Bounds. Lifetimes keep the code's order, ticket or grant < lease and everything
below the horizon, at the smallest values that let each expire separately while a
call is at any step. Two tickets give one replacement, which is all the code
permits in a call; two generations give one move in each direction of a lagging
answer; three nonces give the initial Issue, one renewal and one more after it;
two revocations give an episode that starts from a credential the previous one
produced. Ticks bound the clock
(`MaxTime`). For bindings the code orders margin < lead < lease (125 s, 300 s,
a lease of the Hub's choosing); whole ticks cannot keep all of that at a bearable size, so
each run keeps the distance its question needs and the proofs cover every value. In the
lease run only a strict caller's margin is a tick (its lead is zero; `LiveAtDecisionHolds`
covers every lead). In the session run and in the one about pinned bindings lead and
margin are both a tick, with a lease of three: a
lease can be long enough, due, too short for a strict caller, or expired, and a prepared
operation can be knocked a tick after its preparation, in the last tick of its margin,
while a plain knock of the other goroutine is already early enough to renew; the creation
window of an operation is three ticks, so that it can outlive the placement it was prepared
for and only the check of the cell keeps its knock from going elsewhere. Two
generations in two cells give one move; two goroutines of one binding give every
conflict over its mutex, and `OtherLifecycle` stands for the other processes of the
store, which the proofs cover in any number. Goroutines and cells are
interchangeable in the session run, which checks safety only. In the enrollment run the
horizon and the ticket put the earliest deadline past the last tick, so `CommittedFinishes`
is never met by running into the horizon there: what is checked is the stronger claim that
the registration does finish; the deadlines themselves are the business of
`EpisodeStable` and of `recovery_liveness`. For an exchange, two attempts give
a stale reply and a current one, two addresses a mix of fault and silence, and a budget
of three timeouts of one tick lets the budget end before, in and after the last
attempt. One fault is enough for each promise of the directory to
be broken by the mutant that belongs to it, and a second holder of the setup lock needs
exactly one; three writers are one per rule about keys; two manifests of different
version give a downgrade, and an unsigned and a forged one the two ways past an anchor;
two starters and a renewal loop are the three that may open at once.
Deadlock is not checked in the enrollment and recovery runs: with the clock at
its bound and the agent registered nothing more has to happen; nor in the exchange
run: an operation that returned does nothing more; nor in the portal, link and client runs,
where every call may have returned.

Fairness. Enrollment: the caller keeps calling `ConnectAgentRuntime`, the documented
pattern of every start, and a step that is retried again and again eventually
succeeds (strong fairness, because a crash may interrupt any single call).
Recovery: the same per kind of step (start, send, answer, save, authority), and
weak fairness of `Abandon`, because exchanges have budgets and saves timeouts.
Lease renewal: the mutex is handed over fairly (`sync.Mutex` in Go does not starve a
waiter), a renewal always ends because lock wait, Hub exchange and save are bounded
by context, retry budget and timeout, and callers finish what they asked for.
Exchange: the goroutine
is scheduled, time passes and an expired timer fires (weak fairness of `Client`, `Tick`
and `BudgetFires`); nothing is assumed of network, server or caller. Only the exchange and the opener
assume anything of the clock. Portal opener: goroutines run, an open returns within its
timeout, timers fire, `Close` goes on; nobody has to call anything. Link opening: a call
runs and its network exchanges return, because transports obey the context; a device key
source need never return. Runtime client: goroutines run, loads and exchanges end with
their timeouts. Sessions, state directory and custody: safety only.

`RecoveryFinishes` names the ends a recovery may come to. One is a fact worth knowing:
the Hub is idempotent by nonce, so if it answers a renewal from a stale view, with a
placement older than the durable one, every replay brings the same answer, every one is
refused by the continuity rule, and the intent stays until the episode ends
(`AnswerRefused`).

### Where code and documentation differ

Checked by a run: a pinned binding follows a sibling's move (`pinned_assignment_doc`).
Met while modelling, and reproduced by the models, without a run of their own:

- `qurl/bootstrap.go:233` says `NeedsFreshGrant` is set only after an authenticated
  52411 and never by transport ambiguity. An exact replay of a lost Hub answer that
  brings a grant which has meanwhile expired also sets it (`PersistInitial`,
  `PersistRenewed` with a stale answer). The code is as intended by
  `TestRecoverAgentRuntime_StaleExactIssueReplayRenewsOnceBeforeCell`.
- `qurl/agent_assignment.go:251` says of `ErrEndpointNoReply` that no reply of any kind
  came back. An assignment whose first flight was challenged and whose proof flight
  stayed silent is reported so too; `SilenceIsHonest` states what does hold.
- `qurl/pinned_state_dir_unix.go:405` reports that the state entry changed while the
  lock was held. Handles share the identities they track, so a lock-free load on the
  handle of a lock holder that opened the file before the holder's rename can record the
  old entry afterwards (`TrackState`), and the holder is told so although nobody else
  touched the file.

## 4. Proofs

Every invariant and every action property of the passing runs is a theorem, and so are the
two refinements. The listed theorems, by module:

| Module | Properties of the runs it proves |
|---|---|
| `AgentEnrollmentProofs` | `ProofDurable`, `OneRegistration`, `EpisodeStable` |
| `CredentialRecoveryProofs` | `LoaderAccepts`, `OneDurableCandidate`, `NoPhaseSkipped`, `EpisodeStable` |
| `LeaseRenewalProofs` | `BindingNeverAhead`, `LiveAtDecision`, `PlacementNeverRegresses`; `NoSessionEscapes`, `PreparedPlacementHolds`, `HeldSessionsInReach`, and `SessionSpec => Spec` |
| `NativeExchangeProofs` | `AnswerSound`, `SilenceSound`, `FenceLatches`; `CredentialFresh`, `CredentialsAdvance`, `KeysOutliveUse` |
| `StateDirectoryProofs` | `CloseIsExact`, `TempsAreRemoved`, `ImplementsRegister` |
| `StateCustodyProofs` | `Reopenable`, `VerdictsAreHonest`, `LoadIsAuthentic`, `SavedUnderKey` |
| `LinkOpeningProofs` | `OpenedAsAsked`, `TrustHolds`, `AnonymousFirst`, `NoKeyLeftBehind` |
| `PortalOpenerProofs` | `OneSession`, `CloseIsFinal`, `LiveHandleKept` |

Each proof has the same shape: an inductive invariant, one lemma per action that it
survives, and the properties as consequences. Below is what the invariant adds to the
properties and why it has to.

### Enrollment

`AgentEnrollmentProofs` proves, for any sets of cells and endpoints, any lifetimes
and any bounds: `TypeOK`, `LoaderAccepts`, `ReplayProofDurable`, `OneCommit`,
`OneCandidate` and `CredentialDurable` as invariants, and `DeadlineImmutable` and
`RegistrationStable` as action properties. The only assumptions are the named ones
of `AgentState` and `AgentEnrollment`: positive horizon and lifetimes, a lease that
outlives the ticket it comes with, and `None` distinct from every record. `ProofDurable`,
`OneRegistration` and `EpisodeStable`, which the run checks, are their conjunctions.

None of the six invariants is inductive alone. The inductive invariant ties
together what the proof needs to know about a call in progress: `mem` equals the
durable state at the steps where it must, an answer in `got` is a live ticket for
this agent, every REG ever sent is either the durable pending ticket or can no
longer commit, every completion request carries the durable candidate, and the
authority has only committed what was sent. There is one lemma per action; the
theorems follow from `InvariantHolds`. Why the argument works: a ticket is
replaced only on a verdict (`Dead`) that is stable under the clock, so an old REG
that is still in the network can never commit next to the new one; and a
candidate reaches the network only after it is durable, and leaves the pending
record only by becoming the device key.

### Credential recovery

`CredentialRecoveryProofs`, for any cutoffs, lifetimes, numbers of nonces, candidates and
revocations. Assumed (`ConstantsAssumption`): a grant is shorter than its lease, a positive
horizon, `None` distinct from every record. The properties speak of one episode, but
client, wire and authority are at different points of it, so the invariant says what they
share. `CallInv`: the call works on the durable state, and each step finds in it what it
needs. `NonceInv`: the nonce of the durable intent is the only one whose answer is still
open, and the Hub has bound each nonce to one grant. `WireInv`: of all Complete requests
ever sent, only that of the durable grant can still be committed; the others were
committed or carry a dead grant, and a grant is marked rejected only when it is dead. `EpisodeInv`: the
grant of a durable intent, and that of a pending record that is not committed yet, belong
to the revocation that is open, and the requests of one revocation carry one candidate.
From `WireInv` and `EpisodeInv` a second grant can never commit a second candidate next to
the durable one, whatever is still in the network when it is asked for.

### Lease renewal and sessions

`LeaseRenewalProofs` proves, for any number of processes, goroutines, cells and
endpoints and any lead, margin and lease: `RenewalSafety` (`TypeOK`,
`LocksFollowRenewal`, `BindingNeverAhead`, `LiveAtDecision`) and `PlacementsAdvance`
(the action property `PlacementNeverRegresses`). Assumed: `ConstantsAssumption`
(types of the constants, `None` distinct from every record). The inductive invariant
adds `WorkInv` to the four: whoever holds the setup lock works on the durable
placement it loaded, the answer it is about to save is not older than that, and the
decision instant of a best-effort call is not in the future. The first makes the
continuity check, done against the loaded placement, say something about the store at
the moment of the save; the last makes a lease that is live on arrival live at the
decision. `LocksFollowRenewal` is what lets the other callers be ignored. All exits
of a renewal go through one lemma, `EndStep`.

Sessions are proved on top: every step of `SessionOperation` is a step of `LeaseRenewal` or
leaves its variables alone (`SessionsRefineRenewal`), so `IInv` and all that follows from it
hold of the composition, for any number of cells, knocks and crashes. `IdInv` says
that operations and runs are told apart by serial number, `KnkInv` that a KNK of an
operation, still on the wire or admitted, is that of a journaled operation at its own cell,
`CloseInv` that a cell never has both a session and its terminal record. `NoSessionEscapes`
is their consequence. `SectionInv` is about callers that keep the documented critical
section: nobody else prepares on the binding, and while a margin has not passed since the
preparation the binding names the prepared placement, its lease is too long to be due, and
nobody renews it. `ReachInv` says that all KNKs of one run go to one cell, and that a receipt
names it; a retirement goes to the address of the receipt, so it reaches the session
wherever the binding points by then (`HeldSessionsInReach`). Extra assumption
(`SessionAssumption`): the windows are naturals.

The proof attempt corrected a property. `PreparedPlacementHolds` first bounded the moment
the knocking call sampled the clock. That is too weak with two or more knocks: a plain
knock of another goroutine that samples after the margin can take the mutex first, renew
and move the binding while the prepared knocker waits with an older sample. The property
now bounds the clock at the moment the knock is made, which is what
`qurl/native_session_operation.go:252-257` asks of the caller.

### Native exchange

`NativeExchangeProofs` proves, for every budget, timeout, number of attempts and
addresses and any set of profiles: `ExchangeSafety` (seven invariants, of which
`AnswerSound` and `SilenceSound` are conjunctions) and `FenceHolds` (the action property
`FenceLatches`). Assumed: `ExchangeAssumption`, that all but the longest backoff are positive. The inductive
invariant says where the evidence for a later report is at each step. `CounterInv`: no
datagram has a counter that is not drawn yet, so a counter names one flight;
`CurrentInv` and `ProofInv`: the flight in progress belongs to this attempt, and its
cookie to this attempt's first packet; `AnswerInv`, `VerdictInv`, `OTPInv`: what has been
read is what is about to be reported, and whoever read a verdict is past all steps that
look at the context; `UnheardInv` and `EvidenceInv`: while silence stands nothing but a
challenge was read, and some flight went out without a local fault; `TraceInv`:
conversely, whatever cleared silence left a trace. There is one lemma per action.

### Runtime client

Also in `NativeExchangeProofs`, for any number of goroutines, calls and
credentials. Assumed (`RuntimeAssumption`): a positive TTL, at least one credential, `None`
distinct from the values it stands beside. `FreshInv` carries one fact from the start of a
load to the request that uses its result: a credential was read by a refresh that began
before the credential was replaced and before the store named another agent. It rests on
the stored credential never having been replaced, and on every clock that was read lying
in the past. `OrderInv` carries `CredentialsAdvance`: only the goroutine that owns the refresh
can change the cache, so what a load has read is never older than what is cached, and no
request carried anything newer than the cache. `KeyInv`: who is in an exchange holds the mutex of the key it uses, so nobody
else can take, wipe or retire it.

### State directory

`StateDirectoryProofs`, for any finite set of goroutines, any processes, directories, lock
files, saves and faults. Assumed (`StateDirectoryAssumption`): goroutines belong to
handles, updaters are not loaders, and there are finitely many goroutines (references are
counted). The heart is `CommitInv`: between the last check of a save and its rename the
directory names the lock file the saver holds, and its state is the one the new state was
computed from. A lock file has one holder, so two savers cannot both be in that section
of one directory (`OneAuthor`). The baseline of a save is what was loaded because the handle tracks the
entry it loaded (`LoadInv`); a power loss brings back only states that extend the last
acknowledged one (`DurableInv`); a handle counts exactly the operations that use it
(`UseInv`); a temp file is that of a save in progress on a handle of the same directory, which will
remove it, or an orphan (`TempInv`; `TempsAfterDeath` for the steps that make orphans).

`DirectoryIsARegister` is the refinement. Under the mapping `Visible` a rename is the write
of the register, an acknowledgement its promise, `PowerLoss` its fall-back, and every
other step a stutter; `CommitInv` makes the rename append to the value that is visible,
`DurableInv` makes the fall-back land at or after the promise.

### Stores

`StateCustodyProofs`, for any writers, agents, providers and keys, any number of saves and
outside changes. Assumed (`CustodyAssumption`): the configured names belong to their sets,
`Default` is not a key, `None` is not a value. `CallInv` says what a call carries for its
next step: the number of its save, a wrapped key that gives the number back once it was
verified, and for a writer that verified its key and goes on to put, that the secret is
under that key as long as nobody else changed it. `FreshInv`: no envelope on record was
sealed with the number of a save in progress. `StoredInv`: whatever was recombined
outside, the box in a stored envelope is one that a save sealed or another agent's.
`BoxTellsEnvelope` is the lemma that turns this into `LoadIsAuthentic`: a box opens only
inside the envelope it was made for, because all other parts are its additional data.

### Links and portals

`LinkOpeningProofs`, for any callers, links, manifests and deployments. Assumed
(`LinkAssumption`): manifest versions are integers, `None` is not a verdict. The callers
share the clock, the provider and its floor, and what is said of a caller mentions none of
them; so a step is shown to keep what is said of its own
caller (`PlaceInv`, `DeviceInv`, `KeyInv`, `TrustInv`, `LinkInv`), and all others follow.
`TrustHolds` has two parts. That trust is genuine is one of the consequences
(`ManifestTrusted`). That it never regresses rests on `FloorInv`: the floor is `newest`, the
highest version any call has ever adopted, because a manifest is compared with the floor and
the floor is raised in one section under `p.mu` (`FloorMoves`); a check made at
fetch would let a slow call adopt an older manifest after a fast one has adopted a newer.
What carries `NoKeyLeftBehind` is that a live key is either with
the goroutine of its source or with the request that uses it.

`PortalOpenerProofs`, for any callers, targets, lifetimes, lead, gap and number of loops.
Assumed (`PortalOpenerAssumption`): a positive life, starters told apart from loops,
`None` not a number. `OwnerInv`: the owner of a start attempt excludes every other
attempt and every running loop. `LoopInv`: only the last loop runs, and it follows the handle
that is cached. So at most one open is in flight, and `VisitorInv` and `TargetInv` carry
the one capability and the one target from the first open to every later one. `FinalInv`
says that once `Close` has waited nothing is left that could install a handle.

### Only model-checked

Liveness: `CommittedFinishes`, `RecoveryFinishes`, `OperationReturns` and the `CallsReturn` of four modules. They need fairness and ENABLED,
which are outside this prover. The finding about pinned bindings is a counterexample of
TLC.

## 5. Not modelled, and the plan

What could still be proved or modelled, in order of importance: an abstract specification
of a registration (one commit, one credential, never taken back) that `AgentEnrollment`
and `CredentialRecovery` both implement; the connector resources over HTTP; the
retirement of a portal over the relay.

Not modelled: the lock file disappearing in the instant between the last check of a save
and its rename (the code cannot see it either); a temp file left by a process that died,
which nothing sweeps; a refused removal of a temp file; reuse of inode numbers; the
stateless requests of the API client, consumers and publishers, one HTTP exchange each;
the CRID codec and the QV2 grammar, which are pure and keep no state.

Left out for good: cryptography (Noise, AES-GCM, KMS, signatures), JSON and wire
grammars beyond the values they yield, option parsing, HTTP plumbing, test
support, platform differences that do not change state.
