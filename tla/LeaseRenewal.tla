---------------------------- MODULE LeaseRenewal ----------------------------
(***************************************************************************)
(* A held AgentRuntimeBinding keeps its own assignment lease current:      *)
(*                                                                         *)
(*   src/qurl/agent_lifecycle.go       liveSessionAssignmentWithPolicy     *)
(*   src/qurl/native_agent_runtime.go  renewSessionAssignment              *)
(*                                                                         *)
(* Several processes share one state store, each with one binding; several *)
(* goroutines ("callers") share a binding.  A caller that needs a          *)
(* placement samples the clock, takes the binding's renewal mutex and      *)
(* answers from memory, or keeps the mutex while it renews: setup lock,    *)
(* load, adopt what another process already persisted or ask the Hub,      *)
(* check continuity, save, publish to the binding.  A process may crash at *)
(* any step; its mutex is gone and the kernel releases its setup lock.     *)
(*                                                                         *)
(* The module is about placements.  Identity and credential appear only as *)
(* disk.completed: the durable state loads as a completed registration.    *)
(***************************************************************************)
EXTENDS AgentAssignment

CONSTANTS
  None,               \* nil
  Cells, Endpoints,   \* placements the Hub can choose
  Bindings,           \* processes, each holding one binding of the shared store
  Callers,            \* goroutines
  BindingOf,          \* the binding a goroutine uses
  Pinned,             \* bindings opened WithAgentRuntimePinnedAssignment
  Offline,            \* bindings without a renewal: offline open, no Hub
  Lead,               \* sessionLeaseRenewalLead, 5 minutes
  Margin,             \* NativeSessionOperationJournalMargin, 125 seconds
  LeaseLife,          \* longest lease the Hub grants
  MaxTime, MaxGen, MaxRev   \* bounds of a run

Assignment == AssignmentSet(Cells, Nat \ {0}, Nat \ {0}, Endpoints, Nat)

ExportedFields == [cell : Cells, gen : Nat \ {0}, rev : Nat \ {0}, endpoint : Endpoints]

\* One call of liveSessionAssignment: strict or best effort, the instant that
\* decides whether a renewal is due, what it loaded, what the Hub answered.
Call == [strict : BOOLEAN, at : Nat, loaded : Assignment \cup {None},
         asg : Assignment \cup {None}]

ASSUME ConstantsAssumption ==
  /\ BindingOf \in [Callers -> Bindings]
  /\ Pinned \subseteq Bindings /\ Offline \subseteq Bindings
  /\ {Lead, Margin, LeaseLife, MaxTime, MaxGen, MaxRev} \subseteq Nat
  /\ None \notin Assignment /\ None \notin Call /\ None \notin ExportedFields /\ None \notin Callers

VARIABLES
  now,         \* the clock
  disk,        \* durable assignment, and whether the state loads as completed
  placements,  \* placements the Hub has published, without their lease
  setup,       \* holder of the store's setup lock
  mu,          \* holder of each binding's renewal mutex
  origin,      \* authoritativeAssignment without its lease: fixed when the binding is built
  live,        \* livePlacement: origin until a renewal replaces it; None: no process
  pc, call     \* step of each caller, and its call

processVars == <<setup, mu, origin, live, pc, call>>
vars == <<now, disk, placements, processVars>>

Placement == [cell : Cells, gen : 1..MaxGen, rev : 1..MaxRev, endpoint : Endpoints]

Leased(p, lease) ==
  [cell |-> p.cell, gen |-> p.gen, rev |-> p.rev, endpoint |-> p.endpoint, lease |-> lease]

\* The exported fields checkedAssignment compares; the lease is not among them.
Exported(a) == [cell |-> a.cell, gen |-> a.gen, rev |-> a.rev, endpoint |-> a.endpoint]

Steps == {"idle", "mutex", "lock", "hub", "save", "use"}

-----------------------------------------------------------------------------
\* A renewal is due unless the lease outlives the decision instant by more
\* than the lead.
RenewalDue(a, t) == ~(t + Lead < a.lease)

Current(c) == live[BindingOf[c]]

\* The call returns a placement, except that a strict caller accepts only one
\* that itself has the margin.
ReturnPlacement(c, a) ==
  IF call[c].strict /\ RenewalDue(a, call[c].at)
  THEN pc' = [pc EXCEPT ![c] = "idle"] /\ call' = [call EXCEPT ![c] = None]
  ELSE /\ pc' = [pc EXCEPT ![c] = "use"]
       /\ call' = [call EXCEPT ![c].asg = a, ![c].loaded = None]

ReturnError(c) ==
  /\ pc' = [pc EXCEPT ![c] = "idle"]
  /\ call' = [call EXCEPT ![c] = None]

FaultyUnlock(c) ==
  /\ setup' = IF setup = c THEN None ELSE setup
  /\ UNCHANGED mu

Unlock(c) ==
  /\ mu' = [mu EXCEPT ![BindingOf[c]] = None]
  /\ setup' = IF setup = c THEN None ELSE setup

\* A renewal succeeded: the binding adopts it before the mutex is released.
AdoptRenewed(c, a) ==
  /\ live' = [live EXCEPT ![BindingOf[c]] = a]
  /\ ReturnPlacement(c, a)
  /\ Unlock(c)
  /\ UNCHANGED origin

\* A renewal failed: fatal for a strict caller or an expired lease, otherwise
\* the current placement still serves.
FaultyKeepExpired(c) ==
  /\ IF call[c].strict THEN ReturnError(c) ELSE ReturnPlacement(c, Current(c))
  /\ Unlock(c)
  /\ UNCHANGED <<origin, live>>

RenewalFailed(c) ==
  /\ IF call[c].strict \/ LeaseExpired(Current(c), call[c].at)
     THEN ReturnError(c) ELSE ReturnPlacement(c, Current(c))
  /\ Unlock(c)
  /\ UNCHANGED <<origin, live>>

-----------------------------------------------------------------------------
(* liveSessionAssignmentWithPolicy.                                        *)

\* The decision instant is sampled before the mutex is waited for; a strict
\* caller moves it forward by the margin it needs.
AskPlacement(c, strict) ==
  /\ pc[c] = "idle" /\ Current(c) # None
  /\ pc' = [pc EXCEPT ![c] = "mutex"]
  /\ call' = [call EXCEPT ![c] =
       [strict |-> strict, at |-> IF strict THEN now + Margin ELSE now,
        loaded |-> None, asg |-> None]]
  /\ UNCHANGED <<now, disk, placements, setup, mu, origin, live>>

\* No renewal attached: the placement is what it is.
AnswerOffline(c) ==
  /\ pc[c] = "mutex" /\ BindingOf[c] \in Offline
  /\ ReturnPlacement(c, Current(c))
  /\ UNCHANGED <<now, disk, placements, setup, mu, origin, live>>

AnswerCurrent(c) ==
  /\ pc[c] = "mutex" /\ BindingOf[c] \notin Offline
  /\ mu[BindingOf[c]] = None
  /\ ~RenewalDue(Current(c), call[c].at)
  /\ ReturnPlacement(c, Current(c))
  /\ UNCHANGED <<now, disk, placements, setup, mu, origin, live>>

BeginRenewal(c) ==
  /\ pc[c] = "mutex" /\ BindingOf[c] \notin Offline
  /\ mu[BindingOf[c]] = None
  /\ RenewalDue(Current(c), call[c].at)
  /\ mu' = [mu EXCEPT ![BindingOf[c]] = c]
  /\ pc' = [pc EXCEPT ![c] = "lock"]
  /\ UNCHANGED <<now, disk, placements, setup, origin, live, call>>

-----------------------------------------------------------------------------
(* renewSessionAssignment, under withAgentSetupLock.                       *)

\* Lock and load: another process may already have renewed this store.
FaultyLoadUnlocked(c) ==
  /\ pc[c] = "lock" /\ setup = None /\ disk.completed
  /\ IF RenewalDue(disk.asg, call[c].at)
     THEN /\ pc' = [pc EXCEPT ![c] = "hub"]
          /\ call' = [call EXCEPT ![c].loaded = disk.asg]
          /\ UNCHANGED <<setup, mu, origin, live>>
     ELSE AdoptRenewed(c, disk.asg)
  /\ UNCHANGED <<now, disk, placements>>

LoadUnderLock(c) ==
  /\ pc[c] = "lock" /\ setup = None /\ disk.completed
  /\ IF RenewalDue(disk.asg, call[c].at)
     THEN /\ setup' = c
          /\ pc' = [pc EXCEPT ![c] = "hub"]
          /\ call' = [call EXCEPT ![c].loaded = disk.asg]
          /\ UNCHANGED <<mu, origin, live>>
     ELSE AdoptRenewed(c, disk.asg)
  /\ UNCHANGED <<now, disk, placements>>

\* The Hub answers with a placement it has published, the newest or not, and
\* a lease that is live on arrival.
HubRefreshes(c, fresh) ==
  /\ pc[c] = "hub"
  /\ EnsureRefreshAssignmentContinuity(call[c].loaded, fresh, BindingOf[c] \notin Pinned)
  /\ IF fresh = call[c].loaded
     THEN AdoptRenewed(c, fresh)
     ELSE /\ pc' = [pc EXCEPT ![c] = "save"]
          /\ call' = [call EXCEPT ![c].asg = fresh]
          /\ UNCHANGED <<setup, mu, origin, live>>
  /\ UNCHANGED <<now, disk, placements>>

\* The save, then the binding.  Written but not acknowledged, or followed by a
\* failed continuity check or lock release, it is a failed renewal.
FaultyAdoptBeforeSave(c) ==
  /\ pc[c] = "save"
  /\ \/ disk' = [disk EXCEPT !.asg = call[c].asg]
     \/ UNCHANGED disk
  /\ AdoptRenewed(c, call[c].asg)
  /\ UNCHANGED <<now, placements>>

SaveRenewed(c) ==
  /\ pc[c] = "save"
  /\ disk' = [disk EXCEPT !.asg = call[c].asg]
  /\ AdoptRenewed(c, call[c].asg) \/ RenewalFailed(c)
  /\ UNCHANGED <<now, placements>>

\* Everything that ends a renewal with nothing written: no lock, a state that
\* is not a completed registration, an outage, a refused or discontinuous
\* answer, a refused save, a cancelled caller.
RenewalFails(c) ==
  /\ pc[c] \in {"lock", "hub", "save"}
  /\ RenewalFailed(c)
  /\ UNCHANGED <<now, disk, placements>>

-----------------------------------------------------------------------------
(* The other users of the store, the Hub, processes and the clock.         *)

\* Another lifecycle call (refresh, credential recovery) replaces the durable
\* state under the setup lock; its placement passes the same continuity rule.
OtherLifecycle ==
  /\ setup = None
  /\ \E completed \in BOOLEAN :
       \/ disk' = [disk EXCEPT !.completed = completed]
       \/ \E p \in placements, d \in 1..LeaseLife :
            /\ EnsureRefreshAssignmentContinuity(disk.asg, Leased(p, now + d), TRUE)
            /\ disk' = [completed |-> completed, asg |-> Leased(p, now + d)]
  /\ UNCHANGED <<now, placements, processVars>>

\* The exported fields are a record of the first placement; nothing renewed yet.
NewBinding(b, a) ==
  /\ origin' = [origin EXCEPT ![b] = Exported(a)]
  /\ live' = [live EXCEPT ![b] = a]

\* Opening a completed registration whose lease is live: a lock-free read.
OpenBinding(b) ==
  /\ live[b] = None
  /\ disk.completed /\ ~LeaseExpired(disk.asg, now)
  /\ NewBinding(b, disk.asg)
  /\ UNCHANGED <<now, disk, placements, setup, mu, pc, call>>

Users(b) == {c \in Callers : BindingOf[c] = b}

CrashProcess(b) ==
  /\ live[b] # None
  /\ origin' = [origin EXCEPT ![b] = None]
  /\ live' = [live EXCEPT ![b] = None]
  /\ mu' = [mu EXCEPT ![b] = None]
  /\ setup' = IF setup \in Users(b) THEN None ELSE setup
  /\ pc' = [c \in Callers |-> IF c \in Users(b) THEN "idle" ELSE pc[c]]
  /\ call' = [c \in Callers |-> IF c \in Users(b) THEN None ELSE call[c]]
  /\ UNCHANGED <<now, disk, placements>>

HubPublishes ==
  /\ \E p \in Placement :
       /\ \A q \in placements :
            p.gen > q.gen \/ (p.gen = q.gen /\ p.cell = q.cell /\ p.rev > q.rev)
       /\ placements' = placements \cup {p}
  /\ UNCHANGED <<now, disk, processVars>>

Tick ==
  /\ now < MaxTime
  /\ now' = now + 1
  /\ UNCHANGED <<disk, placements, processVars>>

-----------------------------------------------------------------------------
Init ==
  /\ now = 1
  /\ placements \in {{p} : p \in {q \in Placement : q.gen = 1 /\ q.rev = 1}}
  /\ \E p \in placements :
       disk = [completed |-> TRUE, asg |-> Leased(p, now + LeaseLife)]
  /\ setup = None
  /\ mu = [b \in Bindings |-> None]
  /\ origin = [b \in Bindings |-> None]
  /\ live = [b \in Bindings |-> None]
  /\ pc = [c \in Callers |-> "idle"]
  /\ call = [c \in Callers |-> None]

HubAnswers(c) ==
  \E p \in placements, d \in 1..LeaseLife : HubRefreshes(c, Leased(p, now + d))

\* A step inside liveSessionAssignment.
RenewalStep(c) ==
  \/ AnswerOffline(c) \/ AnswerCurrent(c) \/ BeginRenewal(c)
  \/ LoadUnderLock(c) \/ HubAnswers(c) \/ SaveRenewed(c) \/ RenewalFails(c)

Environment ==
  \/ OtherLifecycle \/ HubPublishes \/ Tick
  \/ \E b \in Bindings : OpenBinding(b) \/ CrashProcess(b)

\* The caller is done with the placement it was given.
EndUse(c) ==
  /\ pc[c] = "use"
  /\ ReturnError(c)
  /\ UNCHANGED <<now, disk, placements, setup, mu, origin, live>>

Next ==
  \/ \E c \in Callers : RenewalStep(c) \/ EndUse(c) \/ \E strict \in BOOLEAN : AskPlacement(c, strict)
  \/ Environment

Spec == Init /\ [][Next]_vars

\* Mutex and setup lock are handed over fairly (sync.Mutex does not starve a
\* waiter; a setup-lock wait that does not end is cut off by its context, which
\* is RenewalFails), and every step of a renewal is bounded: the Hub exchange by
\* its retry budget, the save by its timeout.  Callers use what they asked for.
Fairness ==
  \A c \in Callers :
    /\ SF_vars(AnswerCurrent(c) \/ BeginRenewal(c))
    /\ WF_vars(AnswerOffline(c)) /\ WF_vars(RenewalFails(c)) /\ WF_vars(EndUse(c))

FairSpec == Spec /\ Fairness

-----------------------------------------------------------------------------
(* Properties.                                                             *)

\* Types; a caller inside a call has one, and a returned placement exists.
TypeOK ==
  /\ now \in Nat
  /\ disk \in [completed : BOOLEAN, asg : Assignment]
  /\ placements \subseteq Placement
  /\ setup \in Callers \cup {None}
  /\ mu \in [Bindings -> Callers \cup {None}]
  /\ origin \in [Bindings -> ExportedFields \cup {None}]
  /\ live \in [Bindings -> Assignment \cup {None}]
  /\ pc \in [Callers -> Steps]
  /\ call \in [Callers -> Call \cup {None}]
  /\ \A c \in Callers :
       /\ pc[c] = "idle" <=> call[c] = None
       /\ pc[c] # "idle" => Current(c) # None
       /\ pc[c] \in {"save", "use"} => call[c].asg # None
       /\ pc[c] \in {"hub", "save"} => call[c].loaded # None

\* Exactly the callers inside a renewal hold locks: whatever way a renewal ends
\* (success, error, kept placement, crash) the mutex and the setup lock are free
\* again, and never do two processes work on the durable state at once.
LocksFollowRenewal ==
  /\ \A c \in Callers :
       /\ pc[c] \in {"lock", "hub", "save"} <=> mu[BindingOf[c]] = c
       /\ pc[c] \in {"hub", "save"} <=> setup = c
  /\ \A b \in Bindings : mu[b] # None => BindingOf[mu[b]] = b

\* No binding, and no caller, works with a placement newer than the durable one:
\* a restart never falls back behind what an exchange already used.
BindingNeverAhead ==
  /\ \A b \in Bindings : live[b] # None => NotOlder(live[b], disk.asg)
  /\ \A c \in Callers : pc[c] = "use" => NotOlder(call[c].asg, disk.asg)

\* A best-effort renewal never hands out a placement that was already expired
\* when the caller asked, although it survives outages, refused moves and
\* unwritable stores.
LiveAtDecision ==
  \A c \in Callers :
    pc[c] = "use" /\ BindingOf[c] \notin Offline => ~LeaseExpired(call[c].asg, call[c].at)

\* Neither the store nor a held binding ever goes back to an older placement,
\* although the Hub may answer late and several processes renew one store.
PlacementNeverRegresses ==
  [][ /\ NotOlder(disk.asg, disk'.asg)
      /\ \A b \in Bindings :
           live[b] # None /\ live'[b] # None => NotOlder(live[b], live'[b]) ]_vars

\* A call that waits for the mutex returns, whoever holds it and however the
\* renewals of the others end.
CallsReturn == \A c \in Callers : pc[c] = "mutex" ~> pc[c] = "idle"

\* What the option's documentation says of a binding opened with
\* WithAgentRuntimePinnedAssignment: it never follows a move.
PinnedNeverMoves ==
  \A b \in Pinned : live[b] # None => ~Reassigned(origin[b], live[b])

=============================================================================
