------------------------- MODULE LeaseRenewalProofs -------------------------
(***************************************************************************)
(* Safety of LeaseRenewal, and of the sessions that SessionOperation adds  *)
(* to it, for any number of processes, goroutines, placements, cells and   *)
(* knocks.                                                                 *)
(*                                                                         *)
(* Renewal.  What makes its properties inductive is WorkInv: the holder of *)
(* the setup lock works on the durable placement it loaded, the answer it  *)
(* is about to save is not older, and a best-effort call never decided in  *)
(* the future.                                                             *)
(*                                                                         *)
(* Sessions.  Every step of them is a step of LeaseRenewal or leaves its   *)
(* variables alone, so what is proved there holds here.  On top of it the  *)
(* invariant says that runs and operations are told apart by their serial  *)
(* number (IdInv), that a KNK of an operation is in reach of the journal   *)
(* (KnkInv), that a cell never has a session and its terminal record       *)
(* (CloseInv), and that nobody can renew a binding between a preparation   *)
(* and a knock inside the journal margin (SectionInv).                     *)
(***************************************************************************)
EXTENDS SessionOperation, TLAPS

Renewing == {"lock", "hub", "save"}

WorkInv ==
  \A c \in Callers :
    /\ pc[c] \in {"hub", "save"} => call[c].loaded = disk.asg
    /\ pc[c] = "save" => NotOlder(disk.asg, call[c].asg)
    /\ pc[c] # "idle" /\ ~call[c].strict => call[c].at <= now
    /\ pc[c] = "save" /\ ~call[c].strict => ~LeaseExpired(call[c].asg, call[c].at)

IInv == TypeOK /\ LocksFollowRenewal /\ BindingNeverAhead /\ LiveAtDecision /\ WorkInv

Disk == [completed : BOOLEAN, asg : Assignment]

-----------------------------------------------------------------------------
(* The order of placements.                                                *)

\* The order in which placements are published is a preorder.
LEMMA NotOlderReflexive == \A a \in Assignment : NotOlder(a, a)
BY DEF NotOlder, Assignment, AssignmentSet

\* It is transitive as well: a chain of renewals never leads back.
LEMMA NotOlderTransitive ==
  \A a, b, c \in Assignment : NotOlder(a, b) /\ NotOlder(b, c) => NotOlder(a, c)
BY DEF NotOlder, Assignment, AssignmentSet

\* A refresh that passes ensureRefreshAssignmentContinuity, pinned or not, is
\* not older than the placement it replaces.
LEMMA ContinuityNotOlder ==
  ASSUME NEW a \in Assignment, NEW b \in Assignment, NEW adopt \in BOOLEAN,
         EnsureRefreshAssignmentContinuity(a, b, adopt)
  PROVE  NotOlder(a, b)
BY DEF EnsureRefreshAssignmentContinuity, EnsureAssignmentContinuity, Reassigned,
       NotOlder, Assignment, AssignmentSet

\* What the Hub publishes, with a lease, is an assignment.
LEMMA LeasedType ==
  ASSUME TypeOK, NEW p \in placements, NEW d \in 1..LeaseLife
  PROVE  Leased(p, now + d) \in Assignment /\ Leased(p, now + d).lease > now
BY ConstantsAssumption DEF TypeOK, Leased, Placement, Assignment, AssignmentSet

-----------------------------------------------------------------------------
(* The ways a call leaves the mutex.                                       *)

\* What IInv says of one caller.
LEMMA CallerFacts ==
  ASSUME IInv, NEW c \in Callers, pc[c] # "idle"
  PROVE  /\ call[c] \in Call /\ BindingOf[c] \in Bindings
         /\ Current(c) \in Assignment /\ NotOlder(Current(c), disk.asg)
         /\ disk \in Disk /\ now \in Nat
BY ConstantsAssumption DEF IInv, TypeOK, BindingNeverAhead, Current, Disk

\* Returning a placement, as seen by the caller.
LEMMA ReturnFacts ==
  ASSUME IInv, NEW c \in Callers, pc[c] # "idle", NEW a \in Assignment,
         ReturnPlacement(c, a)
  PROVE  /\ pc' \in [Callers -> Steps] /\ call' \in [Callers -> Call \cup {None}]
         /\ \A d \in Callers \ {c} : pc'[d] = pc[d] /\ call'[d] = call[d]
         /\ \/ pc'[c] = "idle" /\ call'[c] = None
            \/ /\ pc'[c] = "use" /\ call'[c].asg = a /\ call'[c] \in Call
               /\ call'[c].strict = call[c].strict /\ call'[c].at = call[c].at
               /\ call[c].strict => ~RenewalDue(a, call[c].at)
<1>1. call[c] \in Call /\ pc \in [Callers -> Steps] /\ call \in [Callers -> Call \cup {None}]
  BY CallerFacts DEF IInv, TypeOK
<1>2. CASE call[c].strict /\ RenewalDue(a, call[c].at)
  BY <1>1, <1>2 DEF ReturnPlacement, Steps
<1>3. CASE ~(call[c].strict /\ RenewalDue(a, call[c].at))
  <2>1. /\ pc' = [pc EXCEPT ![c] = "use"]
        /\ call' = [call EXCEPT ![c].asg = a, ![c].loaded = None]
    BY <1>3 DEF ReturnPlacement
  <2>2. /\ call'[c] = [[call[c] EXCEPT !.asg = a] EXCEPT !.loaded = None]
        /\ call'[c] \in Call
    BY <1>1, <2>1 DEF Call
  <2>3. call'[c].asg = a /\ call'[c].strict = call[c].strict /\ call'[c].at = call[c].at
    BY <1>1, <2>2 DEF Call
  <2> QED BY <1>1, <1>3, <2>1, <2>2, <2>3 DEF Steps
<1> QED BY <1>2, <1>3

\* A lease that is not due for a renewal is live.
LEMMA NotDueLive ==
  ASSUME NEW a \in Assignment, NEW t \in Nat, ~RenewalDue(a, t)
  PROVE  ~LeaseExpired(a, t)
BY ConstantsAssumption DEF RenewalDue, LeaseExpired, Assignment, AssignmentSet

-----------------------------------------------------------------------------
(* Renewals that end, with and without success.                            *)

\* What a caller leaves behind that ends its renewal with placement a: a result
\* live at the decision instant, or an error.
Ended(c, a) ==
  /\ pc' \in [Callers -> Steps] /\ call' \in [Callers -> Call \cup {None}]
  /\ \A d \in Callers \ {c} : pc'[d] = pc[d] /\ call'[d] = call[d]
  /\ \/ pc'[c] = "idle" /\ call'[c] = None
     \/ /\ pc'[c] = "use" /\ call'[c].asg = a /\ call'[c] \in Call
        /\ call'[c].strict = call[c].strict /\ call'[c].at = call[c].at
        /\ ~LeaseExpired(a, call[c].at)

\* The end of a renewal, whatever its outcome: the locks are free, and the
\* binding's placement is durable.
LEMMA EndStep ==
  ASSUME IInv, NEW c \in Callers, pc[c] \in Renewing, NEW a \in Assignment,
         live' = [live EXCEPT ![BindingOf[c]] = a], Unlock(c), Ended(c, a),
         UNCHANGED <<now, placements, origin>>,
         disk' \in Disk, NotOlder(disk.asg, disk'.asg), NotOlder(a, disk'.asg),
         disk'.asg = disk.asg \/ setup = c
  PROVE  IInv'
<1> DEFINE b == BindingOf[c]
<1>0. /\ call[c] \in Call /\ b \in Bindings /\ disk \in Disk /\ now \in Nat
      /\ mu[b] = c /\ pc[c] # "idle"
  BY CallerFacts DEF Renewing, IInv, LocksFollowRenewal
<1>1. /\ pc' \in [Callers -> Steps] /\ call' \in [Callers -> Call \cup {None}]
      /\ \A d \in Callers \ {c} : pc'[d] = pc[d] /\ call'[d] = call[d]
      /\ \/ pc'[c] = "idle" /\ call'[c] = None
         \/ /\ pc'[c] = "use" /\ call'[c].asg = a /\ call'[c] \in Call
            /\ call'[c].strict = call[c].strict /\ call'[c].at = call[c].at
            /\ ~LeaseExpired(a, call[c].at)
  BY DEF Ended
<1>2. /\ live' = [live EXCEPT ![b] = a] /\ origin' = origin
      /\ mu' = [mu EXCEPT ![b] = None]
      /\ setup' = IF setup = c THEN None ELSE setup
  BY DEF Unlock
<1>3. TypeOK'
  <2>1. /\ now' \in Nat /\ disk' \in [completed : BOOLEAN, asg : Assignment]
        /\ placements' \subseteq Placement
        /\ setup' \in Callers \cup {None}
        /\ mu' \in [Bindings -> Callers \cup {None}]
        /\ origin' \in [Bindings -> ExportedFields \cup {None}]
        /\ live' \in [Bindings -> Assignment \cup {None}]
    BY <1>0, <1>2 DEF IInv, TypeOK, Disk
  <2>2. ASSUME NEW d \in Callers
        PROVE  /\ pc'[d] = "idle" <=> call'[d] = None
               /\ pc'[d] # "idle" => live'[BindingOf[d]] # None
               /\ pc'[d] \in {"save", "use"} => call'[d].asg # None
               /\ pc'[d] \in {"hub", "save"} => call'[d].loaded # None
    <3>1. CASE d = c
      BY <1>0, <1>1, <1>2, <3>1, ConstantsAssumption DEF IInv, TypeOK
    <3>2. CASE d # c
      BY <1>0, <1>1, <1>2, <3>2, ConstantsAssumption DEF IInv, TypeOK, Current
    <3> QED BY <3>1, <3>2
  <2> QED BY <1>1, <2>1, <2>2 DEF TypeOK, Current
<1>4. LocksFollowRenewal'
  <2>1. ASSUME NEW d \in Callers
        PROVE  /\ pc'[d] \in {"lock", "hub", "save"} <=> mu'[BindingOf[d]] = d
               /\ pc'[d] \in {"hub", "save"} <=> setup' = d
    BY <1>0, <1>1, <1>2, ConstantsAssumption DEF IInv, TypeOK, LocksFollowRenewal
  <2>2. \A e \in Bindings : mu'[e] # None => BindingOf[mu'[e]] = e
    BY <1>0, <1>2 DEF IInv, TypeOK, LocksFollowRenewal
  <2> QED BY <2>1, <2>2 DEF LocksFollowRenewal
<1>5. BindingNeverAhead'
  <2>1. ASSUME NEW e \in Bindings, live'[e] # None
        PROVE  NotOlder(live'[e], disk'.asg)
    <3>1. CASE e = b BY <1>0, <1>2, <3>1 DEF IInv, TypeOK
    <3>2. CASE e # b
      <4>1. live'[e] = live[e] /\ live[e] \in Assignment /\ NotOlder(live[e], disk.asg)
        BY <1>2, <2>1, <3>2 DEF IInv, TypeOK, BindingNeverAhead
      <4> QED BY <1>0, <4>1, NotOlderTransitive DEF Disk
    <3> QED BY <3>1, <3>2
  <2>2. ASSUME NEW d \in Callers, pc'[d] = "use"
        PROVE  NotOlder(call'[d].asg, disk'.asg)
    <3>1. CASE d = c BY <1>1, <2>2, <3>1
    <3>2. CASE d # c
      <4>1. /\ call'[d] = call[d] /\ pc[d] = "use" /\ NotOlder(call[d].asg, disk.asg)
            /\ call[d].asg \in Assignment
        BY <1>1, <2>2, <3>2, ConstantsAssumption DEF IInv, TypeOK, BindingNeverAhead, Call
      <4> QED BY <1>0, <4>1, NotOlderTransitive DEF Disk
    <3> QED BY <3>1, <3>2
  <2> QED BY <2>1, <2>2 DEF BindingNeverAhead
<1>6. LiveAtDecision' BY <1>0, <1>1 DEF IInv, LiveAtDecision
<1>7. WorkInv'
  <2>1. ASSUME NEW d \in Callers
        PROVE  /\ pc'[d] \in {"hub", "save"} => call'[d].loaded = disk'.asg
               /\ pc'[d] = "save" => NotOlder(disk'.asg, call'[d].asg)
               /\ pc'[d] # "idle" /\ ~call'[d].strict => call'[d].at <= now'
               /\ pc'[d] = "save" /\ ~call'[d].strict => ~LeaseExpired(call'[d].asg, call'[d].at)
    <3>1. CASE d = c BY <1>0, <1>1, <3>1 DEF IInv, WorkInv
    <3>2. CASE d # c
      BY <1>0, <1>1, <3>2 DEF IInv, WorkInv, LocksFollowRenewal
    <3> QED BY <3>1, <3>2
  <2> QED BY <2>1 DEF WorkInv
<1> QED BY <1>3, <1>4, <1>5, <1>6, <1>7 DEF IInv

\* A successful renewal.
LEMMA AdoptStep ==
  ASSUME IInv, NEW c \in Callers, pc[c] \in Renewing, NEW a \in Assignment,
         AdoptRenewed(c, a), UNCHANGED <<now, placements>>,
         disk' \in Disk, NotOlder(disk.asg, disk'.asg), NotOlder(a, disk'.asg),
         disk'.asg = disk.asg \/ setup = c,
         ~call[c].strict => ~LeaseExpired(a, call[c].at)
  PROVE  IInv'
<1>1. pc[c] # "idle" /\ call[c] \in Call BY CallerFacts DEF Renewing
<1>2. ~RenewalDue(a, call[c].at) => ~LeaseExpired(a, call[c].at)
  BY <1>1, NotDueLive DEF Call
<1>3. Ended(c, a) BY <1>1, <1>2, ReturnFacts DEF AdoptRenewed, Ended
<1> QED BY <1>3, EndStep DEF AdoptRenewed

\* A failed renewal: the binding keeps its placement.
LEMMA FailStep ==
  ASSUME IInv, NEW c \in Callers, pc[c] \in Renewing,
         RenewalFailed(c), UNCHANGED <<now, placements>>,
         disk' \in Disk, NotOlder(disk.asg, disk'.asg),
         disk'.asg = disk.asg \/ setup = c
  PROVE  IInv'
<1>1. /\ pc[c] # "idle" /\ call[c] \in Call /\ BindingOf[c] \in Bindings
      /\ Current(c) \in Assignment /\ NotOlder(Current(c), disk.asg) /\ disk \in Disk
  BY CallerFacts DEF Renewing
<1>2. NotOlder(Current(c), disk'.asg) BY <1>1, NotOlderTransitive DEF Disk
<1>3. live' = [live EXCEPT ![BindingOf[c]] = Current(c)]
  BY <1>1 DEF RenewalFailed, Current, IInv, TypeOK
<1>4. Ended(c, Current(c))
  <2>1. CASE call[c].strict \/ LeaseExpired(Current(c), call[c].at)
    <3>1. ReturnError(c) BY <2>1 DEF RenewalFailed
    <3> QED BY <3>1 DEF ReturnError, Ended, IInv, TypeOK, Steps
  <2>2. CASE ~(call[c].strict \/ LeaseExpired(Current(c), call[c].at))
    <3>1. ReturnPlacement(c, Current(c)) BY <2>2 DEF RenewalFailed
    <3> QED BY <1>1, <2>2, <3>1, ReturnFacts DEF Ended
  <2> QED BY <2>1, <2>2
<1> QED BY <1>1, <1>2, <1>3, <1>4, EndStep DEF RenewalFailed

-----------------------------------------------------------------------------
(* The steps of a call.                                                    *)

\* A step that changes only the pc and the call of one caller, which holds and
\* takes no lock.
LEMMA CallerStepInv ==
  ASSUME IInv, NEW c \in Callers, pc[c] \in {"idle", "mutex", "use"},
         UNCHANGED <<now, disk, placements, setup, mu, origin, live>>,
         pc' \in [Callers -> Steps], call' \in [Callers -> Call \cup {None}],
         \A d \in Callers \ {c} : pc'[d] = pc[d] /\ call'[d] = call[d],
         \/ pc'[c] = "idle" /\ call'[c] = None
         \/ /\ pc'[c] = "mutex" /\ call'[c] \in Call /\ Current(c) # None
            /\ ~call'[c].strict => call'[c].at <= now
         \/ /\ pc'[c] = "use" /\ call'[c] \in Call /\ pc[c] = "mutex"
            /\ call'[c].asg = Current(c)
            /\ call'[c].at = call[c].at /\ call'[c].strict = call[c].strict
            /\ BindingOf[c] \notin Offline => ~LeaseExpired(Current(c), call[c].at)
  PROVE  IInv'
<1>1. TypeOK'
  <2>1. ASSUME NEW d \in Callers
        PROVE  /\ pc'[d] = "idle" <=> call'[d] = None
               /\ pc'[d] # "idle" => live[BindingOf[d]] # None
               /\ pc'[d] \in {"save", "use"} => call'[d].asg # None
               /\ pc'[d] \in {"hub", "save"} => call'[d].loaded # None
    <3>1. CASE d = c BY <3>1, ConstantsAssumption DEF IInv, TypeOK, Current
    <3>2. CASE d # c BY <3>2 DEF IInv, TypeOK, Current
    <3> QED BY <3>1, <3>2
  <2> QED BY <2>1 DEF IInv, TypeOK, Current
<1>2. LocksFollowRenewal'
  <2>1. ASSUME NEW d \in Callers
        PROVE  /\ pc'[d] \in {"lock", "hub", "save"} <=> mu[BindingOf[d]] = d
               /\ pc'[d] \in {"hub", "save"} <=> setup = d
    <3>1. CASE d = c BY <3>1 DEF IInv, LocksFollowRenewal
    <3>2. CASE d # c BY <3>2 DEF IInv, LocksFollowRenewal
    <3> QED BY <3>1, <3>2
  <2> QED BY <2>1 DEF IInv, LocksFollowRenewal
<1>3. BindingNeverAhead'
  <2>1. ASSUME NEW d \in Callers, pc'[d] = "use" PROVE NotOlder(call'[d].asg, disk.asg)
    <3>1. CASE d = c BY <2>1, <3>1, CallerFacts
    <3>2. CASE d # c BY <2>1, <3>2 DEF IInv, BindingNeverAhead
    <3> QED BY <3>1, <3>2
  <2> QED BY <2>1 DEF IInv, BindingNeverAhead
<1>4. LiveAtDecision' BY DEF IInv, LiveAtDecision
<1>5. WorkInv'
  <2>1. ASSUME NEW d \in Callers
        PROVE  /\ pc'[d] \in {"hub", "save"} => call'[d].loaded = disk.asg
               /\ pc'[d] = "save" => NotOlder(disk.asg, call'[d].asg)
               /\ pc'[d] # "idle" /\ ~call'[d].strict => call'[d].at <= now
               /\ pc'[d] = "save" /\ ~call'[d].strict => ~LeaseExpired(call'[d].asg, call'[d].at)
    <3>1. CASE d = c BY <3>1 DEF IInv, WorkInv
    <3>2. CASE d # c BY <3>2 DEF IInv, WorkInv
    <3> QED BY <3>1, <3>2
  <2> QED BY <2>1 DEF WorkInv
<1> QED BY <1>1, <1>2, <1>3, <1>4, <1>5 DEF IInv

\* Asking only samples the decision instant.
LEMMA AskInv == ASSUME IInv, NEW c \in Callers, NEW strict \in BOOLEAN, AskPlacement(c, strict)
                PROVE  IInv'
<1>1. pc[c] = "idle" /\ Current(c) # None BY DEF AskPlacement
<1>2. now \in Nat /\ now + Margin \in Nat /\ now <= now
  BY ConstantsAssumption DEF IInv, TypeOK
<1>3. [strict |-> strict, at |-> IF strict THEN now + Margin ELSE now,
       loaded |-> None, asg |-> None] \in Call
  BY <1>2 DEF Call
<1>4. /\ pc' = [pc EXCEPT ![c] = "mutex"]
      /\ call' = [call EXCEPT ![c] =
           [strict |-> strict, at |-> IF strict THEN now + Margin ELSE now,
            loaded |-> None, asg |-> None]]
      /\ UNCHANGED <<now, disk, placements, setup, mu, origin, live>>
  BY DEF AskPlacement
<1>5. /\ pc' \in [Callers -> Steps] /\ call' \in [Callers -> Call \cup {None}]
      /\ \A d \in Callers \ {c} : pc'[d] = pc[d] /\ call'[d] = call[d]
  BY <1>3, <1>4 DEF IInv, TypeOK, Steps
<1>6. /\ pc'[c] = "mutex" /\ call'[c] \in Call
      /\ ~call'[c].strict => call'[c].at <= now
  BY <1>2, <1>3, <1>4 DEF IInv, TypeOK
<1> QED BY <1>1, <1>4, <1>5, <1>6, CallerStepInv

\* Answering from memory hands out a durable placement that is live enough.
LEMMA AnswerInv == ASSUME IInv, NEW c \in Callers, AnswerOffline(c) \/ AnswerCurrent(c)
                   PROVE  IInv'
<1>1. /\ pc[c] = "mutex" /\ ReturnPlacement(c, Current(c))
      /\ UNCHANGED <<now, disk, placements, setup, mu, origin, live>>
      /\ BindingOf[c] \notin Offline => ~RenewalDue(Current(c), call[c].at)
  BY DEF AnswerOffline, AnswerCurrent
<1>2. call[c] \in Call /\ Current(c) \in Assignment /\ Current(c) # None
  BY <1>1, CallerFacts, ConstantsAssumption
<1>3. BindingOf[c] \notin Offline => ~LeaseExpired(Current(c), call[c].at)
  BY <1>1, <1>2, NotDueLive DEF Call
<1> QED BY <1>1, <1>2, <1>3, ReturnFacts, CallerStepInv

\* A caller that is done leaves nothing behind.
LEMMA EndUseInv == ASSUME IInv, NEW c \in Callers, EndUse(c)
                   PROVE  IInv'
<1>1. /\ pc[c] = "use" /\ pc' = [pc EXCEPT ![c] = "idle"] /\ call' = [call EXCEPT ![c] = None]
      /\ UNCHANGED <<now, disk, placements, setup, mu, origin, live>>
  BY DEF EndUse, ReturnError
<1>2. /\ pc' \in [Callers -> Steps] /\ call' \in [Callers -> Call \cup {None}]
      /\ \A d \in Callers \ {c} : pc'[d] = pc[d] /\ call'[d] = call[d]
      /\ pc'[c] = "idle" /\ call'[c] = None
  BY <1>1 DEF IInv, TypeOK, Steps
<1> QED BY <1>1, <1>2, CallerStepInv

\* A renewal starts with the binding's mutex and nothing else.
LEMMA BeginInv == ASSUME IInv, NEW c \in Callers, BeginRenewal(c)
                  PROVE  IInv'
<1> DEFINE b == BindingOf[c]
<1>0. pc[c] = "mutex" /\ call[c] \in Call /\ b \in Bindings /\ mu[b] = None
  BY CallerFacts DEF BeginRenewal
<1>1. /\ mu' = [mu EXCEPT ![b] = c] /\ pc' = [pc EXCEPT ![c] = "lock"]
      /\ UNCHANGED <<now, disk, placements, setup, origin, live, call>>
  BY DEF BeginRenewal
<1>2. TypeOK' BY <1>0, <1>1 DEF IInv, TypeOK, Steps, Current
<1>3. LocksFollowRenewal'
  <2>1. ASSUME NEW d \in Callers
        PROVE  /\ pc'[d] \in {"lock", "hub", "save"} <=> mu'[BindingOf[d]] = d
               /\ pc'[d] \in {"hub", "save"} <=> setup = d
    <3>1. CASE d = c BY <1>0, <1>1, <3>1 DEF IInv, TypeOK, LocksFollowRenewal
    <3>2. CASE d # c
      BY <1>0, <1>1, <3>2, ConstantsAssumption DEF IInv, TypeOK, LocksFollowRenewal
    <3> QED BY <3>1, <3>2
  <2>2. \A e \in Bindings : mu'[e] # None => BindingOf[mu'[e]] = e
    BY <1>0, <1>1 DEF IInv, TypeOK, LocksFollowRenewal
  <2> QED BY <1>1, <2>1, <2>2 DEF LocksFollowRenewal
<1>4. BindingNeverAhead' BY <1>0, <1>1 DEF IInv, TypeOK, BindingNeverAhead
<1>5. LiveAtDecision' BY <1>0, <1>1 DEF IInv, TypeOK, LiveAtDecision
<1>6. WorkInv' BY <1>0, <1>1 DEF IInv, TypeOK, WorkInv
<1> QED BY <1>2, <1>3, <1>4, <1>5, <1>6 DEF IInv

\* Under the setup lock the loaded placement is the durable one.
LEMMA LoadInv == ASSUME IInv, NEW c \in Callers, LoadUnderLock(c)
                 PROVE  IInv'
<1> DEFINE b == BindingOf[c]
<1>0. /\ pc[c] = "lock" /\ setup = None /\ UNCHANGED <<now, disk, placements>>
      /\ call[c] \in Call /\ b \in Bindings /\ disk \in Disk /\ disk.asg \in Assignment
  BY CallerFacts DEF LoadUnderLock, Disk
<1>1. CASE RenewalDue(disk.asg, call[c].at)
  <2>1. /\ setup' = c /\ pc' = [pc EXCEPT ![c] = "hub"]
        /\ call' = [call EXCEPT ![c].loaded = disk.asg]
        /\ UNCHANGED <<mu, origin, live>>
    BY <1>1 DEF LoadUnderLock
  <2>2. /\ call'[c] \in Call /\ call'[c].loaded = disk.asg
        /\ call'[c].strict = call[c].strict /\ call'[c].at = call[c].at
    BY <1>0, <2>1 DEF IInv, TypeOK, Call
  <2>3. \A d \in Callers \ {c} : pc'[d] = pc[d] /\ call'[d] = call[d]
    BY <2>1 DEF IInv, TypeOK
  <2>4. pc'[c] = "hub" /\ disk.asg # None
    BY <1>0, <2>1, ConstantsAssumption DEF IInv, TypeOK
  <2>5. TypeOK'
    <3>1. /\ pc' \in [Callers -> Steps] /\ call' \in [Callers -> Call \cup {None}]
          /\ setup' \in Callers \cup {None}
      BY <2>1, <2>2 DEF IInv, TypeOK, Steps
    <3>2. ASSUME NEW d \in Callers
          PROVE  /\ pc'[d] = "idle" <=> call'[d] = None
                 /\ pc'[d] # "idle" => live[BindingOf[d]] # None
                 /\ pc'[d] \in {"save", "use"} => call'[d].asg # None
                 /\ pc'[d] \in {"hub", "save"} => call'[d].loaded # None
      <4>1. CASE d = c BY <1>0, <2>2, <2>4, <4>1, ConstantsAssumption DEF IInv, TypeOK, Current
      <4>2. CASE d # c BY <2>3, <4>2 DEF IInv, TypeOK, Current
      <4> QED BY <4>1, <4>2
    <3> QED BY <1>0, <2>1, <3>1, <3>2 DEF IInv, TypeOK, Current
  <2>6. LocksFollowRenewal'
    <3>1. ASSUME NEW d \in Callers
          PROVE  /\ pc'[d] \in {"lock", "hub", "save"} <=> mu[BindingOf[d]] = d
                 /\ pc'[d] \in {"hub", "save"} <=> setup' = d
      <4>1. CASE d = c BY <1>0, <2>1, <2>4, <4>1 DEF IInv, LocksFollowRenewal
      <4>2. CASE d # c BY <1>0, <2>1, <2>3, <4>2, ConstantsAssumption DEF IInv, LocksFollowRenewal
      <4> QED BY <4>1, <4>2
    <3> QED BY <2>1, <3>1 DEF IInv, LocksFollowRenewal
  <2>7. BindingNeverAhead' BY <1>0, <2>1, <2>3, <2>4 DEF IInv, BindingNeverAhead
  <2>8. LiveAtDecision' BY <2>3, <2>4 DEF IInv, LiveAtDecision
  <2>9. WorkInv'
    <3>1. ASSUME NEW d \in Callers
          PROVE  /\ pc'[d] \in {"hub", "save"} => call'[d].loaded = disk.asg
                 /\ pc'[d] = "save" => NotOlder(disk.asg, call'[d].asg)
                 /\ pc'[d] # "idle" /\ ~call'[d].strict => call'[d].at <= now
                 /\ pc'[d] = "save" /\ ~call'[d].strict => ~LeaseExpired(call'[d].asg, call'[d].at)
      <4>1. CASE d = c BY <1>0, <2>2, <2>4, <4>1 DEF IInv, WorkInv
      <4>2. CASE d # c BY <2>3, <4>2 DEF IInv, WorkInv
      <4> QED BY <4>1, <4>2
    <3> QED BY <1>0, <3>1 DEF WorkInv
  <2> QED BY <2>5, <2>6, <2>7, <2>8, <2>9 DEF IInv
<1>2. CASE ~RenewalDue(disk.asg, call[c].at)
  <2>1. AdoptRenewed(c, disk.asg) BY <1>2 DEF LoadUnderLock
  <2>2. ~LeaseExpired(disk.asg, call[c].at) BY <1>0, <1>2, NotDueLive DEF Call
  <2>3. NotOlder(disk.asg, disk'.asg) BY <1>0, NotOlderReflexive
  <2> QED BY <1>0, <2>1, <2>2, <2>3, AdoptStep DEF Renewing
<1> QED BY <1>1, <1>2

\* The Hub's answer, checked against the placement loaded under the lock, is not
\* older than the durable one, and is live for a best-effort caller.
LEMMA HubInv == ASSUME IInv, NEW c \in Callers, NEW fresh \in Assignment,
                       fresh.lease > now, HubRefreshes(c, fresh)
                PROVE  IInv'
<1>0. /\ pc[c] = "hub" /\ UNCHANGED <<now, disk, placements>>
      /\ call[c] \in Call /\ disk \in Disk /\ disk.asg \in Assignment /\ now \in Nat
      /\ call[c].loaded = disk.asg
  BY CallerFacts DEF HubRefreshes, Disk, IInv, WorkInv
<1>1. NotOlder(disk.asg, fresh)
  BY <1>0, ContinuityNotOlder DEF HubRefreshes
<1>2. ~call[c].strict => ~LeaseExpired(fresh, call[c].at)
  BY <1>0 DEF IInv, WorkInv, LeaseExpired, Call, Assignment, AssignmentSet
<1>3. CASE fresh = call[c].loaded
  <2>1. AdoptRenewed(c, fresh) BY <1>3 DEF HubRefreshes
  <2>2. NotOlder(disk.asg, disk'.asg) /\ NotOlder(fresh, disk'.asg)
    BY <1>0, <1>3, NotOlderReflexive
  <2> QED BY <1>0, <1>2, <2>1, <2>2, AdoptStep DEF Renewing
<1>4. CASE fresh # call[c].loaded
  <2>1. /\ pc' = [pc EXCEPT ![c] = "save"] /\ call' = [call EXCEPT ![c].asg = fresh]
        /\ UNCHANGED <<setup, mu, origin, live>>
    BY <1>4 DEF HubRefreshes
  <2>2. /\ call'[c] \in Call /\ call'[c].asg = fresh /\ call'[c].loaded = call[c].loaded
        /\ call'[c].strict = call[c].strict /\ call'[c].at = call[c].at
    BY <1>0, <2>1 DEF IInv, TypeOK, Call
  <2>3. \A d \in Callers \ {c} : pc'[d] = pc[d] /\ call'[d] = call[d]
    BY <2>1 DEF IInv, TypeOK
  <2>4. pc'[c] = "save" /\ fresh # None /\ disk.asg # None
    BY <1>0, <2>1, ConstantsAssumption DEF IInv, TypeOK
  <2>5. TypeOK'
    <3>1. pc' \in [Callers -> Steps] /\ call' \in [Callers -> Call \cup {None}]
      BY <2>1, <2>2 DEF IInv, TypeOK, Steps
    <3>2. ASSUME NEW d \in Callers
          PROVE  /\ pc'[d] = "idle" <=> call'[d] = None
                 /\ pc'[d] # "idle" => live[BindingOf[d]] # None
                 /\ pc'[d] \in {"save", "use"} => call'[d].asg # None
                 /\ pc'[d] \in {"hub", "save"} => call'[d].loaded # None
      <4>1. CASE d = c BY <1>0, <2>2, <2>4, <4>1, ConstantsAssumption DEF IInv, TypeOK, Current
      <4>2. CASE d # c BY <2>3, <4>2 DEF IInv, TypeOK, Current
      <4> QED BY <4>1, <4>2
    <3> QED BY <1>0, <2>1, <3>1, <3>2 DEF IInv, TypeOK, Current
  <2>6. LocksFollowRenewal'
    <3>1. ASSUME NEW d \in Callers
          PROVE  /\ pc'[d] \in {"lock", "hub", "save"} <=> mu[BindingOf[d]] = d
                 /\ pc'[d] \in {"hub", "save"} <=> setup = d
      <4>1. CASE d = c BY <1>0, <2>4, <4>1 DEF IInv, LocksFollowRenewal
      <4>2. CASE d # c BY <2>3, <4>2 DEF IInv, LocksFollowRenewal
      <4> QED BY <4>1, <4>2
    <3> QED BY <2>1, <3>1 DEF IInv, LocksFollowRenewal
  <2>7. BindingNeverAhead' BY <1>0, <2>1, <2>3, <2>4 DEF IInv, BindingNeverAhead
  <2>8. LiveAtDecision' BY <2>3, <2>4 DEF IInv, LiveAtDecision
  <2>9. WorkInv'
    <3>1. ASSUME NEW d \in Callers
          PROVE  /\ pc'[d] \in {"hub", "save"} => call'[d].loaded = disk.asg
                 /\ pc'[d] = "save" => NotOlder(disk.asg, call'[d].asg)
                 /\ pc'[d] # "idle" /\ ~call'[d].strict => call'[d].at <= now
                 /\ pc'[d] = "save" /\ ~call'[d].strict => ~LeaseExpired(call'[d].asg, call'[d].at)
      <4>1. CASE d = c BY <1>0, <1>1, <1>2, <2>2, <2>4, <4>1 DEF IInv, WorkInv
      <4>2. CASE d # c BY <2>3, <4>2 DEF IInv, WorkInv
      <4> QED BY <4>1, <4>2
    <3> QED BY <1>0, <3>1 DEF WorkInv
  <2> QED BY <2>5, <2>6, <2>7, <2>8, <2>9 DEF IInv
<1> QED BY <1>3, <1>4

\* The save, acknowledged or not, keeps the binding at or behind the store.
LEMMA SaveInv == ASSUME IInv, NEW c \in Callers, SaveRenewed(c)
                 PROVE  IInv'
<1>1. /\ pc[c] = "save" /\ disk' = [disk EXCEPT !.asg = call[c].asg]
      /\ UNCHANGED <<now, placements>>
      /\ call[c] \in Call /\ disk \in Disk /\ setup = c
      /\ NotOlder(disk.asg, call[c].asg)
      /\ ~call[c].strict => ~LeaseExpired(call[c].asg, call[c].at)
  BY CallerFacts DEF SaveRenewed, IInv, WorkInv, LocksFollowRenewal
<1>2. call[c].asg \in Assignment BY <1>1 DEF IInv, TypeOK, Call
<1>3. disk' \in Disk /\ disk'.asg = call[c].asg BY <1>1, <1>2 DEF Disk
<1>4. NotOlder(call[c].asg, disk'.asg) BY <1>2, <1>3, NotOlderReflexive
<1>5. CASE AdoptRenewed(c, call[c].asg)
  BY <1>1, <1>2, <1>3, <1>4, <1>5, AdoptStep DEF Renewing
<1>6. CASE RenewalFailed(c) BY <1>1, <1>3, <1>6, FailStep DEF Renewing
<1> QED BY <1>5, <1>6 DEF SaveRenewed

\* A failure writes nothing and releases what the renewal held.
LEMMA FailsInv == ASSUME IInv, NEW c \in Callers, RenewalFails(c)
                  PROVE  IInv'
<1>1. /\ pc[c] \in Renewing /\ RenewalFailed(c) /\ UNCHANGED <<now, disk, placements>>
  BY DEF RenewalFails, Renewing
<1>2. disk \in Disk /\ NotOlder(disk.asg, disk.asg)
  BY NotOlderReflexive DEF IInv, TypeOK, Disk
<1> QED BY <1>1, <1>2, FailStep

-----------------------------------------------------------------------------
(* The environment.                                                        *)

\* Another lifecycle call writes only while no renewal holds the setup lock, and
\* what it writes is not older.
LEMMA OtherLifecycleInv ==
  ASSUME IInv, OtherLifecycle
  PROVE  IInv' /\ NotOlder(disk.asg, disk'.asg)
<1>0. /\ setup = None /\ UNCHANGED <<now, placements, setup, mu, origin, live, pc, call>>
      /\ disk \in Disk /\ disk.asg \in Assignment
  BY DEF OtherLifecycle, processVars, IInv, TypeOK, Disk
<1>1. disk' \in Disk /\ NotOlder(disk.asg, disk'.asg)
  <2>1. PICK completed \in BOOLEAN :
          \/ disk' = [disk EXCEPT !.completed = completed]
          \/ \E p \in placements, d \in 1..LeaseLife :
               /\ EnsureRefreshAssignmentContinuity(disk.asg, Leased(p, now + d), TRUE)
               /\ disk' = [completed |-> completed, asg |-> Leased(p, now + d)]
    BY DEF OtherLifecycle
  <2>2. CASE disk' = [disk EXCEPT !.completed = completed]
    <3>1. disk' \in Disk /\ disk'.asg = disk.asg BY <1>0, <2>2 DEF Disk
    <3> QED BY <1>0, <3>1, NotOlderReflexive
  <2>3. ASSUME NEW p \in placements, NEW d \in 1..LeaseLife,
               EnsureRefreshAssignmentContinuity(disk.asg, Leased(p, now + d), TRUE),
               disk' = [completed |-> completed, asg |-> Leased(p, now + d)]
        PROVE  disk' \in Disk /\ NotOlder(disk.asg, disk'.asg)
    <3>1. Leased(p, now + d) \in Assignment BY LeasedType DEF IInv
    <3>2. NotOlder(disk.asg, Leased(p, now + d)) BY <1>0, <2>3, <3>1, ContinuityNotOlder
    <3> QED BY <2>3, <3>1, <3>2 DEF Disk
  <2> QED BY <2>1, <2>2, <2>3
<1>2. TypeOK' BY <1>0, <1>1 DEF IInv, TypeOK, Disk, Current
<1>3. LocksFollowRenewal' BY <1>0 DEF IInv, LocksFollowRenewal
<1>4. BindingNeverAhead'
  <2>1. ASSUME NEW b \in Bindings, live[b] # None PROVE NotOlder(live[b], disk'.asg)
    <3>1. live[b] \in Assignment /\ NotOlder(live[b], disk.asg)
      BY <2>1 DEF IInv, TypeOK, BindingNeverAhead
    <3> QED BY <1>0, <1>1, <3>1, NotOlderTransitive DEF Disk
  <2>2. ASSUME NEW c \in Callers, pc[c] = "use" PROVE NotOlder(call[c].asg, disk'.asg)
    <3>1. call[c].asg \in Assignment /\ NotOlder(call[c].asg, disk.asg)
      BY <2>2 DEF IInv, TypeOK, Call, BindingNeverAhead
    <3> QED BY <1>0, <1>1, <3>1, NotOlderTransitive DEF Disk
  <2> QED BY <1>0, <2>1, <2>2 DEF BindingNeverAhead
<1>5. LiveAtDecision' BY <1>0 DEF IInv, LiveAtDecision
<1>6. \A c \in Callers : pc[c] \notin {"hub", "save"}
  BY <1>0, ConstantsAssumption DEF IInv, LocksFollowRenewal
<1>7. WorkInv' BY <1>0, <1>6 DEF IInv, WorkInv
<1> QED BY <1>1, <1>2, <1>3, <1>4, <1>5, <1>7 DEF IInv

\* A process that opens the store starts from the durable placement.
LEMMA OpenInv ==
  ASSUME IInv, NEW b \in Bindings, OpenBinding(b)
  PROVE  IInv'
<1>0. /\ live[b] = None /\ UNCHANGED <<now, disk, placements, setup, mu, pc, call>>
      /\ origin' = [origin EXCEPT ![b] = Exported(disk.asg)]
      /\ live' = [live EXCEPT ![b] = disk.asg]
      /\ disk.asg \in Assignment
  BY DEF OpenBinding, NewBinding, IInv, TypeOK
<1>1. Exported(disk.asg) \in ExportedFields
  BY <1>0 DEF Exported, ExportedFields, Assignment, AssignmentSet
<1>2. TypeOK'
  <2>1. /\ origin' \in [Bindings -> ExportedFields \cup {None}]
        /\ live' \in [Bindings -> Assignment \cup {None}]
    BY <1>0, <1>1 DEF IInv, TypeOK
  <2>2. \A c \in Callers : pc[c] # "idle" => live'[BindingOf[c]] # None
    BY <1>0, ConstantsAssumption DEF IInv, TypeOK, Current
  <2> QED BY <1>0, <2>1, <2>2 DEF IInv, TypeOK, Current
<1>3. LocksFollowRenewal' BY <1>0 DEF IInv, LocksFollowRenewal
<1>4. BindingNeverAhead'
  BY <1>0, NotOlderReflexive DEF IInv, TypeOK, BindingNeverAhead
<1>5. LiveAtDecision' BY <1>0 DEF IInv, LiveAtDecision
<1>6. WorkInv' BY <1>0 DEF IInv, WorkInv
<1> QED BY <1>2, <1>3, <1>4, <1>5, <1>6 DEF IInv

\* A crash takes the mutex and the setup lock of its goroutines with it, and no
\* other process's.
LEMMA CrashInv ==
  ASSUME IInv, NEW b \in Bindings, CrashProcess(b)
  PROVE  IInv'
<1>0. /\ UNCHANGED <<now, disk, placements>>
      /\ origin' = [origin EXCEPT ![b] = None]
      /\ live' = [live EXCEPT ![b] = None]
      /\ mu' = [mu EXCEPT ![b] = None]
      /\ setup' = IF setup \in Users(b) THEN None ELSE setup
      /\ pc' = [c \in Callers |-> IF c \in Users(b) THEN "idle" ELSE pc[c]]
      /\ call' = [c \in Callers |-> IF c \in Users(b) THEN None ELSE call[c]]
  BY DEF CrashProcess
<1>1. ASSUME NEW c \in Callers
      PROVE  IF BindingOf[c] = b THEN pc'[c] = "idle" /\ call'[c] = None
                                 ELSE pc'[c] = pc[c] /\ call'[c] = call[c]
  BY <1>0 DEF Users
<1>2. TypeOK'
  <2>1. /\ origin' \in [Bindings -> ExportedFields \cup {None}]
        /\ live' \in [Bindings -> Assignment \cup {None}]
        /\ mu' \in [Bindings -> Callers \cup {None}] /\ setup' \in Callers \cup {None}
    BY <1>0 DEF IInv, TypeOK
  <2>2. pc' \in [Callers -> Steps] BY <1>0 DEF IInv, TypeOK, Steps
  <2>3. call' \in [Callers -> Call \cup {None}] BY <1>0 DEF IInv, TypeOK
  <2>4. ASSUME NEW c \in Callers
        PROVE  /\ pc'[c] = "idle" <=> call'[c] = None
               /\ pc'[c] # "idle" => live'[BindingOf[c]] # None
               /\ pc'[c] \in {"save", "use"} => call'[c].asg # None
               /\ pc'[c] \in {"hub", "save"} => call'[c].loaded # None
    BY <1>0, <1>1, ConstantsAssumption DEF IInv, TypeOK, Current
  <2> QED BY <1>0, <2>1, <2>2, <2>3, <2>4 DEF IInv, TypeOK, Current
<1>3. LocksFollowRenewal'
  <2>1. ASSUME NEW c \in Callers
        PROVE  /\ pc'[c] \in {"lock", "hub", "save"} <=> mu'[BindingOf[c]] = c
               /\ pc'[c] \in {"hub", "save"} <=> setup' = c
    <3>1. CASE BindingOf[c] = b
      <4>1. pc'[c] = "idle" /\ mu'[b] = None /\ setup' # c
        BY <1>0, <1>1, <3>1, ConstantsAssumption DEF IInv, TypeOK, Users
      <4> QED BY <3>1, <4>1, ConstantsAssumption
    <3>2. CASE BindingOf[c] # b
      <4>1. /\ pc'[c] = pc[c] /\ mu'[BindingOf[c]] = mu[BindingOf[c]]
            /\ setup' = c <=> setup = c
        BY <1>0, <1>1, <3>2, ConstantsAssumption DEF IInv, TypeOK, Users
      <4> QED BY <4>1 DEF IInv, LocksFollowRenewal
    <3> QED BY <3>1, <3>2
  <2>2. \A e \in Bindings : mu'[e] # None => BindingOf[mu'[e]] = e
    BY <1>0 DEF IInv, TypeOK, LocksFollowRenewal
  <2> QED BY <2>1, <2>2 DEF LocksFollowRenewal
<1>4. BindingNeverAhead' BY <1>0, <1>1 DEF IInv, TypeOK, BindingNeverAhead
<1>5. LiveAtDecision' BY <1>1 DEF IInv, LiveAtDecision
<1>6. WorkInv' BY <1>0, <1>1 DEF IInv, WorkInv
<1> QED BY <1>2, <1>3, <1>4, <1>5, <1>6 DEF IInv

\* New placements and the passage of time disturb nothing.
LEMMA ClockInv ==
  ASSUME IInv, HubPublishes \/ Tick
  PROVE  IInv'
<1>0. /\ UNCHANGED <<disk, setup, mu, origin, live, pc, call>>
      /\ now \in Nat /\ now' \in Nat /\ now <= now' /\ placements' \subseteq Placement
  BY DEF HubPublishes, Tick, processVars, IInv, TypeOK
<1>1. TypeOK' BY <1>0 DEF IInv, TypeOK, Current
<1>2. LocksFollowRenewal' BY <1>0 DEF IInv, LocksFollowRenewal
<1>3. BindingNeverAhead' BY <1>0 DEF IInv, BindingNeverAhead
<1>4. LiveAtDecision' BY <1>0 DEF IInv, LiveAtDecision
<1>5. WorkInv'
  <2>1. ASSUME NEW c \in Callers, pc[c] # "idle", ~call[c].strict PROVE call[c].at <= now'
    <3>1. call[c] \in Call BY <2>1, CallerFacts
    <3>2. call[c].at \in Nat /\ call[c].at <= now BY <2>1, <3>1 DEF Call, IInv, WorkInv
    <3> QED BY <1>0, <3>2
  <2> QED BY <1>0, <2>1 DEF IInv, WorkInv
<1> QED BY <1>1, <1>2, <1>3, <1>4, <1>5 DEF IInv

-----------------------------------------------------------------------------
(* The theorems.                                                           *)

\* A process that has not started satisfies the inductive invariant.
LEMMA InitInv == Init => IInv
<1> SUFFICES ASSUME Init PROVE IInv OBVIOUS
<1>1. PICK p \in Placement : placements = {p} /\ disk = [completed |-> TRUE, asg |-> Leased(p, 1 + LeaseLife)]
  BY DEF Init
<1>2. disk \in [completed : BOOLEAN, asg : Assignment]
  BY <1>1, ConstantsAssumption DEF Leased, Placement, Assignment, AssignmentSet
<1>3. /\ now = 1 /\ setup = None /\ mu = [b \in Bindings |-> None]
      /\ origin = [b \in Bindings |-> None] /\ live = [b \in Bindings |-> None]
      /\ pc = [c \in Callers |-> "idle"] /\ call = [c \in Callers |-> None]
  BY DEF Init
<1>4. TypeOK BY <1>1, <1>2, <1>3 DEF TypeOK, Steps, Current
<1>5. LocksFollowRenewal BY <1>3, ConstantsAssumption DEF LocksFollowRenewal
<1>6. BindingNeverAhead /\ LiveAtDecision /\ WorkInv
  BY <1>3 DEF BindingNeverAhead, LiveAtDecision, WorkInv
<1> QED BY <1>4, <1>5, <1>6 DEF IInv

\* Every step preserves the inductive invariant.
LEMMA StepInv == IInv /\ [Next]_vars => IInv'
<1> SUFFICES ASSUME IInv, [Next]_vars PROVE IInv' OBVIOUS
<1>1. ASSUME NEW c \in Callers, RenewalStep(c) PROVE IInv'
  <2>1. ASSUME HubAnswers(c) PROVE IInv'
    <3>1. PICK p \in placements, d \in 1..LeaseLife : HubRefreshes(c, Leased(p, now + d))
      BY <2>1 DEF HubAnswers
    <3>2. Leased(p, now + d) \in Assignment /\ Leased(p, now + d).lease > now
      BY LeasedType DEF IInv
    <3> QED BY <3>1, <3>2, HubInv
  <2> QED BY <1>1, <2>1, AnswerInv, BeginInv, LoadInv, SaveInv, FailsInv DEF RenewalStep
<1>2. ASSUME NEW c \in Callers, EndUse(c) PROVE IInv' BY <1>2, EndUseInv
<1>3. ASSUME NEW c \in Callers, NEW strict \in BOOLEAN, AskPlacement(c, strict) PROVE IInv'
  BY <1>3, AskInv
<1>4. ASSUME Environment PROVE IInv'
  BY <1>4, OtherLifecycleInv, OpenInv, CrashInv, ClockInv DEF Environment
<1>5. CASE UNCHANGED vars
  BY <1>5 DEF vars, processVars, IInv, TypeOK, Current, LocksFollowRenewal, BindingNeverAhead,
              LiveAtDecision, WorkInv
<1> QED BY <1>1, <1>2, <1>3, <1>4, <1>5 DEF Next

\* For every number of processes, goroutines and placements, whatever crashes and
\* however renewals end: types, locks exactly with the renewal that took them, no
\* binding ahead of the store, and no expired placement handed out.
THEOREM RenewalSafety ==
  Spec => [](TypeOK /\ LocksFollowRenewal /\ BindingNeverAhead /\ LiveAtDecision)
<1>1. Spec => []IInv BY InitInv, StepInv, PTL DEF Spec
<1>2. IInv => TypeOK /\ LocksFollowRenewal /\ BindingNeverAhead /\ LiveAtDecision BY DEF IInv
<1> QED BY <1>1, <1>2, PTL

\* What a lease call hands back is alive at the time the call decided by.
THEOREM LiveAtDecisionHolds == Spec => []LiveAtDecision
BY RenewalSafety, PTL

-----------------------------------------------------------------------------
(* Placements only move forward.                                           *)

\* What PlacementNeverRegresses says of one step.
Advance ==
  /\ NotOlder(disk.asg, disk'.asg)
  /\ \A b \in Bindings :
       live[b] # None /\ live'[b] # None => NotOlder(live[b], live'[b])

\* Steps that replace no held placement, except by none or where there was none.
LEMMA KeepAdvances ==
  ASSUME IInv, NotOlder(disk.asg, disk'.asg),
         \A b \in Bindings : live'[b] = live[b] \/ live[b] = None \/ live'[b] = None
  PROVE  Advance
<1>1. ASSUME NEW b \in Bindings, live[b] # None, live'[b] # None
      PROVE  NotOlder(live[b], live'[b])
  <2>1. live'[b] = live[b] /\ live[b] \in Assignment BY <1>1 DEF IInv, TypeOK
  <2> QED BY <2>1, NotOlderReflexive
<1> QED BY <1>1 DEF Advance

\* A binding is never ahead of the store, so adopting something not older than
\* the durable placement moves it forward.
LEMMA AdoptAdvances ==
  ASSUME IInv, NEW c \in Callers, NEW a \in Assignment, AdoptRenewed(c, a),
         NotOlder(disk.asg, a), NotOlder(disk.asg, disk'.asg)
  PROVE  Advance
<1>1. ASSUME NEW b \in Bindings, live[b] # None, live'[b] # None
      PROVE  NotOlder(live[b], live'[b])
  <2>1. live[b] \in Assignment /\ NotOlder(live[b], disk.asg) /\ disk.asg \in Assignment
    BY <1>1 DEF IInv, TypeOK, BindingNeverAhead
  <2>2. live'[b] = a \/ live'[b] = live[b] BY DEF AdoptRenewed, IInv, TypeOK
  <2> QED BY <2>1, <2>2, NotOlderTransitive, NotOlderReflexive
<1> QED BY <1>1 DEF Advance

\* Every step of a renewal moves forward.
LEMMA RenewalAdvances ==
  ASSUME IInv, NEW c \in Callers, RenewalStep(c)
  PROVE  Advance
<1>0. disk \in Disk /\ disk.asg \in Assignment /\ NotOlder(disk.asg, disk.asg)
  BY NotOlderReflexive DEF IInv, TypeOK, Disk
<1>1. CASE AnswerOffline(c) \/ AnswerCurrent(c) \/ BeginRenewal(c) \/ RenewalFails(c)
  <2>1. live' = live /\ disk' = disk
    BY <1>1 DEF AnswerOffline, AnswerCurrent, BeginRenewal, RenewalFails, RenewalFailed
  <2> QED BY <1>0, <2>1, KeepAdvances
<1>2. CASE LoadUnderLock(c)
  <2>1. disk' = disk /\ (live' = live \/ AdoptRenewed(c, disk.asg)) BY <1>2 DEF LoadUnderLock
  <2> QED BY <1>0, <2>1, KeepAdvances, AdoptAdvances
<1>3. CASE HubAnswers(c)
  <2>1. PICK p \in placements, d \in 1..LeaseLife : HubRefreshes(c, Leased(p, now + d))
    BY <1>3 DEF HubAnswers
  <2> DEFINE fresh == Leased(p, now + d)
  <2>2. fresh \in Assignment BY LeasedType DEF IInv
  <2>3. pc[c] = "hub" /\ call[c].loaded = disk.asg BY <2>1 DEF HubRefreshes, IInv, WorkInv
  <2>4. NotOlder(disk.asg, fresh) BY <1>0, <2>1, <2>2, <2>3, ContinuityNotOlder DEF HubRefreshes
  <2>5. disk' = disk /\ (live' = live \/ AdoptRenewed(c, fresh)) BY <2>1 DEF HubRefreshes
  <2> HIDE DEF fresh
  <2> QED BY <1>0, <2>2, <2>4, <2>5, KeepAdvances, AdoptAdvances
<1>4. CASE SaveRenewed(c)
  <2>1. pc[c] = "save" /\ call[c] \in Call BY <1>4, CallerFacts DEF SaveRenewed
  <2>2. call[c].asg \in Assignment /\ NotOlder(disk.asg, call[c].asg)
    BY <2>1 DEF IInv, TypeOK, WorkInv, Call
  <2>3. disk'.asg = call[c].asg BY <1>0, <1>4 DEF SaveRenewed, Disk
  <2>4. live' = live \/ AdoptRenewed(c, call[c].asg) BY <1>4 DEF SaveRenewed, RenewalFailed
  <2> QED BY <2>2, <2>3, <2>4, KeepAdvances, AdoptAdvances
<1> QED BY <1>1, <1>2, <1>3, <1>4 DEF RenewalStep

\* So does every other step.
LEMMA StepAdvances == IInv /\ [Next]_vars => Advance
<1> SUFFICES ASSUME IInv, [Next]_vars PROVE Advance OBVIOUS
<1>0. disk.asg \in Assignment /\ NotOlder(disk.asg, disk.asg) /\ live \in [Bindings -> Assignment \cup {None}]
  BY NotOlderReflexive DEF IInv, TypeOK
<1>1. ASSUME NEW c \in Callers, RenewalStep(c) PROVE Advance BY <1>1, RenewalAdvances
<1>2. ASSUME NEW c \in Callers, EndUse(c) \/ \E strict \in BOOLEAN : AskPlacement(c, strict)
      PROVE  Advance
  <2>1. live' = live /\ disk' = disk BY <1>2 DEF EndUse, AskPlacement
  <2> QED BY <1>0, <2>1, KeepAdvances
<1>3. CASE OtherLifecycle
  <2>1. live' = live BY <1>3 DEF OtherLifecycle, processVars
  <2> QED BY <1>3, <2>1, OtherLifecycleInv, KeepAdvances
<1>4. CASE HubPublishes \/ Tick \/ UNCHANGED vars
  <2>1. live' = live /\ disk' = disk BY <1>4 DEF HubPublishes, Tick, vars, processVars
  <2> QED BY <1>0, <2>1, KeepAdvances
<1>5. ASSUME NEW b \in Bindings, OpenBinding(b) \/ CrashProcess(b) PROVE Advance
  <2>1. disk' = disk BY <1>5 DEF OpenBinding, CrashProcess
  <2>2. \A e \in Bindings : live'[e] = live[e] \/ live[e] = None \/ live'[e] = None
    BY <1>0, <1>5 DEF OpenBinding, NewBinding, CrashProcess
  <2> QED BY <1>0, <2>1, <2>2, KeepAdvances
<1> QED BY <1>1, <1>2, <1>3, <1>4, <1>5 DEF Next, Environment

\* Neither the store nor a held binding ever returns to an older placement, for
\* any number of processes renewing one store against a Hub that answers late.
THEOREM PlacementsAdvance == Spec => PlacementNeverRegresses
<1>1. Spec => []IInv BY InitInv, StepInv, PTL DEF Spec
<1>2. IInv /\ [Next]_vars => [Advance]_vars BY StepAdvances
<1>3. Spec => [][Advance]_vars BY <1>1, <1>2, PTL DEF Spec
<1> QED BY <1>3 DEF PlacementNeverRegresses, Advance

-----------------------------------------------------------------------------
(***************************************************************************)
(* Sessions refine lease renewal.                                          *)
(***************************************************************************)

\* A step of the sessions is a step of the renewal, or none.
LEMMA SessionStepRenews == [SessionNext]_allVars => [Next]_vars
<1> SUFFICES ASSUME [SessionNext]_allVars PROVE [Next]_vars OBVIOUS
<1>1. CASE UNCHANGED allVars BY <1>1 DEF allVars
<1>2. ASSUME NEW c \in Callers, CallerStep(c) PROVE [Next]_vars
  <2>1. CASE RenewalStep(c) BY <2>1 DEF Next
  <2>2. CASE BeginPrepare(c) BY <2>2 DEF BeginPrepare, Next
  <2>3. CASE BeginKnock(c) BY <2>3 DEF BeginKnock, Next
  <2>4. CASE PrepareOperation(c) \/ SendKnock(c)
    BY <2>4 DEF PrepareOperation, SendKnock, Next
  <2>5. CASE PrepareFails(c) \/ KnockFails(c) BY <2>5 DEF PrepareFails, KnockFails, Next
  <2>6. CASE CommitOperation(c) \/ ReceiveAdmission(c) \/ KnockUnanswered(c)
    BY <2>6 DEF CommitOperation, ReceiveAdmission, KnockUnanswered
  <2> QED BY <1>2, <2>1, <2>2, <2>3, <2>4, <2>5, <2>6 DEF CallerStep
<1>3. ASSUME NEW r \in receipts, Retire(r) PROVE [Next]_vars BY <1>3 DEF Retire
<1>4. ASSUME NEW o \in journal, Recover(o) PROVE [Next]_vars
  BY <1>4 DEF Recover, RecoverCloses, RecoverCompletes, RecoverUnanswered, RecoverAdmitted, Terminal
<1>5. ASSUME NEW k \in knks, CellAdmits(k) PROVE [Next]_vars BY <1>5 DEF CellAdmits
<1>6. ASSUME NEW b \in Bindings, Crash(b) PROVE [Next]_vars
  BY <1>6 DEF Crash, Next, Environment
<1>7. CASE SessionEnvironment BY <1>7 DEF SessionEnvironment, Next, Environment
<1> QED BY <1>1, <1>2, <1>3, <1>4, <1>5, <1>6, <1>7 DEF SessionNext

\* Preparing, knocking, retiring and recovering sessions uses the binding only
\* as liveSessionAssignment allows: every property of LeaseRenewal holds here.
THEOREM SessionsRefineRenewal == SessionSpec => Spec
<1>1. SessionInit => Init BY DEF SessionInit
<1> QED BY <1>1, SessionStepRenews, PTL DEF SessionSpec, Spec

\* The renewal keeps its invariant whatever the sessions do.
LEMMA RenewalKept == IInv /\ [SessionNext]_allVars => IInv'
BY SessionStepRenews, StepInv

-----------------------------------------------------------------------------
(***************************************************************************)
(* The invariant of the sessions.                                          *)
(***************************************************************************)

SessionType ==
  /\ stage \in [Callers -> Stages]
  /\ op \in [Callers -> Operation \cup {None}]
  /\ run \in [Callers -> Nat] /\ runs \in Nat
  /\ journal \subseteq Operation /\ resolved \subseteq journal
  /\ knks \subseteq Knk /\ sessions \subseteq Knk
  /\ receipts \subseteq Receipt
  /\ closed \subseteq [cell : Cells, run : Nat \ {0}]

\* What a caller is doing, and the call it asks its placement with: only a
\* preparation is strict, and its decision instant lies a margin ahead.
StageOf(c) ==
  /\ stage[c] \in {"prepared", "committed", "knocking"} => op[c] # None
  /\ stage[c] \in {"none", "preparing", "plain"} => op[c] = None
  /\ stage[c] = "waiting" <=> run[c] # 0
  /\ stage[c] \in {"none", "prepared", "committed", "waiting"} => pc[c] = "idle"
  /\ pc[c] # "idle" =>
       /\ call[c].strict <=> stage[c] = "preparing"
       /\ call[c].strict => call[c].at >= Margin
  /\ op[c] # None => stage[c] = "prepared" \/ op[c] \in journal
  /\ stage[c] # "none" => Current(c) # None
StageInv == \A c \in Callers : StageOf(c)

\* Every operation that exists, durable or not, has a serial number of its own.
KnownOps == journal \cup {op[c] : c \in {d \in Callers : op[d] # None}}
IdInv ==
  /\ \A o \in KnownOps : o.id \in 1..runs
  /\ \A o1, o2 \in KnownOps : o1.id = o2.id => o1 = o2

\* A KNK, on the wire or admitted, is that of a durable operation at the
\* operation's own cell, or has a run no operation has.
KnkInv ==
  \A k \in knks \cup sessions :
    /\ k.run \in 1..runs
    /\ k.op # 0 => k.op = k.run /\ \E o \in journal : o.id = k.op /\ o.cell = k.to.cell
    /\ k.op = 0 => \A o \in KnownOps : o.id # k.run

\* A cell has at most one session of a run, and none it has closed; recovery
\* reports an operation complete when its cell has closed it.
CloseInv ==
  /\ \A k \in sessions : [cell |-> k.to.cell, run |-> k.run] \notin closed
  /\ \A k1, k2 \in sessions : k1.run = k2.run /\ k1.to.cell = k2.to.cell => k1 = k2
  /\ \A o \in resolved : [cell |-> o.cell, run |-> o.id] \in closed

\* A caller between preparation and knock of an operation.
InSectionOf(c) == stage[c] = "preparing" \/ op[c] # None

\* In the documented critical section: nobody else prepares on the binding; a
\* placement with the margin left, and one an operation was prepared on less than
\* a margin ago, is that of the binding, and nobody is renewing it.
Alone(c) ==
  \A d \in Callers : InSectionOf(c) /\ InSectionOf(d) /\ BindingOf[c] = BindingOf[d] => c = d
MarginKept(c) ==
  stage[c] = "preparing" /\ pc[c] = "use" /\ MarginHolds(c) =>
    Current(c) = call[c].asg /\ mu[BindingOf[c]] = None
OperationKept(c) ==
  op[c] # None /\ now <= op[c].delivered + Margin =>
    /\ AddressOf(Current(c)) = AddressOf(op[c])
    /\ Current(c).lease > op[c].delivered + Margin + Lead
    /\ mu[BindingOf[c]] = None
SectionInv ==
  /\ \A c \in Callers : pc[c] \in Renewing => BindingOf[c] \notin Offline
  /\ Serialized => \A c \in Callers : Alone(c) /\ MarginKept(c) /\ OperationKept(c)

SInv ==
  /\ IInv /\ SessionType /\ StageInv /\ IdInv /\ KnkInv /\ CloseInv
  /\ SectionInv /\ PreparedPlacementHolds

-----------------------------------------------------------------------------
(***************************************************************************)
(* What a step of the renewal does, as far as sessions can see it.         *)
(***************************************************************************)

\* Only the caller itself moves.
OthersStay(c) == \A d \in Callers \ {c} : pc'[d] = pc[d] /\ call'[d] = call[d]

\* The answer comes from memory.
Answered(c) ==
  /\ pc[c] = "mutex" /\ pc'[c] \in {"idle", "use"}
  /\ UNCHANGED <<live, mu>>
  /\ pc'[c] = "use" => call'[c].asg = Current(c)
  /\ BindingOf[c] \in Offline \/ mu[BindingOf[c]] = None

\* A renewal that is due begins.
Begun(c) ==
  /\ pc[c] = "mutex" /\ pc'[c] = "lock" /\ live' = live
  /\ mu[BindingOf[c]] = None /\ BindingOf[c] \notin Offline
  /\ RenewalDue(Current(c), call[c].at)

\* A renewal under way; a strict caller gets nothing but what was adopted.
UnderWay(c) ==
  /\ pc[c] \in Renewing
  /\ pc'[c] = "use" /\ call[c].strict =>
       live'[BindingOf[c]] = call'[c].asg /\ mu'[BindingOf[c]] = None

RenewalEffect(c) ==
  /\ pc[c] # "idle" /\ now' = now /\ OthersStay(c)
  /\ pc'[c] # "idle" => call'[c].strict = call[c].strict /\ call'[c].at = call[c].at
  /\ live'[BindingOf[c]] # None
  /\ \A b \in Bindings \ {BindingOf[c]} : live'[b] = live[b] /\ mu'[b] = mu[b]
  /\ Answered(c) \/ Begun(c) \/ UnderWay(c)

\* An answer from memory.
LEMMA AnswerEffect ==
  ASSUME IInv, NEW c \in Callers, AnswerOffline(c) \/ AnswerCurrent(c)
  PROVE  RenewalEffect(c)
<1>1. pc[c] = "mutex" /\ ReturnPlacement(c, Current(c)) /\ UNCHANGED <<now, mu, live>>
      /\ (BindingOf[c] \in Offline \/ mu[BindingOf[c]] = None)
  BY DEF AnswerOffline, AnswerCurrent
<1>2. Current(c) \in Assignment /\ pc[c] # "idle" BY <1>1, CallerFacts
<1>3. Current(c) # None BY <1>2, ConstantsAssumption
<1> QED BY <1>1, <1>2, <1>3, ReturnFacts
        DEF RenewalEffect, OthersStay, Answered, Current

\* A renewal that ends: the binding is free, and holds what a strict caller got.
LEMMA EndEffect ==
  ASSUME IInv, NEW c \in Callers, pc[c] \in Renewing, now' = now,
         \/ \E a \in Assignment : AdoptRenewed(c, a)
         \/ RenewalFailed(c)
  PROVE  RenewalEffect(c)
<1>0. /\ pc[c] # "idle" /\ BindingOf[c] \in Bindings /\ Current(c) \in Assignment
      /\ pc \in [Callers -> Steps] /\ call \in [Callers -> Call \cup {None}]
      /\ live \in [Bindings -> Assignment \cup {None}] /\ mu \in [Bindings -> Callers \cup {None}]
  BY CallerFacts DEF Renewing, IInv, TypeOK
<1>1. Current(c) # None BY <1>0, ConstantsAssumption
<1>2. ASSUME NEW a \in Assignment, AdoptRenewed(c, a) PROVE RenewalEffect(c)
  <2>1. /\ live' = [live EXCEPT ![BindingOf[c]] = a] /\ ReturnPlacement(c, a)
        /\ mu' = [mu EXCEPT ![BindingOf[c]] = None]
    BY <1>2 DEF AdoptRenewed, Unlock
  <2>2. a # None BY <1>2, ConstantsAssumption
  <2> QED BY <1>0, <2>1, <2>2, ReturnFacts DEF RenewalEffect, OthersStay, UnderWay
<1>3. CASE RenewalFailed(c)
  <2>1. /\ live' = live /\ mu' = [mu EXCEPT ![BindingOf[c]] = None]
        /\ \/ ReturnError(c)
           \/ ~call[c].strict /\ ReturnPlacement(c, Current(c))
    BY <1>3 DEF RenewalFailed, Unlock
  <2>2. live'[BindingOf[c]] # None BY <1>1, <2>1 DEF Current
  <2>3. CASE ReturnError(c)
    BY <1>0, <2>1, <2>2, <2>3 DEF ReturnError, RenewalEffect, OthersStay, UnderWay
  <2>4. CASE ~call[c].strict /\ ReturnPlacement(c, Current(c))
    BY <1>0, <2>1, <2>2, <2>4, ReturnFacts DEF RenewalEffect, OthersStay, UnderWay
  <2> QED BY <2>1, <2>3, <2>4
<1> QED BY <1>2, <1>3

\* Every step inside liveSessionAssignment.
LEMMA RenewalStepEffect ==
  ASSUME IInv, NEW c \in Callers, RenewalStep(c)
  PROVE  RenewalEffect(c)
<1>0. /\ BindingOf[c] \in Bindings /\ disk.asg \in Assignment
      /\ pc \in [Callers -> Steps] /\ call \in [Callers -> Call \cup {None}]
      /\ live \in [Bindings -> Assignment \cup {None}] /\ mu \in [Bindings -> Callers \cup {None}]
      /\ (pc[c] # "idle" => Current(c) # None)
  BY ConstantsAssumption DEF IInv, TypeOK
<1>1. CASE AnswerOffline(c) \/ AnswerCurrent(c) BY <1>1, AnswerEffect
<1>2. CASE BeginRenewal(c)
  BY <1>0, <1>2 DEF BeginRenewal, RenewalEffect, OthersStay, Begun, Current
<1>3. CASE LoadUnderLock(c)
  <2>1. pc[c] \in Renewing /\ now' = now BY <1>3 DEF LoadUnderLock, Renewing
  <2>2. CASE RenewalDue(disk.asg, call[c].at)
    <3>1. /\ pc' = [pc EXCEPT ![c] = "hub"] /\ call' = [call EXCEPT ![c].loaded = disk.asg]
          /\ UNCHANGED <<mu, live>> /\ pc[c] = "lock"
      BY <1>3, <2>2 DEF LoadUnderLock
    <3>2. call[c] \in Call BY <3>1, CallerFacts
    <3>3. call'[c].strict = call[c].strict /\ call'[c].at = call[c].at
      BY <1>0, <3>1, <3>2 DEF Call
    <3>4. OthersStay(c) BY <1>0, <3>1 DEF OthersStay
    <3>5. UnderWay(c) BY <1>0, <2>1, <3>1 DEF UnderWay
    <3> QED BY <1>0, <2>1, <3>1, <3>3, <3>4, <3>5 DEF RenewalEffect, Current
  <2>3. CASE ~RenewalDue(disk.asg, call[c].at)
    <3>1. AdoptRenewed(c, disk.asg) BY <1>3, <2>3 DEF LoadUnderLock
    <3> QED BY <1>0, <2>1, <3>1, EndEffect
  <2> QED BY <2>2, <2>3
<1>4. CASE HubAnswers(c)
  <2>1. PICK p \in placements, d \in 1..LeaseLife : HubRefreshes(c, Leased(p, now + d))
    BY <1>4 DEF HubAnswers
  <2> DEFINE fresh == Leased(p, now + d)
  <2>2. fresh \in Assignment BY LeasedType DEF IInv
  <2>3. HubRefreshes(c, fresh) BY <2>1
  <2> HIDE DEF fresh
  <2>4. pc[c] \in Renewing /\ now' = now BY <2>3 DEF HubRefreshes, Renewing
  <2>5. CASE AdoptRenewed(c, fresh) BY <2>2, <2>4, <2>5, EndEffect
  <2>6. CASE ~AdoptRenewed(c, fresh)
    <3>1. /\ pc' = [pc EXCEPT ![c] = "save"] /\ call' = [call EXCEPT ![c].asg = fresh]
          /\ UNCHANGED <<mu, live>> /\ pc[c] = "hub"
      BY <2>3, <2>6 DEF HubRefreshes
    <3>2. call[c] \in Call BY <3>1, CallerFacts
    <3>3. call'[c].strict = call[c].strict /\ call'[c].at = call[c].at
      BY <1>0, <3>1, <3>2 DEF Call
    <3>4. OthersStay(c) BY <1>0, <3>1 DEF OthersStay
    <3>5. UnderWay(c) BY <1>0, <2>4, <3>1 DEF UnderWay
    <3> QED BY <1>0, <2>4, <3>1, <3>3, <3>4, <3>5 DEF RenewalEffect, Current
  <2> QED BY <2>5, <2>6
<1>5. CASE SaveRenewed(c)
  <2>1. pc[c] = "save" /\ call[c] \in Call BY <1>5, CallerFacts DEF SaveRenewed
  <2>2. call[c].asg \in Assignment BY <2>1 DEF IInv, TypeOK, Call
  <2>3. pc[c] \in Renewing /\ now' = now /\ (AdoptRenewed(c, call[c].asg) \/ RenewalFailed(c))
    BY <1>5, <2>1 DEF SaveRenewed, Renewing
  <2> QED BY <2>2, <2>3, EndEffect
<1>6. CASE RenewalFails(c)
  <2>1. pc[c] \in Renewing /\ now' = now /\ RenewalFailed(c)
    BY <1>6 DEF RenewalFails, Renewing
  <2> QED BY <2>1, EndEffect
<1> QED BY <1>1, <1>2, <1>3, <1>4, <1>5, <1>6 DEF RenewalStep

-----------------------------------------------------------------------------
(***************************************************************************)
(* Steps of the renewal, of the environment and of the clock.              *)
(***************************************************************************)

\* What no step outside the sessions touches.
LEMMA FrameSessions ==
  ASSUME SInv, UNCHANGED <<sessionVars, cellVars>>
  PROVE  SessionType' /\ IdInv' /\ KnkInv' /\ CloseInv'
<1> USE DEF SInv, sessionVars, cellVars
<1>1. SessionType' BY DEF SessionType
<1>2. IdInv' BY DEF IdInv, KnownOps
<1>3. KnkInv' BY DEF KnkInv, KnownOps
<1>4. CloseInv' BY DEF CloseInv
<1> QED BY <1>1, <1>2, <1>3, <1>4

\* What the invariant says of one caller.
LEMMA CallerInv ==
  ASSUME SInv, NEW c \in Callers
  PROVE  /\ BindingOf[c] \in Bindings /\ StageOf(c)
         /\ now \in Nat /\ Margin \in Nat /\ Lead \in Nat
         /\ op[c] # None => op[c] \in Operation /\ op[c].delivered \in Nat
         /\ pc[c] # "idle" => /\ call[c] \in Call /\ call[c].at \in Nat
                              /\ Current(c) \in Assignment /\ Current(c).lease \in Nat
                              /\ ~call[c].strict => call[c].at <= now
         /\ pc[c] = "use" => call[c].asg \in Assignment /\ call[c].asg.lease \in Nat
<1> USE DEF SInv
<1>1. BindingOf[c] \in Bindings /\ now \in Nat /\ Margin \in Nat /\ Lead \in Nat
  BY ConstantsAssumption DEF IInv, TypeOK
<1>2. StageOf(c) BY DEF StageInv
<1>3. op[c] # None => op[c] \in Operation /\ op[c].delivered \in Nat
  BY DEF SessionType, Operation
<1>4. ASSUME pc[c] # "idle"
      PROVE  /\ call[c] \in Call /\ call[c].at \in Nat
             /\ Current(c) \in Assignment /\ Current(c).lease \in Nat
             /\ ~call[c].strict => call[c].at <= now
  BY <1>4, CallerFacts DEF Call, Assignment, AssignmentSet, IInv, WorkInv
<1>5. ASSUME pc[c] = "use" PROVE call[c].asg \in Assignment /\ call[c].asg.lease \in Nat
  <2>1. call[c].asg \in Assignment BY <1>4, <1>5 DEF Call, IInv, TypeOK
  <2> QED BY <2>1 DEF Assignment, AssignmentSet
<1> QED BY <1>1, <1>2, <1>3, <1>4, <1>5

\* A binding without a renewal is never locked.
LEMMA OfflineUnlocked ==
  ASSUME SInv, NEW b \in Bindings, b \in Offline
  PROVE  mu[b] = None
BY DEF SInv, SectionInv, IInv, LocksFollowRenewal, TypeOK, Renewing

\* A placement that outlives now by margin and lead is not due for anybody who is
\* not preparing.
LEMMA NotDueYet ==
  ASSUME SInv, NEW d \in Callers, pc[d] # "idle", stage[d] # "preparing",
         NEW until \in Nat, now <= until, Current(d).lease > until + Lead
  PROVE  ~RenewalDue(Current(d), call[d].at)
<1>1. call[d].at \in Nat /\ call[d].at <= now /\ Current(d).lease \in Nat
      /\ now \in Nat /\ Lead \in Nat
  BY CallerInv DEF StageOf
<1> QED BY <1>1 DEF RenewalDue

\* In the critical section of c no renewal of its binding is begun or under way
\* while the placement has its margin, or the operation its time to be knocked.
LEMMA SectionUndisturbed ==
  ASSUME SInv, Serialized, NEW c \in Callers, NEW d \in Callers, RenewalEffect(d),
         BindingOf[d] = BindingOf[c],
         \/ stage[c] = "preparing" /\ pc[c] = "use" /\ MarginHolds(c) /\ c # d
         \/ op[c] # None /\ now <= op[c].delivered + Margin
  PROVE  Answered(d)
<1>1. MarginKept(c) /\ OperationKept(c) /\ Alone(c) BY DEF SInv, SectionInv
<1>2. mu[BindingOf[d]] = None /\ InSectionOf(c)
  BY <1>1 DEF MarginKept, OperationKept, InSectionOf
<1>3. ~UnderWay(d)
  BY <1>2, ConstantsAssumption
     DEF UnderWay, Renewing, SInv, IInv, LocksFollowRenewal
<1>4. ~Begun(d)
  <2>1. pc[d] # "idle" BY DEF RenewalEffect
  <2>2. stage[d] # "preparing"
    BY <1>1, <1>2, CallerInv DEF Alone, InSectionOf, StageOf
  <2>3. Current(d) = Current(c) BY DEF Current
  <2>4. CASE stage[c] = "preparing" /\ pc[c] = "use" /\ MarginHolds(c)
    <3>1. Current(d).lease > (now + Margin) + Lead /\ now + Margin \in Nat /\ now <= now + Margin
      BY <1>1, <2>3, <2>4, CallerInv DEF MarginKept, MarginHolds
    <3> QED BY <2>1, <2>2, <3>1, NotDueYet DEF Begun
  <2>5. CASE op[c] # None /\ now <= op[c].delivered + Margin
    <3>1. /\ Current(d).lease > (op[c].delivered + Margin) + Lead
          /\ op[c].delivered + Margin \in Nat
      BY <1>1, <2>3, <2>5, CallerInv DEF OperationKept
    <3> QED BY <2>1, <2>2, <2>5, <3>1, NotDueYet DEF Begun
  <2> QED BY <2>4, <2>5
<1> QED BY <1>3, <1>4 DEF RenewalEffect

\* Answers and renewals leave the sessions alone, and the section of others.
LEMMA RenewalStepSafe ==
  ASSUME SInv, NEW c \in Callers, RenewalStep(c), UNCHANGED <<sessionVars, cellVars>>
  PROVE  SInv'
<1> USE DEF sessionVars
<1>0. IInv' BY RenewalKept DEF SInv, SessionNext, CallerStep
<1>1. RenewalEffect(c) BY RenewalStepEffect DEF SInv
<1>2. SessionType' /\ IdInv' /\ KnkInv' /\ CloseInv' BY FrameSessions
<1>3. /\ pc[c] # "idle" /\ now' = now /\ OthersStay(c) /\ live'[BindingOf[c]] # None
      /\ \A b \in Bindings \ {BindingOf[c]} : live'[b] = live[b] /\ mu'[b] = mu[b]
      /\ (pc'[c] # "idle" => call'[c].strict = call[c].strict /\ call'[c].at = call[c].at)
      /\ Answered(c) \/ Begun(c) \/ UnderWay(c)
  BY <1>1 DEF RenewalEffect
<1>4. \A d \in Callers : BindingOf[d] \in Bindings /\ StageOf(d) BY CallerInv
<1>5. StageInv'
  <2>1. ASSUME NEW d \in Callers PROVE StageOf(d)'
    <3>1. CASE d = c BY <1>3, <1>4, <3>1 DEF StageOf, Current
    <3>2. CASE d # c BY <1>3, <1>4, <3>2 DEF StageOf, Current, OthersStay
    <3> QED BY <3>1, <3>2
  <2> QED BY <2>1 DEF StageInv
<1>6. ASSUME NEW d \in Callers PROVE pc'[d] \in Renewing => BindingOf[d] \notin Offline
  <2>1. pc[d] \in Renewing => BindingOf[d] \notin Offline BY DEF SInv, SectionInv
  <2> QED BY <1>3, <2>1 DEF OthersStay, Answered, Begun, UnderWay, Renewing
<1>7. ASSUME Serialized, NEW d \in Callers
      PROVE  Alone(d)' /\ MarginKept(d)' /\ OperationKept(d)'
  <2>0. Alone(d) /\ MarginKept(d) /\ OperationKept(d) BY <1>7 DEF SInv, SectionInv
  <2>1. Alone(d)' BY <2>0 DEF Alone, InSectionOf
  <2>2. OperationKept(d)'
    <3> SUFFICES ASSUME op[d] # None, now <= op[d].delivered + Margin PROVE OperationKept(d)'
      BY <1>3 DEF OperationKept
    <3>1. CASE BindingOf[d] = BindingOf[c]
      <4>1. Answered(c) BY <1>1, <1>7, <3>1, SectionUndisturbed
      <4> QED BY <1>3, <2>0, <4>1 DEF OperationKept, Current, Answered
    <3>2. CASE BindingOf[d] # BindingOf[c]
      BY <1>3, <1>4, <2>0, <3>2 DEF OperationKept, Current
    <3> QED BY <3>1, <3>2
  <2>3. MarginKept(d)'
    <3> SUFFICES ASSUME stage[d] = "preparing", pc'[d] = "use", MarginHolds(d)'
                 PROVE  MarginKept(d)'
      BY DEF MarginKept
    <3>1. CASE d = c /\ Answered(c)
      <4>1. mu[BindingOf[c]] = None BY <1>4, <3>1, OfflineUnlocked DEF Answered
      <4> QED BY <3>1, <4>1 DEF MarginKept, Answered, Current
    <3>2. CASE d = c /\ UnderWay(c)
      <4>1. call[c].strict BY <1>3, <1>4, <3>2 DEF StageOf
      <4> QED BY <3>2, <4>1 DEF MarginKept, UnderWay, Current
    <3>3. CASE d = c /\ Begun(c) BY <3>3 DEF Begun
    <3>4. CASE d # c /\ BindingOf[d] = BindingOf[c]
      <4>1. pc[d] = "use" /\ call'[d] = call[d] /\ MarginHolds(d)
        BY <1>3, <3>4 DEF OthersStay, MarginHolds
      <4>2. Answered(c) BY <1>1, <1>7, <3>4, <4>1, SectionUndisturbed
      <4> QED BY <2>0, <4>1, <4>2 DEF MarginKept, Answered, Current
    <3>5. CASE d # c /\ BindingOf[d] # BindingOf[c]
      <4>1. pc[d] = "use" /\ call'[d] = call[d] /\ MarginHolds(d)
        BY <1>3, <3>5 DEF OthersStay, MarginHolds
      <4> QED BY <1>3, <1>4, <2>0, <3>5, <4>1 DEF MarginKept, Current
    <3> QED BY <1>3, <3>1, <3>2, <3>3, <3>4, <3>5
  <2> QED BY <2>1, <2>2, <2>3
<1>8. SectionInv' BY <1>6, <1>7 DEF SectionInv
<1>9. PreparedPlacementHolds'
  <2> SUFFICES ASSUME NEW d \in Callers, Serialized, pc'[d] = "use", stage[d] = "knocking",
                      now <= op[d].delivered + Margin
               PROVE  AddressOf(call'[d].asg) = AddressOf(op[d])
    BY <1>3 DEF PreparedPlacementHolds
  <2>1. CASE d = c
    <3>1. op[c] # None BY <1>4, <2>1 DEF StageOf
    <3>2. Answered(c) BY <1>1, <2>1, <3>1, SectionUndisturbed
    <3>3. OperationKept(c) BY DEF SInv, SectionInv
    <3> QED BY <2>1, <3>1, <3>2, <3>3 DEF OperationKept, Answered
  <2>2. CASE d # c
    BY <1>3, <2>2 DEF OthersStay, SInv, PreparedPlacementHolds
  <2> QED BY <2>1, <2>2
<1> QED BY <1>0, <1>2, <1>5, <1>8, <1>9 DEF SInv

\* A step that takes no lock and adopts nothing, starts no preparation and gives
\* nobody a new operation or placement.
LEMMA FrameSection ==
  ASSUME SInv, now' >= now, now' \in Nat, UNCHANGED mu,
         \A c \in Callers :
           /\ stage[c] # "none" => Current(c)' = Current(c)
           /\ op'[c] # None => op'[c] = op[c]
           /\ stage'[c] = "preparing" => stage[c] = "preparing"
           /\ stage'[c] = "knocking" /\ pc'[c] = "use" =>
                stage[c] = "knocking" /\ op'[c] = op[c]
           /\ pc'[c] \in {"use", "lock", "hub", "save"} => pc'[c] = pc[c] /\ call'[c] = call[c]
  PROVE  SectionInv' /\ PreparedPlacementHolds'
<1>0. ASSUME NEW c \in Callers
      PROVE  /\ StageOf(c) /\ now \in Nat /\ Margin \in Nat /\ Lead \in Nat
             /\ op[c] # None => op[c].delivered \in Nat
             /\ pc[c] = "use" => call[c].asg.lease \in Nat
  BY CallerInv
<1>1. ASSUME NEW c \in Callers PROVE pc'[c] \in Renewing => BindingOf[c] \notin Offline
  BY DEF SInv, SectionInv, Renewing
<1>2. ASSUME Serialized, NEW c \in Callers
      PROVE  Alone(c)' /\ MarginKept(c)' /\ OperationKept(c)'
  <2>0. Alone(c) /\ MarginKept(c) /\ OperationKept(c) BY <1>2 DEF SInv, SectionInv
  <2>1. Alone(c)' BY <2>0 DEF Alone, InSectionOf
  <2>2. MarginKept(c)'
    <3> SUFFICES ASSUME stage'[c] = "preparing", pc'[c] = "use", MarginHolds(c)'
                 PROVE  MarginKept(c)'
      BY DEF MarginKept
    <3>1. stage[c] = "preparing" /\ pc[c] = "use" /\ call'[c] = call[c] OBVIOUS
    <3>2. MarginHolds(c) BY <1>0, <3>1 DEF MarginHolds
    <3> QED BY <2>0, <3>1, <3>2 DEF MarginKept
  <2>3. OperationKept(c)'
    <3> SUFFICES ASSUME op'[c] # None, now' <= op'[c].delivered + Margin PROVE OperationKept(c)'
      BY DEF OperationKept
    <3>1. op'[c] = op[c] /\ stage[c] # "none" /\ now <= op[c].delivered + Margin
      BY <1>0 DEF StageOf
    <3> QED BY <2>0, <3>1 DEF OperationKept
  <2> QED BY <2>1, <2>2, <2>3
<1>3. SectionInv' BY <1>1, <1>2 DEF SectionInv
<1>4. PreparedPlacementHolds'
  <2> SUFFICES ASSUME NEW c \in Callers, Serialized, pc'[c] = "use", stage'[c] = "knocking",
                      now' <= op'[c].delivered + Margin
               PROVE  AddressOf(call'[c].asg) = AddressOf(op'[c])
    BY DEF PreparedPlacementHolds
  <2>1. pc[c] = "use" /\ stage[c] = "knocking" /\ call'[c] = call[c] OBVIOUS
  <2>2. op'[c] = op[c] /\ op[c] # None BY <1>0, <2>1 DEF StageOf
  <2>3. now <= op[c].delivered + Margin BY <1>0, <2>2
  <2> QED BY <2>1, <2>2, <2>3 DEF SInv, PreparedPlacementHolds
<1> QED BY <1>3, <1>4

\* Other lifecycle calls, the Hub, the clock and the opening of a binding that
\* nobody uses yet.
LEMMA EnvironmentSafe == ASSUME SInv, SessionEnvironment PROVE SInv'
<1>0. UNCHANGED <<sessionVars, cellVars>> BY DEF SessionEnvironment
<1>1. IInv' BY RenewalKept DEF SInv, SessionNext
<1>2. SessionType' /\ IdInv' /\ KnkInv' /\ CloseInv' BY <1>0, FrameSessions
<1>3. /\ UNCHANGED <<mu, pc, call>> /\ now' >= now /\ now' \in Nat
      /\ \/ live' = live
         \/ \E b \in Bindings : live[b] = None /\ \A e \in Bindings \ {b} : live'[e] = live[e]
  <2>0. now \in Nat /\ live \in [Bindings -> Assignment \cup {None}]
    BY DEF SInv, IInv, TypeOK
  <2>1. CASE OtherLifecycle \/ HubPublishes \/ Tick
    <3>1. UNCHANGED processVars /\ (now' = now \/ now' = now + 1)
      BY <2>1 DEF OtherLifecycle, HubPublishes, Tick
    <3> QED BY <2>0, <3>1 DEF processVars
  <2>2. ASSUME NEW b \in Bindings, OpenBinding(b)
        PROVE  /\ UNCHANGED <<mu, pc, call, now>> /\ live[b] = None
               /\ \A e \in Bindings \ {b} : live'[e] = live[e]
    BY <2>0, <2>2 DEF OpenBinding, NewBinding
  <2> QED BY <2>0, <2>1, <2>2 DEF SessionEnvironment
<1>4. ASSUME NEW c \in Callers
      PROVE  /\ StageOf(c) /\ BindingOf[c] \in Bindings
             /\ stage[c] # "none" => Current(c)' = Current(c)
  <2>1. StageOf(c) /\ BindingOf[c] \in Bindings BY CallerInv
  <2> QED BY <1>3, <2>1 DEF StageOf, Current
<1>5. StageInv'
  <2>1. ASSUME NEW c \in Callers PROVE StageOf(c)'
    BY <1>0, <1>3, <1>4 DEF StageOf, sessionVars
  <2> QED BY <2>1 DEF StageInv
<1>6. SectionInv' /\ PreparedPlacementHolds'
  BY <1>0, <1>3, <1>4, FrameSection DEF sessionVars
<1> QED BY <1>1, <1>2, <1>5, <1>6 DEF SInv

\* A crash ends everything the goroutines of one process were doing; journal,
\* wire and cells stay.
LEMMA CrashSafe == ASSUME SInv, NEW b \in Bindings, Crash(b) PROVE SInv'
<1>1. /\ stage' = [c \in Callers |-> IF c \in Users(b) THEN "none" ELSE stage[c]]
      /\ op' = [c \in Callers |-> IF c \in Users(b) THEN None ELSE op[c]]
      /\ run' = [c \in Callers |-> IF c \in Users(b) THEN 0 ELSE run[c]]
      /\ receipts' = {r \in receipts : r.holder # b}
      /\ UNCHANGED <<runs, journal, knks, resolved, sessions, closed>>
      /\ live' = [live EXCEPT ![b] = None] /\ mu' = [mu EXCEPT ![b] = None]
      /\ pc' = [c \in Callers |-> IF c \in Users(b) THEN "idle" ELSE pc[c]]
      /\ call' = [c \in Callers |-> IF c \in Users(b) THEN None ELSE call[c]]
      /\ now' = now
  BY DEF Crash, CrashProcess, cellVars
<1>2. IInv' BY RenewalKept DEF SInv, SessionNext
<1>3. live \in [Bindings -> Assignment \cup {None}] /\ mu \in [Bindings -> Callers \cup {None}]
  BY DEF SInv, IInv, TypeOK
<1>4. ASSUME NEW c \in Callers
      PROVE  /\ BindingOf[c] \in Bindings /\ StageOf(c)
             /\ BindingOf[c] = b => stage'[c] = "none" /\ op'[c] = None /\ run'[c] = 0
                                    /\ pc'[c] = "idle"
             /\ BindingOf[c] # b => /\ stage'[c] = stage[c] /\ op'[c] = op[c] /\ run'[c] = run[c]
                                    /\ pc'[c] = pc[c] /\ call'[c] = call[c]
                                    /\ Current(c)' = Current(c)
                                    /\ mu'[BindingOf[c]] = mu[BindingOf[c]]
  BY <1>1, <1>3, CallerInv DEF Users, Current
<1> USE DEF SInv
<1>5. SessionType' BY <1>1 DEF SessionType, Stages
<1>6. KnownOps' \subseteq KnownOps BY <1>1, <1>4 DEF KnownOps
<1>7. IdInv' /\ KnkInv' /\ CloseInv' BY <1>1, <1>6 DEF IdInv, KnkInv, CloseInv
<1>8. StageInv'
  <2>1. ASSUME NEW c \in Callers PROVE StageOf(c)' BY <1>1, <1>4 DEF StageOf
  <2> QED BY <2>1 DEF StageInv
<1>9. ASSUME NEW c \in Callers PROVE pc'[c] \in Renewing => BindingOf[c] \notin Offline
  BY <1>4 DEF SectionInv, Renewing
<1>10. ASSUME Serialized, NEW c \in Callers
       PROVE  Alone(c)' /\ MarginKept(c)' /\ OperationKept(c)'
  <2>0. Alone(c) /\ MarginKept(c) /\ OperationKept(c) BY <1>10 DEF SectionInv
  <2>1. Alone(c)' BY <1>4, <2>0 DEF Alone, InSectionOf
  <2>2. MarginKept(c)' BY <1>1, <1>4, <2>0 DEF MarginKept, MarginHolds
  <2>3. OperationKept(c)' BY <1>1, <1>4, <2>0 DEF OperationKept
  <2> QED BY <2>1, <2>2, <2>3
<1>11. SectionInv' BY <1>9, <1>10 DEF SectionInv
<1>12. PreparedPlacementHolds' BY <1>1, <1>4 DEF PreparedPlacementHolds
<1> QED BY <1>2, <1>5, <1>7, <1>8, <1>11, <1>12

-----------------------------------------------------------------------------
(***************************************************************************)
(* Steps of a caller.                                                      *)
(***************************************************************************)

\* A step of one caller: only what it says of that caller has to be shown.
LEMMA StageStep ==
  ASSUME SInv, NEW c \in Callers, live' = live, journal \subseteq journal',
         \A d \in Callers \ {c} : /\ stage'[d] = stage[d] /\ op'[d] = op[d] /\ run'[d] = run[d]
                                  /\ pc'[d] = pc[d] /\ call'[d] = call[d],
         StageOf(c)'
  PROVE  StageInv'
<1>1. ASSUME NEW d \in Callers \ {c} PROVE StageOf(d)'
  BY CallerInv DEF StageOf, Current
<1> QED BY <1>1 DEF StageInv

\* No operation, run, KNK or session is new.
LEMMA FrameIds ==
  ASSUME SInv, UNCHANGED <<runs, journal, knks, resolved, sessions, closed>>,
         \A d \in Callers : op'[d] # None => op'[d] = op[d]
  PROVE  IdInv' /\ KnkInv' /\ CloseInv'
<1>1. KnownOps' \subseteq KnownOps BY DEF KnownOps
<1> QED BY <1>1 DEF SInv, IdInv, KnkInv, CloseInv

\* What asking for a placement, and being done with one, does to the calls.
LEMMA AskFacts ==
  ASSUME SInv, NEW c \in Callers, NEW strict \in BOOLEAN, AskPlacement(c, strict)
  PROVE  /\ pc[c] = "idle" /\ pc'[c] = "mutex" /\ Current(c) # None
         /\ call'[c].strict = strict /\ (strict => call'[c].at >= Margin)
         /\ \A d \in Callers \ {c} : pc'[d] = pc[d] /\ call'[d] = call[d]
         /\ UNCHANGED <<now, mu, live>>
<1>1. pc \in [Callers -> Steps] /\ call \in [Callers -> Call \cup {None}]
      /\ now \in Nat /\ Margin \in Nat
  BY ConstantsAssumption DEF SInv, IInv, TypeOK
<1> QED BY <1>1 DEF AskPlacement

\* Being done with a placement.
LEMMA EndUseFacts ==
  ASSUME SInv, NEW c \in Callers, EndUse(c)
  PROVE  /\ pc[c] = "use" /\ pc'[c] = "idle"
         /\ \A d \in Callers \ {c} : pc'[d] = pc[d] /\ call'[d] = call[d]
         /\ UNCHANGED <<now, mu, live>>
<1>1. pc \in [Callers -> Steps] /\ call \in [Callers -> Call \cup {None}]
  BY DEF SInv, IInv, TypeOK
<1> QED BY <1>1 DEF EndUse, ReturnError

\* The end of what a caller was doing.
LEMMA StopFacts ==
  ASSUME SInv, NEW c \in Callers, Stop(c)
  PROVE  /\ stage' \in [Callers -> Stages] /\ op' \in [Callers -> Operation \cup {None}]
         /\ run' \in [Callers -> Nat]
         /\ stage'[c] = "none" /\ op'[c] = None /\ run'[c] = 0
         /\ \A d \in Callers \ {c} : stage'[d] = stage[d] /\ op'[d] = op[d] /\ run'[d] = run[d]
BY DEF Stop, SInv, SessionType, Stages

\* A caller gives up: a preparation or a knock that fails, an answer that is
\* missing or was used.
LEMMA StopSafe ==
  ASSUME SInv, NEW c \in Callers, IInv', Stop(c), UNCHANGED <<now, mu, live>>,
         pc'[c] = "idle",
         \A d \in Callers \ {c} : pc'[d] = pc[d] /\ call'[d] = call[d],
         UNCHANGED <<runs, journal, knks, resolved, sessions, closed>>, receipts' \subseteq Receipt
  PROVE  SInv'
<1> USE DEF SInv
<1>1. /\ stage' \in [Callers -> Stages] /\ op' \in [Callers -> Operation \cup {None}]
      /\ run' \in [Callers -> Nat]
      /\ stage'[c] = "none" /\ op'[c] = None /\ run'[c] = 0
      /\ \A d \in Callers \ {c} : stage'[d] = stage[d] /\ op'[d] = op[d] /\ run'[d] = run[d]
  BY StopFacts
<1>2. SessionType' BY <1>1 DEF SessionType
<1>3. StageOf(c)' BY <1>1 DEF StageOf
<1>4. StageInv' BY <1>1, <1>3, StageStep
<1>5. IdInv' /\ KnkInv' /\ CloseInv' BY <1>1, FrameIds
<1>6. now \in Nat /\ \A d \in Callers : Current(d)' = Current(d)
  BY DEF IInv, TypeOK, Current
<1>7. SectionInv' /\ PreparedPlacementHolds' BY <1>1, <1>6, FrameSection
<1> QED BY <1>2, <1>4, <1>5, <1>7

\* PrepareLiveNativeSessionOperation fails, and so does KnockRegisteredAgent.
LEMMA FailSafe ==
  ASSUME SInv, NEW c \in Callers, PrepareFails(c) \/ KnockFails(c)
  PROVE  SInv'
<1>1. IInv' BY RenewalKept DEF SInv, SessionNext, CallerStep
<1>2. /\ Stop(c) /\ UNCHANGED <<runs, journal, knks, resolved, sessions, closed, receipts>>
      /\ (pc[c] = "idle" /\ UNCHANGED vars) \/ EndUse(c)
  BY DEF PrepareFails, KnockFails, cellVars
<1>3. /\ pc'[c] = "idle" /\ UNCHANGED <<now, mu, live>>
      /\ \A d \in Callers \ {c} : pc'[d] = pc[d] /\ call'[d] = call[d]
  BY <1>2, EndUseFacts DEF vars, processVars
<1>4. receipts' \subseteq Receipt BY <1>2 DEF SInv, SessionType
<1> QED BY <1>1, <1>2, <1>3, <1>4, StopSafe

\* The answer of a knock, or none.
LEMMA AnswerSafe ==
  ASSUME SInv, NEW c \in Callers, ReceiveAdmission(c) \/ KnockUnanswered(c)
  PROVE  SInv'
<1>1. IInv' BY RenewalKept DEF SInv, SessionNext, CallerStep
<1>2. /\ Stop(c) /\ UNCHANGED <<runs, journal, knks, resolved, sessions, closed>>
      /\ UNCHANGED vars /\ stage[c] = "waiting"
  BY DEF ReceiveAdmission, KnockUnanswered, cellVars
<1>3. UNCHANGED <<now, mu, live, pc, call>> BY <1>2 DEF vars, processVars
<1>4. pc'[c] = "idle" BY <1>2, <1>3, CallerInv DEF StageOf
<1>5. receipts' \subseteq Receipt
  <2>1. CASE UNCHANGED receipts BY <2>1 DEF SInv, SessionType
  <2>2. CASE ReceiveAdmission(c)
    <3>1. PICK k \in sessions :
            receipts' = receipts \cup
              {[run |-> k.run, op |-> k.op, at |-> k.to, holder |-> BindingOf[c]]}
      BY <2>2 DEF ReceiveAdmission
    <3>2. k \in Knk /\ BindingOf[c] \in Bindings BY CallerInv DEF SInv, SessionType
    <3>3. [run |-> k.run, op |-> k.op, at |-> k.to, holder |-> BindingOf[c]] \in Receipt
      BY <3>2 DEF Knk, Receipt
    <3> QED BY <3>1, <3>3 DEF SInv, SessionType
  <2> QED BY <2>1, <2>2 DEF KnockUnanswered
<1> QED BY <1>1, <1>2, <1>3, <1>4, <1>5, StopSafe

\* A preparation asks for a placement when nobody else is in the section.
LEMMA BeginPrepareSafe == ASSUME SInv, NEW c \in Callers, BeginPrepare(c) PROVE SInv'
<1> USE DEF SInv
<1>1. /\ stage[c] = "none" /\ (Serialized => ~InSection(BindingOf[c]))
      /\ AskPlacement(c, TRUE) /\ stage' = [stage EXCEPT ![c] = "preparing"]
      /\ UNCHANGED <<op, run, runs, journal, knks, receipts, resolved, sessions, closed>>
  BY DEF BeginPrepare, cellVars
<1>2. IInv' BY RenewalKept DEF SessionNext, CallerStep
<1>3. /\ pc'[c] = "mutex" /\ Current(c) # None /\ call'[c].strict /\ call'[c].at >= Margin
      /\ \A d \in Callers \ {c} : pc'[d] = pc[d] /\ call'[d] = call[d]
      /\ UNCHANGED <<now, mu, live>>
  BY <1>1, AskFacts
<1>4. SessionType' BY <1>1 DEF SessionType, Stages
<1>5. stage'[c] = "preparing" /\ \A d \in Callers \ {c} : stage'[d] = stage[d]
  BY <1>1 DEF SessionType
<1>6. StageOf(c) BY CallerInv
<1>7. StageOf(c)' BY <1>1, <1>3, <1>5, <1>6 DEF StageOf, Current
<1>8. StageInv' BY <1>1, <1>3, <1>5, <1>7, StageStep
<1>9. IdInv' /\ KnkInv' /\ CloseInv' BY <1>1, FrameIds
<1>10. ASSUME NEW d \in Callers PROVE pc'[d] \in Renewing => BindingOf[d] \notin Offline
  BY <1>3 DEF SectionInv, Renewing
<1>11. ASSUME Serialized, NEW d \in Callers
       PROVE  Alone(d)' /\ MarginKept(d)' /\ OperationKept(d)'
  <2>0. Alone(d) /\ MarginKept(d) /\ OperationKept(d) BY <1>11 DEF SectionInv
  <2>1. ASSUME NEW e \in Callers, e # c, BindingOf[e] = BindingOf[c] PROVE ~InSectionOf(e)
    BY <1>1, <1>11, <2>1 DEF InSection, InSectionOf, Users
  <2>2. Alone(d)' BY <1>1, <1>5, <2>0, <2>1 DEF Alone, InSectionOf
  <2>3. MarginKept(d)' BY <1>1, <1>3, <1>5, <2>0 DEF MarginKept, MarginHolds, Current
  <2>4. OperationKept(d)' BY <1>1, <1>3, <2>0 DEF OperationKept, Current
  <2> QED BY <2>2, <2>3, <2>4
<1>12. SectionInv' BY <1>10, <1>11 DEF SectionInv
<1>13. PreparedPlacementHolds' BY <1>1, <1>3, <1>5 DEF PreparedPlacementHolds
<1> QED BY <1>2, <1>4, <1>8, <1>9, <1>12, <1>13

\* The journal write.
LEMMA CommitOperationSafe == ASSUME SInv, NEW c \in Callers, CommitOperation(c) PROVE SInv'
<1> USE DEF SInv
<1>1. /\ stage[c] = "prepared" /\ journal' = journal \cup {op[c]}
      /\ stage' = [stage EXCEPT ![c] = "committed"]
      /\ UNCHANGED <<op, run, runs, knks, receipts, resolved, sessions, closed>>
      /\ UNCHANGED <<now, mu, live, pc, call>>
  BY DEF CommitOperation, cellVars, vars, processVars
<1>2. IInv' BY RenewalKept DEF SessionNext, CallerStep
<1>3. op[c] # None /\ op[c] \in Operation /\ StageOf(c)
  BY <1>1, CallerInv DEF StageOf
<1>4. SessionType' BY <1>1, <1>3 DEF SessionType, Stages
<1>5. stage'[c] = "committed" /\ \A d \in Callers \ {c} : stage'[d] = stage[d]
  BY <1>1 DEF SessionType
<1>6. StageOf(c)' BY <1>1, <1>3, <1>5 DEF StageOf, Current
<1>7. StageInv' BY <1>1, <1>5, <1>6, StageStep
<1>8. KnownOps' = KnownOps BY <1>1, <1>3 DEF KnownOps
<1>9. IdInv' /\ KnkInv' /\ CloseInv' BY <1>1, <1>8 DEF IdInv, KnkInv, CloseInv
<1>10. now \in Nat /\ \A d \in Callers : Current(d)' = Current(d)
  BY <1>1 DEF IInv, TypeOK, Current
<1>11. SectionInv' /\ PreparedPlacementHolds' BY <1>1, <1>5, <1>10, FrameSection
<1> QED BY <1>2, <1>4, <1>7, <1>9, <1>11

\* A knock asks for the placement again, or for one without an operation.
LEMMA BeginKnockSafe == ASSUME SInv, NEW c \in Callers, BeginKnock(c) PROVE SInv'
<1> USE DEF SInv
<1>1. /\ \/ stage[c] = "committed" /\ stage' = [stage EXCEPT ![c] = "knocking"]
         \/ stage[c] = "none" /\ stage' = [stage EXCEPT ![c] = "plain"]
      /\ AskPlacement(c, FALSE)
      /\ UNCHANGED <<op, run, runs, journal, knks, receipts, resolved, sessions, closed>>
  BY DEF BeginKnock, cellVars
<1>2. IInv' BY RenewalKept DEF SessionNext, CallerStep
<1>3. /\ pc'[c] = "mutex" /\ Current(c) # None /\ ~call'[c].strict
      /\ \A d \in Callers \ {c} : pc'[d] = pc[d] /\ call'[d] = call[d]
      /\ UNCHANGED <<now, mu, live>>
  BY <1>1, AskFacts
<1>4. SessionType' BY <1>1 DEF SessionType, Stages
<1>5. /\ stage'[c] = IF stage[c] = "committed" THEN "knocking" ELSE "plain"
      /\ \A d \in Callers \ {c} : stage'[d] = stage[d]
  BY <1>1 DEF SessionType
<1>6. StageOf(c) BY CallerInv
<1>7. StageOf(c)' BY <1>1, <1>3, <1>5, <1>6 DEF StageOf, Current
<1>8. StageInv' BY <1>1, <1>3, <1>5, <1>7, StageStep
<1>9. IdInv' /\ KnkInv' /\ CloseInv' BY <1>1, FrameIds
<1>10. now \in Nat /\ \A d \in Callers : Current(d)' = Current(d)
  BY <1>3 DEF IInv, TypeOK, Current
<1>11. ASSUME NEW d \in Callers
       PROVE  /\ stage'[d] = "preparing" => stage[d] = "preparing"
              /\ stage'[d] = "knocking" /\ pc'[d] = "use" => stage[d] = "knocking"
              /\ pc'[d] \in {"use", "lock", "hub", "save"} => pc'[d] = pc[d] /\ call'[d] = call[d]
  BY <1>3, <1>5
<1>12. SectionInv' /\ PreparedPlacementHolds' BY <1>1, <1>3, <1>10, <1>11, FrameSection
<1> QED BY <1>2, <1>4, <1>8, <1>9, <1>12

\* What PrepareOperation returns is an operation.
LEMMA NewOperationType ==
  ASSUME SInv, NEW c \in Callers, pc[c] = "use", stage[c] = "preparing"
  PROVE  NewOperation(c) \in Operation
<1>1. /\ now \in Nat /\ Margin \in Nat /\ Window \in Nat /\ runs \in Nat
      /\ call[c].at \in Nat /\ call[c].at >= Margin
  BY CallerInv, SessionAssumption DEF StageOf, SInv, SessionType
<1>2. call[c].asg.cell \in Cells /\ call[c].asg.endpoint \in Endpoints
  BY CallerInv DEF Assignment, AssignmentSet
<1>3. /\ runs + 1 \in Nat \ {0} /\ call[c].at - Margin \in Nat
      /\ call[c].at - Margin + Window \in Nat
  BY <1>1
<1> QED BY <1>1, <1>2, <1>3 DEF NewOperation, Operation

\* A new operation has a new number, and the binding's placement with its margin.
LEMMA PrepareOperationSafe == ASSUME SInv, NEW c \in Callers, PrepareOperation(c) PROVE SInv'
<1> USE DEF SInv
<1> DEFINE new == NewOperation(c)
<1>1. /\ pc[c] = "use" /\ stage[c] = "preparing" /\ MarginHolds(c)
      /\ op' = [op EXCEPT ![c] = new] /\ runs' = runs + 1
      /\ stage' = [stage EXCEPT ![c] = "prepared"] /\ EndUse(c)
      /\ UNCHANGED <<run, journal, knks, receipts, resolved, sessions, closed>>
  BY DEF PrepareOperation, cellVars
<1>2. /\ new \in Operation /\ new.id = runs + 1 /\ new.delivered = now
      /\ AddressOf(new) = AddressOf(call[c].asg)
  BY <1>1, NewOperationType DEF NewOperation, AddressOf
<1> HIDE DEF new
<1>3. new # None BY <1>2, SessionAssumption
<1>4. IInv' BY RenewalKept DEF SessionNext, CallerStep
<1>5. /\ pc'[c] = "idle" /\ UNCHANGED <<now, mu, live>>
      /\ \A d \in Callers \ {c} : pc'[d] = pc[d] /\ call'[d] = call[d]
  BY <1>1, EndUseFacts
<1>6. /\ stage'[c] = "prepared" /\ op'[c] = new
      /\ \A d \in Callers \ {c} : stage'[d] = stage[d] /\ op'[d] = op[d]
  BY <1>1 DEF SessionType
<1>7. runs \in Nat BY DEF SessionType
<1>8. SessionType' BY <1>1, <1>2, <1>7 DEF SessionType, Stages
<1>9. StageOf(c) BY CallerInv
<1>10. StageOf(c)' BY <1>1, <1>3, <1>5, <1>6, <1>9 DEF StageOf, Current
<1>11. StageInv' BY <1>1, <1>5, <1>6, <1>10, StageStep
<1>12. \A o \in KnownOps' : o \in KnownOps \/ o = new BY <1>1, <1>6 DEF KnownOps
<1>13. IdInv' BY <1>1, <1>2, <1>7, <1>12 DEF IdInv
<1>14. KnkInv'
  <2> SUFFICES ASSUME NEW k \in knks \cup sessions
               PROVE  /\ k.run \in 1..runs'
                      /\ k.op # 0 => k.op = k.run /\ \E o \in journal : o.id = k.op /\ o.cell = k.to.cell
                      /\ k.op = 0 => \A o \in KnownOps' : o.id # k.run
    BY <1>1 DEF KnkInv
  <2>1. /\ k.run \in 1..runs
        /\ k.op # 0 => k.op = k.run /\ \E o \in journal : o.id = k.op /\ o.cell = k.to.cell
        /\ k.op = 0 => \A o \in KnownOps : o.id # k.run
    BY DEF KnkInv
  <2> QED BY <1>1, <1>2, <1>7, <1>12, <2>1
<1>15. CloseInv' BY <1>1 DEF CloseInv
<1>16. ASSUME NEW d \in Callers PROVE pc'[d] \in Renewing => BindingOf[d] \notin Offline
  BY <1>5 DEF SectionInv, Renewing
<1>17. ASSUME Serialized, NEW d \in Callers
       PROVE  Alone(d)' /\ MarginKept(d)' /\ OperationKept(d)'
  <2>0. Alone(d) /\ MarginKept(d) /\ OperationKept(d) BY <1>17 DEF SectionInv
  <2>1. Alone(d)' BY <1>1, <1>6, <2>0 DEF Alone, InSectionOf
  <2>2. MarginKept(d)' BY <1>5, <1>6, <2>0 DEF MarginKept, MarginHolds, Current
  <2>3. ASSUME d = c PROVE OperationKept(c)'
    <3>1. Current(c) = call[c].asg /\ mu[BindingOf[c]] = None
      BY <1>1, <2>0, <2>3 DEF MarginKept
    <3>2. now + Margin + Lead < call[c].asg.lease BY <1>1 DEF MarginHolds
    <3>3. now \in Nat /\ Margin \in Nat /\ Lead \in Nat /\ call[c].asg.lease \in Nat
      BY <1>1, CallerInv
    <3>4. call[c].asg.lease > new.delivered + Margin + Lead BY <1>2, <3>2, <3>3
    <3> QED BY <1>2, <1>5, <1>6, <2>3, <3>1, <3>4 DEF OperationKept, Current
  <2>4. d # c => OperationKept(d)' BY <1>5, <1>6, <2>0 DEF OperationKept, Current
  <2> QED BY <2>1, <2>2, <2>3, <2>4
<1>18. SectionInv' BY <1>16, <1>17 DEF SectionInv
<1>19. PreparedPlacementHolds' BY <1>5, <1>6 DEF PreparedPlacementHolds
<1> QED BY <1>4, <1>8, <1>11, <1>13, <1>14, <1>15, <1>18, <1>19

\* A KNK goes out: a plain one under a new number, that of an operation under the
\* operation's own number to the operation's cell, and only once it is durable.
LEMMA SendKnockSafe == ASSUME SInv, NEW c \in Callers, SendKnock(c) PROVE SInv'
<1> USE DEF SInv
<1> DEFINE id == IF stage[c] = "plain" THEN runs + 1 ELSE op[c].id
           knk == [run |-> id, op |-> IF stage[c] = "plain" THEN 0 ELSE id,
                   to |-> AddressOf(call[c].asg)]
<1>1. /\ pc[c] = "use" /\ stage[c] \in {"knocking", "plain"} /\ EndUse(c)
      /\ runs' = (IF stage[c] = "plain" THEN id ELSE runs)
      /\ run' = [run EXCEPT ![c] = id] /\ stage' = [stage EXCEPT ![c] = "waiting"]
      /\ knks' = knks \cup {knk}
      /\ UNCHANGED <<op, journal, receipts, resolved, sessions, closed>>
  BY DEF SendKnock, cellVars
<1>2. IInv' BY RenewalKept DEF SessionNext, CallerStep
<1>3. /\ pc'[c] = "idle" /\ UNCHANGED <<now, mu, live>>
      /\ \A d \in Callers \ {c} : pc'[d] = pc[d] /\ call'[d] = call[d]
  BY <1>1, EndUseFacts
<1>4. StageOf(c) BY CallerInv
<1>5. runs \in Nat /\ AddressOf(call[c].asg) \in Address
      /\ AddressOf(call[c].asg).cell = call[c].asg.cell
  BY <1>1, CallerInv DEF SessionType, AddressOf, Address, Assignment, AssignmentSet
<1>6. ASSUME stage[c] = "knocking"
      PROVE  /\ op[c] \in journal /\ op[c].id = id /\ id \in 1..runs
             /\ op[c].cell = knk.to.cell
  <2>1. op[c] \in journal BY <1>4, <1>6 DEF StageOf
  <2>2. op[c].id \in 1..runs BY <2>1 DEF IdInv, KnownOps
  <2>3. Admissible(op[c], call[c].asg) BY <1>6 DEF SendKnock, CanSend
  <2> QED BY <1>5, <1>6, <2>1, <2>2, <2>3 DEF Admissible
<1>7. /\ id \in 1..runs' /\ id # 0 /\ id \in Nat /\ runs' \in Nat /\ runs <= runs'
      /\ stage[c] = "plain" => id = runs + 1
  BY <1>1, <1>5, <1>6
<1>8. /\ knk \in Knk /\ knk.run = id
      /\ knk.op = IF stage[c] = "plain" THEN 0 ELSE id
  BY <1>5, <1>7 DEF Knk
<1> HIDE DEF id, knk
<1>9. SessionType' BY <1>1, <1>7, <1>8 DEF SessionType, Stages
<1>10. /\ stage'[c] = "waiting" /\ run'[c] = id
       /\ \A d \in Callers \ {c} : stage'[d] = stage[d] /\ run'[d] = run[d]
  BY <1>1 DEF SessionType
<1>11. StageOf(c)' BY <1>1, <1>3, <1>4, <1>7, <1>10 DEF StageOf, Current
<1>12. StageInv' BY <1>1, <1>3, <1>10, <1>11, StageStep
<1>13. KnownOps' = KnownOps BY <1>1 DEF KnownOps
<1>14. IdInv' BY <1>5, <1>7, <1>13 DEF IdInv
<1>15. KnkInv'
  <2> SUFFICES ASSUME NEW k \in knks \cup sessions \cup {knk}
               PROVE  /\ k.run \in 1..runs'
                      /\ k.op # 0 => k.op = k.run /\ \E o \in journal : o.id = k.op /\ o.cell = k.to.cell
                      /\ k.op = 0 => \A o \in KnownOps : o.id # k.run
    BY <1>1, <1>13 DEF KnkInv
  <2>1. CASE k \in knks \cup sessions BY <1>5, <1>7, <2>1 DEF KnkInv
  <2>2. CASE k = knk /\ stage[c] = "plain"
    <3>1. \A o \in KnownOps : o.id \in 1..runs BY DEF IdInv
    <3> QED BY <1>5, <1>7, <1>8, <2>2, <3>1
  <2>3. CASE k = knk /\ stage[c] = "knocking" BY <1>6, <1>7, <1>8, <2>3
  <2> QED BY <1>1, <2>1, <2>2, <2>3
<1>16. CloseInv' BY <1>1 DEF CloseInv
<1>17. now \in Nat /\ \A d \in Callers : Current(d)' = Current(d)
  BY <1>3 DEF IInv, TypeOK, Current
<1>18. SectionInv' /\ PreparedPlacementHolds' BY <1>1, <1>3, <1>10, <1>17, FrameSection
<1> QED BY <1>2, <1>9, <1>12, <1>14, <1>15, <1>16, <1>18

\* Retirement, recovery and the cells touch neither bindings nor callers.
LEMMA CellStepSafe ==
  ASSUME SInv, IInv', UNCHANGED vars, UNCHANGED <<stage, op, run, runs, journal, knks>>,
         SessionType', CloseInv',
         \A k \in sessions' \ sessions :
           /\ k.run \in 1..runs
           /\ k.op # 0 => k.op = k.run /\ \E o \in journal : o.id = k.op /\ o.cell = k.to.cell
           /\ k.op = 0 => \A o \in KnownOps : o.id # k.run
  PROVE  SInv'
<1> USE DEF SInv
<1>1. UNCHANGED <<now, mu, live, pc, call>> BY DEF vars, processVars
<1>2. KnownOps' = KnownOps BY DEF KnownOps
<1>3. IdInv' BY <1>2 DEF IdInv
<1>4. KnkInv'
  <2>1. \A k \in knks' \cup sessions' : k \in knks \cup sessions \/ k \in sessions' \ sessions
    OBVIOUS
  <2> QED BY <1>2, <2>1 DEF KnkInv
<1>5. StageInv' BY <1>1 DEF StageInv, StageOf, Current
<1>6. now \in Nat /\ \A d \in Callers : Current(d)' = Current(d)
  BY <1>1 DEF IInv, TypeOK, Current
<1>7. SectionInv' /\ PreparedPlacementHolds' BY <1>1, <1>6, FrameSection
<1> QED BY <1>3, <1>4, <1>5, <1>7

\* An exact-session close: the cell ends the session and keeps a record of it.
LEMMA RetireSafe == ASSUME SInv, NEW r \in receipts, Retire(r) PROVE SInv'
<1> USE DEF SInv
<1>1. IInv' BY RenewalKept DEF SessionNext
<1>2. PICK k \in sessions :
        /\ sessions' = sessions \ {k}
        /\ closed' = closed \cup {[cell |-> k.to.cell, run |-> k.run]}
  BY DEF Retire
<1>3. /\ UNCHANGED vars /\ receipts' \subseteq receipts
      /\ UNCHANGED <<stage, op, run, runs, journal, knks, resolved>>
  BY DEF Retire
<1>4. k \in Knk /\ [cell |-> k.to.cell, run |-> k.run] \in [cell : Cells, run : Nat \ {0}]
  BY DEF SessionType, Knk, Address
<1>5. SessionType' BY <1>2, <1>3, <1>4 DEF SessionType
<1>6. CloseInv' BY <1>2, <1>3 DEF CloseInv
<1> QED BY <1>1, <1>2, <1>3, <1>5, <1>6, CellStepSafe

\* Recovery closes the session of an operation in the cell the journal names.
LEMMA RecoverClosesSafe == ASSUME SInv, NEW o \in journal, RecoverCloses(o) PROVE SInv'
<1> USE DEF SInv
<1>1. IInv' BY RenewalKept DEF SessionNext, Recover
<1>2. PICK k \in sessions :
        /\ k.op = o.id
        /\ sessions' = sessions \ {k}
        /\ closed' = closed \cup {[cell |-> k.to.cell, run |-> o.id]}
  BY DEF RecoverCloses
<1>3. /\ UNCHANGED vars
      /\ UNCHANGED <<stage, op, run, runs, journal, knks, receipts, resolved>>
  BY DEF RecoverCloses, sessionVars
<1>4. k \in Knk /\ o \in Operation BY DEF SessionType
<1>5. o.id # 0 /\ k.run = o.id
      /\ [cell |-> k.to.cell, run |-> o.id] \in [cell : Cells, run : Nat \ {0}]
  BY <1>2, <1>4 DEF KnkInv, Knk, Address, Operation
<1>6. SessionType' BY <1>2, <1>3, <1>5 DEF SessionType
<1>7. CloseInv' BY <1>2, <1>3, <1>5 DEF CloseInv
<1> QED BY <1>1, <1>2, <1>3, <1>6, <1>7, CellStepSafe

\* A terminal record is written when no session of the operation is open in the
\* cell: none of its run is open there either.
LEMMA TerminalSafe ==
  ASSUME SInv, NEW o \in journal,
         RecoverCompletes(o) \/ RecoverUnanswered(o)
  PROVE  SInv'
<1> USE DEF SInv
<1> DEFINE record == [cell |-> o.cell, run |-> o.id]
<1>1. IInv' BY RenewalKept DEF SessionNext, Recover
<1>2. /\ \A k \in sessions : ~(k.op = o.id /\ k.to.cell = o.cell)
      /\ closed' = closed \cup {record}
      /\ UNCHANGED <<vars, stage, op, run, runs, journal, knks, receipts, sessions>>
  BY DEF RecoverCompletes, RecoverUnanswered, Terminal, RecoveryAddress, AddressOf
<1>3. resolved' = resolved \/ resolved' = resolved \cup {o}
  BY DEF RecoverCompletes, RecoverUnanswered
<1>4. o \in Operation /\ record \in [cell : Cells, run : Nat \ {0}]
  BY DEF SessionType, Operation
<1>5. SessionType' BY <1>2, <1>3, <1>4 DEF SessionType
<1>6. \A k \in sessions : [cell |-> k.to.cell, run |-> k.run] # record
  <2> SUFFICES ASSUME NEW k \in sessions, k.to.cell = o.cell, k.run = o.id PROVE FALSE
    OBVIOUS
  <2>1. k.op # o.id BY <1>2
  <2>2. k.op = 0 BY <2>1 DEF KnkInv
  <2> QED BY <2>2 DEF KnkInv, KnownOps
<1> HIDE DEF record
<1>7. \A p \in resolved' : [cell |-> p.cell, run |-> p.id] \in closed'
  BY <1>2, <1>3 DEF CloseInv, record
<1>8. CloseInv' BY <1>2, <1>6, <1>7 DEF CloseInv
<1> QED BY <1>1, <1>2, <1>5, <1>8, CellStepSafe

\* A cell admits the KNK recovery sent: the session is that of the operation.
LEMMA RecoverAdmittedSafe == ASSUME SInv, NEW o \in journal, RecoverAdmitted(o) PROVE SInv'
<1> USE DEF SInv
<1> DEFINE k == [run |-> o.id, op |-> o.id, to |-> AddressOf(o)]
<1>1. IInv' BY RenewalKept DEF SessionNext, Recover
<1>2. /\ [cell |-> o.cell, run |-> o.id] \notin closed
      /\ \A s \in sessions : s.op # o.id
      /\ sessions' = sessions \cup {k}
      /\ UNCHANGED <<vars, stage, op, run, runs, journal, knks, resolved, closed>>
  BY DEF RecoverAdmitted, RecoveryAddress, AddressOf
<1>3. o \in Operation BY DEF SessionType
<1>4. k \in Knk /\ k.run = o.id /\ k.op = o.id /\ k.to.cell = o.cell
  BY <1>3 DEF Knk, Address, AddressOf, Operation
<1>5. receipts' \subseteq Receipt
  <2>1. CASE UNCHANGED receipts BY <2>1 DEF SessionType
  <2>2. ASSUME NEW b \in Bindings,
               receipts' = receipts \cup {[run |-> k.run, op |-> k.op, at |-> k.to, holder |-> b]}
        PROVE  receipts' \subseteq Receipt
    <3>1. [run |-> k.run, op |-> k.op, at |-> k.to, holder |-> b] \in Receipt
      BY <1>4 DEF Knk, Receipt
    <3> QED BY <2>2, <3>1 DEF SessionType
  <2> QED BY <2>1, <2>2 DEF RecoverAdmitted, RecoveryAddress
<1> HIDE DEF k
<1>6. SessionType' BY <1>2, <1>4, <1>5 DEF SessionType
<1>7. o.id \in 1..runs /\ \A s \in sessions : s.run # o.id
  <2>1. o.id \in 1..runs BY DEF IdInv, KnownOps
  <2>2. ASSUME NEW s \in sessions, s.run = o.id PROVE FALSE
    <3>1. s.op = 0 BY <1>2, <2>2 DEF KnkInv
    <3> QED BY <2>2, <3>1 DEF KnkInv, KnownOps
  <2> QED BY <2>1, <2>2
<1>8. CloseInv' BY <1>2, <1>4, <1>7 DEF CloseInv
<1>9. \A s \in sessions' \ sessions : s = k BY <1>2
<1>10. o.id # 0 BY <1>3 DEF Operation
<1> QED BY <1>1, <1>2, <1>4, <1>6, <1>7, <1>8, <1>9, <1>10, CellStepSafe

\* A KNK reaches its cell.
LEMMA CellAdmitsSafe == ASSUME SInv, NEW k \in knks, CellAdmits(k) PROVE SInv'
<1> USE DEF SInv
<1>1. IInv' BY RenewalKept DEF SessionNext
<1>2. /\ [cell |-> k.to.cell, run |-> k.run] \notin closed
      /\ \A s \in sessions : s.run # k.run \/ s.to.cell # k.to.cell
      /\ sessions' = sessions \cup {k}
      /\ UNCHANGED <<vars, stage, op, run, runs, journal, knks, receipts, resolved, closed>>
  BY DEF CellAdmits, sessionVars
<1>3. SessionType' BY <1>2 DEF SessionType
<1>4. CloseInv' BY <1>2 DEF CloseInv
<1>5. \A s \in sessions' \ sessions : s \in knks BY <1>2
<1> QED BY <1>1, <1>2, <1>3, <1>4, <1>5, CellStepSafe DEF KnkInv

-----------------------------------------------------------------------------
(***************************************************************************)
(* Safety of the sessions.                                                 *)
(***************************************************************************)

\* The invariant holds initially.
LEMMA SessionInitSafe == SessionInit => SInv
<1> SUFFICES ASSUME SessionInit PROVE SInv OBVIOUS
<1>1. IInv BY InitInv DEF SessionInit
<1>2. /\ Init /\ stage = [c \in Callers |-> "none"] /\ op = [c \in Callers |-> None]
      /\ run = [c \in Callers |-> 0] /\ runs = 0 /\ journal = {} /\ knks = {}
      /\ receipts = {} /\ resolved = {} /\ sessions = {} /\ closed = {}
      /\ pc = [c \in Callers |-> "idle"] /\ call = [c \in Callers |-> None]
  BY DEF SessionInit, Init
<1>3. SessionType BY <1>2 DEF SessionType, Stages
<1>4. StageInv BY <1>2 DEF StageInv, StageOf
<1>5. IdInv /\ KnkInv /\ CloseInv BY <1>2 DEF IdInv, KnownOps, KnkInv, CloseInv
<1>6. SectionInv
  BY <1>2 DEF SectionInv, Renewing, Alone, InSectionOf, MarginKept, OperationKept
<1>7. PreparedPlacementHolds BY <1>2 DEF PreparedPlacementHolds
<1> QED BY <1>1, <1>3, <1>4, <1>5, <1>6, <1>7 DEF SInv

\* Every step keeps it.
LEMMA SessionStepSafe == SInv /\ [SessionNext]_allVars => SInv'
<1> SUFFICES ASSUME SInv, [SessionNext]_allVars PROVE SInv' OBVIOUS
<1>1. CASE UNCHANGED allVars
  <2>1. UNCHANGED <<vars, sessionVars, cellVars>> BY <1>1 DEF allVars
  <2>2. IInv' BY RenewalKept DEF SInv
  <2>3. SessionType' /\ IdInv' /\ KnkInv' /\ CloseInv' BY <2>1, FrameSessions
  <2>4. UNCHANGED <<stage, op, run, runs, journal, knks, sessions>>
    BY <2>1 DEF sessionVars, cellVars
  <2> QED BY <2>1, <2>2, <2>3, <2>4, CellStepSafe
<1>2. ASSUME NEW c \in Callers, CallerStep(c) PROVE SInv'
  BY <1>2, RenewalStepSafe, BeginPrepareSafe, PrepareOperationSafe, FailSafe,
     CommitOperationSafe, BeginKnockSafe, SendKnockSafe, AnswerSafe DEF CallerStep
<1>3. ASSUME NEW o \in journal, Recover(o) PROVE SInv'
  BY <1>3, RecoverClosesSafe, TerminalSafe, RecoverAdmittedSafe DEF Recover
<1> QED BY <1>1, <1>2, <1>3, RetireSafe, CellAdmitsSafe, CrashSafe, EnvironmentSafe
        DEF SessionNext

\* The inductive invariant of the sessions.
THEOREM SessionInvariant == SessionSpec => []SInv
BY SessionInitSafe, SessionStepSafe, PTL DEF SessionSpec

\* The module's type invariant; a caller between preparation and answer has its
\* operation.
THEOREM SessionTypes == SessionSpec => []SessionTypeOK
<1>1. SInv => SessionTypeOK
  BY DEF SInv, IInv, SessionType, StageInv, StageOf, SessionTypeOK
<1> QED BY <1>1, SessionInvariant, PTL

\* However late a KNK arrives and whatever crashed or moved meanwhile: the
\* session of an operation is in reach of the journal, and is closed once
\* RecoverNativeSessionOperation has reported the operation complete.
THEOREM SessionsRecoverable == SessionSpec => []NoSessionEscapes
<1>1. SInv => SessionsJournaled
  <2> SUFFICES ASSUME SInv, NEW k \in sessions, k.op # 0
               PROVE  \E o \in journal : o.id = k.op /\ RecoveryAddress(o).cell = k.to.cell
    BY DEF SessionsJournaled
  <2>1. PICK o \in journal : o.id = k.op /\ o.cell = k.to.cell BY DEF SInv, KnkInv
  <2> QED BY <2>1 DEF RecoveryAddress, AddressOf
<1>2. SInv => ResolvedMeansClosed
  <2> SUFFICES ASSUME SInv, NEW o \in resolved, NEW k \in sessions, k.op = o.id
               PROVE  FALSE
    BY DEF ResolvedMeansClosed
  <2> USE DEF SInv
  <2>1. o \in journal /\ o \in Operation BY DEF SessionType
  <2>2. o.id # 0 BY <2>1 DEF Operation
  <2>3. k.run = o.id BY <2>2 DEF KnkInv
  <2>4. PICK p \in journal : p.id = k.op /\ p.cell = k.to.cell BY <2>2 DEF KnkInv
  <2>5. p = o BY <2>1, <2>4 DEF IdInv, KnownOps
  <2>6. [cell |-> o.cell, run |-> o.id] \in closed BY DEF CloseInv
  <2> QED BY <2>3, <2>4, <2>5, <2>6 DEF CloseInv
<1> QED BY <1>1, <1>2, SessionInvariant, PTL DEF NoSessionEscapes

\* A caller in the documented critical section that knocks within the journal
\* margin knocks the very placement it prepared, whatever the Hub published, the
\* store holds or other goroutines of the process ask for in between.
THEOREM PreparedPlacement == SessionSpec => []PreparedPlacementHolds
<1>1. SInv => PreparedPlacementHolds BY DEF SInv
<1> QED BY <1>1, SessionInvariant, PTL

-----------------------------------------------------------------------------
(***************************************************************************)
(* Receipts and sessions.                                                  *)
(***************************************************************************)

\* All KNKs of a run go to one cell, and a receipt names that cell: for the run of
\* an operation it is the operation's own.
ReachInv ==
  /\ \A k, l \in knks \cup sessions : k.run = l.run => k.to.cell = l.to.cell
  /\ \A r \in receipts :
       /\ r.run \in 1..runs
       /\ \A k \in knks \cup sessions : k.run = r.run => k.to.cell = r.at.cell
       /\ \A o \in KnownOps : o.id = r.run => o.cell = r.at.cell

\* A KNK of the run of an operation goes to the operation's cell.
LEMMA KnkOfOperation ==
  ASSUME SInv, NEW k \in knks \cup sessions, NEW o \in KnownOps, o.id = k.run
  PROVE  k.to.cell = o.cell
<1> USE DEF SInv
<1>1. k.op # 0 BY DEF KnkInv
<1>2. PICK p \in journal : p.id = k.op /\ p.cell = k.to.cell /\ k.op = k.run
  BY <1>1 DEF KnkInv
<1>3. p \in KnownOps BY DEF KnownOps
<1>4. p = o BY <1>2, <1>3 DEF IdInv
<1> QED BY <1>2, <1>4

\* The same of the KNKs after a step.
LEMMA KnkOfNext ==
  ASSUME SInv', NEW k \in knks' \cup sessions', NEW o \in KnownOps', o.id = k.run
  PROVE  k.to.cell = o.cell
<1> USE DEF SInv
<1>1. k.op # 0 BY DEF KnkInv
<1>2. PICK p \in journal' : p.id = k.op /\ p.cell = k.to.cell /\ k.op = k.run
  BY <1>1 DEF KnkInv
<1>3. p \in KnownOps' BY DEF KnownOps
<1>4. p = o BY <1>2, <1>3 DEF IdInv
<1> QED BY <1>2, <1>4

\* Steps that send, admit, acknowledge and prepare nothing new.
LEMMA FrameReach ==
  ASSUME SInv, SInv', ReachInv,
         knks' \cup sessions' \subseteq knks \cup sessions, receipts' \subseteq receipts,
         runs' = runs, KnownOps' \subseteq KnownOps
  PROVE  ReachInv'
BY DEF ReachInv

\* Every step keeps it.
LEMMA ReachKept == ASSUME SInv, SInv', ReachInv, [SessionNext]_allVars PROVE ReachInv'
<1>0. runs \in Nat /\ op \in [Callers -> Operation \cup {None}] /\ journal \subseteq Operation
      /\ None \notin Operation
  BY SessionAssumption DEF SInv, SessionType
<1>1. CASE UNCHANGED <<sessionVars, cellVars>>
  <2>1. UNCHANGED <<op, runs, journal, knks, receipts, sessions>>
    BY <1>1 DEF sessionVars, cellVars
  <2> QED BY <2>1, FrameReach DEF KnownOps
<1>2. ASSUME NEW c \in Callers, CallerStep(c) PROVE ReachInv'
  <2>1. CASE RenewalStep(c) /\ UNCHANGED <<sessionVars, cellVars>> BY <1>1, <2>1
  <2>2. CASE BeginPrepare(c) \/ BeginKnock(c)
    <3>1. UNCHANGED <<op, runs, journal, knks, receipts, sessions>>
      BY <2>2 DEF BeginPrepare, BeginKnock, cellVars
    <3> QED BY <3>1, FrameReach DEF KnownOps
  <2>3. CASE PrepareFails(c) \/ KnockFails(c) \/ KnockUnanswered(c)
    <3>1. /\ UNCHANGED <<runs, journal, knks, receipts, sessions>>
          /\ op' = [op EXCEPT ![c] = None]
      BY <2>3 DEF PrepareFails, KnockFails, KnockUnanswered, Stop, cellVars
    <3>2. KnownOps' \subseteq KnownOps BY <1>0, <3>1 DEF KnownOps
    <3> QED BY <3>1, <3>2, FrameReach
  <2>4. CASE CommitOperation(c)
    <3>1. /\ UNCHANGED <<op, runs, knks, receipts, sessions>>
          /\ journal' = journal \cup {op[c]} /\ stage[c] = "prepared"
      BY <2>4 DEF CommitOperation, cellVars
    <3>2. op[c] # None BY <3>1 DEF SInv, StageInv, StageOf
    <3>3. KnownOps' \subseteq KnownOps BY <3>1, <3>2 DEF KnownOps
    <3> QED BY <3>1, <3>3, FrameReach
  <2>5. CASE PrepareOperation(c)
    <3> DEFINE new == NewOperation(c)
    <3>1. /\ UNCHANGED <<journal, knks, receipts, sessions>>
          /\ op' = [op EXCEPT ![c] = new] /\ runs' = runs + 1 /\ new.id = runs + 1
      BY <2>5 DEF PrepareOperation, NewOperation, cellVars
    <3> HIDE DEF new
    <3>2. KnownOps' \subseteq KnownOps \cup {new} BY <1>0, <3>1 DEF KnownOps
    <3>3. \A r \in receipts : r.run # new.id BY <1>0, <3>1 DEF ReachInv
    <3>4. 1..runs \subseteq 1..runs' BY <1>0, <3>1
    <3> QED BY <3>1, <3>2, <3>3, <3>4 DEF ReachInv
  <2>6. CASE SendKnock(c)
    <3> DEFINE id == IF stage[c] = "plain" THEN runs + 1 ELSE op[c].id
               knk == [run |-> id, op |-> IF stage[c] = "plain" THEN 0 ELSE id,
                       to |-> AddressOf(call[c].asg)]
    <3>1. /\ UNCHANGED <<op, journal, receipts, sessions>> /\ knks' = knks \cup {knk}
          /\ stage[c] \in {"knocking", "plain"}
          /\ runs' = IF stage[c] = "plain" THEN runs + 1 ELSE runs
      BY <2>6 DEF SendKnock, cellVars
    <3>2. KnownOps' = KnownOps BY <3>1 DEF KnownOps
    <3>3. 1..runs \subseteq 1..runs' BY <1>0, <3>1
    <3>4. knk.run = id /\ knk \in knks' BY <3>1
    <3>5. CASE stage[c] = "plain"
      <4>1. id = runs + 1 BY <3>5
      <4> HIDE DEF id, knk
      <4>2. \A k \in knks \cup sessions : k.run # id BY <1>0, <4>1 DEF SInv, KnkInv
      <4>3. \A r \in receipts : r.run # id BY <1>0, <4>1 DEF ReachInv
      <4> QED BY <3>1, <3>2, <3>3, <3>4, <4>2, <4>3 DEF ReachInv
    <3>6. CASE stage[c] = "knocking"
      <4>1. op[c] \in KnownOps /\ op[c].id = id
        BY <3>6 DEF SInv, StageInv, StageOf, KnownOps
      <4> HIDE DEF id, knk
      <4>2. knk.to.cell = op[c].cell BY <3>2, <3>4, <4>1, KnkOfNext
      <4>3. \A k \in knks \cup sessions : k.run = id => k.to.cell = op[c].cell
        BY <4>1, KnkOfOperation
      <4> QED BY <3>1, <3>2, <3>3, <3>4, <4>1, <4>2, <4>3 DEF ReachInv
    <3> QED BY <3>1, <3>5, <3>6
  <2>7. CASE ReceiveAdmission(c)
    <3>1. PICK k \in sessions :
            receipts' = receipts \cup
              {[run |-> k.run, op |-> k.op, at |-> k.to, holder |-> BindingOf[c]]}
      BY <2>7 DEF ReceiveAdmission
    <3>2. /\ UNCHANGED <<runs, journal, knks, sessions>> /\ op' = [op EXCEPT ![c] = None]
      BY <2>7 DEF ReceiveAdmission, Stop, cellVars
    <3>3. KnownOps' \subseteq KnownOps BY <1>0, <3>2 DEF KnownOps
    <3>4. k.run \in 1..runs /\ \A o \in KnownOps : o.id = k.run => o.cell = k.to.cell
      BY KnkOfOperation DEF SInv, KnkInv
    <3> QED BY <3>1, <3>2, <3>3, <3>4 DEF ReachInv
  <2> QED BY <1>2, <2>1, <2>2, <2>3, <2>4, <2>5, <2>6, <2>7 DEF CallerStep
<1>3. ASSUME NEW r \in receipts, Retire(r) PROVE ReachInv'
  <2>1. /\ UNCHANGED <<op, runs, journal, knks>>
        /\ sessions' \subseteq sessions /\ receipts' \subseteq receipts
    BY <1>3 DEF Retire
  <2> QED BY <2>1, FrameReach DEF KnownOps
<1>4. ASSUME NEW o \in journal, Recover(o) PROVE ReachInv'
  <2>1. CASE RecoverCloses(o) \/ RecoverCompletes(o) \/ RecoverUnanswered(o)
    <3>1. UNCHANGED <<op, runs, journal, knks, receipts>> /\ sessions' \subseteq sessions
      BY <2>1 DEF RecoverCloses, RecoverCompletes, RecoverUnanswered, Terminal, sessionVars
    <3> QED BY <3>1, FrameReach DEF KnownOps
  <2>2. CASE RecoverAdmitted(o)
    <3> DEFINE k == [run |-> o.id, op |-> o.id, to |-> AddressOf(o)]
    <3>1. /\ UNCHANGED <<op, runs, journal, knks>> /\ sessions' = sessions \cup {k}
          /\ \A r \in receipts' : r \in receipts \/ (r.run = k.run /\ r.at = k.to)
      BY <2>2 DEF RecoverAdmitted, RecoveryAddress
    <3>2. k.run = o.id /\ k.to.cell = o.cell BY DEF AddressOf
    <3> HIDE DEF k
    <3>3. o \in KnownOps /\ KnownOps' = KnownOps BY <3>1 DEF KnownOps
    <3>4. o.id \in 1..runs /\ \A p \in KnownOps : p.id = o.id => p = o
      BY <3>3 DEF SInv, IdInv
    <3>5. \A l \in knks \cup sessions : l.run = o.id => l.to.cell = o.cell
      BY <3>3, KnkOfOperation
    <3> QED BY <3>1, <3>2, <3>3, <3>4, <3>5 DEF ReachInv
  <2> QED BY <1>4, <2>1, <2>2 DEF Recover
<1>5. ASSUME NEW k \in knks, CellAdmits(k) PROVE ReachInv'
  <2>1. /\ UNCHANGED <<op, runs, journal, knks, receipts>> /\ sessions' = sessions \cup {k}
    BY <1>5 DEF CellAdmits, sessionVars
  <2> QED BY <2>1, FrameReach DEF KnownOps
<1>6. ASSUME NEW b \in Bindings, Crash(b) PROVE ReachInv'
  <2>1. /\ UNCHANGED <<runs, journal, knks, sessions>> /\ receipts' \subseteq receipts
        /\ op' = [c \in Callers |-> IF c \in Users(b) THEN None ELSE op[c]]
    BY <1>6 DEF Crash, cellVars
  <2>2. KnownOps' \subseteq KnownOps BY <1>0, <2>1 DEF KnownOps
  <2> QED BY <2>1, <2>2, FrameReach
<1> QED BY <1>1, <1>2, <1>3, <1>4, <1>5, <1>6 DEF SessionNext, SessionEnvironment, allVars

\* A close by receipt reaches the session wherever the binding has moved since
\* (RetireRegisteredAgentSession), for any number of cells, knocks and moves.
THEOREM ReceiptsReachSessions == SessionSpec => []HeldSessionsInReach
<1>1. SessionInit => ReachInv
  BY DEF SessionInit, ReachInv
<1>2. SInv /\ SInv' /\ ReachInv /\ [SessionNext]_allVars => ReachInv' BY ReachKept
<1>3. ReachInv => HeldSessionsInReach BY DEF ReachInv, HeldSessionsInReach, RetirementAddress
<1> QED BY <1>1, <1>2, <1>3, SessionInvariant, PTL DEF SessionSpec

=============================================================================
