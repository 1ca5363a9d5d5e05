------------------------- MODULE PortalOpenerProofs -------------------------
(***************************************************************************)
(* Proofs about PortalOpener: whatever Start calls, renewals, recoveries   *)
(* and Do calls overlap, the opener stays one visitor of one target; Close *)
(* is final; and a handle that still lives is given up only by Close.      *)
(*                                                                         *)
(* The argument.  An open belongs to the owner of the start attempt or to  *)
(* the renewal loop that runs, and there is one of these at a time:        *)
(* OwnerInv says that an attempt excludes every loop and every other       *)
(* attempt, LoopInv that only the last loop runs and that it follows the   *)
(* cached handle.  VisitorInv and TargetInv then carry the one capability  *)
(* and the one target from the first open to every later one, and FinalInv *)
(* says what Close found ended.                                            *)
(***************************************************************************)
EXTENDS PortalOpener, FiniteSetTheorems, TLAPS

States == {"new", "starting", "running", "degraded", "closed"}
Dormant == {"off", "exit", "done"}
Places == Dormant \cup {"wait", "try", "open", "retry", "hold"}
OpenRecord == [since : Nat, expects : Targets \cup {None}]

OpenerTypes ==
  /\ now \in Nat
  /\ state \in States
  /\ recovery \in BOOLEAN
  /\ active \in Nat \cup {None}
  /\ target \in Targets \cup {None}
  /\ expiry \in Nat /\ renewAt \in Nat
  /\ secret \in Nat
  /\ loopDone \in 0..MaxLoops
  /\ loops \in [Loops -> [at : Places, expiry : Nat]]
  /\ start \in [Starters -> {"idle", "called", "joined", "expired", "owner"}]
  /\ open \in [Owners -> OpenRecord \cup {None}]
  /\ request \in [Requesters -> Targets \cup {None}]
  /\ closing \in {"no", "waiting", "done"}
  /\ reached \subseteq Targets

\* The owner of a start attempt is alone, and no loop runs beside it.
OwnerInv ==
  \A s \in Starters : start[s] = "owner" =>
    /\ state \in {"starting", "closed"}
    /\ \A w \in Starters : start[w] = "owner" => w = s
    /\ \A l \in Loops : loops[l].at \in Dormant

\* Only the last loop runs, and it follows the cached handle.
LoopInv ==
  /\ \A l \in Loops : l > loopDone => loops[l].at = "off"
  /\ \A l \in Loops : loops[l].at \notin Dormant =>
       l = loopDone /\ state \in {"running", "closed"}
  /\ state = "running" =>
       /\ loopDone # 0
       /\ loops[loopDone].at \notin Dormant
       /\ loops[loopDone].expiry = expiry
       /\ active = expiry

\* An open in flight belongs to an owner or to the loop that runs, and expects
\* the target the opener has.
OpenInv ==
  /\ \A s \in Starters : open[s] # None => start[s] = "owner"
  /\ \A l \in Loops : open[l] # None => loops[l].at = "open"
  /\ \A l \in Loops : loops[l].at = "open" =>
       open[l] \in OpenRecord /\ (state # "closed" => open[l].expects = target)
  /\ state # "closed" => \A w \in Owners : open[w] # None => open[w].expects = target

\* One visitor capability is ever made, unless Close has taken it away.
VisitorInv ==
  /\ visitors \in {{}, {1}}
  /\ secret = 0 => visitors = {} \/ closing = "done"
  /\ secret # 0 => secret = 1 /\ visitors = {1}

\* The target, the targets Do has copied and those it addressed are one.
Addressed == reached \cup ({request[r] : r \in Requesters} \ {None})
TargetInv ==
  /\ \A x, y \in Addressed : x = y
  /\ target # None => Addressed \subseteq {target}
  /\ target = None /\ state # "closed" => Addressed = {}

\* Close has ended what it found.
FinalInv ==
  /\ closing = "no" <=> state # "closed"
  /\ closing = "done" =>
       /\ active = None /\ target = None /\ secret = 0
       /\ \A s \in Starters : start[s] # "owner"
       /\ \A l \in Loops : loops[l].at \in Dormant

OpenerInv ==
  OpenerTypes /\ OwnerInv /\ LoopInv /\ OpenInv /\ VisitorInv /\ TargetInv /\ FinalInv

-----------------------------------------------------------------------------
(* The operators. *)

\* secretFor makes the first capability once; later opens carry the same one.
LEMMA SecretIsOne ==
  ASSUME VisitorInv, closing # "done"
  PROVE  /\ SecretFor = 1
         /\ visitors \cup {SecretFor} = {1}
<1>1. CASE secret = 0
  <2>1. visitors = {}  BY <1>1 DEF VisitorInv
  <2>2. Cardinality(visitors) = 0  BY <2>1, FS_EmptySet
  <2>  QED  BY <1>1, <2>1, <2>2 DEF SecretFor
<1>2. CASE secret # 0
  BY <1>2 DEF SecretFor, VisitorInv
<1>  QED  BY <1>1, <1>2

\* The lead is a natural number below the lifetime, whatever its bounds.
LEMMA LeadWithinLife ==
  RenewalLead \in Nat /\ RenewalLead < Life
BY PortalOpenerAssumption DEF RenewalLead, Smaller, Larger

\* A renewal is due no later than the handle expires.
LEMMA RenewalBeforeExpiry ==
  ASSUME NEW exp \in Nat, now \in Nat, exp >= Life
  PROVE  RenewalTime(exp) \in Nat /\ RenewalTime(exp) <= exp
<1>1. Gap \in Nat /\ Life \in Nat  BY PortalOpenerAssumption
<1>2. PICK lead \in Nat : lead = RenewalLead /\ lead < Life  BY LeadWithinLife
<1>3. RenewalTime(exp) = Smaller(exp, Larger(exp - lead, now + Gap))
  BY <1>2 DEF RenewalTime
<1>4. exp - lead \in Nat /\ now + Gap \in Nat  BY <1>1, <1>2
<1>  QED  BY <1>3, <1>4 DEF Smaller, Larger

\* The starters are not loops.
LEMMA OwnersApart ==
  /\ \A s \in Starters : s \in Owners /\ s \notin Loops
  /\ \A l \in Loops : l \in Owners /\ l \notin Starters /\ l \in Nat /\ l # 0
BY PortalOpenerAssumption DEF Owners, Loops

\* One open at a time: an owner excludes the other owners and every loop, and
\* only the last loop runs.
LEMMA OpensAreAlone ==
  ASSUME OpenerInv, NEW v \in Owners, NEW w \in Owners, open[v] # None, open[w] # None
  PROVE  v = w
<1>1. CASE v \in Starters /\ w \in Starters
  BY <1>1 DEF OpenerInv, OpenInv, OwnerInv
<1>2. CASE v \in Loops /\ w \in Loops
  <2>1. loops[v].at = "open" /\ loops[w].at = "open"  BY <1>2 DEF OpenerInv, OpenInv
  <2>  QED  BY <1>2, <2>1 DEF OpenerInv, LoopInv, Dormant
<1>3. CASE v \in Starters /\ w \in Loops
  BY <1>3 DEF OpenerInv, OpenInv, OwnerInv, Dormant
<1>4. CASE v \in Loops /\ w \in Starters
  BY <1>4 DEF OpenerInv, OpenInv, OwnerInv, Dormant
<1>  QED  BY <1>1, <1>2, <1>3, <1>4 DEF Owners

-----------------------------------------------------------------------------
(* Start. *)

\* A Start call that owns no attempt, and comes to own none, disturbs nothing.
LEMMA WaitersDisturbNothing ==
  ASSUME OpenerInv, NEW s \in Starters, start[s] # "owner",
         NEW l \in {"idle", "called", "joined", "expired"}, Goto(s, l),
         UNCHANGED <<now, state, recovery, cache, secret, loopDone, loops, open, request, closing, ghosts>>
  PROVE  OpenerInv'
<1>1. OpenerTypes'  BY DEF OpenerInv, OpenerTypes, Goto, cache, ghosts, States
<1>2. \A w \in Starters : start'[w] = "owner" => start[w] = "owner"
  BY DEF OpenerInv, OpenerTypes, Goto
<1>3. OwnerInv'  BY <1>2 DEF OpenerInv, OwnerInv, cache, ghosts
<1>4. LoopInv'  BY DEF OpenerInv, LoopInv, cache, ghosts
<1>5. OpenInv'
  <2>1. open[s] = None  BY DEF OpenerInv, OpenInv
  <2>2. \A w \in Starters : w # s => start'[w] = start[w]
    BY DEF OpenerInv, OpenerTypes, Goto
  <2>  QED  BY <2>1, <2>2 DEF OpenerInv, OpenInv, cache, ghosts
<1>6. VisitorInv'  BY DEF OpenerInv, VisitorInv, cache, ghosts
<1>7. TargetInv'  BY DEF OpenerInv, TargetInv, Addressed, cache, ghosts
<1>8. FinalInv'  BY <1>2 DEF OpenerInv, FinalInv, cache, ghosts
<1>  QED  BY <1>1, <1>3, <1>4, <1>5, <1>6, <1>7, <1>8 DEF OpenerInv

\* Start finds a live handle, a closed opener, an attempt or a loop to wait for.
LEMMA DecidesKeeps ==
  ASSUME OpenerInv, NEW s \in Starters, StartDecides(s)
  PROVE  OpenerInv'
<1>1. start[s] # "owner"  BY DEF StartDecides
<1>2. \E l \in {"idle", "called", "joined", "expired"} : Goto(s, l)
  BY DEF StartDecides, StartReady, StartRefused, StartJoins, StartAwaitsLoop
<1>3. UNCHANGED <<now, state, recovery, cache, secret, loopDone, loops, open, request, closing, ghosts>>
  BY DEF StartDecides
<1>  QED  BY <1>1, <1>2, <1>3, WaitersDisturbNothing

\* Start looks again.
LEMMA LooksAgainKeeps ==
  ASSUME OpenerInv, NEW s \in Starters, StartLooksAgain(s)
  PROVE  OpenerInv'
<1>1. start[s] # "owner" /\ Goto(s, "called")  BY DEF StartLooksAgain
<1>2. UNCHANGED <<now, state, recovery, cache, secret, loopDone, loops, open, request, closing, ghosts>>
  BY DEF StartLooksAgain
<1>  QED  BY <1>1, <1>2, WaitersDisturbNothing

\* Start is called.
LEMMA CalledKeeps ==
  ASSUME OpenerInv, NEW s \in Starters, StartCalled(s)
  PROVE  OpenerInv'
<1>1. start[s] # "owner" /\ Goto(s, "called")  BY DEF StartCalled
<1>2. UNCHANGED <<now, state, recovery, cache, secret, loopDone, loops, open, request, closing, ghosts>>
  BY DEF StartCalled
<1>  QED  BY <1>1, <1>2, WaitersDisturbNothing

\* The context of a waiting call ends.
LEMMA GivesUpKeeps ==
  ASSUME OpenerInv, NEW s \in Starters, StartGivesUp(s)
  PROVE  OpenerInv'
<1>1. start[s] # "owner" /\ Goto(s, "idle")  BY DEF StartGivesUp
<1>2. UNCHANGED <<now, state, recovery, cache, secret, loopDone, loops, open, request, closing, ghosts>>
  BY DEF StartGivesUp
<1>  QED  BY <1>1, <1>2, WaitersDisturbNothing

\* A new or degraded opener has no loop running and no other owner, so the
\* attempt begins alone.
LEMMA OwnsKeeps ==
  ASSUME OpenerInv, NEW s \in Starters, StartOwns(s)
  PROVE  OpenerInv'
<1>0. /\ state \in {"new", "degraded"} /\ state' = "starting"
      /\ UNCHANGED <<now, cache, secret, loopDone, loops, open, request, closing, ghosts>>
  BY DEF StartOwns
<1>1. OpenerTypes'  BY DEF StartOwns, OpenerInv, OpenerTypes, Goto, cache, ghosts, States
<1>2. /\ start'[s] = "owner"
      /\ \A w \in Starters : w # s => start'[w] = start[w]
  BY DEF StartOwns, OpenerInv, OpenerTypes, Goto
<1>3. /\ \A w \in Starters : start[w] # "owner"
      /\ \A l \in Loops : loops[l].at \in Dormant
  BY <1>0 DEF OpenerInv, OwnerInv, LoopInv
<1>4. OwnerInv'  BY <1>0, <1>2, <1>3 DEF OwnerInv
<1>5. LoopInv'  BY <1>0, <1>3 DEF OpenerInv, LoopInv
<1>6. OpenInv'  BY <1>0, <1>2, <1>3 DEF OpenerInv, OpenInv, cache
<1>7. VisitorInv'  BY <1>0 DEF OpenerInv, VisitorInv, ghosts
<1>8. TargetInv'  BY <1>0 DEF OpenerInv, TargetInv, Addressed, cache, ghosts
<1>9. FinalInv'
  <2>1. closing = "no"  BY <1>0 DEF OpenerInv, FinalInv
  <2>  QED  BY <1>0, <2>1 DEF FinalInv
<1>  QED  BY <1>1, <1>4, <1>5, <1>6, <1>7, <1>8, <1>9 DEF OpenerInv

\* The parts of the invariant an open does not touch, and those it keeps.
LEMMA BeginOpenKeeps ==
  ASSUME OpenerInv, NEW w \in Owners, BeginOpen(w, target), closing # "done",
         UNCHANGED <<now, state, recovery, cache, loopDone, request, closing, reached>>
  PROVE  /\ secret' \in Nat
         /\ open' \in [Owners -> OpenRecord \cup {None}]
         /\ open'[w] \in OpenRecord /\ open'[w].expects = target
         /\ \A v \in Owners : v # w => open'[v] = open[v]
         /\ VisitorInv'
         /\ TargetInv'
<1> DEFINE asked == [since |-> now, expects |-> target]
<1>1. asked \in OpenRecord /\ asked.expects = target
  BY DEF OpenerInv, OpenerTypes, OpenRecord
<1>2. open' = [open EXCEPT ![w] = asked]  BY DEF BeginOpen
<1> HIDE DEF asked
<1>3. secret' = 1 /\ visitors' = {1}
  <2>1. VisitorInv  BY DEF OpenerInv
  <2>2. secret' = SecretFor /\ visitors' = visitors \cup {SecretFor}  BY DEF BeginOpen
  <2>  QED  BY <2>1, <2>2, SecretIsOne
<1>4. open \in [Owners -> OpenRecord \cup {None}]  BY DEF OpenerInv, OpenerTypes
<1>5. VisitorInv'  BY <1>3 DEF VisitorInv
<1>6. TargetInv'  BY DEF OpenerInv, TargetInv, Addressed, cache
<1>  QED  BY <1>1, <1>2, <1>3, <1>4, <1>5, <1>6

\* The owner of the attempt sends its open.
LEMMA StartOpensKeeps ==
  ASSUME OpenerInv, NEW s \in Starters, StartOpens(s)
  PROVE  OpenerInv'
<1>0. /\ start[s] = "owner" /\ BeginOpen(s, target)
      /\ UNCHANGED <<now, state, recovery, cache, loopDone, loops, start, request, closing, reached>>
  BY DEF StartOpens
<1>1. s \in Owners /\ s \notin Loops /\ closing # "done"
  BY <1>0, OwnersApart DEF OpenerInv, FinalInv
<1>2. /\ secret' \in Nat
      /\ open' \in [Owners -> OpenRecord \cup {None}]
      /\ open'[s] \in OpenRecord /\ open'[s].expects = target
      /\ \A v \in Owners : v # s => open'[v] = open[v]
      /\ VisitorInv' /\ TargetInv'
  BY <1>0, <1>1, BeginOpenKeeps
<1>3. OpenerTypes'  BY <1>0, <1>2 DEF OpenerInv, OpenerTypes, cache
<1>4. OwnerInv'  BY <1>0 DEF OpenerInv, OwnerInv
<1>5. LoopInv'  BY <1>0 DEF OpenerInv, LoopInv, cache
<1>6. OpenInv'  BY <1>0, <1>1, <1>2, OwnersApart DEF OpenerInv, OpenInv, cache
<1>7. FinalInv'  BY <1>0, <1>1 DEF OpenerInv, FinalInv
<1>  QED  BY <1>2, <1>3, <1>4, <1>5, <1>6, <1>7 DEF OpenerInv

\* What an accepted open installs: a handle with its expiry, and the target the
\* opener had if it had one.
LEMMA InstallKeeps ==
  ASSUME OpenerInv, NEW w \in Owners, NEW t \in Targets,
         open[w] \in OpenRecord, open[w].expects = target,
         state # "closed", Confirms(w, t), Install(w, t),
         UNCHANGED <<request, reached>>
  PROVE  /\ expiry' \in Nat /\ active' = expiry' /\ renewAt' \in Nat
         /\ target' \in Targets
         /\ TargetInv'
<1> DEFINE exp == open[w].since + Life
<1>2. exp \in Nat /\ exp >= Life
  <2>1. open[w].since \in Nat  BY DEF OpenRecord
  <2>  QED  BY <2>1, PortalOpenerAssumption
<1>3. active' = exp /\ expiry' = exp /\ renewAt' = RenewalTime(exp) /\ target' = t
  BY DEF Install
<1> HIDE DEF exp
<1>4. renewAt' \in Nat  BY <1>2, <1>3, RenewalBeforeExpiry DEF OpenerInv, OpenerTypes
<1>5. target = None \/ t = target  BY DEF Confirms
<1>6. TargetInv'
  <2>1. Addressed' = Addressed  BY DEF Addressed
  <2>2. target = None => Addressed = {}  BY DEF OpenerInv, TargetInv
  <2>3. target # None => Addressed \subseteq {t}  BY <1>5 DEF OpenerInv, TargetInv
  <2>  QED  BY <1>3, <1>5, <2>1, <2>2, <2>3 DEF OpenerInv, TargetInv
<1>  QED  BY <1>2, <1>3, <1>4, <1>6

\* An attempt that is over has no owner left and no open in flight.
LEMMA AttemptLeavesNothing ==
  ASSUME OpenerInv, NEW s \in Starters, start[s] = "owner", AttemptDone(s)
  PROVE  /\ start' \in [Starters -> {"idle", "called", "joined", "expired", "owner"}]
         /\ \A w \in Starters : start'[w] # "owner"
         /\ open' \in [Owners -> OpenRecord \cup {None}]
         /\ \A w \in Owners : open'[w] = None
<1>1. \A w \in Starters : start[w] = "owner" => w = s
  BY DEF OpenerInv, OwnerInv
<1>2. \A l \in Loops : loops[l].at \in Dormant  BY DEF OpenerInv, OwnerInv
<1>3. \A w \in Owners : open[w] # None => w = s
  BY <1>1, <1>2 DEF OpenerInv, OpenInv, Owners, Dormant
<1>4. open' = [open EXCEPT ![s] = None]
      /\ start' = [w \in Starters |-> IF w = s \/ start[w] = "joined" THEN "idle" ELSE start[w]]
  BY DEF AttemptDone
<1>5. open \in [Owners -> OpenRecord \cup {None}]
      /\ start \in [Starters -> {"idle", "called", "joined", "expired", "owner"}]
  BY DEF OpenerInv, OpenerTypes
<1>6. \A w \in Owners : open'[w] = None  BY <1>3, <1>4, <1>5
<1>7. \A w \in Starters : start'[w] # "owner"  BY <1>1, <1>4
<1>8. open' \in [Owners -> OpenRecord \cup {None}]  BY <1>4, <1>5
<1>9. start' \in [Starters -> {"idle", "called", "joined", "expired", "owner"}]  BY <1>4, <1>5
<1>  QED  BY <1>6, <1>7, <1>8, <1>9

\* The attempt succeeds: its loop is the last one and follows the new handle.
LEMMA SucceedsKeeps ==
  ASSUME OpenerInv, NEW s \in Starters, StartSucceeds(s)
  PROVE  OpenerInv'
<1> DEFINE begun == [at |-> "wait", expiry |-> expiry']
<1>0. /\ start[s] = "owner" /\ open[s] # None /\ state # "closed"
      /\ loopDone < MaxLoops
      /\ state' = "running" /\ loopDone' = loopDone + 1
      /\ loops' = [loops EXCEPT ![loopDone'] = begun]
      /\ AttemptDone(s)
      /\ UNCHANGED <<now, recovery, secret, request, closing, ghosts>>
  BY DEF StartSucceeds
<1>1. s \in Owners  BY OwnersApart
<1>2. PICK t \in Targets : Confirms(s, t) /\ Install(s, t)  BY DEF StartSucceeds
<1>3. /\ expiry' \in Nat /\ active' = expiry' /\ renewAt' \in Nat
      /\ target' \in Targets /\ TargetInv'
  <2>1. open[s] \in OpenRecord /\ open[s].expects = target
    BY <1>0, <1>1 DEF OpenerInv, OpenerTypes, OpenInv
  <2>  QED  BY <1>0, <1>1, <1>2, <2>1, InstallKeeps DEF ghosts
<1>4. /\ start' \in [Starters -> {"idle", "called", "joined", "expired", "owner"}]
      /\ \A w \in Starters : start'[w] # "owner"
      /\ open' \in [Owners -> OpenRecord \cup {None}]
      /\ \A w \in Owners : open'[w] = None
  BY <1>0, AttemptLeavesNothing
<1>5. begun \in [at : Places, expiry : Nat] /\ begun.at = "wait" /\ begun.expiry = expiry'
  BY <1>3 DEF Places
<1> HIDE DEF begun
<1>6. loopDone' \in Loops /\ loopDone' # 0 /\ loopDone' \in 0..MaxLoops
  BY <1>0, PortalOpenerAssumption DEF OpenerInv, OpenerTypes, Loops
<1>7. /\ loops' \in [Loops -> [at : Places, expiry : Nat]]
      /\ loops'[loopDone'] = begun
      /\ \A l \in Loops : l # loopDone' => loops'[l] = loops[l]
  BY <1>0, <1>5, <1>6 DEF OpenerInv, OpenerTypes
<1>8. \A l \in Loops : loops[l].at \in Dormant  BY <1>0 DEF OpenerInv, OwnerInv
<1>9. OpenerTypes'
  BY <1>0, <1>3, <1>4, <1>6, <1>7 DEF OpenerInv, OpenerTypes, States, ghosts
<1>10. OwnerInv'  BY <1>4 DEF OwnerInv
<1>11. LoopInv'
  <2>1. \A l \in Loops : l > loopDone' => loops'[l].at = "off"
    <3>1. \A l \in Loops : l > loopDone' => l > loopDone /\ l # loopDone'
      BY <1>0 DEF Loops, OpenerInv, OpenerTypes
    <3>  QED  BY <3>1, <1>7 DEF OpenerInv, LoopInv
  <2>2. \A l \in Loops : loops'[l].at \notin Dormant => l = loopDone'
    BY <1>7, <1>8
  <2>3. loops'[loopDone'].at \notin Dormant /\ loops'[loopDone'].expiry = expiry'
    BY <1>5, <1>7 DEF Dormant
  <2>  QED  BY <1>0, <1>3, <1>6, <2>1, <2>2, <2>3 DEF LoopInv
<1>12. OpenInv'
  <2>1. \A l \in Loops : loops'[l].at # "open"
    BY <1>5, <1>7, <1>8 DEF Dormant
  <2>  QED  BY <1>4, <2>1, OwnersApart DEF OpenInv
<1>13. VisitorInv'  BY <1>0 DEF OpenerInv, VisitorInv, ghosts
<1>14. FinalInv'
  <2>1. closing = "no"  BY <1>0 DEF OpenerInv, FinalInv
  <2>  QED  BY <1>0, <2>1 DEF FinalInv
<1>  QED  BY <1>3, <1>9, <1>10, <1>11, <1>12, <1>13, <1>14 DEF OpenerInv

\* An attempt that ends without a loop, whatever the opener was before it.
LEMMA AttemptEnds ==
  ASSUME OpenerInv, NEW s \in Starters, start[s] = "owner", AttemptDone(s),
         state' \in {"new", "degraded", "closed"}, state' = "closed" <=> state = "closed",
         active' \in {None, active},
         UNCHANGED <<now, recovery, target, expiry, renewAt, secret, loopDone, loops, request, closing, ghosts>>
  PROVE  OpenerInv'
<1>1. /\ start' \in [Starters -> {"idle", "called", "joined", "expired", "owner"}]
      /\ \A w \in Starters : start'[w] # "owner"
      /\ open' \in [Owners -> OpenRecord \cup {None}]
      /\ \A w \in Owners : open'[w] = None
  BY AttemptLeavesNothing
<1>2. \A l \in Loops : loops[l].at \in Dormant  BY DEF OpenerInv, OwnerInv
<1>3. OpenerTypes'  BY <1>1 DEF OpenerInv, OpenerTypes, States, ghosts
<1>4. OwnerInv'  BY <1>1 DEF OwnerInv
<1>5. LoopInv'  BY <1>2 DEF OpenerInv, LoopInv
<1>6. OpenInv'  BY <1>1, <1>2, OwnersApart DEF OpenInv, Dormant
<1>7. VisitorInv'  BY DEF OpenerInv, VisitorInv, ghosts
<1>8. TargetInv'  BY DEF OpenerInv, TargetInv, Addressed, ghosts
<1>9. FinalInv'  BY <1>1 DEF OpenerInv, FinalInv
<1>  QED  BY <1>1, <1>3, <1>4, <1>5, <1>6, <1>7, <1>8, <1>9 DEF OpenerInv

\* The open of the attempt fails.
LEMMA FailsKeeps ==
  ASSUME OpenerInv, NEW s \in Starters, StartFails(s)
  PROVE  OpenerInv'
<1>1. /\ start[s] = "owner" /\ AttemptDone(s) /\ active' = None
      /\ state # "closed" /\ state' \in {"new", "degraded"}
      /\ UNCHANGED <<now, recovery, target, expiry, renewAt, secret, loopDone, loops, request, closing, ghosts>>
  BY DEF StartFails
<1>  QED  BY <1>1, AttemptEnds

\* Close came before the open of the attempt returned.
LEMMA ClosedKeeps ==
  ASSUME OpenerInv, NEW s \in Starters, StartClosed(s)
  PROVE  OpenerInv'
<1>1. /\ start[s] = "owner" /\ AttemptDone(s) /\ state = "closed"
      /\ UNCHANGED <<now, state, recovery, active, target, expiry, renewAt, secret, loopDone, loops, request, closing, ghosts>>
  BY DEF StartClosed, cache
<1>  QED  BY <1>1, AttemptEnds

-----------------------------------------------------------------------------
(* The renewal loop. *)

\* At moves one loop and keeps the expiry it follows.
LEMMA AtMoves ==
  ASSUME OpenerInv, NEW l \in Loops, NEW p \in Places, At(l, p)
  PROVE  /\ loops' \in [Loops -> [at : Places, expiry : Nat]]
         /\ loops'[l].at = p /\ loops'[l].expiry = loops[l].expiry
         /\ \A k \in Loops : k # l => loops'[k] = loops[k]
<1> DEFINE old == loops[l]
           new == [old EXCEPT !.at = p]
<1>1. loops \in [Loops -> [at : Places, expiry : Nat]]  BY DEF OpenerInv, OpenerTypes
<1>2. old \in [at : Places, expiry : Nat]  BY <1>1
<1>3. new \in [at : Places, expiry : Nat] /\ new.at = p /\ new.expiry = old.expiry  BY <1>2
<1>4. loops' = [loops EXCEPT ![l] = new]  BY DEF At
<1> HIDE DEF new
<1>  QED  BY <1>1, <1>3, <1>4

\* The loop that runs goes on, or ends because the opener no longer does; the
\* open it had is over.
LEMMA LoopGoesOn ==
  ASSUME OpenerInv, NEW l \in Loops, NEW p \in Places \ {"open"},
         loops[l].at \notin Dormant, p \in Dormant => state # "running", At(l, p),
         open' \in [Owners -> OpenRecord \cup {None}],
         open'[l] = None, \A v \in Owners : v # l => open'[v] = open[v],
         UNCHANGED <<now, state, recovery, cache, secret, loopDone, start, request, closing, ghosts>>
  PROVE  OpenerInv'
<1>1. /\ loops' \in [Loops -> [at : Places, expiry : Nat]]
      /\ loops'[l].at = p /\ loops'[l].expiry = loops[l].expiry
      /\ \A k \in Loops : k # l => loops'[k] = loops[k]
  BY AtMoves
<1>2. l = loopDone /\ state \in {"running", "closed"}  BY DEF OpenerInv, LoopInv
<1>3. \A s \in Starters : start[s] # "owner"  BY DEF OpenerInv, OwnerInv
<1>4. \A v \in Owners : open'[v] # None => open'[v] = open[v] /\ open[v] # None
  OBVIOUS
<1>5. OpenerTypes'  BY <1>1 DEF OpenerInv, OpenerTypes, cache, ghosts
<1>6. OwnerInv'  BY <1>3 DEF OwnerInv
<1>7. LoopInv'
  <2>1. \A k \in Loops : k > loopDone => loops'[k].at = "off"
    BY <1>1, <1>2 DEF OpenerInv, LoopInv, Loops
  <2>2. \A k \in Loops : loops'[k].at \notin Dormant => k = loopDone
    BY <1>1, <1>2 DEF OpenerInv, LoopInv
  <2>  QED  BY <1>1, <1>2, <2>1, <2>2 DEF OpenerInv, LoopInv, cache
<1>8. OpenInv'
  <2>1. \A s \in Starters : open'[s] = None
    BY <1>3, <1>4, OwnersApart DEF OpenerInv, OpenInv
  <2>2. \A k \in Loops : k # l => loops'[k] = loops[k] /\ open'[k] = open[k]
    BY <1>1, OwnersApart
  <2>3. \A k \in Loops : open'[k] # None => loops'[k].at = "open"
    BY <2>2 DEF OpenerInv, OpenInv
  <2>4. \A k \in Loops : loops'[k].at = "open" =>
          open'[k] \in OpenRecord /\ (state # "closed" => open'[k].expects = target)
    BY <1>1, <2>2 DEF OpenerInv, OpenInv
  <2>  QED  BY <1>4, <2>1, <2>3, <2>4 DEF OpenerInv, OpenInv, cache
<1>9. VisitorInv'  BY DEF OpenerInv, VisitorInv, ghosts
<1>10. TargetInv'  BY DEF OpenerInv, TargetInv, Addressed, cache, ghosts
<1>11. FinalInv'  BY <1>2 DEF OpenerInv, FinalInv, cache
<1>  QED  BY <1>5, <1>6, <1>7, <1>8, <1>9, <1>10, <1>11 DEF OpenerInv

\* A loop with no open in flight has none in its slot.
LEMMA NoOpenOutside ==
  ASSUME OpenerInv, NEW l \in Loops, loops[l].at # "open"
  PROVE  /\ open[l] = None
         /\ open \in [Owners -> OpenRecord \cup {None}]
BY DEF OpenerInv, OpenInv, OpenerTypes

\* The timer of the loop fires, or the lifecycle ends.
LEMMA WakesKeeps ==
  ASSUME OpenerInv, NEW l \in Loops, LoopWakes(l)
  PROVE  OpenerInv'
<1>1. loops[l].at = "wait"
      /\ UNCHANGED <<now, state, recovery, cache, secret, loopDone, start, open, request, closing, ghosts>>
  BY DEF LoopWakes
<1>2. PICK p \in {"exit", "try"} : At(l, p) /\ (p = "exit" => Stopped)  BY DEF LoopWakes
<1>3. open[l] = None /\ open \in [Owners -> OpenRecord \cup {None}]  BY <1>1, NoOpenOutside
<1>4. p \in Places \ {"open"} /\ loops[l].at \notin Dormant /\ (p \in Dormant => state # "running")
  BY <1>1, <1>2 DEF Places, Dormant, Stopped
<1>  QED  BY <1>1, <1>2, <1>3, <1>4, LoopGoesOn

\* The retry delay passes.
LEMMA RetriesKeeps ==
  ASSUME OpenerInv, NEW l \in Loops, LoopRetries(l)
  PROVE  OpenerInv'
<1>1. loops[l].at = "retry"
      /\ UNCHANGED <<now, state, recovery, cache, secret, loopDone, start, open, request, closing, ghosts>>
  BY DEF LoopRetries
<1>2. PICK p \in {"exit", "try"} : At(l, p) /\ (p = "exit" => Stopped)  BY DEF LoopRetries
<1>3. open[l] = None /\ open \in [Owners -> OpenRecord \cup {None}]  BY <1>1, NoOpenOutside
<1>4. p \in Places \ {"open"} /\ loops[l].at \notin Dormant /\ (p \in Dormant => state # "running")
  BY <1>1, <1>2 DEF Places, Dormant, Stopped
<1>  QED  BY <1>1, <1>2, <1>3, <1>4, LoopGoesOn

\* A loop that only waits for its handle to expire is stopped.
LEMMA HeldKeeps ==
  ASSUME OpenerInv, NEW l \in Loops, LoopHeld(l)
  PROVE  OpenerInv'
<1>1. loops[l].at = "hold" /\ Stopped /\ At(l, "exit")
      /\ UNCHANGED <<now, state, recovery, cache, secret, loopDone, start, open, request, closing, ghosts>>
  BY DEF LoopHeld
<1>2. open[l] = None /\ open \in [Owners -> OpenRecord \cup {None}]  BY <1>1, NoOpenOutside
<1>3. "exit" \in Places \ {"open"} /\ loops[l].at \notin Dormant /\ state # "running"
  BY <1>1 DEF Places, Dormant, Stopped
<1>  QED  BY <1>1, <1>2, <1>3, LoopGoesOn

\* The open of a renewal fails.
LEMMA LoopFailsKeeps ==
  ASSUME OpenerInv, NEW l \in Loops, LoopFails(l)
  PROVE  OpenerInv'
<1>1. loops[l].at = "open" /\ open' = [open EXCEPT ![l] = None]
      /\ UNCHANGED <<now, state, recovery, cache, secret, loopDone, start, request, closing, ghosts>>
  BY DEF LoopFails
<1>2. PICK p \in {"exit", "retry", "hold"} : At(l, p) /\ (p = "exit" => state # "running")
  BY DEF LoopFails
<1>3. /\ open' \in [Owners -> OpenRecord \cup {None}]
      /\ open'[l] = None /\ \A v \in Owners : v # l => open'[v] = open[v]
  BY <1>1, OwnersApart DEF OpenerInv, OpenerTypes
<1>4. p \in Places \ {"open"} /\ loops[l].at \notin Dormant /\ (p \in Dormant => state # "running")
  BY <1>1, <1>2 DEF Places, Dormant
<1>  QED  BY <1>1, <1>2, <1>3, <1>4, LoopGoesOn

\* The loop sends another open while its handle lives.
LEMMA LoopOpensKeeps ==
  ASSUME OpenerInv, NEW l \in Loops, LoopOpens(l)
  PROVE  OpenerInv'
<1>0. /\ loops[l].at = "try" /\ BeginOpen(l, target) /\ At(l, "open")
      /\ UNCHANGED <<now, state, recovery, cache, loopDone, start, request, closing, reached>>
  BY DEF LoopOpens
<1>1. l \in Owners /\ l \notin Starters  BY OwnersApart
<1>2. loops[l].at \notin Dormant  BY <1>0 DEF Dormant
<1>3. closing # "done"  BY <1>2 DEF OpenerInv, FinalInv
<1>4. /\ secret' \in Nat
      /\ open' \in [Owners -> OpenRecord \cup {None}]
      /\ open'[l] \in OpenRecord /\ open'[l].expects = target
      /\ \A v \in Owners : v # l => open'[v] = open[v]
      /\ VisitorInv' /\ TargetInv'
  BY <1>0, <1>1, <1>3, BeginOpenKeeps
<1>5. /\ loops' \in [Loops -> [at : Places, expiry : Nat]]
      /\ loops'[l].at = "open" /\ loops'[l].expiry = loops[l].expiry
      /\ \A k \in Loops : k # l => loops'[k] = loops[k]
  BY <1>0, AtMoves DEF Places
<1>6. l = loopDone /\ \A s \in Starters : start[s] # "owner"
  BY <1>2 DEF OpenerInv, LoopInv, OwnerInv
<1>7. OpenerTypes'  BY <1>0, <1>4, <1>5 DEF OpenerInv, OpenerTypes, cache
<1>8. OwnerInv'  BY <1>0, <1>6 DEF OwnerInv
<1>9. LoopInv'
  <2>1. \A k \in Loops : k > loopDone => loops'[k].at = "off"
    BY <1>5, <1>6 DEF OpenerInv, LoopInv, Loops
  <2>2. \A k \in Loops : loops'[k].at \notin Dormant =>
          k = loopDone /\ state \in {"running", "closed"}
    BY <1>2, <1>5 DEF OpenerInv, LoopInv
  <2>3. loops'[l].at \notin Dormant  BY <1>5 DEF Dormant
  <2>  QED  BY <1>0, <1>5, <1>6, <2>1, <2>2, <2>3 DEF OpenerInv, LoopInv, cache
<1>10. OpenInv'
  <2>1. \A s \in Starters : open'[s] # None => start'[s] = "owner"
    BY <1>0, <1>1, <1>4, OwnersApart DEF OpenerInv, OpenInv
  <2>2. \A k \in Loops : open'[k] # None => loops'[k].at = "open"
    BY <1>4, <1>5, OwnersApart DEF OpenerInv, OpenInv
  <2>3. \A k \in Loops : loops'[k].at = "open" =>
          open'[k] \in OpenRecord /\ (state # "closed" => open'[k].expects = target)
    BY <1>4, <1>5, OwnersApart DEF OpenerInv, OpenInv
  <2>4. state # "closed" => \A v \in Owners : open'[v] # None => open'[v].expects = target
    BY <1>4 DEF OpenerInv, OpenInv
  <2>  QED  BY <1>0, <2>1, <2>2, <2>3, <2>4 DEF OpenInv, cache
<1>11. FinalInv'  BY <1>0, <1>3 DEF OpenerInv, FinalInv
<1>  QED  BY <1>4, <1>7, <1>8, <1>9, <1>10, <1>11 DEF OpenerInv

\* The handle of the loop has expired: a running opener, whose handle it is,
\* degrades, and a closed one is left alone.
LEMMA ExpiresKeeps ==
  ASSUME OpenerInv, NEW l \in Loops, LoopExpires(l)
  PROVE  OpenerInv'
<1>0. /\ loops[l].at \in {"try", "hold"} /\ At(l, "exit")
      /\ UNCHANGED <<now, recovery, target, expiry, renewAt, secret, loopDone, start, open, request, closing, ghosts>>
  BY DEF LoopExpires
<1>1. loops[l].at \notin Dormant /\ loops[l].at # "open"  BY <1>0 DEF Dormant
<1>2. l = loopDone /\ state \in {"running", "closed"}  BY <1>1 DEF OpenerInv, LoopInv
<1>3. open[l] = None /\ open \in [Owners -> OpenRecord \cup {None}]  BY <1>1, NoOpenOutside
<1>4. CASE state = "closed"
  <2>1. UNCHANGED <<state, active>>  BY <1>4 DEF LoopExpires
  <2>2. "exit" \in Places \ {"open"} /\ state # "running"  BY <1>4 DEF Places, Dormant
  <2>  QED  BY <1>0, <1>1, <1>3, <2>1, <2>2, LoopGoesOn DEF cache
<1>5. CASE state = "running"
  <2>1. expiry = loops[l].expiry  BY <1>2, <1>5 DEF OpenerInv, LoopInv
  <2>2. state' = "degraded" /\ active' = None  BY <1>5, <2>1 DEF LoopExpires, Degrade
  <2>3. /\ loops' \in [Loops -> [at : Places, expiry : Nat]]
        /\ loops'[l].at = "exit"
        /\ \A k \in Loops : k # l => loops'[k] = loops[k]
    BY <1>0, AtMoves DEF Places, Dormant
  <2>4. \A s \in Starters : start[s] # "owner"  BY <1>1 DEF OpenerInv, OwnerInv
  <2>5. \A k \in Loops : loops'[k].at \in Dormant
    BY <1>2, <2>3 DEF OpenerInv, LoopInv, Dormant
  <2>6. OpenerTypes'  BY <1>0, <2>2, <2>3 DEF OpenerInv, OpenerTypes, States, ghosts
  <2>7. OwnerInv'  BY <1>0, <2>4 DEF OwnerInv
  <2>8. LoopInv'
    <3>1. \A k \in Loops : k > loopDone => loops'[k].at = "off"
      BY <1>2, <2>3 DEF OpenerInv, LoopInv, Loops
    <3>  QED  BY <1>0, <2>2, <2>5, <3>1 DEF LoopInv
  <2>9. OpenInv'
    <3>1. \A k \in Loops : open[k] # None => loops'[k].at = "open"
      BY <1>3, <2>3 DEF OpenerInv, OpenInv
    <3>2. \A k \in Loops : loops'[k].at # "open"  BY <2>5 DEF Dormant
    <3>  QED  BY <1>0, <1>5, <3>1, <3>2 DEF OpenerInv, OpenInv
  <2>10. VisitorInv'  BY <1>0 DEF OpenerInv, VisitorInv, ghosts
  <2>11. TargetInv'  BY <1>0, <1>5 DEF OpenerInv, TargetInv, Addressed, ghosts
  <2>12. FinalInv'
    <3>1. closing = "no"  BY <1>5 DEF OpenerInv, FinalInv
    <3>  QED  BY <1>0, <2>2, <3>1 DEF FinalInv
  <2>  QED  BY <2>6, <2>7, <2>8, <2>9, <2>10, <2>11, <2>12 DEF OpenerInv
<1>  QED  BY <1>2, <1>4, <1>5

\* The open of the loop succeeds: the running opener installs the handle and
\* the loop follows it.
LEMMA InstallsKeeps ==
  ASSUME OpenerInv, NEW l \in Loops, LoopInstalls(l)
  PROVE  OpenerInv'
<1>0. /\ loops[l].at = "open" /\ open' = [open EXCEPT ![l] = None]
      /\ UNCHANGED <<now, state, recovery, secret, loopDone, start, request, closing, ghosts>>
  BY DEF LoopInstalls
<1>1. loops[l].at \notin Dormant /\ l \in Owners  BY <1>0, OwnersApart DEF Dormant
<1>2. l = loopDone /\ state \in {"running", "closed"}  BY <1>1 DEF OpenerInv, LoopInv
<1>3. /\ open' \in [Owners -> OpenRecord \cup {None}]
      /\ open'[l] = None /\ \A v \in Owners : v # l => open'[v] = open[v]
  BY <1>0, <1>1 DEF OpenerInv, OpenerTypes
<1>4. CASE state = "closed"
  <2>1. At(l, "exit") /\ UNCHANGED cache  BY <1>4 DEF LoopInstalls
  <2>2. "exit" \in Places \ {"open"} /\ state # "running"  BY <1>4 DEF Places, Dormant
  <2>  QED  BY <1>0, <1>1, <1>3, <2>1, <2>2, LoopGoesOn
<1>5. CASE state = "running"
  <2> DEFINE next == [at |-> "wait", expiry |-> expiry']
  <2>1. PICK t \in Targets :
          Confirms(l, t) /\ Install(l, t) /\ loops' = [loops EXCEPT ![l] = next]
    BY <1>5 DEF LoopInstalls
  <2>2. open[l] \in OpenRecord /\ open[l].expects = target
    BY <1>0, <1>5 DEF OpenerInv, OpenInv
  <2>3. /\ expiry' \in Nat /\ active' = expiry' /\ renewAt' \in Nat
        /\ target' \in Targets /\ TargetInv'
    BY <1>0, <1>1, <1>5, <2>1, <2>2, InstallKeeps DEF ghosts
  <2>4. next \in [at : Places, expiry : Nat] /\ next.at = "wait" /\ next.expiry = expiry'
    BY <2>3 DEF Places
  <2> HIDE DEF next
  <2>5. /\ loops' \in [Loops -> [at : Places, expiry : Nat]]
        /\ loops'[l] = next
        /\ \A k \in Loops : k # l => loops'[k] = loops[k]
    BY <2>1, <2>4 DEF OpenerInv, OpenerTypes
  <2>6. \A s \in Starters : start[s] # "owner"  BY <1>1 DEF OpenerInv, OwnerInv
  <2>7. \A v \in Owners : open'[v] = None
    <3>1. \A v \in Owners : open[v] # None => v = l
      BY <1>2, <2>6 DEF OpenerInv, OpenInv, LoopInv, Owners, Dormant
    <3>  QED  BY <1>3, <3>1
  <2>8. OpenerTypes'  BY <1>0, <1>3, <2>3, <2>5 DEF OpenerInv, OpenerTypes, ghosts
  <2>9. OwnerInv'  BY <1>0, <2>6 DEF OwnerInv
  <2>10. LoopInv'
    <3>1. \A k \in Loops : k > loopDone => loops'[k].at = "off"
      BY <1>2, <2>5 DEF OpenerInv, LoopInv, Loops
    <3>2. \A k \in Loops : loops'[k].at \notin Dormant => k = loopDone
      BY <1>2, <2>5 DEF OpenerInv, LoopInv
    <3>3. loops'[l].at \notin Dormant  BY <2>4, <2>5 DEF Dormant
    <3>4. loopDone # 0  BY <1>2, OwnersApart
    <3>  QED  BY <1>0, <1>2, <1>5, <2>3, <2>4, <2>5, <3>1, <3>2, <3>3, <3>4 DEF LoopInv
  <2>11. OpenInv'
    <3>1. \A k \in Loops : loops'[k].at # "open"
      <4>1. \A k \in Loops : k # l => loops[k].at # "open"
        BY <1>2 DEF OpenerInv, LoopInv, Dormant
      <4>  QED  BY <2>4, <2>5, <4>1
    <3>  QED  BY <2>7, <3>1, OwnersApart DEF OpenInv
  <2>12. VisitorInv'  BY <1>0 DEF OpenerInv, VisitorInv, ghosts
  <2>13. FinalInv'
    <3>1. closing = "no"  BY <1>5 DEF OpenerInv, FinalInv
    <3>  QED  BY <1>0, <1>5, <3>1 DEF FinalInv
  <2>  QED  BY <2>3, <2>8, <2>9, <2>10, <2>11, <2>12, <2>13 DEF OpenerInv
<1>  QED  BY <1>2, <1>4, <1>5

\* A loop that exits is no longer the one a running opener relies on.
LEMMA ExitsKeeps ==
  ASSUME OpenerInv, NEW l \in Loops, LoopExits(l)
  PROVE  /\ OpenerInv'
         /\ UNCHANGED <<state, active>>
<1>0. /\ loops[l].at = "exit" /\ At(l, "done")
      /\ UNCHANGED <<now, recovery, target, expiry, renewAt, secret, loopDone, start, open, request, closing, ghosts>>
  BY DEF LoopExits
<1>1. ~(state = "running" /\ loopDone = l)
  BY <1>0 DEF OpenerInv, LoopInv, Dormant
<1>2. UNCHANGED <<state, active>>  BY <1>1 DEF LoopExits
<1>3. /\ loops' \in [Loops -> [at : Places, expiry : Nat]]
      /\ loops'[l].at = "done"
      /\ \A k \in Loops : k # l => loops'[k] = loops[k]
  BY <1>0, AtMoves DEF Places, Dormant
<1>4. open[l] = None  BY <1>0, NoOpenOutside
<1>5. \A k \in Loops : loops'[k].at \notin Dormant \/ loops'[k].at = "open" =>
        k # l /\ loops'[k] = loops[k]
  BY <1>3 DEF Dormant
<1>6. OpenerTypes'  BY <1>0, <1>2, <1>3 DEF OpenerInv, OpenerTypes, ghosts
<1>7. OwnerInv'  BY <1>0, <1>2, <1>5 DEF OpenerInv, OwnerInv
<1>8. LoopInv'
  <2>1. \A k \in Loops : k > loopDone => loops'[k].at = "off"
    BY <1>0, <1>3 DEF OpenerInv, LoopInv
  <2>2. state = "running" => loops'[loopDone] = loops[loopDone]
    BY <1>1, <1>3 DEF OpenerInv, OpenerTypes, LoopInv, Loops
  <2>3. \A k \in Loops : loops'[k].at \notin Dormant =>
          k = loopDone /\ state \in {"running", "closed"}
    BY <1>5 DEF OpenerInv, LoopInv
  <2>  QED  BY <1>0, <1>2, <2>1, <2>2, <2>3 DEF OpenerInv, LoopInv
<1>9. OpenInv'
  <2>1. \A k \in Loops : open[k] # None => loops'[k].at = "open"
    BY <1>3, <1>4 DEF OpenerInv, OpenInv
  <2>2. \A k \in Loops : loops'[k].at = "open" =>
          open[k] \in OpenRecord /\ (state # "closed" => open[k].expects = target)
    BY <1>5 DEF OpenerInv, OpenInv
  <2>  QED  BY <1>0, <1>2, <2>1, <2>2 DEF OpenerInv, OpenInv
<1>10. VisitorInv'  BY <1>0 DEF OpenerInv, VisitorInv, ghosts
<1>11. TargetInv'  BY <1>0, <1>2 DEF OpenerInv, TargetInv, Addressed, ghosts
<1>12. FinalInv'  BY <1>0, <1>2, <1>5 DEF OpenerInv, FinalInv
<1>  QED  BY <1>2, <1>6, <1>7, <1>8, <1>9, <1>10, <1>11, <1>12 DEF OpenerInv

-----------------------------------------------------------------------------
(* Do, Close and the clock. *)

\* Do copies the target of the opener.
LEMMA TakesKeeps ==
  ASSUME OpenerInv, NEW r \in Requesters, DoTakesHandle(r)
  PROVE  OpenerInv'
<1>0. /\ state = "running" /\ request' = [request EXCEPT ![r] = target]
      /\ UNCHANGED <<now, state, recovery, cache, secret, loopDone, loops, start, open, closing, ghosts>>
  BY DEF DoTakesHandle
<1>1. OpenerTypes'  BY <1>0 DEF OpenerInv, OpenerTypes, cache, ghosts
<1>2. OwnerInv'  BY <1>0 DEF OpenerInv, OwnerInv
<1>3. LoopInv'  BY <1>0 DEF OpenerInv, LoopInv, cache
<1>4. OpenInv'  BY <1>0 DEF OpenerInv, OpenInv, cache
<1>5. VisitorInv'  BY <1>0 DEF OpenerInv, VisitorInv, ghosts
<1>6. TargetInv'
  <2>1. Addressed' \subseteq Addressed \cup ({target} \ {None})
    <3>1. \A q \in Requesters : request'[q] \in {request[q], target}
      BY <1>0 DEF OpenerInv, OpenerTypes
    <3>  QED  BY <1>0, <3>1 DEF Addressed, ghosts
  <2>  QED  BY <1>0, <2>1 DEF OpenerInv, TargetInv, cache
<1>7. FinalInv'  BY <1>0 DEF OpenerInv, FinalInv, cache
<1>  QED  BY <1>1, <1>2, <1>3, <1>4, <1>5, <1>6, <1>7 DEF OpenerInv

\* A request goes to the target that was copied, or nowhere.
LEMMA SendsKeeps ==
  ASSUME OpenerInv, NEW r \in Requesters, DoSends(r)
  PROVE  OpenerInv'
<1>0. /\ request[r] # None
      /\ reached' \in {reached, reached \cup {request[r]}}
      /\ request' = [request EXCEPT ![r] = None]
      /\ UNCHANGED <<now, state, recovery, cache, secret, loopDone, loops, start, open, closing, visitors>>
  BY DEF DoSends
<1>1. OpenerTypes'  BY <1>0 DEF OpenerInv, OpenerTypes, cache
<1>2. OwnerInv'  BY <1>0 DEF OpenerInv, OwnerInv
<1>3. LoopInv'  BY <1>0 DEF OpenerInv, LoopInv, cache
<1>4. OpenInv'  BY <1>0 DEF OpenerInv, OpenInv, cache
<1>5. VisitorInv'  BY <1>0 DEF OpenerInv, VisitorInv
<1>6. TargetInv'
  <2>1. Addressed' \subseteq Addressed
    <3>1. \A q \in Requesters : request'[q] \in {request[q], None}
      BY <1>0 DEF OpenerInv, OpenerTypes
    <3>2. request[r] \in Addressed  BY <1>0 DEF Addressed
    <3>3. reached' \subseteq Addressed  BY <1>0, <3>2 DEF Addressed
    <3>  QED  BY <3>1, <3>3 DEF Addressed
  <2>  QED  BY <1>0, <2>1 DEF OpenerInv, TargetInv, cache
<1>7. FinalInv'  BY <1>0 DEF OpenerInv, FinalInv, cache
<1>  QED  BY <1>1, <1>2, <1>3, <1>4, <1>5, <1>6, <1>7 DEF OpenerInv

\* Close begins: nothing that runs is told apart by the closed state.
LEMMA CloseBeginsKeeps ==
  ASSUME OpenerInv, CloseBegins
  PROVE  OpenerInv'
<1>0. /\ closing = "no" /\ closing' = "waiting" /\ state' = "closed"
      /\ UNCHANGED <<now, recovery, cache, secret, loopDone, loops, start, open, request, ghosts>>
  BY DEF CloseBegins
<1>1. OpenerTypes'  BY <1>0 DEF OpenerInv, OpenerTypes, States, cache, ghosts
<1>2. OwnerInv'  BY <1>0 DEF OpenerInv, OwnerInv
<1>3. LoopInv'  BY <1>0 DEF OpenerInv, LoopInv, cache
<1>4. OpenInv'  BY <1>0 DEF OpenerInv, OpenInv, cache
<1>5. VisitorInv'  BY <1>0 DEF OpenerInv, VisitorInv, ghosts
<1>6. TargetInv'  BY <1>0 DEF OpenerInv, TargetInv, Addressed, cache, ghosts
<1>7. FinalInv'  BY <1>0 DEF FinalInv
<1>  QED  BY <1>1, <1>2, <1>3, <1>4, <1>5, <1>6, <1>7 DEF OpenerInv

\* Close returns when the attempt and the loop it found have ended: these are
\* the only ones that could still open.
LEMMA CloseEndsKeeps ==
  ASSUME OpenerInv, CloseEnds
  PROVE  OpenerInv'
<1>0. /\ closing = "waiting" /\ closing' = "done"
      /\ active' = None /\ target' = None /\ expiry' = 0 /\ renewAt' = 0 /\ secret' = 0
      /\ UNCHANGED <<now, state, recovery, loopDone, loops, start, open, request, ghosts>>
  BY DEF CloseEnds
<1>1. state = "closed"  BY <1>0 DEF OpenerInv, FinalInv
<1>2. \A s \in Starters : start[s] # "owner"  BY DEF CloseEnds, CloseMayFinish
<1>3. \A l \in Loops : loops[l].at \in Dormant
  <2>1. loopDone # 0 => loops[loopDone].at = "done"  BY DEF CloseEnds, CloseMayFinish
  <2>  QED  BY <2>1, OwnersApart DEF OpenerInv, LoopInv, Dormant
<1>4. OpenerTypes'  BY <1>0 DEF OpenerInv, OpenerTypes, ghosts
<1>5. OwnerInv'  BY <1>0, <1>2 DEF OwnerInv
<1>6. LoopInv'  BY <1>0, <1>1, <1>3 DEF OpenerInv, LoopInv
<1>7. OpenInv'  BY <1>0, <1>1 DEF OpenerInv, OpenInv
<1>8. VisitorInv'  BY <1>0 DEF OpenerInv, VisitorInv, ghosts
<1>9. TargetInv'  BY <1>0, <1>1 DEF OpenerInv, TargetInv, Addressed, ghosts
<1>10. FinalInv'  BY <1>0, <1>1, <1>2, <1>3 DEF FinalInv
<1>  QED  BY <1>4, <1>5, <1>6, <1>7, <1>8, <1>9, <1>10 DEF OpenerInv

\* The clock moves nothing else.
LEMMA TickKeeps ==
  ASSUME OpenerInv, Tick
  PROVE  OpenerInv'
<1>0. /\ now' = now + 1
      /\ UNCHANGED <<state, recovery, cache, secret, loopDone, loops, start, open, request, closing, ghosts>>
  BY DEF Tick
<1>1. OpenerTypes'  BY <1>0 DEF OpenerInv, OpenerTypes, cache, ghosts
<1>2. OwnerInv'  BY <1>0 DEF OpenerInv, OwnerInv
<1>3. LoopInv'  BY <1>0 DEF OpenerInv, LoopInv, cache
<1>4. OpenInv'  BY <1>0 DEF OpenerInv, OpenInv, cache
<1>5. VisitorInv'  BY <1>0 DEF OpenerInv, VisitorInv, ghosts
<1>6. TargetInv'  BY <1>0 DEF OpenerInv, TargetInv, Addressed, cache, ghosts
<1>7. FinalInv'  BY <1>0 DEF OpenerInv, FinalInv, cache
<1>  QED  BY <1>1, <1>2, <1>3, <1>4, <1>5, <1>6, <1>7 DEF OpenerInv

-----------------------------------------------------------------------------
(* The specification. *)

\* A new opener satisfies the invariant.
LEMMA InitHolds == Init => OpenerInv
<1> SUFFICES ASSUME Init PROVE OpenerInv
  OBVIOUS
<1>1. OpenerTypes
  <2>1. Off \in [at : Places, expiry : Nat]  BY DEF Off, Places, Dormant
  <2>2. loops \in [Loops -> [at : Places, expiry : Nat]]  BY <2>1 DEF Init
  <2>3. 0 \in 0..MaxLoops  BY PortalOpenerAssumption
  <2>  QED  BY <2>2, <2>3 DEF Init, OpenerTypes, States
<1>2. OwnerInv  BY DEF Init, OwnerInv
<1>3. LoopInv  BY DEF Init, LoopInv, Off, Dormant
<1>4. OpenInv  BY OwnersApart DEF Init, OpenInv, Off
<1>5. VisitorInv  BY DEF Init, VisitorInv
<1>6. TargetInv
  <2>1. Addressed = {}  BY DEF Init, Addressed
  <2>  QED  BY <2>1 DEF TargetInv
<1>7. FinalInv  BY DEF Init, FinalInv
<1>  QED  BY <1>1, <1>2, <1>3, <1>4, <1>5, <1>6, <1>7 DEF OpenerInv

\* Nothing changes in a stuttering step.
LEMMA StutterKeeps ==
  ASSUME OpenerInv, UNCHANGED vars
  PROVE  OpenerInv'
<1>1. OpenerTypes'  BY DEF OpenerInv, OpenerTypes, vars
<1>2. OwnerInv'  BY DEF OpenerInv, OwnerInv, vars
<1>3. LoopInv'  BY DEF OpenerInv, LoopInv, vars
<1>4. OpenInv'  BY DEF OpenerInv, OpenInv, vars
<1>5. VisitorInv'  BY DEF OpenerInv, VisitorInv, vars
<1>6. TargetInv'  BY DEF OpenerInv, TargetInv, Addressed, vars
<1>7. FinalInv'  BY DEF OpenerInv, FinalInv, vars
<1>  QED  BY <1>1, <1>2, <1>3, <1>4, <1>5, <1>6, <1>7 DEF OpenerInv

\* Every step of the opener keeps the invariant.
LEMMA StepKeeps ==
  ASSUME OpenerInv, [Next]_vars
  PROVE  OpenerInv'
<1>1. CASE UNCHANGED vars  BY <1>1, StutterKeeps
<1>2. ASSUME NEW s \in Starters, StartCalled(s) \/ StartGivesUp(s)
      PROVE  OpenerInv'
  BY <1>2, CalledKeeps, GivesUpKeeps
<1>3. ASSUME NEW s \in Starters, StartStep(s)
      PROVE  OpenerInv'
  BY <1>3, DecidesKeeps, OwnsKeeps, StartOpensKeeps, SucceedsKeeps, FailsKeeps,
     ClosedKeeps, LooksAgainKeeps DEF StartStep
<1>4. ASSUME NEW l \in Loops, LoopStep(l)
      PROVE  OpenerInv'
  BY <1>4, WakesKeeps, LoopOpensKeeps, ExpiresKeeps, InstallsKeeps, LoopFailsKeeps,
     RetriesKeeps, HeldKeeps, ExitsKeeps DEF LoopStep
<1>5. ASSUME NEW r \in Requesters, DoTakesHandle(r) \/ DoSends(r)
      PROVE  OpenerInv'
  BY <1>5, TakesKeeps, SendsKeeps
<1>6. CASE CloseBegins \/ CloseEnds \/ Tick
  BY <1>6, CloseBeginsKeeps, CloseEndsKeeps, TickKeeps
<1>  QED  BY <1>1, <1>2, <1>3, <1>4, <1>5, <1>6 DEF Next

\* In every behaviour of the opener the invariant holds: one owner or one loop
\* at a time, one capability, one target, and nothing left after Close.
THEOREM OpenerInvariant == Spec => []OpenerInv
<1>1. Init => OpenerInv  BY InitHolds
<1>2. OpenerInv /\ [Next]_vars => OpenerInv'  BY StepKeeps
<1>  QED  BY <1>1, <1>2, PTL DEF Spec

\* A set whose members are all equal has at most one.
LEMMA AtMostOne ==
  ASSUME NEW S, \A x, y \in S : x = y
  PROVE  Cardinality(S) <= 1
<1>1. CASE S = {}
  <2>1. Cardinality(S) = 0  BY <1>1, FS_EmptySet
  <2>  QED  BY <2>1
<1>2. CASE S # {}
  <2>1. PICK x \in S : S = {x}  BY <1>2
  <2>2. Cardinality(S) = 1  BY <2>1, FS_Singleton
  <2>  QED  BY <2>2
<1>  QED  BY <1>1, <1>2

\* At most one open is in flight and one capability is ever sent.
LEMMA InvariantGivesOneVisitor == OpenerInv => OneVisitor
<1> SUFFICES ASSUME OpenerInv PROVE OneVisitor
  OBVIOUS
<1>1. Cardinality(visitors) <= 1
  <2>1. Cardinality({}) = 0 /\ Cardinality({1}) = 1  BY FS_EmptySet, FS_Singleton
  <2>  QED  BY <2>1 DEF OpenerInv, VisitorInv
<1> DEFINE opening == {w \in Owners : open[w] # None}
<1>2. \A v, w \in opening : v = w  BY OpensAreAlone
<1> HIDE DEF opening
<1>3. Cardinality(opening) <= 1  BY <1>2, AtMostOne
<1>  QED  BY <1>1, <1>3 DEF OneVisitor, opening

\* Do has addressed at most one target.
LEMMA InvariantGivesOneTarget == OpenerInv => OneTarget
<1> SUFFICES ASSUME OpenerInv PROVE OneTarget
  OBVIOUS
<1>1. \A x, y \in reached : x = y  BY DEF OpenerInv, TargetInv, Addressed
<1>  QED  BY <1>1, AtMostOne DEF OneTarget

\* Whatever Start calls, renewals and recoveries overlap, the opener opens as
\* one visitor, one open at a time, and Do reaches one target.
THEOREM OneSessionHolds == Spec => []OneSession
<1>1. OpenerInv => OneSession
  BY InvariantGivesOneVisitor, InvariantGivesOneTarget DEF OneSession
<1>  QED  BY <1>1, OpenerInvariant, PTL

\* When Close has returned nothing is cached or being opened, and no goroutine
\* of the opener can bring the capability back.
THEOREM CloseIsFinalHolds == Spec => []CloseIsFinal
<1>1. OpenerInv => CloseIsFinal
  BY DEF OpenerInv, FinalInv, OpenInv, CloseIsFinal, Owners, Dormant
<1>  QED  BY <1>1, OpenerInvariant, PTL

\* Renewal keeps a handle that lives: only Close ever gives it up, whatever the
\* opens of the loop come to.
THEOREM LiveHandleKeptHolds == Spec => LiveHandleKept
<1>1. OpenerInv /\ [Next]_vars =>
        [state = "running" /\ Ready => active' # None \/ state' = "closed"]_vars
  <2> SUFFICES ASSUME OpenerInv, Next, state = "running", Ready
               PROVE  active' # None \/ state' = "closed"
    OBVIOUS
  <2>1. active # None /\ now < expiry  BY DEF Ready
  <2>2. \A s \in Starters : start[s] # "owner"  BY DEF OpenerInv, OwnerInv
  <2>3. ASSUME NEW s \in Starters, StartCalled(s) \/ StartGivesUp(s) \/ StartStep(s)
        PROVE  active' = active
    BY <2>2, <2>3 DEF StartCalled, StartGivesUp, StartStep, StartDecides, StartOwns,
       StartOpens, StartSucceeds, StartFails, StartClosed, StartLooksAgain, cache
  <2>4. ASSUME NEW l \in Loops, LoopInstalls(l)
        PROVE  active' # None
    <3>1. /\ OpenerInv' /\ state' = "running"
      BY <2>4, InstallsKeeps DEF LoopInstalls
    <3>2. active' \in Nat  BY <3>1 DEF OpenerInv, LoopInv, OpenerTypes
    <3>  QED  BY <3>2, PortalOpenerAssumption
  <2>5. ASSUME NEW l \in Loops, LoopExpires(l)
        PROVE  FALSE
    <3>1. loops[l].at \notin Dormant /\ now >= loops[l].expiry
      BY <2>5 DEF LoopExpires, Dormant
    <3>2. l = loopDone /\ loops[l].expiry = expiry  BY <3>1 DEF OpenerInv, LoopInv
    <3>  QED  BY <2>1, <3>1, <3>2 DEF OpenerInv, OpenerTypes
  <2>6. ASSUME NEW l \in Loops, LoopStep(l)
        PROVE  active' # None
    BY <2>1, <2>4, <2>5, <2>6, ExitsKeeps DEF LoopStep, LoopWakes, LoopOpens, LoopFails,
       LoopRetries, LoopHeld, cache
  <2>7. ASSUME NEW r \in Requesters, DoTakesHandle(r) \/ DoSends(r)
        PROVE  active' = active
    BY <2>7 DEF DoTakesHandle, DoSends, cache
  <2>8. CASE CloseBegins  BY <2>8 DEF CloseBegins
  <2>9. CASE CloseEnds
    BY <2>9 DEF CloseEnds, OpenerInv, FinalInv
  <2>10. CASE Tick  BY <2>1, <2>10 DEF Tick, cache
  <2>  QED  BY <2>1, <2>3, <2>6, <2>7, <2>8, <2>9, <2>10 DEF Next
<1>  QED  BY <1>1, OpenerInvariant, PTL DEF Spec, LiveHandleKept

=============================================================================
