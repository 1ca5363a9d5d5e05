---------------------------- MODULE PortalOpener ----------------------------
(***************************************************************************)
(* PortalOpener of qurl/portal_opener.go: one qURL opened by Start, kept   *)
(* open by a background renewal loop, used by Do and ended by Close.       *)
(*                                                                         *)
(* A section under o.mu is one step.  An open (openPortal, EnterPortalWith) *)
(* is two: it is sent, and later it returns a handle, a refusal or the     *)
(* error of its context.  A handle is its expiry; its target is kept apart *)
(* because every later open must confirm it.                               *)
(***************************************************************************)
EXTENDS Naturals, FiniteSets

CONSTANTS
  None,
  Starters,    \* goroutines that call Start
  Requesters,  \* goroutines that call Do
  Targets,     \* authenticated targets the platform may answer with
  Life,              \* lifetime of a handle
  MinLead, MaxLead,  \* bounds of the renewal lead, a fifth of the lifetime
  Gap,               \* least time from an open to its renewal
  MaxTime,     \* bound on the clock
  MaxLoops     \* bound on how often Start succeeds

ASSUME PortalOpenerAssumption ==
  /\ {Life, MinLead, MaxLead, Gap, MaxTime, MaxLoops} \subseteq Nat
  /\ 0 < Life
  /\ None \notin Nat
  /\ Starters \cap (1..MaxLoops) = {}

VARIABLES
  now,       \* the monotonic clock
  state,     \* portalOpenerState
  recovery,  \* the current start attempt began in the degraded state
  active,    \* expiry of the cached handle, None without one
  target,    \* the target every open has confirmed, None before the first
  expiry, renewAt,   \* expiresAt and renewAt
  secret,    \* the visitor capability of the PortalSession
  loopDone,  \* the renewal loop the opener waits for, 0 before the first
  loops,     \* the renewal loops ever started
  start,     \* where each Start call is
  open,      \* the open each owner has in flight, None without one
  request,   \* what each Do call took from the opener
  closing,   \* Close: "no", "waiting" or "done"
  visitors, reached   \* every capability sent and every target Do addressed

vars == <<now, state, recovery, active, target, expiry, renewAt, secret, loopDone,
          loops, start, open, request, closing, visitors, reached>>

Loops == 1..MaxLoops
Owners == Starters \cup Loops
Off == [at |-> "off", expiry |-> 0]

Init ==
  /\ now = 0
  /\ state = "new" /\ recovery = FALSE
  /\ active = None /\ target = None /\ expiry = 0 /\ renewAt = 0
  /\ secret = 0
  /\ loopDone = 0 /\ loops = [l \in Loops |-> Off]
  /\ start = [s \in Starters |-> "idle"]
  /\ open = [w \in Owners |-> None]
  /\ request = [r \in Requesters |-> None]
  /\ closing = "no" /\ visitors = {} /\ reached = {}

cache == <<active, target, expiry, renewAt>>
ghosts == <<visitors, reached>>

-----------------------------------------------------------------------------
(* openPortal. *)

\* secretFor: the visitor capability is made on the first open.
SecretFor == IF secret = 0 THEN Cardinality(visitors) + 1 ELSE secret

\* Begin an open: it keeps its start time and the target it expects.
BeginOpen(w, expected) ==
  /\ secret' = SecretFor
  /\ visitors' = visitors \cup {secret'}
  /\ open' = [open EXCEPT ![w] = [since |-> now, expects |-> expected]]

\* A reply is accepted if it confirms the target and its handle, whose life
\* counts from the start of the open, is not over.
Confirms(w, t) == open[w].expects \in {None, t}
StillLives(w) == now < open[w].since + Life

Larger(a, b) == IF a < b THEN b ELSE a
Smaller(a, b) == IF a < b THEN a ELSE b

\* A fifth of the lifetime, within its bounds, or half of a short lifetime.
RenewalLead ==
  LET lead == Smaller(MaxLead, Larger(MinLead, Life \div 5))
  IN IF lead >= Life THEN Life \div 2 ELSE lead

\* Renewal is due RenewalLead before expiry, but Gap after the open, and never
\* later than expiry.
RenewalTime(exp) == Smaller(exp, Larger(exp - RenewalLead, now + Gap))

\* installLocked
Install(w, t) ==
  LET exp == open[w].since + Life
  IN /\ active' = exp /\ expiry' = exp
     /\ renewAt' = RenewalTime(exp)
     /\ target' = t

\* The handle is dropped and the opener waits for an explicit recovery.
FaultyDegrade ==
  /\ active' = None
  /\ UNCHANGED state
Degrade ==
  /\ state' = "degraded"
  /\ active' = None

Ready == active # None /\ now < expiry

-----------------------------------------------------------------------------
(* Start. *)

Goto(s, l) == start' = [start EXCEPT ![s] = l]

\* What the switch on the state decides for a Start call.
StartReady(s) == state = "running" /\ Ready /\ Goto(s, "idle")
StartRefused(s) == state = "closed" /\ Goto(s, "idle")
StartJoins(s) == state = "starting" /\ Goto(s, "joined")
FaultyStartAwaitsLoop(s) == state = "running" /\ ~Ready /\ Goto(s, "owner")
StartAwaitsLoop(s) == state = "running" /\ ~Ready /\ Goto(s, "expired")

StartDecides(s) ==
  /\ start[s] = "called"
  /\ StartReady(s) \/ StartRefused(s) \/ StartJoins(s) \/ StartAwaitsLoop(s)
  /\ UNCHANGED <<now, state, recovery, cache, secret, loopDone, loops, open, request, closing, ghosts>>

\* A new or degraded opener is started by this call.
StartOwns(s) ==
  /\ start[s] = "called" /\ state \in {"new", "degraded"}
  /\ recovery' = (state = "degraded")
  /\ state' = "starting"
  /\ Goto(s, "owner")
  /\ UNCHANGED <<now, cache, secret, loopDone, loops, open, request, closing, ghosts>>

\* runStart reads the expected target and sends the open.
StartOpens(s) ==
  /\ start[s] = "owner" /\ open[s] = None
  /\ BeginOpen(s, target)
  /\ UNCHANGED <<now, state, recovery, cache, loopDone, loops, start, request, closing, reached>>

\* The attempt is over: its owner and everyone who joined it return.
AttemptDone(s) ==
  /\ open' = [open EXCEPT ![s] = None]
  /\ start' = [w \in Starters |-> IF w = s \/ start[w] = "joined" THEN "idle" ELSE start[w]]

\* The open succeeded: install the handle and start its renewal loop.
StartSucceeds(s) ==
  /\ start[s] = "owner" /\ open[s] # None /\ state # "closed"
  /\ loopDone < MaxLoops
  /\ \E t \in Targets : Confirms(s, t) /\ StillLives(s) /\ Install(s, t)
  /\ state' = "running"
  /\ loopDone' = loopDone + 1
  /\ loops' = [loops EXCEPT ![loopDone'] = [at |-> "wait", expiry |-> expiry']]
  /\ AttemptDone(s)
  /\ UNCHANGED <<now, recovery, secret, request, closing, ghosts>>

\* The open failed, or no configuration could be resolved: the platform is to
\* blame unless the caller's own context ended.
StartFails(s) ==
  /\ start[s] = "owner" /\ state # "closed"
  /\ active' = None
  /\ \/ state' = "degraded"
     \/ state' = IF recovery THEN "degraded" ELSE "new"
  /\ AttemptDone(s)
  /\ UNCHANGED <<now, recovery, target, expiry, renewAt, secret, loopDone, loops, request, closing, ghosts>>

\* Close came first: whatever the open returned is cleared.
StartClosed(s) ==
  /\ start[s] = "owner" /\ state = "closed"
  /\ AttemptDone(s)
  /\ UNCHANGED <<now, state, recovery, cache, secret, loopDone, loops, request, closing, ghosts>>

\* A Start call that found an expired handle looks again when the handle was
\* replaced or the loop has ended.
StartLooksAgain(s) ==
  /\ start[s] = "expired"
  /\ Ready \/ loops[loopDone].at = "done"
  /\ Goto(s, "called")
  /\ UNCHANGED <<now, state, recovery, cache, secret, loopDone, loops, open, request, closing, ghosts>>

StartCalled(s) ==
  /\ start[s] = "idle" /\ closing # "done"
  /\ Goto(s, "called")
  /\ UNCHANGED <<now, state, recovery, cache, secret, loopDone, loops, open, request, closing, ghosts>>

\* The context of a waiting Start call ends.
StartGivesUp(s) ==
  /\ start[s] \in {"joined", "expired"}
  /\ Goto(s, "idle")
  /\ UNCHANGED <<now, state, recovery, cache, secret, loopDone, loops, open, request, closing, ghosts>>

-----------------------------------------------------------------------------
(* renewLoop. *)

At(l, p) == loops' = [loops EXCEPT ![l].at = p]
Stopped == state = "closed"   \* the lifecycle context is cancelled

\* waitUntil(renewAt): the timer fires, or the lifecycle ends.
LoopWakes(l) ==
  /\ loops[l].at = "wait"
  /\ \/ Stopped /\ At(l, "exit")
     \/ renewAt <= now /\ At(l, "try")
  /\ UNCHANGED <<now, state, recovery, cache, secret, loopDone, start, open, request, closing, ghosts>>

\* While the old handle lives another open is tried ...
LoopOpens(l) ==
  /\ loops[l].at = "try" /\ now < loops[l].expiry
  /\ BeginOpen(l, target)
  /\ At(l, "open")
  /\ UNCHANGED <<now, state, recovery, cache, loopDone, start, request, closing, reached>>

\* ... and once it has expired the opener degrades.
LoopExpires(l) ==
  /\ loops[l].at \in {"try", "hold"}
  /\ now >= loops[l].expiry
  /\ IF state = "running" /\ expiry = loops[l].expiry THEN Degrade ELSE UNCHANGED <<state, active>>
  /\ At(l, "exit")
  /\ UNCHANGED <<now, recovery, target, expiry, renewAt, secret, loopDone, start, open, request, closing, ghosts>>

\* The open succeeded; it is installed unless the opener was closed.
LoopInstalls(l) ==
  /\ loops[l].at = "open"
  /\ \E t \in Targets :
       /\ Confirms(l, t) /\ StillLives(l)
       /\ IF state = "running"
          THEN Install(l, t) /\ loops' = [loops EXCEPT ![l] = [at |-> "wait", expiry |-> expiry']]
          ELSE At(l, "exit") /\ UNCHANGED cache
  /\ open' = [open EXCEPT ![l] = None]
  /\ UNCHANGED <<now, state, recovery, secret, loopDone, start, request, closing, ghosts>>

\* The open failed.  Another target is not transient: the handle is kept until
\* it expires.  Any other failure is retried after a delay.
FaultyLoopFails(l) ==
  /\ loops[l].at = "open"
  /\ open' = [open EXCEPT ![l] = None]
  /\ At(l, "exit")
  /\ UNCHANGED <<now, state, recovery, cache, secret, loopDone, start, request, closing, ghosts>>
LoopFails(l) ==
  /\ loops[l].at = "open"
  /\ open' = [open EXCEPT ![l] = None]
  /\ IF state # "running" THEN At(l, "exit") ELSE \E p \in {"retry", "hold"} : At(l, p)
  /\ UNCHANGED <<now, state, recovery, cache, secret, loopDone, start, request, closing, ghosts>>

\* The retry delay passes, no longer than the handle lives, or the lifecycle ends.
LoopRetries(l) ==
  /\ loops[l].at = "retry"
  /\ At(l, "try") \/ (Stopped /\ At(l, "exit"))
  /\ UNCHANGED <<now, state, recovery, cache, secret, loopDone, start, open, request, closing, ghosts>>

LoopHeld(l) ==
  /\ loops[l].at = "hold" /\ Stopped
  /\ At(l, "exit")
  /\ UNCHANGED <<now, state, recovery, cache, secret, loopDone, start, open, request, closing, ghosts>>

\* The deferred exit never leaves a running opener without its loop.
LoopExits(l) ==
  /\ loops[l].at = "exit"
  /\ IF state = "running" /\ loopDone = l THEN Degrade ELSE UNCHANGED <<state, active>>
  /\ At(l, "done")
  /\ UNCHANGED <<now, recovery, target, expiry, renewAt, secret, loopDone, start, open, request, closing, ghosts>>

-----------------------------------------------------------------------------
(* Do and Close. *)

\* Do copies the handle under the lock; it never waits for one.
DoTakesHandle(r) ==
  /\ request[r] = None /\ state = "running" /\ Ready
  /\ request' = [request EXCEPT ![r] = target]
  /\ UNCHANGED <<now, state, recovery, cache, secret, loopDone, loops, start, open, closing, ghosts>>

\* The request goes to the copied target, or nowhere: the builder fails or
\* names another target, or the opener was closed in between.
DoSends(r) ==
  /\ request[r] # None
  /\ reached' \in {reached, reached \cup {request[r]}}
  /\ request' = [request EXCEPT ![r] = None]
  /\ UNCHANGED <<now, state, recovery, cache, secret, loopDone, loops, start, open, closing, visitors>>

CloseBegins ==
  /\ closing = "no"
  /\ closing' = "waiting" /\ state' = "closed"
  /\ UNCHANGED <<now, recovery, cache, secret, loopDone, loops, start, open, request, ghosts>>

\* The attempt and the loop Close found have ended.
FaultyCloseMayFinish == \A s \in Starters : start[s] # "owner"
CloseMayFinish ==
  /\ \A s \in Starters : start[s] # "owner"
  /\ loopDone # 0 => loops[loopDone].at = "done"

CloseEnds ==
  /\ closing = "waiting" /\ CloseMayFinish
  /\ closing' = "done"
  /\ active' = None /\ target' = None /\ expiry' = 0 /\ renewAt' = 0
  /\ secret' = 0
  /\ UNCHANGED <<now, state, recovery, loopDone, loops, start, open, request, ghosts>>

Tick ==
  /\ now < MaxTime
  /\ now' = now + 1
  /\ UNCHANGED <<state, recovery, cache, secret, loopDone, loops, start, open, request, closing, ghosts>>

-----------------------------------------------------------------------------
StartStep(s) ==
  \/ StartDecides(s) \/ StartOwns(s) \/ StartOpens(s) \/ StartSucceeds(s)
  \/ StartFails(s) \/ StartClosed(s) \/ StartLooksAgain(s)
LoopStep(l) ==
  \/ LoopWakes(l) \/ LoopOpens(l) \/ LoopExpires(l) \/ LoopInstalls(l) \/ LoopFails(l)
  \/ LoopRetries(l) \/ LoopHeld(l) \/ LoopExits(l)

Next ==
  \/ \E s \in Starters : StartCalled(s) \/ StartGivesUp(s) \/ StartStep(s)
  \/ \E l \in Loops : LoopStep(l)
  \/ \E r \in Requesters : DoTakesHandle(r) \/ DoSends(r)
  \/ CloseBegins \/ CloseEnds \/ Tick

Spec == Init /\ [][Next]_vars

\* Goroutines run, an open returns within its timeout, timers fire, and Close
\* goes on; nobody has to call Start, Do or Close, and no context has to end.
FairSpec ==
  /\ Spec
  /\ \A s \in Starters : WF_vars(StartStep(s))
  /\ \A l \in Loops : WF_vars(LoopStep(l))
  /\ WF_vars(CloseEnds)
  /\ WF_vars(Tick)

-----------------------------------------------------------------------------
(* Correctness. *)

\* Every open of one opener, first, renewal or recovery, is made by the same
\* visitor and one at a time: a second one could consume a single-use grant or
\* strand the session the first was given.
OneVisitor ==
  /\ Cardinality(visitors) <= 1
  /\ Cardinality({w \in Owners : open[w] # None}) <= 1

\* Every request of one opener goes to the target its first open confirmed,
\* across failed renewals and recoveries.
OneTarget == Cardinality(reached) <= 1

\* Whatever Start calls, renewals and recoveries overlap, the opener is one
\* visitor of one target.
OneSession == OneVisitor /\ OneTarget

\* When Close has returned nothing is cached, nothing is being opened and no
\* goroutine of the opener can bring the capability back.
CloseIsFinal ==
  closing = "done" =>
    /\ active = None /\ target = None /\ secret = 0
    /\ \A w \in Owners : open[w] = None
    /\ \A l \in Loops : loops[l].at \in {"off", "exit", "done"}

\* Whatever renewals come to, a handle that still lives is given up only by Close.
LiveHandleKept ==
  [][state = "running" /\ Ready => active' # None \/ state' = "closed"]_vars

\* Every Start call returns, and so does Close.
CallsReturn ==
  /\ \A s \in Starters : start[s] # "idle" ~> start[s] = "idle"
  /\ closing = "waiting" ~> closing = "done"

=============================================================================
