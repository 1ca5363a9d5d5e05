--------------------------- MODULE RuntimeClient ---------------------------
(***************************************************************************)
(* What a running agent shares between its goroutines once it is open: the *)
(* cached device credential of its Client (cachedCredentialProvider of     *)
(* qurl/client.go over storeCredentialProvider of qurl/register.go), the   *)
(* device key of its binding, which TakeDeviceStaticPrivateKey hands over, *)
(* Destroy wipes and a Connector resource exchange borrows, and the key a  *)
(* resource handle keeps to retire its session (qurl/portal_retirement.go).*)
(*                                                                         *)
(* A section under a mutex is one step, except where the code holds the    *)
(* mutex across network I/O: there the mutex is a variable.                *)
(***************************************************************************)
EXTENDS Naturals

CONSTANTS
  None,
  Procs,      \* goroutines
  TTL,        \* storeCredentialCacheTTL
  MaxTime,    \* bound on the clock
  MaxCred,    \* bound on the device credentials
  MaxCalls    \* bound on the calls of a goroutine

ASSUME RuntimeAssumption ==
  /\ {TTL, MaxTime, MaxCred, MaxCalls} \subseteq Nat
  /\ 0 < TTL /\ 0 < MaxCred
  /\ None \notin Procs \cup Nat \cup [cred : Nat, begun : Nat, ended : Nat]

VARIABLES
  now,        \* the clock
  stored,     \* the device credential in the store
  replaced,   \* when each credential ceased to be the stored one, None before
  moved,      \* when the store began to name another agent, None before
  cache,      \* the cached credential and the refresh that brought it, None without one
  expires,    \* expiresAt
  refresher,  \* the goroutine that refreshes, None while refreshDone is nil
  at,         \* where each goroutine is
  clock,      \* the clock its loop has read
  load,       \* the load of a refresher: when it began and what it read
  calls,      \* the calls it has made
  authorized, \* the last credential put on a request, and how it got there
  key,        \* the binding's device key: "held", "taken" or "wiped"
  keyMu,      \* holder of the key's mutex
  session,    \* the session at its cell: "open", "closing" or "closed"
  closeKey,   \* the handle's copy of the key: "held" or "wiped"
  closeMu     \* holder of the retirement mutex

cacheVars == <<stored, replaced, moved, cache, expires, refresher, clock, load, authorized>>
keyVars == <<key, keyMu>>
closeVars == <<session, closeKey, closeMu>>
runtimeVars == <<now, cacheVars, at, calls, keyVars, closeVars>>

Unread == [begun |-> 0, cred |-> None]

\* newStoreBackedClientWithCredential primes the cache from the opened state.
RuntimeInit ==
  /\ now = 0 /\ stored = 1 /\ replaced = [c \in 1..MaxCred |-> None] /\ moved = None
  /\ cache = [cred |-> 1, begun |-> 0, ended |-> 0] /\ expires = TTL
  /\ refresher = None
  /\ at = [p \in Procs |-> "idle"]
  /\ clock = [p \in Procs |-> 0] /\ load = [p \in Procs |-> Unread]
  /\ calls = [p \in Procs |-> 0]
  /\ authorized = None
  /\ key = "held" /\ keyMu = None
  /\ session = "open" /\ closeKey = "held" /\ closeMu = None

Call(p) ==
  /\ at[p] = "idle" /\ calls[p] < MaxCalls
  /\ calls' = [calls EXCEPT ![p] = @ + 1]

Goto(p, place) == at' = [at EXCEPT ![p] = place]

---------------------------------------------------------------------------
(***************************************************************************)
(* The credential cache.                                                   *)
(***************************************************************************)
Authorize(p) ==
  /\ Call(p) /\ Goto(p, "top")
  /\ UNCHANGED <<now, cacheVars, keyVars, closeVars>>

\* The top of the loop: the clock is read before the mutex is taken.
ReadClock(p) ==
  /\ at[p] = "top" /\ Goto(p, "cache")
  /\ clock' = [clock EXCEPT ![p] = now]
  /\ UNCHANGED <<now, stored, replaced, moved, cache, expires, refresher, load, authorized,
                 calls, keyVars, closeVars>>

\* What is put on a request: a cached credential, by the clock that was read.
Stamped(c, t) == [cred |-> c.cred, begun |-> c.begun, ended |-> c.ended, clock |-> t]

FaultyCached(p) == cache # None /\ clock[p] <= expires

Cached(p) == cache # None /\ clock[p] < expires

UseCache(p) ==
  /\ at[p] = "cache" /\ Cached(p) /\ Goto(p, "idle")
  /\ authorized' = Stamped(cache, clock[p])
  /\ clock' = [clock EXCEPT ![p] = 0]
  /\ UNCHANGED <<now, stored, replaced, moved, cache, expires, refresher, load,
                 calls, keyVars, closeVars>>

FaultyStartRefresh(p) ==
  /\ at[p] = "cache" /\ ~Cached(p)
  /\ refresher' = p /\ Goto(p, "load")
  /\ load' = [load EXCEPT ![p] = [begun |-> now, cred |-> None]]
  /\ UNCHANGED <<now, stored, replaced, moved, cache, expires, clock, authorized,
                 calls, keyVars, closeVars>>

\* One goroutine refreshes; the expired credential stays until it is replaced.
StartRefresh(p) ==
  /\ at[p] = "cache" /\ ~Cached(p) /\ refresher = None
  /\ refresher' = p /\ Goto(p, "load")
  /\ load' = [load EXCEPT ![p] = [begun |-> now, cred |-> None]]
  /\ UNCHANGED <<now, stored, replaced, moved, cache, expires, clock, authorized,
                 calls, keyVars, closeVars>>

AwaitRefresh(p) ==
  /\ at[p] = "cache" /\ ~Cached(p) /\ refresher # None
  /\ Goto(p, "wait")
  /\ clock' = [clock EXCEPT ![p] = 0]
  /\ UNCHANGED <<now, stored, replaced, moved, cache, expires, refresher, load, authorized,
                 calls, keyVars, closeVars>>

\* storeCredentialProvider.Authorize: the state must name the opened agent.
LoadCredential(p) ==
  /\ at[p] = "load" /\ load[p].cred = None /\ moved = None
  /\ load' = [load EXCEPT ![p].cred = stored]
  /\ UNCHANGED <<now, stored, replaced, moved, cache, expires, refresher, clock, authorized,
                 at, calls, keyVars, closeVars>>

\* close(done): every waiter goes back to the top of its loop.
Woken(p) == [q \in Procs |-> IF q = p THEN "idle" ELSE IF at[q] = "wait" THEN "top" ELSE at[q]]

FinishRefresh(p) ==
  /\ at[p] = "load" /\ load[p].cred # None
  /\ cache' = [cred |-> load[p].cred, begun |-> load[p].begun, ended |-> now]
  /\ expires' = now + TTL
  /\ authorized' = Stamped(cache', clock[p])
  /\ refresher' = None /\ at' = Woken(p)
  /\ load' = [load EXCEPT ![p] = Unread] /\ clock' = [clock EXCEPT ![p] = 0]
  /\ UNCHANGED <<now, stored, replaced, moved, calls, keyVars, closeVars>>

FaultyRefreshFails(p) ==
  /\ at[p] = "load"
  /\ Goto(p, "idle")
  /\ load' = [load EXCEPT ![p] = Unread]
  /\ UNCHANGED <<now, stored, replaced, moved, cache, expires, refresher, clock, authorized,
                 calls, keyVars, closeVars>>

\* The store fails or names another agent, or the provider panics: the
\* deferred finishRefresh caches nothing and lets the waiters go on.
RefreshFails(p) ==
  /\ at[p] = "load"
  /\ refresher' = None /\ at' = Woken(p)
  /\ load' = [load EXCEPT ![p] = Unread] /\ clock' = [clock EXCEPT ![p] = 0]
  /\ UNCHANGED <<now, stored, replaced, moved, cache, expires, authorized,
                 calls, keyVars, closeVars>>

\* The context of a waiting call ends.
WaitCancelled(p) ==
  /\ at[p] = "wait" /\ Goto(p, "idle")
  /\ UNCHANGED <<now, cacheVars, calls, keyVars, closeVars>>

---------------------------------------------------------------------------
(***************************************************************************)
(* The device key of the binding.                                          *)
(***************************************************************************)
FaultyKeyFree == TRUE

\* The mutex of agentRuntimePrivateKey can be taken.
KeyFree == keyMu = None

\* withBorrow keeps the mutex for the whole exchange.
Borrow(p) ==
  /\ Call(p) /\ keyMu = None
  /\ IF key = "held" THEN keyMu' = p /\ Goto(p, "exchange") ELSE UNCHANGED <<keyMu, at>>
  /\ UNCHANGED <<now, cacheVars, key, closeVars>>

\* The exchange ends, with the resource, with a denial or without a reply.
ExchangeEnds(p) ==
  /\ at[p] = "exchange"
  /\ keyMu' = None /\ Goto(p, "idle")
  /\ UNCHANGED <<now, cacheVars, calls, key, closeVars>>

Take(p) ==
  /\ Call(p) /\ KeyFree
  /\ key' = IF key = "held" THEN "taken" ELSE key
  /\ UNCHANGED <<now, cacheVars, at, keyMu, closeVars>>

Destroy(p) ==
  /\ Call(p) /\ KeyFree
  /\ key' = IF key = "held" THEN "wiped" ELSE key
  /\ UNCHANGED <<now, cacheVars, at, keyMu, closeVars>>

---------------------------------------------------------------------------
(***************************************************************************)
(* Retirement of the session of a resource handle.                         *)
(***************************************************************************)
\* RetireSession: a terminal result is returned again without an exchange.
RetireSession(p) ==
  /\ Call(p) /\ closeMu = None
  /\ IF closeKey = "held" THEN closeMu' = p /\ Goto(p, "exit") ELSE UNCHANGED <<closeMu, at>>
  /\ UNCHANGED <<now, cacheVars, keyVars, session, closeKey>>

\* The cell answers the EXT with the state of exactly this session: only
\* closed ends the retirement.
ExitAnswered(p) ==
  /\ at[p] = "exit"
  /\ session' = IF session = "open" THEN "closing" ELSE session
  /\ closeKey' = IF session' = "closed" THEN "wiped" ELSE closeKey
  /\ closeMu' = None /\ Goto(p, "idle")
  /\ UNCHANGED <<now, cacheVars, calls, keyVars>>

\* The EXT or its answer is lost, denied or malformed.
ExitFails(p) ==
  /\ at[p] = "exit"
  /\ session' \in {session, IF session = "open" THEN "closing" ELSE session}
  /\ closeMu' = None /\ Goto(p, "idle")
  /\ UNCHANGED <<now, cacheVars, calls, keyVars, closeKey>>

---------------------------------------------------------------------------
(***************************************************************************)
(* What others do.                                                         *)
(***************************************************************************)
ClockTicks ==
  /\ now < MaxTime /\ now' = now + 1
  /\ UNCHANGED <<cacheVars, at, calls, keyVars, closeVars>>

\* A recovery or another process replaces the credential in the store.
Rotate ==
  /\ stored < MaxCred /\ stored' = stored + 1
  /\ replaced' = [replaced EXCEPT ![stored] = now]
  /\ UNCHANGED <<now, moved, cache, expires, refresher, clock, load, authorized,
                 at, calls, keyVars, closeVars>>

\* The store is given another agent's state.
Reidentify ==
  /\ moved = None /\ moved' = now
  /\ UNCHANGED <<now, stored, replaced, cache, expires, refresher, clock, load, authorized,
                 at, calls, keyVars, closeVars>>

CellCloses ==
  /\ session = "closing" /\ session' = "closed"
  /\ UNCHANGED <<now, cacheVars, at, calls, keyVars, closeKey, closeMu>>

Step(p) ==
  \/ ReadClock(p) \/ UseCache(p) \/ StartRefresh(p) \/ AwaitRefresh(p)
  \/ LoadCredential(p) \/ FinishRefresh(p) \/ RefreshFails(p)
  \/ ExchangeEnds(p) \/ ExitAnswered(p) \/ ExitFails(p)

RuntimeNext ==
  \/ \E p \in Procs :
       \/ Step(p) \/ WaitCancelled(p)
       \/ Authorize(p) \/ Borrow(p) \/ Take(p) \/ Destroy(p) \/ RetireSession(p)
  \/ ClockTicks \/ Rotate \/ Reidentify \/ CellCloses

RuntimeSpec == RuntimeInit /\ [][RuntimeNext]_runtimeVars

\* A goroutine goes on; a store answers and an exchange ends with its context.
FairRuntimeSpec == RuntimeSpec /\ \A p \in Procs : WF_runtimeVars(Step(p))

---------------------------------------------------------------------------
(***************************************************************************)
(* Properties.                                                             *)
(***************************************************************************)
\* A credential that was replaced in the store, or that of an agent the store no
\* longer names, is out of use a TTL after that, and the time the load took that
\* brought it: by the clock the call has read.  Between that reading and the mutex
\* a goroutine may sleep, and the code puts no bound on it
\* (cachedCredentialProvider.Authorize, storeCredentialCacheTTL).
CredentialFresh ==
  authorized # None =>
    \A t \in {replaced[authorized.cred], moved} \ {None} :
      authorized.clock < t + TTL + (authorized.ended - authorized.begun)

\* However goroutines and the store's writers interleave, requests never go back to
\* an older credential: no refresh that began before another one ended overwrites
\* what that one brought (refreshDone, finishRefresh).
CredentialsAdvance ==
  [][authorized # None => authorized.cred <= authorized'.cred]_runtimeVars

\* A key is never handed over or wiped under an exchange that uses it, and
\* the handle's key is wiped only once the cell has closed the session, so
\* that a retirement can always be repeated (withBorrow, RetireSession).
KeysOutliveUse ==
  /\ \A p \in Procs : at[p] = "exchange" => key = "held"
  /\ \A p \in Procs : at[p] = "exit" => closeKey = "held"
  /\ closeKey = "wiped" => session = "closed"

\* No Authorize, resolution or retirement waits for ever: a refresh that
\* fails frees the goroutines waiting for it (refresh, finishRefresh).
CallsReturn == \A p \in Procs : at[p] # "idle" ~> at[p] = "idle"
=============================================================================
