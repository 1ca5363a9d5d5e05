---------------------------- MODULE StateCustody ----------------------------
(***************************************************************************)
(* The stores that keep the agent state outside plain local files: the     *)
(* sealed file of qurl/sealed_state.go with its key wrapper (the AWS KMS   *)
(* one of awsstore/kms_key_wrapper.go or one the caller wrote), Secrets    *)
(* Manager and Parameter Store (awsstore/secretsmanager.go,                *)
(* awsstore/parameterstore.go).                                            *)
(*                                                                         *)
(* A state is the agent it names and the number of the save that wrote it; *)
(* that number stands for the save's fresh data key (DEK) too.  Each call  *)
(* to a service is one step: it may fail before or after it took effect.   *)
(* AES-GCM and KMS are ideal: a box opens only with its DEK and under its  *)
(* additional data, a blob only under its key and encryption context.      *)
(***************************************************************************)
EXTENDS Naturals, FiniteSets

CONSTANTS
  None,
  Valueless,   \* a reply of AWS that succeeds and carries no value
  Writers,     \* processes that hold a store of the same state
  Agents, Home,          \* agent ids, and the one the deployment pins
  Providers, Provider,   \* provider ids, and the configured one
  Keys, Default,         \* KMS keys, and the service's own default key
  Key,         \* kmsKeyID of each writer's store, Default when it is not set
  Verify,      \* writers that set WithVerifyKMSKey
  ByARN,       \* writers whose secret id is an ARN
  MaxSaves,    \* bound on the saves
  MaxChanges   \* bound on what others do to the alias and to what is stored

ASSUME CustodyAssumption ==
  /\ {MaxSaves, MaxChanges} \subseteq Nat
  /\ Home \in Agents /\ Provider \in Providers
  /\ Key \in [Writers -> Keys \cup {Default}] /\ Default \notin Keys
  /\ Verify \cup ByARN \subseteq Writers
  /\ Valueless # None
  /\ None \notin Nat \cup [agent : Agents, no : Nat] \cup [no : Nat, key : Keys \cup {Default}]

VARIABLES
  backend,  \* which store this is: "sealed", "secret" or "parameter"
  wrapper,  \* the key wrapper of a sealed store: "kms" or "custom"
  pinned,   \* WithExpectedSealedAgentID(Home) is set
  stored,   \* the durable value, None without one
  alias,    \* the key the configured KMS alias names now
  lock,     \* holder of the setup lock of a sealed file
  pc, held, \* where each call is, and the values it carries
  result,   \* the call that the last step ended: whose, how, what it saved or read
  saves, changes,   \* saves begun, changes made by others
  sealed,   \* every envelope a save ever committed
  landed    \* every value a save ever made durable in AWS, with its key

vars == <<backend, wrapper, pinned, stored, alias, lock, pc, held, result, saves, changes, sealed, landed>>
config == <<backend, wrapper, pinned>>
history == <<sealed, landed>>

Blank == [agent |-> None, no |-> 0, wrapped |-> None, env |-> None]

\* The last step ended no call.
NoResult == [by |-> None, how |-> "none", value |-> None]

Init ==
  /\ backend \in {"sealed", "secret", "parameter"}
  /\ wrapper \in IF backend = "sealed" THEN {"kms", "custom"} ELSE {"kms"}
  /\ pinned \in IF backend = "sealed" THEN BOOLEAN ELSE {FALSE}
  /\ stored = None /\ alias \in Keys /\ lock = None
  /\ pc = [w \in Writers |-> "idle"]
  /\ held = [w \in Writers |-> Blank]
  /\ result = NoResult
  /\ saves = 0 /\ changes = 0 /\ sealed = {} /\ landed = {}

---------------------------------------------------------------------------
(***************************************************************************)
(* Key wrapping.                                                           *)
(***************************************************************************)
Binding(provider, agent) == [provider |-> provider, agent |-> agent]

NotJSON == "notJSON"   \* metadata that is not JSON
Twisted == "twisted"   \* JSON that the envelope's decoder refuses

\* KMSAgentStateKeyWrapper.WrapKey: the metadata is the key KMS says it used.
KMSWrapKey(dek, binding) ==
  {[blob |-> [key |-> alias, dek |-> dek, context |-> binding], meta |-> alias]}

\* A wrapper of the caller may return another DEK's record or odd metadata.
CustomWrapKey(dek, binding) ==
  {[blob |-> [key |-> alias, dek |-> d, context |-> binding], meta |-> m]
     : d \in {0, dek}, m \in {alias, NotJSON, Twisted}}

WrapKey(dek, binding) ==
  IF wrapper = "kms" THEN KMSWrapKey(dek, binding) ELSE CustomWrapKey(dek, binding)

FaultyDecryptKey(wrapped) == alias

\* The key named in Decrypt, from the record's own metadata.
DecryptKey(wrapped) == wrapped.meta

\* KMSAgentStateKeyWrapper.UnwrapKey: None is ErrInvalidWrappedAgentStateKey.
KMSUnwrapKey(wrapped, binding) ==
  IF /\ wrapped.meta \in Keys
     /\ DecryptKey(wrapped) = wrapped.blob.key
     /\ wrapped.blob.context = binding
  THEN wrapped.blob.dek ELSE None

\* A wrapper of the caller, in service: it binds all four fields and reads no
\* metadata.
CustomUnwrapKey(wrapped, binding) ==
  IF wrapped.blob.context = binding THEN wrapped.blob.dek ELSE None

UnwrapKey(wrapped, binding) ==
  IF wrapper = "kms" THEN KMSUnwrapKey(wrapped, binding) ELSE CustomUnwrapKey(wrapped, binding)

\* What a call to the wrapper may answer, failures other than None apart: a
\* wrapper that cannot tell its failures apart must answer an outage, too,
\* with ErrInvalidWrappedAgentStateKey.
Answers(wrapped, binding) ==
  {UnwrapKey(wrapped, binding)} \cup IF wrapper = "custom" THEN {None} ELSE {}

---------------------------------------------------------------------------
(***************************************************************************)
(* The envelope.                                                           *)
(***************************************************************************)
FaultyAad(provider, agent, wrapped) ==
  [provider |-> provider, agent |-> agent, blob |-> wrapped.blob]

Aad(provider, agent, wrapped) ==
  [provider |-> provider, agent |-> agent, blob |-> wrapped.blob, meta |-> wrapped.meta]

Seal(dek, agent, no, wrapped) ==
  [provider |-> Provider, agent |-> agent, wrapped |-> wrapped,
   box |-> [dek |-> dek, aad |-> Aad(Provider, agent, wrapped),
            state |-> [agent |-> agent, no |-> no]]]

\* decodeSealedAgentStateEnvelope and validateWrappedAgentStateKey.
WellFormed(env) == env.wrapped.meta \notin {NotJSON, Twisted}

\* What decodeSealedAgentState refuses before it calls the wrapper.
Admitted(env) ==
  /\ WellFormed(env)
  /\ env.provider = Provider
  /\ pinned => env.agent = Home

Box(env, dek) ==
  IF /\ dek = env.box.dek
     /\ env.box.aad = Aad(env.provider, env.agent, env.wrapped)
     /\ env.box.state.agent = env.agent
  THEN env.box.state ELSE None

\* decodeSealedAgentState with the wrapper's answer: None is an invalid state.
Opened(env, dek) == IF Admitted(env) /\ dek # None THEN Box(env, dek) ELSE None

\* The same with the wrapper in service.
Decoded(env) == Opened(env, UnwrapKey(env.wrapped, Binding(env.provider, env.agent)))

---------------------------------------------------------------------------
(***************************************************************************)
(* Calls.                                                                  *)
(***************************************************************************)
\* The call of w ends: its deferred release gives the setup lock back.
Return(w, how, value) ==
  /\ pc' = [pc EXCEPT ![w] = "idle"]
  /\ held' = [held EXCEPT ![w] = Blank]
  /\ result' = [by |-> w, how |-> how, value |-> value]
  /\ lock' = IF lock = w THEN None ELSE lock

Fail(w, how) == Return(w, how, None)

\* The call of w goes on at step at, carrying record.
Goto(w, at, record) ==
  /\ pc' = [pc EXCEPT ![w] = at]
  /\ held' = [held EXCEPT ![w] = record]
  /\ result' = NoResult /\ UNCHANGED lock

\* The caller's context ends, the process dies or a service fails: the call
\* ends with nothing more made durable.
Abandon(w) ==
  /\ pc[w] # "idle"
  /\ Fail(w, "error")
  /\ UNCHANGED <<config, stored, alias, saves, changes, history>>

\* SaveAgentState under the setup lock, up to the fresh DEK.
SaveSealed(w, agent) ==
  /\ backend = "sealed" /\ pc[w] = "idle" /\ lock = None /\ saves < MaxSaves
  /\ saves' = saves + 1
  /\ IF pinned /\ agent # Home
     THEN Fail(w, "config")
     ELSE /\ pc' = [pc EXCEPT ![w] = "wrap"] /\ lock' = w
          /\ held' = [held EXCEPT ![w] = [Blank EXCEPT !.agent = agent, !.no = saves']]
          /\ result' = NoResult
  /\ UNCHANGED <<config, stored, alias, changes, history>>

Wrap(w) ==
  /\ pc[w] = "wrap"
  /\ \E wrapped \in WrapKey(held[w].no, Binding(Provider, held[w].agent)) :
       IF wrapped.meta = NotJSON THEN Fail(w, "wrapper")
       ELSE Goto(w, "verify", [held[w] EXCEPT !.wrapped = wrapped])
  /\ UNCHANGED <<config, stored, alias, saves, changes, history>>

FaultyReproduces(w, dek) == dek # None

\* The wrapped key must give the same DEK back.
Reproduces(w, dek) == dek = held[w].no

VerifyKey(w) ==
  /\ pc[w] = "verify"
  /\ \E dek \in Answers(held[w].wrapped, Binding(Provider, held[w].agent)) :
       IF Reproduces(w, dek) THEN Goto(w, "commit", held[w]) ELSE Fail(w, "wrapper")
  /\ UNCHANGED <<config, stored, alias, saves, changes, history>>

\* validateSealedAgentStateForCommit: the bytes to be written open again.
ReadyToCommit(env, w) ==
  WellFormed(env) /\ Box(env, held[w].no) = [agent |-> held[w].agent, no |-> held[w].no]

\* The envelope is sealed, checked and written; the atomic save may fail
\* after the rename, so an error can leave the new envelope in place.
Commit(w) ==
  /\ pc[w] = "commit"
  /\ LET env == Seal(held[w].no, held[w].agent, held[w].no, held[w].wrapped)
     IN IF ~ReadyToCommit(env, w)
        THEN Fail(w, "wrapper") /\ UNCHANGED <<stored, sealed>>
        ELSE /\ stored' = env /\ sealed' = sealed \cup {env}
             /\ \E how \in {"saved", "error"} : Return(w, how, env)
  /\ UNCHANGED <<config, alias, saves, changes, landed>>

\* LoadAgentState up to the wrapper call.  It takes no setup lock.
LoadSealed(w) ==
  /\ backend = "sealed" /\ pc[w] = "idle"
  /\ IF stored = None THEN Return(w, "notFound", stored)
     ELSE IF Admitted(stored) THEN Goto(w, "unwrap", [Blank EXCEPT !.env = stored])
     ELSE Return(w, "invalid", stored)
  /\ UNCHANGED <<config, stored, alias, saves, changes, history>>

Unwrap(w) ==
  /\ pc[w] = "unwrap"
  /\ LET env == held[w].env
     IN \E dek \in Answers(env.wrapped, Binding(env.provider, env.agent)) :
          Return(w, IF Opened(env, dek) = None THEN "invalid" ELSE "loaded", env)
  /\ UNCHANGED <<config, stored, alias, saves, changes, history>>

---------------------------------------------------------------------------
(***************************************************************************)
(* Secrets Manager and Parameter Store.                                    *)
(***************************************************************************)
\* Value no becomes durable under key, and the reply may be lost.
Put(w, key) ==
  LET value == [no |-> held[w].no, key |-> key]
  IN /\ stored' = value /\ landed' = landed \cup {value}
     /\ \E how \in {"saved", "error"} : Return(w, how, held[w].no)

SaveRemote(w) ==
  /\ backend # "sealed" /\ pc[w] = "idle" /\ saves < MaxSaves
  /\ saves' = saves + 1
  /\ Goto(w, IF backend = "parameter" THEN "overwrite"
             ELSE IF w \in Verify THEN "check" ELSE "put",
          [Blank EXCEPT !.no = saves'])
  /\ UNCHANGED <<config, stored, alias, changes, history>>

\* PutParameter names the key on every write.
Overwrite(w) ==
  /\ pc[w] = "overwrite"
  /\ Put(w, Key[w])
  /\ UNCHANGED <<config, alias, saves, changes, sealed>>

\* checkKMSKey on a secret that exists: an exact key ARN, the secret's key.
CheckKMSKey(w) == Key[w] # Default /\ stored.key = Key[w]

\* The check before the write: a missing secret goes straight to CreateSecret.
Check(w) ==
  /\ pc[w] = "check"
  /\ IF Key[w] = Default THEN Fail(w, "config")
     ELSE IF stored = None THEN Goto(w, "create", held[w])
     ELSE IF CheckKMSKey(w) THEN Goto(w, "put", held[w])
     ELSE Fail(w, "config")
  /\ UNCHANGED <<config, stored, alias, saves, changes, history>>

\* PutSecretValue keeps the secret's own key.
PutSecretValue(w) ==
  /\ pc[w] = "put"
  /\ IF stored = None THEN Goto(w, "create", held[w]) /\ UNCHANGED <<stored, landed>>
     ELSE Put(w, stored.key)
  /\ UNCHANGED <<config, alias, saves, changes, sealed>>

FaultyAfterRace(w) == "reput"

\* What a lost create race leads to.
AfterRace(w) == IF w \in Verify THEN "recheck" ELSE "reput"

CreateSecret(w) ==
  /\ pc[w] = "create"
  /\ \/ w \in ByARN /\ Fail(w, "config") /\ UNCHANGED <<stored, landed>>
     \/ w \notin ByARN /\ stored = None /\ Put(w, Key[w])
     \/ w \notin ByARN /\ stored # None /\ Goto(w, AfterRace(w), held[w]) /\ UNCHANGED <<stored, landed>>
  /\ UNCHANGED <<config, alias, saves, changes, sealed>>

\* After a lost race a missing secret is an error, not a reason to create.
Recheck(w) ==
  /\ pc[w] = "recheck"
  /\ IF stored = None THEN Fail(w, "error")
     ELSE IF CheckKMSKey(w) THEN Goto(w, "reput", held[w])
     ELSE Fail(w, "config")
  /\ UNCHANGED <<config, stored, alias, saves, changes, history>>

PutAfterRace(w) ==
  /\ pc[w] = "reput"
  /\ IF stored = None THEN Fail(w, "error") /\ UNCHANGED <<stored, landed>>
     ELSE Put(w, stored.key)
  /\ UNCHANGED <<config, alias, saves, changes, sealed>>

\* A value no save wrote: none, or one that does not decode.
Garbage == 0

\* What a load makes of the reply: an absence is reported as such, a reply
\* without a value is an invalid state, and a value is decoded.
Verdict(reply) ==
  IF reply = None THEN "notFound"
  ELSE IF reply = Valueless THEN "invalid"
  ELSE IF reply.no = Garbage THEN "invalid" ELSE "loaded"

\* The reply is what is stored, or carries no value whatever is stored: a
\* binary secret or a malformed reply.
LoadSecret(w) ==
  /\ backend = "secret" /\ pc[w] = "idle"
  /\ \/ \E reply \in {stored, Valueless} : Return(w, Verdict(reply), reply)
     \/ Fail(w, "error")
  /\ UNCHANGED <<config, stored, alias, saves, changes, history>>

LoadParameter(w) ==
  /\ backend = "parameter" /\ pc[w] = "idle"
  /\ \/ \E reply \in {stored, Valueless} : Return(w, Verdict(reply), reply)
     \/ Fail(w, "error")
  /\ UNCHANGED <<config, stored, alias, saves, changes, history>>

---------------------------------------------------------------------------
(***************************************************************************)
(* What others do.                                                         *)
(***************************************************************************)
Retarget ==
  /\ backend = "sealed" /\ changes < MaxChanges /\ changes' = changes + 1
  /\ alias' \in Keys \ {alias}
  /\ result' = NoResult
  /\ UNCHANGED <<config, stored, lock, pc, held, saves, history>>

\* Another agent's file, sealed in its own directory under the same wrapper.
Foreign ==
  {Seal(0, a, 0, [blob |-> [key |-> k, dek |-> 0, context |-> Binding(Provider, a)], meta |-> k])
     : a \in Agents \ {Home}, k \in Keys}

\* A file put together from parts of this store's and of another's envelopes.
Recombined ==
  LET known == sealed \cup Foreign
  IN {[provider |-> p, agent |-> a, wrapped |-> [e.wrapped EXCEPT !.meta = m], box |-> f.box]
        : p \in Providers, a \in Agents, m \in Keys \cup {Twisted}, e \in known, f \in known}

Replace ==
  /\ changes < MaxChanges /\ changes' = changes + 1
  /\ stored # None
  /\ stored' \in {None} \cup
       IF backend = "sealed" THEN Recombined ELSE {[stored EXCEPT !.no = Garbage]}
  /\ result' = NoResult
  /\ UNCHANGED <<config, alias, lock, pc, held, saves, history>>

Next ==
  \/ \E w \in Writers :
       \/ \E a \in Agents : SaveSealed(w, a)
       \/ Wrap(w) \/ VerifyKey(w) \/ Commit(w)
       \/ LoadSealed(w) \/ Unwrap(w)
       \/ SaveRemote(w) \/ Overwrite(w)
       \/ Check(w) \/ PutSecretValue(w) \/ CreateSecret(w) \/ Recheck(w) \/ PutAfterRace(w)
       \/ LoadSecret(w) \/ LoadParameter(w) \/ Abandon(w)
  \/ Retarget \/ Replace

Spec == Init /\ [][Next]_vars

---------------------------------------------------------------------------
(***************************************************************************)
(* Properties.                                                             *)
(***************************************************************************)
\* Every envelope a save ever committed opens, with the wrapper in service, to
\* the state it was given, whatever key the alias names by now
\* (saveAgentStateRetained verifies the wrapped key and reopens the exact bytes
\* before the atomic commit).  The state is one that the loader's own checks of
\* its content accept.
Reopenable == \A e \in sealed : Decoded(e) = e.box.state

\* A load says that there is no state only when none was there: not when the
\* service answers without a value, which would have the caller enroll anew
\* over a credential that may be genuine.  With the KMS wrapper, and in AWS, it
\* says that the state is corrupt only when it was given no value at all or one
\* no save wrote: an outage or a moved alias is never taken for corruption.  (A
\* wrapper of the caller that cannot tell failures apart may take it for that,
\* as AgentStateKeyWrapper demands.)
VerdictsAreHonest ==
  /\ result.how = "notFound" => result.value = None
  /\ result.how = "invalid" =>
       /\ result.value # None
       /\ \/ result.value = Valueless /\ backend # "sealed"
          \/ wrapper = "custom"
          \/ result.value \notin sealed \cup landed

\* A sealed load that succeeds read, unaltered, a whole envelope that a save
\* of this store or of another agent's produced, and with a pinned id never
\* another agent's (decodeSealedAgentState: binding, additional data, pin).
LoadIsAuthentic ==
  backend = "sealed" /\ result.how = "loaded" =>
    /\ result.value \in sealed \cup Foreign
    /\ pinned => result.value.box.state.agent = Home

\* An acknowledged save was durable at some point of its call, and under the
\* writer's own key when it names the key on every write, or verifies it and
\* nobody deleted the secret out of band: also when another writer created
\* the secret in between (SaveAgentState of both AWS stores).
SavedUnderKey ==
  backend # "sealed" /\ result.how = "saved" =>
    \E value \in landed :
      /\ value.no = result.value
      /\ backend = "parameter" \/ (result.by \in Verify /\ changes = 0)
           => value.key = Key[result.by]
=============================================================================
