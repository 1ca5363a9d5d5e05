------------------------- MODULE StateCustodyProofs -------------------------
(***************************************************************************)
(* Proofs about StateCustody, for any number of writers, agents, providers *)
(* and keys, any saves and any changes others make: what a save committed  *)
(* can be opened again, what a load hands out is authentic, the verdicts   *)
(* of a load are honest, and an acknowledged save lies under the right key. *)
(*                                                                         *)
(* The argument.  A call carries what its next step relies on (CallInv):   *)
(* the number of a save is its own and no box on record was sealed with it *)
(* (FreshInv), a wrapped key that reaches the commit gives that number     *)
(* back, and a verified writer that goes on to put has seen its own key on *)
(* the secret, which nobody can change any more.  A stored envelope has    *)
(* the box of a genuine one, whatever else of it was put together          *)
(* (StoredInv), and a box opens only inside the envelope it was made for.  *)
(***************************************************************************)
EXTENDS StateCustody, TLAPS

Sealing == {"wrap", "verify", "commit"}
Putting == {"check", "put", "create", "recheck", "reput"}
Saving == Sealing \cup Putting \cup {"overwrite"}

Bindings == [provider : Providers, agent : Agents]
Blobs == [key : Keys, dek : Nat, context : Bindings]
Wrapped == [blob : Blobs, meta : Keys \cup {NotJSON, Twisted}]
States == [agent : Agents, no : Nat]
Boxes == [dek : Nat, aad : [provider : Providers, agent : Agents, blob : Blobs,
                            meta : Keys \cup {NotJSON, Twisted}], state : States]
Envelopes == [provider : Providers, agent : Agents, wrapped : Wrapped, box : Boxes]
Carried == [agent : Agents \cup {None}, no : Nat, wrapped : Wrapped \cup {None},
            env : Envelopes \cup {None}]
Values == [no : Nat, key : Keys \cup {Default}]

\* What a save of this provider sealed: its box was made for it.
Genuine == {e \in Envelopes : e.provider = Provider /\ e.box.aad = Aad(e.provider, e.agent, e.wrapped)}

\* The data keys of every box on record; 0 stands for those of other agents.
Deks == {0} \cup {e.box.dek : e \in sealed}

\* The box of e is that of an envelope a save produced.
Derived(e) == e \in Envelopes /\ \E f \in sealed \cup Foreign : e.box = f.box

CustodyTypes ==
  /\ backend \in {"sealed", "secret", "parameter"}
  /\ wrapper \in {"kms", "custom"} /\ pinned \in BOOLEAN
  /\ alias \in Keys
  /\ saves \in Nat /\ changes \in Nat
  /\ pc \in [Writers -> {"idle", "unwrap"} \cup Saving]
  /\ held \in [Writers -> Carried]
  /\ sealed \subseteq Genuine
  /\ landed \subseteq Values
  /\ backend = "sealed" => landed = {}
  /\ backend # "sealed" => sealed = {}

StoredInv ==
  stored # None => IF backend = "sealed" THEN Derived(stored) ELSE stored \in Values

\* What a save committed was admitted, opens, and was sealed with its number.
SealedInv ==
  \A e \in sealed : Admitted(e) /\ Decoded(e) = e.box.state /\ e.box.dek <= saves

LandedInv == \A v \in landed : v.no # Garbage

\* What the call of w relies on at step at, when it carries h.
CallOK(w, at, h) ==
  /\ at \in Sealing \cup {"unwrap"} => backend = "sealed"
  /\ at = "overwrite" => backend = "parameter"
  /\ at \in Putting => backend = "secret"
  /\ at \in Sealing => h.agent \in Agents /\ (pinned => h.agent = Home) /\ h.no \notin Deks
  /\ at \in {"verify", "commit"} => h.wrapped \in Wrapped
  /\ at = "commit" => UnwrapKey(h.wrapped, Binding(Provider, h.agent)) = h.no
  /\ at = "unwrap" => h.env # None /\ Derived(h.env)
  /\ at \in {"put", "reput"} /\ w \in Verify /\ changes = 0 => stored # None /\ stored.key = Key[w]

CallInv == \A w \in Writers : CallOK(w, pc[w], held[w])

\* A save has a number of its own.
FreshInv ==
  /\ \A w \in Writers : pc[w] \in Saving => held[w].no # 0 /\ held[w].no <= saves
  /\ \A v, w \in Writers : pc[v] \in Sealing /\ pc[w] \in Sealing /\ held[v].no = held[w].no => v = w

\* What a call that has just ended shows.
ResultInv == VerdictsAreHonest /\ LoadIsAuthentic /\ SavedUnderKey

CustodyInv ==
  CustodyTypes /\ StoredInv /\ SealedInv /\ LandedInv /\ CallInv /\ FreshInv /\ ResultInv

-----------------------------------------------------------------------------
(***************************************************************************)
(* Keys and envelopes.                                                     *)
(***************************************************************************)

\* Whatever a wrapper returns is a wrapped key.
LEMMA WrapKeyTypes ==
  ASSUME alias \in Keys, NEW dek \in Nat, NEW binding \in Bindings,
         NEW wrapped \in WrapKey(dek, binding)
  PROVE  wrapped \in Wrapped
<1>1. wrapped \in KMSWrapKey(dek, binding) \/ wrapped \in CustomWrapKey(dek, binding)
  BY DEF WrapKey
<1>2. CASE wrapped \in KMSWrapKey(dek, binding)
  BY <1>2 DEF KMSWrapKey, Wrapped, Blobs
<1>3. CASE wrapped \in CustomWrapKey(dek, binding)
  <2>1. PICK d \in {0, dek}, m \in {alias, NotJSON, Twisted} :
          wrapped = [blob |-> [key |-> alias, dek |-> d, context |-> binding], meta |-> m]
    BY <1>3 DEF CustomWrapKey
  <2>2. [key |-> alias, dek |-> d, context |-> binding] \in Blobs  BY <2>1 DEF Blobs
  <2>  QED  BY <2>1, <2>2 DEF Wrapped
<1>  QED  BY <1>1, <1>2, <1>3

\* What Seal makes is a genuine envelope of this provider.
LEMMA SealIsGenuine ==
  ASSUME NEW dek \in Nat, NEW a \in Agents, NEW no \in Nat, NEW wrapped \in Wrapped,
         NEW e, e = Seal(dek, a, no, wrapped)
  PROVE  /\ e \in Genuine
         /\ e.provider = Provider /\ e.agent = a /\ e.wrapped = wrapped
         /\ e.box = [dek |-> dek, aad |-> Aad(Provider, a, wrapped), state |-> [agent |-> a, no |-> no]]
<1> DEFINE aad == Aad(Provider, a, wrapped)
           box == [dek |-> dek, aad |-> aad, state |-> [agent |-> a, no |-> no]]
<1>1. wrapped.blob \in Blobs /\ wrapped.meta \in Keys \cup {NotJSON, Twisted}
  BY DEF Wrapped
<1>2. aad \in [provider : Providers, agent : Agents, blob : Blobs, meta : Keys \cup {NotJSON, Twisted}]
  BY <1>1, CustodyAssumption DEF Aad
<1> HIDE DEF aad
<1>3. box \in Boxes /\ box.aad = aad /\ box.dek = dek /\ box.state = [agent |-> a, no |-> no]
  BY <1>2 DEF Boxes, States
<1>4. e = [provider |-> Provider, agent |-> a, wrapped |-> wrapped, box |-> box]
  BY DEF Seal, aad
<1> HIDE DEF box
<1>5. e \in Envelopes  BY <1>3, <1>4, CustodyAssumption DEF Envelopes
<1>6. e.provider = Provider /\ e.agent = a /\ e.wrapped = wrapped /\ e.box = box
  BY <1>4
<1>7. aad = Aad(e.provider, e.agent, e.wrapped)  BY <1>6 DEF aad
<1>8. e \in Genuine  BY <1>3, <1>5, <1>6, <1>7 DEF Genuine
<1>  QED  BY <1>6, <1>8 DEF box, aad

\* The envelope of another agent, and its wrapped key.
OtherKey(a, k) ==
  [blob |-> [key |-> k, dek |-> 0, context |-> Binding(Provider, a)], meta |-> k]
OtherSeal(a, k) == Seal(0, a, 0, OtherKey(a, k))

\* So are the envelopes of the other agents, with the data keys of others.
LEMMA ForeignIsGenuine ==
  ASSUME NEW e \in Foreign
  PROVE  e \in Genuine /\ e.box.dek = 0
<1>1. Foreign = {OtherSeal(a, k) : a \in Agents \ {Home}, k \in Keys}
  BY DEF Foreign, OtherSeal, OtherKey
<1>2. PICK a \in Agents \ {Home}, k \in Keys : e = OtherSeal(a, k)  BY <1>1
<1> DEFINE blob == [key |-> k, dek |-> 0, context |-> Binding(Provider, a)]
<1>3. Binding(Provider, a) \in Bindings  BY CustodyAssumption DEF Binding, Bindings
<1>4. blob \in Blobs  BY <1>3 DEF Blobs
<1>5. OtherKey(a, k) = [blob |-> blob, meta |-> k]  BY DEF OtherKey
<1> HIDE DEF blob
<1>6. OtherKey(a, k) \in Wrapped  BY <1>4, <1>5 DEF Wrapped
<1>7. PICK none \in Nat : none = 0  OBVIOUS
<1>8. a \in Agents /\ e = Seal(none, a, none, OtherKey(a, k))
  BY <1>2, <1>7 DEF OtherSeal
<1>9. PICK wrapped \in Wrapped : wrapped = OtherKey(a, k)  BY <1>6
<1>10. e = Seal(none, a, none, wrapped)  BY <1>8, <1>9
<1>11. /\ e \in Genuine
       /\ e.box = [dek |-> none, aad |-> Aad(Provider, a, wrapped), state |-> [agent |-> a, no |-> none]]
  BY <1>8, <1>10, SealIsGenuine
<1>  QED  BY <1>7, <1>11

\* A box opens only inside the envelope it was made for: one that opens it
\* under its own header and wrapped key is that envelope.
LEMMA BoxTellsEnvelope ==
  ASSUME NEW e \in Envelopes, NEW f \in Genuine, e.box = f.box,
         e.box.aad = Aad(e.provider, e.agent, e.wrapped)
  PROVE  e = f
<1>1. f \in Envelopes /\ f.box.aad = Aad(f.provider, f.agent, f.wrapped)  BY DEF Genuine
<1>2. Aad(e.provider, e.agent, e.wrapped) = Aad(f.provider, f.agent, f.wrapped)  BY <1>1
<1>3. /\ e.provider = f.provider /\ e.agent = f.agent
      /\ e.wrapped.blob = f.wrapped.blob /\ e.wrapped.meta = f.wrapped.meta
  BY <1>2 DEF Aad
<1>4. e.wrapped \in Wrapped /\ f.wrapped \in Wrapped  BY <1>1 DEF Envelopes
<1>5. e.wrapped = f.wrapped  BY <1>3, <1>4 DEF Wrapped
<1>  QED  BY <1>1, <1>3, <1>5 DEF Envelopes

\* Every envelope on record, of this store or of another agent's, is genuine.
LEMMA KnownIsGenuine ==
  CustodyTypes => \A f \in sealed \cup Foreign : f \in Genuine /\ f \in Envelopes /\ f.box.dek \in Deks
BY ForeignIsGenuine DEF CustodyTypes, Genuine, Deks

\* A file put together from known envelopes keeps the box of one of them.
LEMMA RecombinedIsDerived ==
  ASSUME CustodyTypes, NEW e \in Recombined
  PROVE  Derived(e)
<1>1. PICK p \in Providers, a \in Agents, m \in Keys \cup {Twisted},
           g \in sealed \cup Foreign, f \in sealed \cup Foreign :
        e = [provider |-> p, agent |-> a, wrapped |-> [g.wrapped EXCEPT !.meta = m], box |-> f.box]
  BY DEF Recombined
<1> DEFINE old == g.wrapped
           wrapped == [old EXCEPT !.meta = m]
<1>2. g \in Envelopes /\ f \in Envelopes  BY KnownIsGenuine
<1>3. old \in Wrapped  BY <1>2 DEF Envelopes
<1>4. wrapped \in Wrapped
  <2> HIDE DEF old
  <2>  QED  BY <1>3 DEF Wrapped
<1>5. f.box \in Boxes  BY <1>2 DEF Envelopes
<1>6. e = [provider |-> p, agent |-> a, wrapped |-> wrapped, box |-> f.box]  BY <1>1
<1> HIDE DEF wrapped
<1>7. e \in Envelopes /\ e.box = f.box  BY <1>4, <1>5, <1>6 DEF Envelopes
<1>  QED  BY <1>7 DEF Derived

\* What a sealed load decodes is a known envelope, unaltered, and with a pinned
\* id it is of the pinned agent.
LEMMA DecodedIsKnown ==
  ASSUME CustodyTypes, NEW e, Derived(e), NEW dek, Opened(e, dek) # None
  PROVE  /\ e \in sealed \cup Foreign
         /\ pinned => e.box.state.agent = Home
<1>1. PICK f \in sealed \cup Foreign : e.box = f.box  BY DEF Derived
<1>2. e \in Envelopes /\ f \in Genuine  BY <1>1, KnownIsGenuine DEF Derived
<1>3. Admitted(e) /\ Box(e, dek) # None  BY DEF Opened
<1>4. e.box.aad = Aad(e.provider, e.agent, e.wrapped) /\ e.box.state.agent = e.agent
  BY <1>3 DEF Box
<1>5. e = f  BY <1>1, <1>2, <1>4, BoxTellsEnvelope
<1>6. pinned => e.agent = Home  BY <1>3 DEF Admitted
<1>  QED  BY <1>4, <1>5, <1>6

-----------------------------------------------------------------------------
(***************************************************************************)
(* Frames.                                                                 *)
(***************************************************************************)

\* How an envelope reads depends on the configuration alone.
LEMMA SameReadings ==
  ASSUME UNCHANGED config
  PROVE  /\ \A e : Admitted(e)' <=> Admitted(e)
         /\ \A e : Decoded(e)' = Decoded(e)
         /\ \A wrapped, binding : UnwrapKey(wrapped, binding)' = UnwrapKey(wrapped, binding)
<1>1. wrapper' = wrapper /\ pinned' = pinned  BY DEF config
<1>2. \A e : Admitted(e)' <=> Admitted(e)  BY <1>1 DEF Admitted, WellFormed
<1>3. \A wrapped, binding : UnwrapKey(wrapped, binding)' = UnwrapKey(wrapped, binding)
  BY <1>1 DEF UnwrapKey, KMSUnwrapKey, CustomUnwrapKey, DecryptKey
<1>4. \A e : Decoded(e)' = Decoded(e)
  BY <1>2, <1>3 DEF Decoded, Opened, Box, Aad, Binding
<1>  QED  BY <1>2, <1>3, <1>4

\* What is on record stays, and so does what was derived from it.
LEMMA SameRecords ==
  ASSUME sealed \subseteq sealed'
  PROVE  /\ Deks \subseteq Deks'
         /\ \A e : Derived(e) => Derived(e)'
         /\ Foreign' = Foreign /\ Genuine' = Genuine
<1>1. Foreign' = Foreign  BY DEF Foreign, Seal, Aad, Binding
<1>2. Genuine' = Genuine  BY DEF Genuine, Aad
<1>  QED  BY <1>1, <1>2 DEF Deks, Derived

\* A step that stores nothing keeps what is said of the store and its history.
LEMMA StoreKeeps ==
  ASSUME CustodyInv, UNCHANGED <<config, stored, history>>, saves' \in {saves, saves + 1}
  PROVE  /\ StoredInv' /\ SealedInv' /\ LandedInv'
         /\ Deks' = Deks
         /\ saves' \in Nat /\ saves <= saves'
<1>1. UNCHANGED <<backend, stored, sealed, landed>>  BY DEF config, history
<1>2. saves \in Nat  BY DEF CustodyInv, CustodyTypes
<1>3. saves' \in Nat /\ saves <= saves'  BY <1>2
<1>4. Deks' = Deks  BY <1>1 DEF Deks
<1>5. StoredInv'  BY <1>1, SameRecords DEF CustodyInv, StoredInv
<1>6. LandedInv'  BY <1>1 DEF CustodyInv, LandedInv
<1>7. SealedInv'
  <2>1. \A e \in sealed : e.box.dek \in Nat
    BY DEF CustodyInv, CustodyTypes, Genuine, Envelopes, Boxes
  <2>2. \A e \in sealed : e.box.dek <= saves'
    BY <1>2, <1>3, <2>1 DEF CustodyInv, SealedInv
  <2>  QED  BY <1>1, <2>2, SameReadings DEF CustodyInv, SealedInv
<1>  QED  BY <1>3, <1>4, <1>5, <1>6, <1>7

\* A call that does not move relies on what still holds: the records only grow
\* and do not take its number, and a key that was seen on a secret stays while
\* nobody else changes what is stored.
LEMMA WaitingCallKeeps ==
  ASSUME CustodyInv, NEW v \in Writers, pc'[v] = pc[v], held'[v] = held[v],
         UNCHANGED config, sealed \subseteq sealed',
         pc[v] \in Sealing => held[v].no \notin Deks',
         pc[v] \in {"put", "reput"} /\ changes' = 0 =>
           /\ changes = 0
           /\ stored # None => stored' # None /\ stored'.key = stored.key
  PROVE  CallOK(v, pc[v], held[v])'
<1>1. CallOK(v, pc[v], held[v])  BY DEF CustodyInv, CallInv
<1>2. backend' = backend /\ pinned' = pinned  BY DEF config
<1>3. UnwrapKey(held[v].wrapped, Binding(Provider, held[v].agent))' =
        UnwrapKey(held[v].wrapped, Binding(Provider, held[v].agent))
  BY SameReadings DEF UnwrapKey, KMSUnwrapKey, CustomUnwrapKey, DecryptKey, Binding, config
<1>4. Derived(held[v].env) => Derived(held[v].env)'  BY SameRecords DEF Derived
<1>  QED  BY <1>1, <1>2, <1>3, <1>4 DEF CallOK

-----------------------------------------------------------------------------
(***************************************************************************)
(* Calls that store nothing.                                               *)
(***************************************************************************)

\* Return moves one call.
LEMMA ReturnMoves ==
  ASSUME CustodyInv, NEW w \in Writers, NEW how, NEW value, Return(w, how, value)
  PROVE  /\ pc' \in [Writers -> {"idle", "unwrap"} \cup Saving] /\ held' \in [Writers -> Carried]
         /\ pc'[w] = "idle"
         /\ \A v \in Writers : v # w => pc'[v] = pc[v] /\ held'[v] = held[v]
         /\ result' = [by |-> w, how |-> how, value |-> value]
<1>1. Blank \in Carried  BY DEF Blank, Carried
<1>2. /\ pc \in [Writers -> {"idle", "unwrap"} \cup Saving]
      /\ held \in [Writers -> Carried]
  BY DEF CustodyInv, CustodyTypes
<1>3. /\ pc' = [pc EXCEPT ![w] = "idle"] /\ held' = [held EXCEPT ![w] = Blank]
      /\ result' = [by |-> w, how |-> how, value |-> value]
  BY DEF Return
<1>  QED  BY <1>1, <1>2, <1>3

\* A call that ends without having saved leaves what every other relies on.
LEMMA ReturnKeeps ==
  ASSUME CustodyInv, NEW w \in Writers, NEW how, NEW value, Return(w, how, value),
         saves' \in {saves, saves + 1},
         UNCHANGED <<config, stored, alias, changes, history>>,
         how # "saved",
         how = "notFound" => value = None,
         how = "invalid" =>
           /\ value # None
           /\ \/ value = Valueless /\ backend # "sealed"
              \/ wrapper = "custom"
              \/ value \notin sealed \cup landed,
         how = "loaded" /\ backend = "sealed" =>
           /\ value \in sealed \cup Foreign
           /\ pinned => value.box.state.agent = Home
  PROVE  CustodyInv'
<1>0. UNCHANGED <<backend, wrapper, pinned, stored, alias, changes, sealed, landed>>
  BY DEF config, history
<1>1. /\ pc' \in [Writers -> {"idle", "unwrap"} \cup Saving] /\ held' \in [Writers -> Carried]
      /\ pc'[w] = "idle"
      /\ \A v \in Writers : v # w => pc'[v] = pc[v] /\ held'[v] = held[v]
  BY ReturnMoves
<1>2. result'.how = how /\ result'.value = value  BY ReturnMoves
<1>3. /\ StoredInv' /\ SealedInv' /\ LandedInv'
      /\ Deks' = Deks
      /\ saves' \in Nat /\ saves <= saves'
  BY StoreKeeps
<1>4. Genuine' = Genuine /\ Foreign' = Foreign  BY <1>0, SameRecords
<1>5. CustodyTypes'  BY <1>0, <1>1, <1>3, <1>4 DEF CustodyInv, CustodyTypes
<1>6. CallInv'
  <2>1. ASSUME NEW v \in Writers
        PROVE  CallOK(v, pc[v], held[v])'
    <3>1. CASE v = w  BY <1>1, <3>1 DEF CallOK, Saving, Sealing, Putting
    <3>2. CASE v # w
      <4>1. pc[v] \in Sealing => held[v].no \notin Deks'
        BY <1>3 DEF CustodyInv, CallInv, CallOK
      <4>  QED  BY <1>0, <1>1, <3>2, <4>1, WaitingCallKeeps
    <3>  QED  BY <3>1, <3>2
  <2>  QED  BY <2>1 DEF CallInv
<1>7. FreshInv'
  <2>1. \A v \in Writers : pc'[v] \in Saving =>
          v # w /\ pc'[v] = pc[v] /\ held'[v] = held[v] /\ pc[v] \in Saving
    BY <1>1 DEF Saving, Sealing, Putting
  <2>2. \A v \in Writers : held[v].no \in Nat  BY DEF CustodyInv, CustodyTypes, Carried
  <2>3. saves \in Nat  BY DEF CustodyInv, CustodyTypes
  <2>4. \A v \in Writers : pc'[v] \in Saving => held'[v].no # 0 /\ held'[v].no <= saves'
    BY <1>3, <2>1, <2>2, <2>3 DEF CustodyInv, FreshInv
  <2>  QED  BY <2>1, <2>4 DEF CustodyInv, FreshInv, Saving
<1>8. ResultInv'
  <2>1. VerdictsAreHonest'  BY <1>0, <1>2 DEF VerdictsAreHonest
  <2>2. LoadIsAuthentic'  BY <1>0, <1>2, <1>4 DEF LoadIsAuthentic
  <2>3. SavedUnderKey'  BY <1>2 DEF SavedUnderKey
  <2>  QED  BY <2>1, <2>2, <2>3 DEF ResultInv
<1>  QED  BY <1>3, <1>5, <1>6, <1>7, <1>8 DEF CustodyInv

\* A step that ends no call has no result to answer for.
LEMMA NoResultHolds ==
  ASSUME result' = NoResult
  PROVE  ResultInv'
BY DEF ResultInv, NoResult, VerdictsAreHonest, LoadIsAuthentic, SavedUnderKey

\* A call that fails says nothing of what is stored.
LEMMA FailKeeps ==
  ASSUME CustodyInv, NEW w \in Writers, NEW how \in {"error", "config", "wrapper"}, Fail(w, how),
         saves' \in {saves, saves + 1},
         UNCHANGED <<config, stored, alias, changes, history>>
  PROVE  CustodyInv'
BY ReturnKeeps DEF Fail

\* A call that goes on with what its next step relies on, and with a number of
\* its own if it seals, disturbs no other.
LEMMA GotoKeeps ==
  ASSUME CustodyInv, NEW w \in Writers, NEW at \in {"unwrap"} \cup Saving, NEW h \in Carried,
         pc' = [pc EXCEPT ![w] = at], held' = [held EXCEPT ![w] = h], result' = NoResult,
         saves' \in {saves, saves + 1},
         UNCHANGED <<config, stored, alias, changes, history>>,
         CallOK(w, at, h),
         at \in Saving => h.no # 0 /\ h.no <= saves',
         at \in Sealing => \A v \in Writers \ {w} : pc[v] \in Sealing => held[v].no # h.no
  PROVE  CustodyInv'
<1>0. UNCHANGED <<backend, wrapper, pinned, stored, alias, changes, sealed, landed>>
  BY DEF config, history
<1>1. /\ pc \in [Writers -> {"idle", "unwrap"} \cup Saving]
      /\ held \in [Writers -> Carried]
  BY DEF CustodyInv, CustodyTypes
<1>2. /\ pc' \in [Writers -> {"idle", "unwrap"} \cup Saving] /\ held' \in [Writers -> Carried]
      /\ pc'[w] = at /\ held'[w] = h
      /\ \A v \in Writers : v # w => pc'[v] = pc[v] /\ held'[v] = held[v]
  BY <1>1
<1>3. /\ StoredInv' /\ SealedInv' /\ LandedInv'
      /\ Deks' = Deks
      /\ saves' \in Nat /\ saves <= saves'
  BY StoreKeeps
<1>4. Genuine' = Genuine /\ Foreign' = Foreign  BY <1>0, SameRecords
<1>5. CustodyTypes'  BY <1>0, <1>2, <1>3, <1>4 DEF CustodyInv, CustodyTypes
<1>6. CallInv'
  <2>1. ASSUME NEW v \in Writers
        PROVE  CallOK(v, pc[v], held[v])'
    <3>1. CASE v = w
      <4>1. UnwrapKey(held[v].wrapped, Binding(Provider, held[v].agent))' =
              UnwrapKey(h.wrapped, Binding(Provider, h.agent))
        BY <1>0, <1>2, <3>1 DEF UnwrapKey, KMSUnwrapKey, CustomUnwrapKey, DecryptKey, Binding
      <4>2. Derived(h.env) => Derived(held[v].env)'
        BY <1>0, <1>2, <1>4, <3>1 DEF Derived
      <4>  QED  BY <1>0, <1>2, <1>3, <3>1, <4>1, <4>2 DEF CallOK
    <3>2. CASE v # w
      <4>1. pc[v] \in Sealing => held[v].no \notin Deks'
        BY <1>3 DEF CustodyInv, CallInv, CallOK
      <4>  QED  BY <1>0, <1>2, <3>2, <4>1, WaitingCallKeeps
    <3>  QED  BY <3>1, <3>2
  <2>  QED  BY <2>1 DEF CallInv
<1>7. FreshInv'
  <2>1. \A v \in Writers : held[v].no \in Nat  BY DEF CustodyInv, CustodyTypes, Carried
  <2>2. saves \in Nat  BY DEF CustodyInv, CustodyTypes
  <2>3. \A v \in Writers \ {w} : pc'[v] \in Saving => held'[v].no # 0 /\ held'[v].no <= saves'
    BY <1>2, <1>3, <2>1, <2>2 DEF CustodyInv, FreshInv
  <2>4. \A v \in Writers : pc'[v] \in Saving => held'[v].no # 0 /\ held'[v].no <= saves'
    BY <1>2, <2>3
  <2>5. ASSUME NEW u \in Writers, NEW v \in Writers,
               pc'[u] \in Sealing, pc'[v] \in Sealing, held'[u].no = held'[v].no
        PROVE  u = v
    BY <1>2, <2>5 DEF CustodyInv, FreshInv
  <2>  QED  BY <2>4, <2>5 DEF FreshInv
<1>8. ResultInv'  BY NoResultHolds
<1>  QED  BY <1>3, <1>5, <1>6, <1>7, <1>8 DEF CustodyInv

-----------------------------------------------------------------------------
(***************************************************************************)
(* The sealed store.                                                       *)
(***************************************************************************)

\* Any call may be given up.
LEMMA AbandonKeeps ==
  ASSUME CustodyInv, NEW w \in Writers, Abandon(w)
  PROVE  CustodyInv'
BY FailKeeps DEF Abandon

\* A sealed save takes a number that nobody has used.
LEMMA SaveSealedKeeps ==
  ASSUME CustodyInv, NEW w \in Writers, NEW a \in Agents, SaveSealed(w, a)
  PROVE  CustodyInv'
<1>0. /\ backend = "sealed" /\ saves' = saves + 1
      /\ UNCHANGED <<config, stored, alias, changes, history>>
  BY DEF SaveSealed
<1>1. CASE pinned /\ a # Home
  BY <1>0, <1>1, FailKeeps DEF SaveSealed
<1>2. CASE ~(pinned /\ a # Home)
  <2> DEFINE new == [Blank EXCEPT !.agent = a, !.no = saves']
  <2>1. saves \in Nat /\ saves' \in Nat /\ saves' # 0  BY <1>0 DEF CustodyInv, CustodyTypes
  <2>2. new \in Carried /\ new.agent = a /\ new.no = saves'
    BY <2>1 DEF Blank, Carried
  <2>3. pc' = [pc EXCEPT ![w] = "wrap"] /\ held' = [held EXCEPT ![w] = new] /\ result' = NoResult
    BY <1>2 DEF SaveSealed
  <2> HIDE DEF new
  <2>4. PICK h \in Carried : h = new  BY <2>2
  <2>5. h.no = saves + 1 /\ h.agent = a  BY <1>0, <2>2, <2>4
  <2>6. h.no \notin Deks
    <3>1. \A e \in sealed : e.box.dek \in Nat /\ e.box.dek <= saves
      BY DEF CustodyInv, CustodyTypes, SealedInv, Genuine, Envelopes, Boxes
    <3>  QED  BY <2>1, <2>5, <3>1 DEF Deks
  <2>7. CallOK(w, "wrap", h)
    BY <1>0, <1>2, <2>5, <2>6 DEF CallOK, Sealing, Putting
  <2>8. h.no # 0 /\ h.no <= saves'  BY <1>0, <2>1, <2>5
  <2>9. \A v \in Writers \ {w} : pc[v] \in Sealing => held[v].no # h.no
    <3>1. \A v \in Writers : pc[v] \in Sealing => held[v].no <= saves
      BY DEF CustodyInv, FreshInv, Saving
    <3>  QED  BY <2>1, <2>5, <3>1
  <2>10. "wrap" \in {"unwrap"} \cup Saving  BY DEF Saving, Sealing
  <2>  QED  BY <1>0, <2>3, <2>4, <2>7, <2>8, <2>9, <2>10, GotoKeeps
<1>  QED  BY <1>1, <1>2

\* What a call that seals is known to carry.
LEMMA SealerCarries ==
  ASSUME CustodyInv, NEW w \in Writers, pc[w] \in Sealing
  PROVE  /\ backend = "sealed"
         /\ held[w] \in Carried /\ held[w].agent \in Agents /\ held[w].no \in Nat
         /\ held[w].no # 0 /\ held[w].no <= saves /\ held[w].no \notin Deks
         /\ pinned => held[w].agent = Home
         /\ pc[w] \in {"verify", "commit"} => held[w].wrapped \in Wrapped
         /\ pc[w] = "commit" =>
              UnwrapKey(held[w].wrapped, Binding(Provider, held[w].agent)) = held[w].no
         /\ \A v \in Writers \ {w} : pc[v] \in Sealing => held[v].no # held[w].no
<1>1. CallOK(w, pc[w], held[w]) /\ pc[w] \in Saving  BY DEF CustodyInv, CallInv, Saving
<1>2. held[w] \in Carried  BY DEF CustodyInv, CustodyTypes
<1>3. held[w].no \in Nat  BY <1>2 DEF Carried
<1>4. /\ held[w].no # 0 /\ held[w].no <= saves
      /\ \A v \in Writers \ {w} : pc[v] \in Sealing => held[v].no # held[w].no
  BY <1>1 DEF CustodyInv, FreshInv
<1>  QED  BY <1>1, <1>2, <1>3, <1>4 DEF CallOK

\* The wrapper returns a wrapped key, or metadata that is refused at once.
LEMMA WrapKeeps ==
  ASSUME CustodyInv, NEW w \in Writers, Wrap(w)
  PROVE  CustodyInv'
<1>0. pc[w] = "wrap" /\ UNCHANGED <<config, stored, alias, saves, changes, history>>
  BY DEF Wrap
<1>1. pc[w] \in Sealing  BY <1>0 DEF Sealing
<1>2. /\ backend = "sealed"
      /\ held[w] \in Carried /\ held[w].agent \in Agents /\ held[w].no \in Nat
      /\ held[w].no # 0 /\ held[w].no <= saves /\ held[w].no \notin Deks
      /\ pinned => held[w].agent = Home
      /\ \A v \in Writers \ {w} : pc[v] \in Sealing => held[v].no # held[w].no
  BY <1>1, SealerCarries
<1>3. PICK wrapped \in WrapKey(held[w].no, Binding(Provider, held[w].agent)) :
        IF wrapped.meta = NotJSON THEN Fail(w, "wrapper")
        ELSE Goto(w, "verify", [held[w] EXCEPT !.wrapped = wrapped])
  BY DEF Wrap
<1>4. wrapped \in Wrapped
  <2>1. Binding(Provider, held[w].agent) \in Bindings
    BY <1>2, CustodyAssumption DEF Binding, Bindings
  <2>2. alias \in Keys  BY DEF CustodyInv, CustodyTypes
  <2>  QED  BY <1>2, <1>3, <2>1, <2>2, WrapKeyTypes
<1>5. CASE wrapped.meta = NotJSON
  BY <1>0, <1>3, <1>5, FailKeeps
<1>6. CASE wrapped.meta # NotJSON
  <2> DEFINE old == held[w]
             new == [old EXCEPT !.wrapped = wrapped]
  <2>1. old \in Carried  BY <1>2
  <2>2. new \in Carried /\ new.wrapped = wrapped /\ new.no = old.no /\ new.agent = old.agent
    <3> HIDE DEF old
    <3>  QED  BY <1>4, <2>1 DEF Carried
  <2>3. pc' = [pc EXCEPT ![w] = "verify"] /\ held' = [held EXCEPT ![w] = new] /\ result' = NoResult
    BY <1>3, <1>6 DEF Goto
  <2> HIDE DEF new
  <2>4. PICK h \in Carried : h = new  BY <2>2
  <2>5. CallOK(w, "verify", h)
    BY <1>2, <1>4, <2>2, <2>4 DEF CallOK, Sealing, Putting
  <2>6. "verify" \in {"unwrap"} \cup Saving  BY DEF Saving, Sealing
  <2>  QED  BY <1>0, <1>2, <2>2, <2>3, <2>4, <2>5, <2>6, GotoKeeps
<1>  QED  BY <1>5, <1>6

\* A wrapped key goes on to the commit only if it gives the same key back.
LEMMA VerifyKeyKeeps ==
  ASSUME CustodyInv, NEW w \in Writers, VerifyKey(w)
  PROVE  CustodyInv'
<1>0. pc[w] = "verify" /\ UNCHANGED <<config, stored, alias, saves, changes, history>>
  BY DEF VerifyKey
<1>1. pc[w] \in Sealing  BY <1>0 DEF Sealing
<1>2. /\ backend = "sealed"
      /\ held[w] \in Carried /\ held[w].agent \in Agents /\ held[w].no \in Nat
      /\ held[w].no # 0 /\ held[w].no <= saves /\ held[w].no \notin Deks
      /\ pinned => held[w].agent = Home
      /\ held[w].wrapped \in Wrapped
      /\ \A v \in Writers \ {w} : pc[v] \in Sealing => held[v].no # held[w].no
  BY <1>0, <1>1, SealerCarries
<1>3. PICK dek \in Answers(held[w].wrapped, Binding(Provider, held[w].agent)) :
        IF Reproduces(w, dek) THEN Goto(w, "commit", held[w]) ELSE Fail(w, "wrapper")
  BY DEF VerifyKey
<1>4. CASE ~Reproduces(w, dek)
  BY <1>0, <1>3, <1>4, FailKeeps
<1>5. CASE Reproduces(w, dek)
  <2>1. pc' = [pc EXCEPT ![w] = "commit"] /\ held' = [held EXCEPT ![w] = held[w]] /\ result' = NoResult
    BY <1>3, <1>5 DEF Goto
  <2>2. UnwrapKey(held[w].wrapped, Binding(Provider, held[w].agent)) = held[w].no
    BY <1>2, <1>3, <1>5, CustodyAssumption DEF Answers, Reproduces
  <2>3. CallOK(w, "commit", held[w])
    BY <1>2, <2>2 DEF CallOK, Sealing, Putting
  <2>4. "commit" \in {"unwrap"} \cup Saving  BY DEF Saving, Sealing
  <2>  QED  BY <1>0, <1>2, <2>1, <2>3, <2>4, GotoKeeps
<1>  QED  BY <1>4, <1>5

\* The envelope of a verified key opens to the state it seals.
LEMMA CommittedOpens ==
  ASSUME CustodyInv, NEW w \in Writers, pc[w] = "commit", NEW env,
         env = Seal(held[w].no, held[w].agent, held[w].no, held[w].wrapped),
         ReadyToCommit(env, w)
  PROVE  /\ env \in Genuine /\ env.box.dek = held[w].no
         /\ Admitted(env) /\ Decoded(env) = env.box.state
<1>1. pc[w] \in Sealing  BY DEF Sealing
<1>2. /\ held[w].agent \in Agents /\ held[w].no \in Nat /\ held[w].wrapped \in Wrapped
      /\ pinned => held[w].agent = Home
      /\ UnwrapKey(held[w].wrapped, Binding(Provider, held[w].agent)) = held[w].no
  BY <1>1, SealerCarries
<1>3. PICK n \in Nat, a \in Agents, wrapped \in Wrapped :
        n = held[w].no /\ a = held[w].agent /\ wrapped = held[w].wrapped
  BY <1>2
<1>4. /\ env \in Genuine
      /\ env.provider = Provider /\ env.agent = a /\ env.wrapped = wrapped
      /\ env.box = [dek |-> n, aad |-> Aad(Provider, a, wrapped), state |-> [agent |-> a, no |-> n]]
  BY <1>3, SealIsGenuine
<1>5. env.box.dek = n /\ env.box.state = [agent |-> a, no |-> n]  BY <1>4
<1>6. Admitted(env)
  BY <1>2, <1>3, <1>4 DEF ReadyToCommit, Admitted
<1>7. UnwrapKey(env.wrapped, Binding(env.provider, env.agent)) = n
  BY <1>2, <1>3, <1>4
<1>8. n # None  BY CustodyAssumption
<1>9. Box(env, n) = [agent |-> a, no |-> n]  BY <1>3 DEF ReadyToCommit
<1>10. Decoded(env) = Box(env, n)  BY <1>6, <1>7, <1>8 DEF Decoded, Opened
<1>  QED  BY <1>3, <1>4, <1>5, <1>6, <1>9, <1>10

\* A commit adds one envelope, with a data key nobody has used or will use.
LEMMA CommitKeeps ==
  ASSUME CustodyInv, NEW w \in Writers, Commit(w)
  PROVE  CustodyInv'
<1> DEFINE env == Seal(held[w].no, held[w].agent, held[w].no, held[w].wrapped)
<1>0. pc[w] = "commit" /\ UNCHANGED <<config, alias, saves, changes, landed>>
  BY DEF Commit
<1>1. CASE ~ReadyToCommit(env, w)
  <2>1. Fail(w, "wrapper") /\ UNCHANGED <<stored, sealed>>  BY <1>1 DEF Commit
  <2>  QED  BY <1>0, <2>1, FailKeeps DEF history
<1>2. CASE ReadyToCommit(env, w)
  <2>1. stored' = env /\ sealed' = sealed \cup {env}  BY <1>2 DEF Commit
  <2>2. PICK how \in {"saved", "error"} : Return(w, how, env)  BY <1>2 DEF Commit
  <2>3. PICK e : e = env  OBVIOUS
  <2>4. /\ e \in Genuine /\ e.box.dek = held[w].no
        /\ Admitted(e) /\ Decoded(e) = e.box.state
    BY <1>0, <1>2, <2>3, CommittedOpens
  <2> HIDE DEF env
  <2>5. stored' = e /\ sealed' = sealed \cup {e} /\ Return(w, how, e)  BY <2>1, <2>2, <2>3
  <2>6. /\ pc' \in [Writers -> {"idle", "unwrap"} \cup Saving] /\ held' \in [Writers -> Carried]
        /\ pc'[w] = "idle"
        /\ \A v \in Writers : v # w => pc'[v] = pc[v] /\ held'[v] = held[v]
        /\ result' = [by |-> w, how |-> how, value |-> e]
    BY <2>5, ReturnMoves
  <2>7. pc[w] \in Sealing  BY <1>0 DEF Sealing
  <2>8. /\ backend = "sealed" /\ held[w].no \in Nat /\ held[w].no <= saves
        /\ \A v \in Writers \ {w} : pc[v] \in Sealing => held[v].no # held[w].no
    BY <2>7, SealerCarries
  <2>9. UNCHANGED <<backend, wrapper, pinned, alias, saves, changes, landed, config>>
    BY <1>0 DEF config
  <2>10. Genuine' = Genuine /\ Foreign' = Foreign  BY <2>5, SameRecords
  <2>11. Deks' = Deks \cup {held[w].no}  BY <2>4, <2>5 DEF Deks
  <2>12. CustodyTypes'  BY <2>4, <2>5, <2>6, <2>8, <2>9, <2>10 DEF CustodyInv, CustodyTypes
  <2>13. StoredInv'
    <3>1. e \in Envelopes  BY <2>4 DEF Genuine
    <3>2. Derived(e)'  BY <2>5, <3>1 DEF Derived
    <3>  QED  BY <2>5, <2>8, <2>9, <3>2 DEF StoredInv
  <2>14. SealedInv'
    <3>1. \A f : Admitted(f)' <=> Admitted(f)  BY <2>9, SameReadings
    <3>2. \A f : Decoded(f)' = Decoded(f)  BY <2>9, SameReadings
    <3>  QED  BY <2>4, <2>5, <2>8, <2>9, <3>1, <3>2 DEF CustodyInv, SealedInv
  <2>15. LandedInv'  BY <2>9 DEF CustodyInv, LandedInv
  <2>16. CallInv'
    <3>1. ASSUME NEW v \in Writers
          PROVE  CallOK(v, pc[v], held[v])'
      <4>1. CASE v = w  BY <2>6, <4>1 DEF CallOK, Saving, Sealing, Putting
      <4>2. CASE v # w
        <5>1. CallOK(v, pc[v], held[v])  BY DEF CustodyInv, CallInv
        <5>2. pc[v] \in Sealing => held[v].no \notin Deks'
          BY <2>8, <2>11, <4>2, <5>1 DEF CallOK
        <5>3. pc[v] \notin {"put", "reput"}  BY <2>8, <5>1 DEF CallOK, Putting
        <5>  QED  BY <2>5, <2>6, <2>9, <4>2, <5>2, <5>3, WaitingCallKeeps
      <4>  QED  BY <4>1, <4>2
    <3>  QED  BY <3>1 DEF CallInv
  <2>17. FreshInv'
    <3>1. \A v \in Writers : pc'[v] \in Saving =>
            v # w /\ pc'[v] = pc[v] /\ held'[v] = held[v] /\ pc[v] \in Saving
      BY <2>6 DEF Saving, Sealing, Putting
    <3>  QED  BY <2>9, <3>1 DEF CustodyInv, FreshInv, Saving
  <2>18. ResultInv'
    <3>1. result'.how = how /\ how \in {"saved", "error"}  BY <2>6
    <3>  QED  BY <2>8, <2>9, <3>1 DEF ResultInv, VerdictsAreHonest, LoadIsAuthentic, SavedUnderKey
  <2>  QED  BY <2>12, <2>13, <2>14, <2>15, <2>16, <2>17, <2>18 DEF CustodyInv
<1>  QED  BY <1>1, <1>2

\* A load refuses at once only what no save can have committed.
LEMMA LoadSealedKeeps ==
  ASSUME CustodyInv, NEW w \in Writers, LoadSealed(w)
  PROVE  CustodyInv'
<1>0. backend = "sealed" /\ UNCHANGED <<config, stored, alias, saves, changes, history>>
  BY DEF LoadSealed
<1>1. CASE stored = None
  <2>1. Return(w, "notFound", stored)  BY <1>1 DEF LoadSealed
  <2>  QED  BY <1>0, <1>1, <2>1, ReturnKeeps
<1>2. CASE stored # None /\ ~Admitted(stored)
  <2>1. Return(w, "invalid", stored)  BY <1>2 DEF LoadSealed
  <2>2. stored \notin sealed  BY <1>2 DEF CustodyInv, SealedInv
  <2>3. landed = {}  BY <1>0 DEF CustodyInv, CustodyTypes
  <2>  QED  BY <1>0, <1>2, <2>1, <2>2, <2>3, ReturnKeeps
<1>3. CASE stored # None /\ Admitted(stored)
  <2> DEFINE new == [Blank EXCEPT !.env = stored]
  <2>1. Derived(stored)  BY <1>0, <1>3 DEF CustodyInv, StoredInv
  <2>2. new \in Carried /\ new.env = stored
    BY <2>1 DEF Blank, Carried, Derived
  <2>3. pc' = [pc EXCEPT ![w] = "unwrap"] /\ held' = [held EXCEPT ![w] = new] /\ result' = NoResult
    BY <1>3 DEF LoadSealed, Goto
  <2> HIDE DEF new
  <2>4. PICK h \in Carried : h = new  BY <2>2
  <2>5. CallOK(w, "unwrap", h)
    BY <1>0, <1>3, <2>1, <2>2, <2>4 DEF CallOK, Saving, Sealing, Putting
  <2>6. "unwrap" \notin Saving /\ "unwrap" \notin Sealing  BY DEF Saving, Sealing, Putting
  <2>  QED  BY <1>0, <2>3, <2>4, <2>5, <2>6, GotoKeeps
<1>  QED  BY <1>1, <1>2, <1>3

\* An envelope that does not open was committed by no save, and one that does
\* is whole.
LEMMA UnwrapKeeps ==
  ASSUME CustodyInv, NEW w \in Writers, Unwrap(w)
  PROVE  CustodyInv'
<1>0. pc[w] = "unwrap" /\ UNCHANGED <<config, stored, alias, saves, changes, history>>
  BY DEF Unwrap
<1>1. CallOK(w, pc[w], held[w])  BY DEF CustodyInv, CallInv
<1>2. backend = "sealed" /\ held[w].env # None /\ Derived(held[w].env)
  BY <1>0, <1>1 DEF CallOK
<1>3. PICK e : e = held[w].env  OBVIOUS
<1>4. e # None /\ Derived(e) /\ CustodyTypes  BY <1>2, <1>3 DEF CustodyInv
<1>5. PICK dek \in Answers(e.wrapped, Binding(e.provider, e.agent)) :
        Return(w, IF Opened(e, dek) = None THEN "invalid" ELSE "loaded", e)
  BY <1>3 DEF Unwrap
<1>6. CASE Opened(e, dek) = None
  <2>1. Return(w, "invalid", e)  BY <1>5, <1>6
  <2>2. wrapper = "custom" \/ e \notin sealed
    <3>1. \A f \in sealed : Decoded(f) # None
      <4>1. \A f \in sealed : f.box.state \in States
        BY <1>4 DEF CustodyTypes, Genuine, Envelopes, Boxes
      <4>2. None \notin States  BY CustodyAssumption DEF States
      <4>  QED  BY <4>1, <4>2 DEF CustodyInv, SealedInv
    <3>2. wrapper # "custom" => Decoded(e) = None
      BY <1>5, <1>6 DEF Answers, Decoded
    <3>  QED  BY <3>1, <3>2
  <2>3. landed = {}  BY <1>2, <1>4 DEF CustodyTypes
  <2>  QED  BY <1>0, <1>4, <2>1, <2>2, <2>3, ReturnKeeps
<1>7. CASE Opened(e, dek) # None
  <2>1. Return(w, "loaded", e)  BY <1>5, <1>7
  <2>2. e \in sealed \cup Foreign /\ (pinned => e.box.state.agent = Home)
    BY <1>4, <1>7, DecodedIsKnown
  <2>  QED  BY <1>0, <2>1, <2>2, ReturnKeeps
<1>  QED  BY <1>6, <1>7

-----------------------------------------------------------------------------
(***************************************************************************)
(* Secrets Manager and Parameter Store.                                    *)
(***************************************************************************)

\* What a call that writes to AWS is known to carry.
LEMMA PutterCarries ==
  ASSUME CustodyInv, NEW w \in Writers, pc[w] \in Putting \cup {"overwrite"}
  PROVE  /\ backend = IF pc[w] = "overwrite" THEN "parameter" ELSE "secret"
         /\ held[w] \in Carried /\ held[w].no \in Nat
         /\ held[w].no # 0 /\ held[w].no <= saves
         /\ pc[w] \in {"put", "reput"} /\ w \in Verify /\ changes = 0 =>
              stored # None /\ stored.key = Key[w]
<1>1. CallOK(w, pc[w], held[w]) /\ pc[w] \in Saving  BY DEF CustodyInv, CallInv, Saving
<1>2. held[w] \in Carried  BY DEF CustodyInv, CustodyTypes
<1>3. held[w].no \in Nat  BY <1>2 DEF Carried
<1>4. held[w].no # 0 /\ held[w].no <= saves  BY <1>1 DEF CustodyInv, FreshInv
<1>  QED  BY <1>1, <1>2, <1>3, <1>4 DEF CallOK, Putting

\* A call on its way to a write goes on with its number.
LEMMA PutterGoesOn ==
  ASSUME CustodyInv, NEW w \in Writers, pc[w] \in Putting, NEW at \in Putting,
         Goto(w, at, held[w]),
         UNCHANGED <<config, stored, alias, saves, changes, history>>,
         at \in {"put", "reput"} /\ w \in Verify /\ changes = 0 =>
           stored # None /\ stored.key = Key[w]
  PROVE  CustodyInv'
<1>1. /\ backend = "secret" /\ held[w] \in Carried
      /\ held[w].no # 0 /\ held[w].no <= saves
  BY PutterCarries DEF Putting
<1>2. pc' = [pc EXCEPT ![w] = at] /\ held' = [held EXCEPT ![w] = held[w]] /\ result' = NoResult
  BY DEF Goto
<1>3. at \in Saving /\ at \notin Sealing /\ at # "unwrap" /\ at # "overwrite"
  BY DEF Saving, Putting, Sealing
<1>4. CallOK(w, at, held[w])  BY <1>1, <1>3 DEF CallOK, Sealing
<1>  QED  BY <1>1, <1>2, <1>3, <1>4, GotoKeeps

\* A write adds its value under a key, which is the writer's own when it names
\* it or has verified it, and leaves the key of a secret as it was.
LEMMA PutKeeps ==
  ASSUME CustodyInv, NEW w \in Writers, pc[w] \in Putting \cup {"overwrite"},
         NEW key \in Keys \cup {Default}, Put(w, key),
         UNCHANGED <<config, alias, saves, changes, sealed>>,
         backend = "parameter" \/ (w \in Verify /\ changes = 0) => key = Key[w],
         backend = "secret" /\ stored # None => key = stored.key
  PROVE  CustodyInv'
<1> DEFINE value == [no |-> held[w].no, key |-> key]
<1>1. /\ backend \in {"parameter", "secret"}
      /\ held[w] \in Carried /\ held[w].no \in Nat /\ held[w].no # 0
  BY PutterCarries
<1>2. PICK v : v = value  OBVIOUS
<1>3. v \in Values /\ v.no = held[w].no /\ v.key = key  BY <1>1, <1>2 DEF Values
<1>4. /\ stored' = v /\ landed' = landed \cup {v}
      /\ \E how \in {"saved", "error"} : Return(w, how, held[w].no)
  BY <1>2 DEF Put
<1>5. PICK how \in {"saved", "error"} : Return(w, how, held[w].no)  BY <1>4
<1>6. /\ pc' \in [Writers -> {"idle", "unwrap"} \cup Saving] /\ held' \in [Writers -> Carried]
      /\ pc'[w] = "idle"
      /\ \A u \in Writers : u # w => pc'[u] = pc[u] /\ held'[u] = held[u]
      /\ result' = [by |-> w, how |-> how, value |-> held[w].no]
  BY <1>5, ReturnMoves
<1>7. UNCHANGED <<backend, wrapper, pinned, alias, saves, changes, sealed>>  BY DEF config
<1>8. Genuine' = Genuine /\ Foreign' = Foreign /\ Deks' = Deks
  BY <1>7, SameRecords DEF Deks
<1>9. CustodyTypes'  BY <1>1, <1>3, <1>4, <1>6, <1>7, <1>8 DEF CustodyInv, CustodyTypes
<1>10. StoredInv'  BY <1>1, <1>3, <1>4, <1>7 DEF StoredInv
<1>11. SealedInv'
  <2>1. sealed = {}  BY <1>1 DEF CustodyInv, CustodyTypes
  <2>  QED  BY <1>7, <2>1 DEF SealedInv
<1>12. LandedInv'  BY <1>1, <1>3, <1>4 DEF CustodyInv, LandedInv, Garbage
<1>13. CallInv'
  <2>1. ASSUME NEW u \in Writers
        PROVE  CallOK(u, pc[u], held[u])'
    <3>1. CASE u = w  BY <1>6, <3>1 DEF CallOK, Saving, Sealing, Putting
    <3>2. CASE u # w
      <4>1. CallOK(u, pc[u], held[u])  BY DEF CustodyInv, CallInv
      <4>2. pc[u] \in Sealing => held[u].no \notin Deks'  BY <1>8, <4>1 DEF CallOK
      <4>3. pc[u] \in {"put", "reput"} /\ changes' = 0 =>
              /\ changes = 0
              /\ stored # None => stored' # None /\ stored'.key = stored.key
        <5>1. pc[u] \in {"put", "reput"} => backend = "secret"
          BY <4>1 DEF CallOK, Putting
        <5>2. v # None  BY <1>3, CustodyAssumption DEF Values
        <5>  QED  BY <1>3, <1>4, <1>7, <5>1, <5>2
      <4>  QED  BY <1>6, <1>7, <3>2, <4>2, <4>3, WaitingCallKeeps
    <3>  QED  BY <3>1, <3>2
  <2>  QED  BY <2>1 DEF CallInv
<1>14. FreshInv'
  <2>1. \A u \in Writers : pc'[u] \in Saving =>
          u # w /\ pc'[u] = pc[u] /\ held'[u] = held[u] /\ pc[u] \in Saving
    BY <1>6 DEF Saving, Sealing, Putting
  <2>  QED  BY <1>7, <2>1 DEF CustodyInv, FreshInv, Saving
<1>15. ResultInv'
  <2>1. /\ result'.how = how /\ how \in {"saved", "error"}
        /\ result'.by = w /\ result'.value = held[w].no
    BY <1>6
  <2>2. SavedUnderKey'  BY <1>3, <1>4, <1>7, <2>1 DEF SavedUnderKey
  <2>  QED  BY <2>1, <2>2 DEF ResultInv, VerdictsAreHonest, LoadIsAuthentic
<1>  QED  BY <1>9, <1>10, <1>11, <1>12, <1>13, <1>14, <1>15 DEF CustodyInv

\* A save to AWS takes a number that nobody has used.
LEMMA SaveRemoteKeeps ==
  ASSUME CustodyInv, NEW w \in Writers, SaveRemote(w)
  PROVE  CustodyInv'
<1> DEFINE new == [Blank EXCEPT !.no = saves']
<1>0. /\ backend \in {"secret", "parameter"} /\ saves' = saves + 1
      /\ UNCHANGED <<config, stored, alias, changes, history>>
  BY DEF SaveRemote, CustodyInv, CustodyTypes
<1>1. saves' \in Nat /\ saves' # 0  BY <1>0 DEF CustodyInv, CustodyTypes
<1>2. new \in Carried /\ new.no = saves'  BY <1>1 DEF Blank, Carried
<1>3. PICK at \in {"overwrite", "check", "put"} :
        /\ Goto(w, at, new)
        /\ at = "overwrite" <=> backend = "parameter"
        /\ w \in Verify => at # "put"
  BY <1>0 DEF SaveRemote
<1>4. pc' = [pc EXCEPT ![w] = at] /\ held' = [held EXCEPT ![w] = new] /\ result' = NoResult
  BY <1>3 DEF Goto
<1> HIDE DEF new
<1>5. PICK h \in Carried : h = new  BY <1>2
<1>6. at \in Saving /\ at \notin Sealing /\ at # "unwrap" /\ at # "reput" /\ (at \in Putting <=> at # "overwrite")
  BY <1>3 DEF Saving, Sealing, Putting
<1>7. CallOK(w, at, h)  BY <1>0, <1>3, <1>6 DEF CallOK, Sealing
<1>8. h.no # 0 /\ h.no <= saves'  BY <1>1, <1>2, <1>5
<1>  QED  BY <1>0, <1>4, <1>5, <1>6, <1>7, <1>8, GotoKeeps

\* PutParameter names the writer's key.
LEMMA OverwriteKeeps ==
  ASSUME CustodyInv, NEW w \in Writers, Overwrite(w)
  PROVE  CustodyInv'
<1>1. /\ pc[w] = "overwrite" /\ Put(w, Key[w])
      /\ UNCHANGED <<config, alias, saves, changes, sealed>>
  BY DEF Overwrite
<1>2. backend = "parameter"  BY <1>1, PutterCarries
<1>3. Key[w] \in Keys \cup {Default}  BY CustodyAssumption
<1>  QED  BY <1>1, <1>2, <1>3, PutKeeps

\* The check before the write.
LEMMA CheckKeeps ==
  ASSUME CustodyInv, NEW w \in Writers, Check(w)
  PROVE  CustodyInv'
<1>0. pc[w] = "check" /\ pc[w] \in Putting
      /\ UNCHANGED <<config, stored, alias, saves, changes, history>>
  BY DEF Check, Putting
<1>1. CASE Fail(w, "config")  BY <1>0, <1>1, FailKeeps
<1>2. CASE Goto(w, "create", held[w])
  <2>1. "create" \in Putting /\ "create" \notin {"put", "reput"}  BY DEF Putting
  <2>  QED  BY <1>0, <1>2, <2>1, PutterGoesOn
<1>3. CASE stored # None /\ CheckKMSKey(w) /\ Goto(w, "put", held[w])
  <2>1. "put" \in Putting /\ stored.key = Key[w]  BY <1>3 DEF Putting, CheckKMSKey
  <2>  QED  BY <1>0, <1>3, <2>1, PutterGoesOn
<1>  QED  BY <1>1, <1>2, <1>3 DEF Check

\* The check after a lost race.
LEMMA RecheckKeeps ==
  ASSUME CustodyInv, NEW w \in Writers, Recheck(w)
  PROVE  CustodyInv'
<1>0. pc[w] = "recheck" /\ pc[w] \in Putting
      /\ UNCHANGED <<config, stored, alias, saves, changes, history>>
  BY DEF Recheck, Putting
<1>1. CASE \E how \in {"error", "config"} : Fail(w, how)  BY <1>0, <1>1, FailKeeps
<1>2. CASE stored # None /\ CheckKMSKey(w) /\ Goto(w, "reput", held[w])
  <2>1. "reput" \in Putting /\ stored.key = Key[w]  BY <1>2 DEF Putting, CheckKMSKey
  <2>  QED  BY <1>0, <1>2, <2>1, PutterGoesOn
<1>  QED  BY <1>1, <1>2 DEF Recheck

\* A secret that exists keeps its key, which a verified writer has seen.
LEMMA PutUnderSecretKey ==
  ASSUME CustodyInv, NEW w \in Writers, pc[w] \in {"put", "reput"}, stored # None,
         Put(w, stored.key), UNCHANGED <<config, alias, saves, changes, sealed>>
  PROVE  CustodyInv'
<1>1. pc[w] \in Putting \cup {"overwrite"} /\ pc[w] # "overwrite"  BY DEF Putting
<1>2. /\ backend = "secret"
      /\ w \in Verify /\ changes = 0 => stored # None /\ stored.key = Key[w]
  BY <1>1, PutterCarries
<1>3. stored \in Values  BY <1>2 DEF CustodyInv, StoredInv
<1>4. stored.key \in Keys \cup {Default}  BY <1>3 DEF Values
<1>5. PICK key \in Keys \cup {Default} : key = stored.key  BY <1>4
<1>  QED  BY <1>1, <1>2, <1>5, PutKeeps

\* PutSecretValue on a secret that exists, or the way to create it.
LEMMA PutSecretValueKeeps ==
  ASSUME CustodyInv, NEW w \in Writers, PutSecretValue(w)
  PROVE  CustodyInv'
<1>0. pc[w] = "put" /\ pc[w] \in Putting
      /\ UNCHANGED <<config, alias, saves, changes, sealed>>
  BY DEF PutSecretValue, Putting
<1>1. CASE stored = None
  <2>1. Goto(w, "create", held[w]) /\ UNCHANGED <<stored, history>>
    BY <1>0, <1>1 DEF PutSecretValue, history
  <2>2. "create" \in Putting /\ "create" \notin {"put", "reput"}  BY DEF Putting
  <2>  QED  BY <1>0, <2>1, <2>2, PutterGoesOn
<1>2. CASE stored # None
  BY <1>0, <1>2, PutUnderSecretKey DEF PutSecretValue
<1>  QED  BY <1>1, <1>2

\* The write after a lost race.
LEMMA PutAfterRaceKeeps ==
  ASSUME CustodyInv, NEW w \in Writers, PutAfterRace(w)
  PROVE  CustodyInv'
<1>0. pc[w] = "reput" /\ UNCHANGED <<config, alias, saves, changes, sealed>>
  BY DEF PutAfterRace
<1>1. CASE stored = None
  <2>1. Fail(w, "error") /\ UNCHANGED <<stored, history>>
    BY <1>0, <1>1 DEF PutAfterRace, history
  <2>  QED  BY <1>0, <2>1, FailKeeps
<1>2. CASE stored # None
  BY <1>0, <1>2, PutUnderSecretKey DEF PutAfterRace
<1>  QED  BY <1>1, <1>2

\* CreateSecret gives the secret the writer's key, or loses a race: then a
\* writer that verifies looks at the key again.
LEMMA CreateSecretKeeps ==
  ASSUME CustodyInv, NEW w \in Writers, CreateSecret(w)
  PROVE  CustodyInv'
<1>0. /\ pc[w] = "create" /\ pc[w] \in Putting \cup {"overwrite"} /\ pc[w] \in Putting
      /\ UNCHANGED <<config, alias, saves, changes, sealed>>
  BY DEF CreateSecret, Putting
<1>1. CASE Fail(w, "config") /\ UNCHANGED <<stored, landed>>
  BY <1>0, <1>1, FailKeeps DEF history
<1>2. CASE stored = None /\ Put(w, Key[w])
  <2>1. Key[w] \in Keys \cup {Default}  BY CustodyAssumption
  <2>  QED  BY <1>0, <1>2, <2>1, PutKeeps
<1>3. CASE Goto(w, AfterRace(w), held[w]) /\ UNCHANGED <<stored, landed>>
  <2>1. PICK at \in Putting : at = AfterRace(w) /\ (w \in Verify => at = "recheck")
    BY DEF AfterRace, Putting
  <2>2. Goto(w, at, held[w])  BY <1>3, <2>1
  <2>  QED  BY <1>0, <1>3, <2>1, <2>2, PutterGoesOn DEF history
<1>  QED  BY <1>1, <1>2, <1>3 DEF CreateSecret

\* The verdict on a reply of AWS tells a value no save wrote, or no value,
\* from an absence.
LEMMA RemoteLoadKeeps ==
  ASSUME CustodyInv, NEW w \in Writers, backend # "sealed",
         \/ \E reply \in {stored, Valueless} : Return(w, Verdict(reply), reply)
         \/ Fail(w, "error"),
         UNCHANGED <<config, stored, alias, saves, changes, history>>
  PROVE  CustodyInv'
<1>1. sealed = {}  BY DEF CustodyInv, CustodyTypes
<1>2. CASE Fail(w, "error")  BY <1>2, FailKeeps
<1>3. ASSUME NEW reply \in {stored, Valueless}, Return(w, Verdict(reply), reply)
      PROVE  CustodyInv'
  <2>1. PICK how : how = Verdict(reply)  OBVIOUS
  <2>2. how \in {"notFound", "invalid", "loaded"}  BY <2>1 DEF Verdict
  <2>3. how = "notFound" => reply = None  BY <2>1 DEF Verdict
  <2>4. how = "invalid" => reply # None /\ (reply = Valueless \/ reply.no = Garbage)
    BY <2>1 DEF Verdict
  <2>5. how = "invalid" => reply = Valueless \/ reply \notin landed
    BY <2>4 DEF CustodyInv, LandedInv
  <2>  QED  BY <1>1, <1>3, <2>1, <2>2, <2>3, <2>4, <2>5, ReturnKeeps
<1>  QED  BY <1>2, <1>3

\* GetSecretValue.
LEMMA LoadSecretKeeps ==
  ASSUME CustodyInv, NEW w \in Writers, LoadSecret(w)
  PROVE  CustodyInv'
BY RemoteLoadKeeps DEF LoadSecret

\* GetParameter.
LEMMA LoadParameterKeeps ==
  ASSUME CustodyInv, NEW w \in Writers, LoadParameter(w)
  PROVE  CustodyInv'
BY RemoteLoadKeeps DEF LoadParameter

-----------------------------------------------------------------------------
(***************************************************************************)
(* Others.                                                                 *)
(***************************************************************************)

\* A change made by others: a verified key is no longer relied on, and what
\* they store has the box of a known envelope or the shape of a value.
LEMMA ChangeKeeps ==
  ASSUME CustodyInv, changes' = changes + 1, alias' \in Keys, StoredInv', result' = NoResult,
         UNCHANGED <<config, pc, held, saves, history>>
  PROVE  CustodyInv'
<1>0. UNCHANGED <<backend, wrapper, pinned, sealed, landed>>  BY DEF config, history
<1>1. changes' \in Nat /\ changes' # 0  BY DEF CustodyInv, CustodyTypes
<1>2. Genuine' = Genuine /\ Foreign' = Foreign /\ Deks' = Deks
  BY <1>0, SameRecords DEF Deks
<1>3. CustodyTypes'  BY <1>0, <1>1, <1>2 DEF CustodyInv, CustodyTypes
<1>4. SealedInv'
  <2>1. \A f : Admitted(f)' <=> Admitted(f)  BY SameReadings
  <2>2. \A f : Decoded(f)' = Decoded(f)  BY SameReadings
  <2>  QED  BY <1>0, <2>1, <2>2 DEF CustodyInv, SealedInv
<1>5. LandedInv'  BY <1>0 DEF CustodyInv, LandedInv
<1>6. CallInv'
  <2>1. ASSUME NEW v \in Writers
        PROVE  CallOK(v, pc[v], held[v])'
    <3>1. pc[v] \in Sealing => held[v].no \notin Deks'
      BY <1>2 DEF CustodyInv, CallInv, CallOK
    <3>  QED  BY <1>0, <1>1, <3>1, WaitingCallKeeps
  <2>  QED  BY <2>1 DEF CallInv
<1>7. FreshInv'  BY DEF CustodyInv, FreshInv
<1>8. ResultInv'  BY NoResultHolds
<1>  QED  BY <1>3, <1>4, <1>5, <1>6, <1>7, <1>8 DEF CustodyInv

\* The alias is given another key: nothing that is sealed looks at it.
LEMMA RetargetKeeps ==
  ASSUME CustodyInv, Retarget
  PROVE  CustodyInv'
<1>1. UNCHANGED <<backend, stored, sealed>>  BY DEF Retarget, config, history
<1>2. StoredInv'  BY <1>1, SameRecords DEF CustodyInv, StoredInv
<1>  QED  BY <1>2, ChangeKeeps DEF Retarget

\* What is stored is deleted, spoiled, or put together from known envelopes.
LEMMA ReplaceKeeps ==
  ASSUME CustodyInv, Replace
  PROVE  CustodyInv'
<1>1. UNCHANGED <<backend, sealed>>  BY DEF Replace, config, history
<1>2. StoredInv'
  <2>1. CASE stored' = None  BY <2>1 DEF StoredInv
  <2>2. CASE backend = "sealed" /\ stored' \in Recombined
    <3>1. Derived(stored')  BY <2>2, RecombinedIsDerived DEF CustodyInv
    <3>2. Derived(stored)'
      BY <1>1, <3>1, SameRecords DEF Derived
    <3>  QED  BY <1>1, <2>2, <3>2 DEF StoredInv
  <2>3. CASE backend # "sealed" /\ stored # None /\ stored' = [stored EXCEPT !.no = Garbage]
    <3>1. stored \in Values  BY <2>3 DEF CustodyInv, StoredInv
    <3>2. stored' \in Values  BY <2>3, <3>1 DEF Values, Garbage
    <3>  QED  BY <1>1, <2>3, <3>2 DEF StoredInv
  <2>  QED  BY <2>1, <2>2, <2>3 DEF Replace
<1>3. alias' \in Keys  BY DEF Replace, CustodyInv, CustodyTypes
<1>  QED  BY <1>2, <1>3, ChangeKeeps DEF Replace

-----------------------------------------------------------------------------
(***************************************************************************)
(* The specification.                                                      *)
(***************************************************************************)

\* Before the first call nothing is stored, sealed or carried.
LEMMA InitHolds == Init => CustodyInv
<1> SUFFICES ASSUME Init PROVE CustodyInv
  OBVIOUS
<1>1. CustodyTypes
  <2>1. Blank \in Carried  BY DEF Blank, Carried
  <2>2. held \in [Writers -> Carried]  BY <2>1 DEF Init
  <2>3. pinned \in BOOLEAN /\ wrapper \in {"kms", "custom"}
    <3>1. CASE backend = "sealed"  BY <3>1 DEF Init
    <3>2. CASE backend # "sealed"  BY <3>2 DEF Init
    <3>  QED  BY <3>1, <3>2
  <2>  QED  BY <2>2, <2>3 DEF Init, CustodyTypes
<1>2. StoredInv /\ SealedInv /\ LandedInv  BY DEF Init, StoredInv, SealedInv, LandedInv
<1>3. CallInv  BY DEF Init, CallInv, CallOK, Saving, Sealing, Putting
<1>4. FreshInv  BY DEF Init, FreshInv, Saving, Sealing, Putting
<1>5. ResultInv
  BY DEF Init, NoResult, ResultInv, VerdictsAreHonest, LoadIsAuthentic, SavedUnderKey
<1>  QED  BY <1>1, <1>2, <1>3, <1>4, <1>5 DEF CustodyInv

\* Nothing changes in a stuttering step.
LEMMA StutterKeeps ==
  ASSUME CustodyInv, UNCHANGED vars
  PROVE  CustodyInv'
<1>0. UNCHANGED <<config, backend, wrapper, pinned, stored, alias, lock, pc, held, result, saves,
                  changes, history, sealed, landed>>
  BY DEF vars, config, history
<1>1. saves \in Nat  BY DEF CustodyInv, CustodyTypes
<1>2. StoredInv' /\ SealedInv' /\ LandedInv' /\ Deks' = Deks  BY <1>0, StoreKeeps
<1>3. Genuine' = Genuine /\ Foreign' = Foreign  BY <1>0, SameRecords
<1>4. CustodyTypes'  BY <1>0, <1>3 DEF CustodyInv, CustodyTypes
<1>5. CallInv'
  <2>1. ASSUME NEW v \in Writers
        PROVE  CallOK(v, pc[v], held[v])'
    <3>1. pc[v] \in Sealing => held[v].no \notin Deks'
      BY <1>2 DEF CustodyInv, CallInv, CallOK
    <3>  QED  BY <1>0, <3>1, WaitingCallKeeps
  <2>  QED  BY <2>1 DEF CallInv
<1>6. FreshInv'  BY <1>0 DEF CustodyInv, FreshInv
<1>7. ResultInv'
  <2>1. VerdictsAreHonest'  BY <1>0 DEF CustodyInv, ResultInv, VerdictsAreHonest
  <2>2. LoadIsAuthentic'  BY <1>0, <1>3 DEF CustodyInv, ResultInv, LoadIsAuthentic
  <2>3. SavedUnderKey'  BY <1>0 DEF CustodyInv, ResultInv, SavedUnderKey
  <2>  QED  BY <2>1, <2>2, <2>3 DEF ResultInv
<1>  QED  BY <1>2, <1>4, <1>5, <1>6, <1>7 DEF CustodyInv

\* Every step keeps the invariant.
LEMMA StepKeeps ==
  ASSUME CustodyInv, [Next]_vars
  PROVE  CustodyInv'
<1>1. CASE UNCHANGED vars  BY <1>1, StutterKeeps
<1>2. ASSUME NEW w \in Writers,
             (\E a \in Agents : SaveSealed(w, a)) \/ Wrap(w) \/ VerifyKey(w) \/ Commit(w)
               \/ LoadSealed(w) \/ Unwrap(w)
      PROVE  CustodyInv'
  BY <1>2, SaveSealedKeeps, WrapKeeps, VerifyKeyKeeps, CommitKeeps, LoadSealedKeeps, UnwrapKeeps
<1>3. ASSUME NEW w \in Writers,
             SaveRemote(w) \/ Overwrite(w) \/ Check(w) \/ PutSecretValue(w) \/ CreateSecret(w)
               \/ Recheck(w) \/ PutAfterRace(w) \/ LoadSecret(w) \/ LoadParameter(w) \/ Abandon(w)
      PROVE  CustodyInv'
  BY <1>3, SaveRemoteKeeps, OverwriteKeeps, CheckKeeps, PutSecretValueKeeps, CreateSecretKeeps,
     RecheckKeeps, PutAfterRaceKeeps, LoadSecretKeeps, LoadParameterKeeps, AbandonKeeps
<1>4. CASE Retarget \/ Replace  BY <1>4, RetargetKeeps, ReplaceKeeps
<1>  QED  BY <1>1, <1>2, <1>3, <1>4 DEF Next

\* In every behaviour the invariant of the stores holds.
THEOREM CustodyInvariant == Spec => []CustodyInv
<1>1. Init => CustodyInv  BY InitHolds
<1>2. CustodyInv /\ [Next]_vars => CustodyInv'  BY StepKeeps
<1>  QED  BY <1>1, <1>2, PTL DEF Spec

\* Every envelope a save committed opens to the state it was given, whatever
\* wrapper sealed it and whatever key the alias names by now.
THEOREM SealedStatesReopen == Spec => []Reopenable
<1>1. CustodyInv => Reopenable  BY DEF CustodyInv, SealedInv, Reopenable
<1>  QED  BY <1>1, CustodyInvariant, PTL

\* A state is reported missing only when there was none, never on a reply without
\* a value; and corrupt, with the KMS wrapper or in AWS, only on such a reply or
\* on a value no save wrote: never for an outage or a moved alias.
THEOREM HonestVerdicts == Spec => []VerdictsAreHonest
<1>1. CustodyInv => VerdictsAreHonest  BY DEF CustodyInv, ResultInv
<1>  QED  BY <1>1, CustodyInvariant, PTL

\* A sealed load that succeeds read a whole envelope of this store or another
\* agent's, and with a pinned id never another agent's, however the file was
\* put together.
THEOREM AuthenticLoads == Spec => []LoadIsAuthentic
<1>1. CustodyInv => LoadIsAuthentic  BY DEF CustodyInv, ResultInv
<1>  QED  BY <1>1, CustodyInvariant, PTL

\* An acknowledged save was durable under the writer's own key when it names or
\* verifies it, whoever created the secret in between.
THEOREM SavesUnderOwnKey == Spec => []SavedUnderKey
<1>1. CustodyInv => SavedUnderKey  BY DEF CustodyInv, ResultInv
<1>  QED  BY <1>1, CustodyInvariant, PTL

=============================================================================
