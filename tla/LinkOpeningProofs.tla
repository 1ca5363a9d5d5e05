------------------------- MODULE LinkOpeningProofs -------------------------
(***************************************************************************)
(* Safety of LinkOpening for any number of callers, links, manifests and   *)
(* deployments, and any clock.                                             *)
(*                                                                         *)
(* The invariant of a call speaks of that call alone: each step is shown   *)
(* to keep it for the caller that takes the step.  What callers share, the *)
(* floor of the provider, has an invariant of its own.                     *)
(***************************************************************************)
EXTENDS LinkOpening, TLAPS

Places == {"idle", "config", "fetch", "floor", "endpoint", "anonymous", "ask", "source",
           "device", "open", "knock", "done"}

Outcomes == {None, "refused", "notConfigured", "manifest", "fetch", "downgrade", "context",
             "relay", "noKey", "panic", "overloaded", "malformed", "notFound", "denied",
             "issued", "rejected", "opened"}

Configs == Deployments \cup {ManifestConfig(e) : e \in Envelopes} \cup {None}

CallRecord ==
  [at : Places, crid : Resources \cup {None}, link : Links \cup {None},
   device : {"no", "lent", "source"}, cfg : Configs, seen : Envelopes \cup {None},
   first : Outcomes, second : Outcomes, result : Outcomes]

LinkTypeOK ==
  /\ call \in [Callers -> CallRecord]
  /\ source \in [Callers -> {"off", "running", "key", "badKey", "error", "panic", "gone"}]
  /\ key \in [Callers -> {"none", "live", "wiped"}]

-----------------------------------------------------------------------------
(***************************************************************************)
(* The invariant, one caller at a time.                                    *)
(***************************************************************************)

\* What is known of a call in its early places, and when it has returned.
PlaceInv(c) ==
  /\ call[c].at = "idle" => call[c] = Fresh
  /\ call[c].at \in {"idle", "config", "fetch", "floor", "endpoint", "anonymous", "ask"} =>
       call[c].second = None /\ source[c] = "off"
  /\ call[c].at # "done" => call[c].result = None

\* The device shows itself only after "not found".
DeviceInv(c) ==
  /\ \/ call[c].at \in {"ask", "source", "device"}
     \/ call[c].second # None
     \/ source[c] # "off"
     => call[c].device # "no" /\ call[c].first = "notFound"
  /\ call[c].result = "notFound" /\ call[c].device # "no" => call[c].second = "notFound"

\* A key is with the goroutine of its source, or with the request that uses it.
KeyInv(c) ==
  /\ key[c] = "live" => Holding(c) \/ call[c].at = "device"
  /\ source[c] \in {"off", "running"} => key[c] # "live"

\* The manifest under examination, and the configuration that came of it.
TrustInv(c) ==
  /\ call[c].at = "floor" => call[c].seen \in Envelopes /\ call[c].seen.genuine
  /\ call[c].cfg # None =>
       \/ call[c].cfg \in Deployments
       \/ \E e \in Envelopes : e.genuine /\ call[c].cfg = ManifestConfig(e)

\* The link that is knocked, and was opened.
LinkInv(c) ==
  call[c].at = "knock" \/ call[c].result = "opened" =>
    /\ call[c].crid \in {None, call[c].link.resource}
    /\ call[c].link.signer \in call[c].cfg.issuers

CallInv(c) == PlaceInv(c) /\ DeviceInv(c) /\ KeyInv(c) /\ TrustInv(c) /\ LinkInv(c)

OpeningInv == LinkTypeOK /\ \A c \in Callers : CallInv(c)

-----------------------------------------------------------------------------
(***************************************************************************)
(* How the record of a call changes.                                       *)
(***************************************************************************)

\* The record of a call that has not begun.
LEMMA FreshFacts ==
  Fresh \in CallRecord /\ Fresh.cfg = None /\ Fresh.result = None /\ Fresh.second = None
BY DEF Fresh, CallRecord, Places, Outcomes, Configs

\* A call that ends keeps what it was told, and what it opened.
LEMMA EndedFacts ==
  ASSUME NEW record \in CallRecord, NEW r \in Outcomes
  PROVE  /\ Ended(record, r) \in CallRecord
         /\ Ended(record, r).at = "done" /\ Ended(record, r).result = r
         /\ Ended(record, r).device = record.device
         /\ Ended(record, r).first = record.first /\ Ended(record, r).second = record.second
         /\ r # "opened" => Ended(record, r).cfg = None
         /\ r = "opened" => /\ Ended(record, r).cfg = record.cfg
                            /\ Ended(record, r).crid = record.crid
                            /\ Ended(record, r).link = record.link
<1>1. CASE r = "opened"
  <2>1. Ended(record, r) = [record EXCEPT !.at = "done", !.result = r] BY <1>1 DEF Ended
  <2> QED BY <1>1, <2>1 DEF CallRecord, Places
<1>2. CASE r # "opened"
  <2>1. Ended(record, r) =
          [at |-> "done", crid |-> None, link |-> None, device |-> record.device,
           cfg |-> None, seen |-> None, first |-> record.first,
           second |-> record.second, result |-> r]
    BY <1>2 DEF Ended, Fresh
  <2> QED BY <1>2, <2>1 DEF CallRecord, Places, Configs
<1> QED BY <1>1, <1>2

\* A call that moves on.
LEMMA GotoFacts ==
  ASSUME LinkTypeOK, NEW c \in Callers, NEW p \in Places, Goto(c, p)
  PROVE  /\ call' \in [Callers -> CallRecord]
         /\ \A d \in Callers \ {c} : call'[d] = call[d]
         /\ call'[c].at = p
         /\ call'[c].crid = call[c].crid /\ call'[c].link = call[c].link
         /\ call'[c].device = call[c].device /\ call'[c].cfg = call[c].cfg
         /\ call'[c].seen = call[c].seen
         /\ call'[c].first = call[c].first /\ call'[c].second = call[c].second
         /\ call'[c].result = call[c].result
<1>1. call[c] \in CallRecord BY DEF LinkTypeOK
<1>2. [call[c] EXCEPT !.at = p] \in CallRecord BY <1>1 DEF CallRecord
<1>3. call' = [call EXCEPT ![c] = [call[c] EXCEPT !.at = p]] BY DEF Goto
<1>4. call'[c] = [call[c] EXCEPT !.at = p] /\ \A d \in Callers \ {c} : call'[d] = call[d]
  BY <1>3 DEF LinkTypeOK
<1>5. call' \in [Callers -> CallRecord] BY <1>2, <1>3 DEF LinkTypeOK
<1> QED BY <1>1, <1>4, <1>5 DEF CallRecord

\* A call that returns.
LEMMA ReturnFacts ==
  ASSUME LinkTypeOK, NEW c \in Callers, NEW r \in Outcomes, Return(c, r)
  PROVE  /\ call' \in [Callers -> CallRecord]
         /\ \A d \in Callers \ {c} : call'[d] = call[d]
         /\ call'[c].at = "done" /\ call'[c].result = r
         /\ call'[c].device = call[c].device
         /\ call'[c].first = call[c].first /\ call'[c].second = call[c].second
         /\ r # "opened" => call'[c].cfg = None
         /\ r = "opened" => /\ call'[c].cfg = call[c].cfg
                            /\ call'[c].crid = call[c].crid /\ call'[c].link = call[c].link
<1>1. call[c] \in CallRecord BY DEF LinkTypeOK
<1>2. call' = [call EXCEPT ![c] = Ended(call[c], r)] BY DEF Return
<1>3. Ended(call[c], r) \in CallRecord BY <1>1, EndedFacts
<1>4. call'[c] = Ended(call[c], r) /\ \A d \in Callers \ {c} : call'[d] = call[d]
  BY <1>2 DEF LinkTypeOK
<1>5. call' \in [Callers -> CallRecord] BY <1>2, <1>3 DEF LinkTypeOK
<1> QED BY <1>1, <1>4, <1>5, EndedFacts

\* A step of one caller: what the invariant says of the others holds still.
LEMMA OthersKept ==
  ASSUME OpeningInv, NEW c \in Callers, LinkTypeOK',
         \A d \in Callers \ {c} :
           call'[d] = call[d] /\ source'[d] = source[d] /\ key'[d] = key[d],
         CallInv(c)'
  PROVE  OpeningInv'
<1>1. ASSUME NEW d \in Callers \ {c} PROVE CallInv(d)'
  <2>1. /\ CallInv(d)
        /\ call'[d] = call[d] /\ source'[d] = source[d] /\ key'[d] = key[d]
    BY DEF OpeningInv
  <2> QED BY <2>1 DEF CallInv, PlaceInv, DeviceInv, KeyInv, TrustInv, LinkInv, Holding
<1> QED BY <1>1 DEF OpeningInv

\* A call returns with nothing opened, and with no key but one its source holds.
LEMMA ReturnKept ==
  ASSUME OpeningInv, NEW c \in Callers, NEW r \in Outcomes \ {"opened"}, Return(c, r),
         LinkTypeOK',
         \A d \in Callers \ {c} : source'[d] = source[d] /\ key'[d] = key[d],
         source'[c] # "off" <=> source[c] # "off", KeyInv(c)',
         r = "notFound" => call[c].device = "no"
  PROVE  OpeningInv'
<1>1. /\ \A d \in Callers \ {c} : call'[d] = call[d]
      /\ call'[c].at = "done" /\ call'[c].result = r
      /\ call'[c].device = call[c].device
      /\ call'[c].first = call[c].first /\ call'[c].second = call[c].second
      /\ call'[c].cfg = None
  BY ReturnFacts DEF OpeningInv
<1>2. CallInv(c) BY DEF OpeningInv
<1>3. PlaceInv(c)' /\ LinkInv(c)' BY <1>1 DEF PlaceInv, LinkInv
<1>4. DeviceInv(c)' BY <1>1, <1>2 DEF CallInv, DeviceInv
<1>5. TrustInv(c)' BY <1>1 DEF TrustInv
<1>6. CallInv(c)' BY <1>3, <1>4, <1>5 DEF CallInv
<1> QED BY <1>1, <1>2, <1>6, OthersKept

\* A call returns, and its source and its key are as they were.
LEMMA ReturnPlain ==
  ASSUME OpeningInv, NEW c \in Callers, NEW r \in Outcomes \ {"opened"}, Return(c, r),
         UNCHANGED <<source, key>>, call[c].at # "device",
         r = "notFound" => call[c].device = "no"
  PROVE  OpeningInv'
<1>1. call' \in [Callers -> CallRecord] /\ call'[c].at = "done"
  BY ReturnFacts DEF OpeningInv
<1>2. LinkTypeOK' BY <1>1 DEF OpeningInv, LinkTypeOK
<1>3. KeyInv(c) BY DEF OpeningInv, CallInv
<1>4. KeyInv(c)' BY <1>1, <1>3 DEF KeyInv, Holding
<1> QED BY <1>2, <1>4, ReturnKept

-----------------------------------------------------------------------------
(***************************************************************************)
(* One lemma per step.                                                     *)
(***************************************************************************)

\* The record of a call that begins.
Begun(c, crid, link, device) ==
  [call[c] EXCEPT !.at = "config", !.crid = crid, !.link = link, !.device = device]

\* A call begins, as new or with what it was given.
LEMMA BeginKept ==
  ASSUME OpeningInv, NEW c \in Callers, call[c].at = "idle",
         NEW crid \in Resources \cup {None}, NEW link \in Links \cup {None},
         NEW device \in {"no", "lent", "source"},
         call' = [call EXCEPT ![c] = Begun(c, crid, link, device)],
         UNCHANGED <<source, key>>
  PROVE  OpeningInv'
<1>1. /\ call[c] \in CallRecord /\ call[c] = Fresh /\ source[c] = "off" /\ CallInv(c)
      /\ call \in [Callers -> CallRecord]
  BY DEF OpeningInv, LinkTypeOK, CallInv, PlaceInv
<1> DEFINE new == Begun(c, crid, link, device)
<1>2. call' = [call EXCEPT ![c] = new] OBVIOUS
<1>3. new \in CallRecord BY <1>1 DEF CallRecord, Places, Begun
<1>4. /\ new.at = "config" /\ new.cfg = None /\ new.second = None /\ new.result = None
  BY <1>1 DEF Fresh, Begun
<1> HIDE DEF new
<1>5. call'[c] = new /\ \A d \in Callers \ {c} : call'[d] = call[d] BY <1>1, <1>2
<1>6. LinkTypeOK' BY <1>1, <1>2, <1>3 DEF OpeningInv, LinkTypeOK
<1>7. PlaceInv(c)' /\ DeviceInv(c)' /\ LinkInv(c)' /\ TrustInv(c)'
  BY <1>1, <1>4, <1>5, LinkAssumption DEF PlaceInv, DeviceInv, LinkInv, TrustInv
<1>8. KeyInv(c)' BY <1>1, <1>4, <1>5 DEF CallInv, KeyInv, Holding
<1>9. CallInv(c)' BY <1>7, <1>8 DEF CallInv
<1> QED BY <1>1, <1>5, <1>6, <1>9, OthersKept

\* EnterPortal, EnterPortalForCRID, and OpenCRID in its three forms.
LEMMA CallsKept ==
  ASSUME OpeningInv, NEW c \in Callers, OpenerCalls(c) \/ RequesterCalls(c)
  PROVE  OpeningInv'
<1>1. call[c] \in CallRecord /\ call \in [Callers -> CallRecord] BY DEF OpeningInv, LinkTypeOK
<1>2. CASE OpenerCalls(c)
  <2>1. PICK crid \in Resources \cup {None}, link \in Links :
          call' = [call EXCEPT ![c].at = "config", ![c].crid = crid, ![c].link = link]
    BY <1>2 DEF OpenerCalls
  <2>2. [call[c] EXCEPT !.at = "config", !.crid = crid, !.link = link]
          = Begun(c, crid, link, call[c].device)
    BY <1>1 DEF CallRecord, Begun
  <2>3. call' = [call EXCEPT ![c] = Begun(c, crid, link, call[c].device)] BY <2>1, <2>2
  <2>4. call[c].at = "idle" /\ UNCHANGED <<source, key>> BY <1>2 DEF OpenerCalls
  <2>5. call[c].device \in {"no", "lent", "source"} BY <1>1 DEF CallRecord
  <2> QED BY <2>3, <2>4, <2>5, BeginKept
<1>3. CASE RequesterCalls(c)
  <2>1. PICK crid \in Resources, device \in {"no", "lent", "source"} :
          call' = [call EXCEPT ![c].at = "config", ![c].crid = crid, ![c].device = device]
    BY <1>3 DEF RequesterCalls
  <2>2. [call[c] EXCEPT !.at = "config", !.crid = crid, !.device = device]
          = Begun(c, crid, call[c].link, device)
    BY <1>1 DEF CallRecord, Begun
  <2>3. call' = [call EXCEPT ![c] = Begun(c, crid, call[c].link, device)] BY <2>1, <2>2
  <2>4. call[c].at = "idle" /\ UNCHANGED <<source, key>> BY <1>3 DEF RequesterCalls
  <2>5. call[c].link \in Links \cup {None} BY <1>1 DEF CallRecord
  <2> QED BY <2>3, <2>4, <2>5, BeginKept
<1> QED BY <1>2, <1>3

\* A call moves on with the same request in the same hands.
LEMMA GotoKept ==
  ASSUME OpeningInv, NEW c \in Callers, NEW p \in Places \ {"idle", "floor", "done"}, Goto(c, p),
         call[c].at \notin {"idle", "done", "knock"}, LinkTypeOK',
         \A d \in Callers \ {c} : source'[d] = source[d] /\ key'[d] = key[d],
         KeyInv(c)',
         p \in {"config", "fetch", "endpoint", "anonymous", "ask"} =>
           call[c].second = None /\ source'[c] = "off",
         p \in {"ask", "source", "device"} \/ source'[c] # "off" =>
           call[c].device # "no" /\ call[c].first = "notFound",
         p = "knock" => /\ call[c].crid \in {None, call[c].link.resource}
                        /\ call[c].link.signer \in call[c].cfg.issuers
  PROVE  OpeningInv'
<1>1. /\ \A d \in Callers \ {c} : call'[d] = call[d]
      /\ call'[c].at = p
      /\ call'[c].crid = call[c].crid /\ call'[c].link = call[c].link
      /\ call'[c].device = call[c].device /\ call'[c].cfg = call[c].cfg
      /\ call'[c].seen = call[c].seen
      /\ call'[c].first = call[c].first /\ call'[c].second = call[c].second
      /\ call'[c].result = call[c].result
  BY GotoFacts DEF OpeningInv
<1>2. CallInv(c) BY DEF OpeningInv
<1>3. call[c].result = None BY <1>2 DEF CallInv, PlaceInv
<1>4. PlaceInv(c)' BY <1>1, <1>3 DEF PlaceInv
<1>5. DeviceInv(c)' BY <1>1, <1>2, <1>3, LinkAssumption DEF CallInv, DeviceInv
<1>6. TrustInv(c)' BY <1>1, <1>2 DEF CallInv, TrustInv
<1>7. LinkInv(c)' BY <1>1, <1>3, LinkAssumption DEF LinkInv
<1>8. CallInv(c)' BY <1>4, <1>5, <1>6, <1>7 DEF CallInv
<1> QED BY <1>1, <1>2, <1>8, OthersKept

\* The same, with source and key untouched.
LEMMA GotoPlain ==
  ASSUME OpeningInv, NEW c \in Callers, NEW p \in Places \ {"idle", "floor", "done"}, Goto(c, p),
         call[c].at \notin {"idle", "done", "knock"}, UNCHANGED <<source, key>>,
         call[c].at # "device",
         p \in {"config", "fetch", "endpoint", "anonymous", "ask"} =>
           call[c].second = None /\ source[c] = "off",
         p \in {"ask", "source", "device"} => call[c].device # "no" /\ call[c].first = "notFound",
         p = "knock" => /\ call[c].crid \in {None, call[c].link.resource}
                        /\ call[c].link.signer \in call[c].cfg.issuers
  PROVE  OpeningInv'
<1>1. call' \in [Callers -> CallRecord] /\ call'[c].at = p BY GotoFacts DEF OpeningInv
<1>2. LinkTypeOK' BY <1>1 DEF OpeningInv, LinkTypeOK
<1>3. KeyInv(c) /\ DeviceInv(c) BY DEF OpeningInv, CallInv
<1>4. KeyInv(c)' BY <1>1, <1>3 DEF KeyInv, Holding
<1>5. source[c] # "off" => call[c].device # "no" /\ call[c].first = "notFound"
  BY <1>3 DEF DeviceInv
<1> QED BY <1>2, <1>4, <1>5, GotoKept

\* A configuration is adopted: that of the deployment file, or of a genuine
\* manifest.
LEMMA ConfiguredKept ==
  ASSUME OpeningInv, NEW c \in Callers, call[c].at \in {"config", "floor"},
         NEW cfg \in Configs, Configured(c, cfg),
         \/ cfg \in Deployments
         \/ \E e \in Envelopes : e.genuine /\ cfg = ManifestConfig(e),
         UNCHANGED <<source, key>>
  PROVE  OpeningInv'
<1>1. /\ call[c] \in CallRecord /\ CallInv(c) /\ call \in [Callers -> CallRecord]
  BY DEF OpeningInv, LinkTypeOK
<1> DEFINE p == IF call[c].link = None THEN "endpoint" ELSE "open"
           new == [call[c] EXCEPT !.cfg = cfg, !.seen = None, !.at = p]
<1>2. call' = [call EXCEPT ![c] = new] BY DEF Configured
<1>3. new \in CallRecord BY <1>1 DEF CallRecord, Places
<1>4. /\ new.at \in {"endpoint", "open"} /\ new.cfg = cfg
      /\ new.second = call[c].second /\ new.result = call[c].result
      /\ new.device = call[c].device /\ new.first = call[c].first
  BY <1>1 DEF CallRecord
<1> HIDE DEF new
<1>5. call'[c] = new /\ \A d \in Callers \ {c} : call'[d] = call[d] BY <1>1, <1>2
<1>6. LinkTypeOK' BY <1>1, <1>2, <1>3 DEF OpeningInv, LinkTypeOK
<1>7. PlaceInv(c) /\ DeviceInv(c) /\ KeyInv(c) /\ TrustInv(c) BY <1>1 DEF CallInv
<1>8. call[c].result = None /\ call[c].second = None /\ source[c] = "off"
  BY <1>7 DEF PlaceInv
<1>9. PlaceInv(c)' /\ DeviceInv(c)' /\ LinkInv(c)'
  BY <1>4, <1>5, <1>8, LinkAssumption DEF PlaceInv, DeviceInv, LinkInv
<1>10. KeyInv(c)' BY <1>4, <1>5, <1>7, <1>8 DEF KeyInv, Holding
<1>11. TrustInv(c)' BY <1>4, <1>5 DEF TrustInv
<1>12. CallInv(c)' BY <1>9, <1>10, <1>11 DEF CallInv
<1> QED BY <1>5, <1>6, <1>12, OthersKept

\* Resolve accepts genuine manifests only.
LEMMA AcceptableGenuine ==
  ASSUME NEW e \in Envelopes, NEW t, Acceptable(e, t)
  PROVE  e.genuine
BY AnchorAssumption DEF Acceptable, Authenticate, VerifyManifestSig

\* resolveDefaultConfig.
LEMMA ConfigKept ==
  ASSUME OpeningInv, NEW c \in Callers,
         ReadDeployment(c) \/ StartFetch(c) \/ FetchManifest(c) \/ AdoptManifest(c)
  PROVE  OpeningInv'
<1>0. /\ call[c] \in CallRecord /\ CallInv(c) /\ call \in [Callers -> CallRecord]
      /\ PlaceInv(c) /\ DeviceInv(c) /\ KeyInv(c) /\ TrustInv(c)
  BY DEF OpeningInv, LinkTypeOK, CallRecord, CallInv
<1>1. CASE ReadDeployment(c)
  <2>1. call[c].at = "config" /\ UNCHANGED <<source, key>> BY <1>1 DEF ReadDeployment
  <2>2. ASSUME NEW d \in Deployments, Configured(c, d) PROVE OpeningInv'
    BY <1>0, <2>1, <2>2, ConfiguredKept DEF Configs
  <2>3. CASE Return(c, "notConfigured")
    BY <2>1, <2>3, ReturnPlain, LinkAssumption DEF Outcomes
  <2> QED BY <1>1, <2>2, <2>3 DEF ReadDeployment
<1>2. CASE StartFetch(c)
  BY <1>0, <1>2, GotoPlain DEF StartFetch, Places, PlaceInv
<1>3. CASE FetchManifest(c)
  <2>1. call[c].at = "fetch" /\ UNCHANGED <<source, key>> BY <1>3 DEF FetchManifest
  <2>2. ASSUME NEW e \in Envelopes, Acceptable(e, now),
               call' = [call EXCEPT ![c].at = "floor", ![c].seen = e]
        PROVE  OpeningInv'
    <3> DEFINE new == [call[c] EXCEPT !.at = "floor", !.seen = e]
    <3>1. call' = [call EXCEPT ![c] = new] BY <2>2
    <3>2. new \in CallRecord BY <1>0 DEF CallRecord, Places
    <3>3. /\ new.at = "floor" /\ new.seen = e /\ new.cfg = call[c].cfg
          /\ new.second = call[c].second
          /\ new.result = call[c].result
      BY <1>0 DEF CallRecord
    <3> HIDE DEF new
    <3>4. call'[c] = new /\ \A d \in Callers \ {c} : call'[d] = call[d] BY <1>0, <3>1
    <3>5. LinkTypeOK' BY <1>0, <2>1, <3>1, <3>2 DEF OpeningInv, LinkTypeOK
    <3>6. e.genuine BY <2>2, AcceptableGenuine
    <3>7. call[c].result = None /\ call[c].second = None /\ source[c] = "off"
      BY <1>0, <2>1 DEF PlaceInv
    <3>8. PlaceInv(c)' /\ DeviceInv(c)' /\ LinkInv(c)'
      BY <2>1, <3>3, <3>4, <3>7, LinkAssumption DEF PlaceInv, DeviceInv, LinkInv
    <3>9. KeyInv(c)' BY <1>0, <2>1, <3>3, <3>4 DEF KeyInv, Holding
    <3>10. TrustInv(c)' BY <1>0, <2>1, <3>3, <3>4, <3>6 DEF TrustInv
    <3>11. CallInv(c)' BY <3>8, <3>9, <3>10 DEF CallInv
    <3> QED BY <1>0, <2>1, <3>4, <3>5, <3>11, OthersKept
  <2>3. ASSUME NEW r \in {"manifest", "context", "fetch"}, Return(c, r) PROVE OpeningInv'
    BY <2>1, <2>3, ReturnPlain, LinkAssumption DEF Outcomes
  <2> QED BY <1>3, <2>2, <2>3 DEF FetchManifest, Failure
<1>4. CASE AdoptManifest(c)
  <2> DEFINE e == call[c].seen
  <2>1. call[c].at = "floor" /\ UNCHANGED <<source, key>> BY <1>4 DEF AdoptManifest
  <2>2. e \in Envelopes /\ e.genuine BY <1>0, <2>1 DEF TrustInv
  <2>3. CASE NoDowngrade(e)
    <3>1. Configured(c, ManifestConfig(e)) BY <1>4, <2>3 DEF AdoptManifest
    <3>2. ManifestConfig(e) \in Configs BY <2>2 DEF Configs
    <3> HIDE DEF e
    <3> QED BY <2>1, <2>2, <3>1, <3>2, ConfiguredKept
  <2>4. CASE ~NoDowngrade(e)
    <3>1. Return(c, "downgrade") BY <1>4, <2>4 DEF AdoptManifest
    <3> QED BY <2>1, <3>1, ReturnPlain, LinkAssumption DEF Outcomes
  <2> QED BY <2>3, <2>4
<1> QED BY <1>1, <1>2, <1>3, <1>4

-----------------------------------------------------------------------------
(***************************************************************************)
(* The link request.                                                       *)
(***************************************************************************)

\* A buffer that is wiped does not hold a key.
LEMMA WipeFacts ==
  ASSUME NEW k \in {"none", "live", "wiped"}
  PROVE  wipe(k) \in {"none", "live", "wiped"} /\ wipe(k) # "live"
BY DEF wipe

\* What the interpretation of a reply yields; a link comes with "issued".
LEMMA InterpretFacts ==
  ASSUME NEW r \in Replies, NEW crid, NEW cfg
  PROVE  /\ InterpretReply(r, crid, cfg) \in
              {"overloaded", "malformed", "notFound", "denied", "issued", "rejected"}
         /\ InterpretReply(r, crid, cfg) = "issued" => r.link \in Links
<1>1. \/ r.code \in {"overloaded", "malformed", "notFound", "denied"}
      \/ r.code = "issued" /\ r.link \in Links \cup {None}
  BY DEF Replies
<1>2. CASE r.code # "issued" BY <1>1, <1>2 DEF InterpretReply
<1>3. CASE r.code = "issued" /\ IssuedCRIDLink(r, crid, cfg)
  BY <1>1, <1>3 DEF InterpretReply, IssuedCRIDLink
<1>4. CASE r.code = "issued" /\ ~IssuedCRIDLink(r, crid, cfg) BY <1>4 DEF InterpretReply
<1> QED BY <1>2, <1>3, <1>4

\* The answer to a request, heard: the call goes on to another place, or to the
\* issued link.
LEMMA HeardKept ==
  ASSUME OpeningInv, NEW c \in Callers, NEW new \in CallRecord,
         call' = [call EXCEPT ![c] = new], UNCHANGED source,
         key' \in [Callers -> {"none", "live", "wiped"}],
         \A d \in Callers \ {c} : key'[d] = key[d],
         call[c].at \in {"anonymous", "device"}, new.at \in {"ask", "open"},
         new.device = call[c].device, new.cfg = call[c].cfg,
         new.result = call[c].result,
         new.at = "ask" => call[c].at = "anonymous" /\ new.device # "no",
         new.second # None => call[c].at = "device",
         new.at = "ask" \/ call[c].at = "device" => new.first = "notFound",
         key'[c] # "live" \/ Holding(c)
  PROVE  OpeningInv'
<1>1. /\ call \in [Callers -> CallRecord] /\ CallInv(c)
      /\ PlaceInv(c) /\ DeviceInv(c) /\ KeyInv(c) /\ TrustInv(c)
  BY DEF OpeningInv, LinkTypeOK, CallInv
<1>2. call'[c] = new /\ \A d \in Callers \ {c} : call'[d] = call[d] BY <1>1
<1>3. LinkTypeOK' BY <1>1 DEF OpeningInv, LinkTypeOK
<1>4. call[c].result = None /\ (call[c].at = "anonymous" => source[c] = "off")
  BY <1>1 DEF PlaceInv
<1>5. new.at = "ask" => new.second = None BY <1>2
<1>6. PlaceInv(c)' BY <1>2, <1>4, <1>5 DEF PlaceInv
<1>7. call[c].at = "device" => call[c].device # "no" BY <1>1 DEF DeviceInv
<1>8. DeviceInv(c)' BY <1>2, <1>4, <1>7, LinkAssumption DEF DeviceInv
<1>9. KeyInv(c)' BY <1>1, <1>2 DEF KeyInv, Holding
<1>10. TrustInv(c)' BY <1>1, <1>2 DEF TrustInv
<1>11. LinkInv(c)' BY <1>2, <1>4, LinkAssumption DEF LinkInv
<1>12. CallInv(c)' BY <1>6, <1>8, <1>9, <1>10, <1>11 DEF CallInv
<1> QED BY <1>1, <1>2, <1>3, <1>12, OthersKept

\* The answer to a request, heard: the call ends with it.
LEMMA HeardEnds ==
  ASSUME OpeningInv, NEW c \in Callers, NEW heard \in CallRecord,
         NEW r \in Outcomes \ {"opened"},
         call' = [call EXCEPT ![c] = Ended(heard, r)], UNCHANGED source,
         key' \in [Callers -> {"none", "live", "wiped"}],
         \A d \in Callers \ {c} : key'[d] = key[d],
         call[c].at \in {"anonymous", "device"},
         heard.device = call[c].device,
         heard.second # None => call[c].at = "device",
         call[c].at = "device" => heard.first = "notFound",
         r = "notFound" /\ heard.device # "no" => heard.second = "notFound",
         key'[c] # "live" \/ Holding(c)
  PROVE  OpeningInv'
<1> DEFINE new == Ended(heard, r)
<1>1. /\ call \in [Callers -> CallRecord] /\ CallInv(c)
      /\ PlaceInv(c) /\ DeviceInv(c) /\ KeyInv(c)
  BY DEF OpeningInv, LinkTypeOK, CallInv
<1>2. /\ new \in CallRecord /\ new.at = "done" /\ new.result = r /\ new.cfg = None
      /\ new.device = heard.device /\ new.first = heard.first /\ new.second = heard.second
  BY EndedFacts
<1>3. call' = [call EXCEPT ![c] = new] OBVIOUS
<1> HIDE DEF new
<1>4. call'[c] = new /\ \A d \in Callers \ {c} : call'[d] = call[d] BY <1>1, <1>3
<1>5. LinkTypeOK' BY <1>1, <1>2, <1>3 DEF OpeningInv, LinkTypeOK
<1>6. call[c].at = "anonymous" => source[c] = "off" BY <1>1 DEF PlaceInv
<1>7. call[c].at = "device" => call[c].device # "no" BY <1>1 DEF DeviceInv
<1>8. PlaceInv(c)' /\ TrustInv(c)' /\ LinkInv(c)'
  BY <1>2, <1>4 DEF PlaceInv, TrustInv, LinkInv
<1>9. DeviceInv(c)' BY <1>2, <1>4, <1>6, <1>7 DEF DeviceInv
<1>10. KeyInv(c)' BY <1>1, <1>2, <1>4 DEF KeyInv, Holding
<1>11. CallInv(c)' BY <1>8, <1>9, <1>10 DEF CallInv
<1> QED BY <1>1, <1>4, <1>5, <1>11, OthersKept

\* The anonymous request, and its answer: a link, an end, or "not found" for a
\* caller that has a device to show.
LEMMA AnonymousKept ==
  ASSUME OpeningInv, NEW c \in Callers, SendAnonymous(c) \/ AnonymousAnswered(c)
  PROVE  OpeningInv'
<1>0. /\ call[c] \in CallRecord /\ CallInv(c) /\ call \in [Callers -> CallRecord]
      /\ PlaceInv(c) /\ DeviceInv(c) /\ KeyInv(c)
      /\ key \in [Callers -> {"none", "live", "wiped"}]
  BY DEF OpeningInv, LinkTypeOK, CallInv
<1>1. CASE SendAnonymous(c)
  <2>1. call[c].at = "endpoint" /\ UNCHANGED <<source, key>> BY <1>1 DEF SendAnonymous
  <2>2. CASE Goto(c, "anonymous") BY <1>0, <2>1, <2>2, GotoPlain DEF Places, PlaceInv
  <2>3. CASE Return(c, "notConfigured")
    BY <2>1, <2>3, ReturnPlain, LinkAssumption DEF Outcomes
  <2> QED BY <1>1, <2>2, <2>3 DEF SendAnonymous
<1>2. CASE AnonymousAnswered(c)
  <2> DEFINE outcome(r) == InterpretReply(r, call[c].crid, call[c].cfg)
             heard(r) == [call[c] EXCEPT !.first = outcome(r)]
  <2>1. PICK r \in Replies :
          call' = [call EXCEPT ![c] =
            IF outcome(r) = "issued" THEN [heard(r) EXCEPT !.at = "open", !.link = r.link]
            ELSE IF SecondRequestDue(c, outcome(r)) THEN [heard(r) EXCEPT !.at = "ask"]
            ELSE Ended(heard(r), outcome(r))]
    BY <1>2 DEF AnonymousAnswered
  <2>2. call[c].at = "anonymous" /\ UNCHANGED <<source, key>>
    BY <1>2 DEF AnonymousAnswered
  <2> DEFINE out == outcome(r)
  <2>3. /\ out \in {"overloaded", "malformed", "notFound", "denied", "issued", "rejected"}
        /\ out = "issued" => r.link \in Links
    BY InterpretFacts
  <2>4. call[c].second = None /\ source[c] = "off" /\ key[c] # "live"
    BY <1>0, <2>2 DEF PlaceInv, KeyInv
  <2> HIDE DEF outcome
  <2>5. /\ heard(r) \in CallRecord /\ heard(r).device = call[c].device
        /\ heard(r).second = None /\ heard(r).first = out
        /\ heard(r).cfg = call[c].cfg
        /\ heard(r).result = call[c].result
    BY <1>0, <2>3, <2>4 DEF CallRecord, Outcomes
  <2>6. CASE out = "issued"
    <3> DEFINE new == [heard(r) EXCEPT !.at = "open", !.link = r.link]
    <3>1. call' = [call EXCEPT ![c] = new] BY <2>1, <2>6
    <3> HIDE DEF heard
    <3>2. new \in CallRecord BY <2>3, <2>5, <2>6 DEF CallRecord, Places
    <3>3. /\ new.at = "open" /\ new.device = call[c].device /\ new.second = None
          /\ new.cfg = call[c].cfg /\ new.result = call[c].result
      BY <2>5 DEF CallRecord
    <3> HIDE DEF new
    <3> QED BY <1>0, <2>2, <2>4, <3>1, <3>2, <3>3, HeardKept
  <2>7. CASE out # "issued" /\ SecondRequestDue(c, out)
    <3> DEFINE new == [heard(r) EXCEPT !.at = "ask"]
    <3>1. call' = [call EXCEPT ![c] = new] BY <2>1, <2>7
    <3>2. call[c].device # "no" /\ out = "notFound" BY <2>7 DEF SecondRequestDue
    <3> HIDE DEF heard
    <3>3. new \in CallRecord BY <2>5 DEF CallRecord, Places
    <3>4. /\ new.at = "ask" /\ new.device = call[c].device /\ new.second = None
          /\ new.first = "notFound"
          /\ new.cfg = call[c].cfg /\ new.result = call[c].result
      BY <2>5, <3>2 DEF CallRecord
    <3> HIDE DEF new
    <3> QED BY <1>0, <2>2, <2>4, <3>1, <3>2, <3>3, <3>4, HeardKept
  <2>8. CASE out # "issued" /\ ~SecondRequestDue(c, out)
    <3>1. call' = [call EXCEPT ![c] = Ended(heard(r), out)] BY <2>1, <2>8
    <3>2. out = "notFound" => call[c].device = "no" BY <2>8 DEF SecondRequestDue
    <3>3. out \in Outcomes \ {"opened"} BY <2>3 DEF Outcomes
    <3> HIDE DEF heard, out
    <3> QED BY <1>0, <2>2, <2>4, <2>5, <3>1, <3>2, <3>3, HeardEnds
  <2> QED BY <2>6, <2>7, <2>8
<1> QED BY <1>1, <1>2

\* The device asks for its key, while its context lives.
LEMMA AskForKeyKept ==
  ASSUME OpeningInv, NEW c \in Callers, AskForKey(c)
  PROVE  OpeningInv'
<1>0. /\ call[c].at = "ask" /\ UNCHANGED key /\ PlaceInv(c) /\ DeviceInv(c)
      /\ KeyInv(c)
      /\ source \in [Callers -> {"off", "running", "key", "badKey", "error", "panic", "gone"}]
  BY DEF AskForKey, OpeningInv, LinkTypeOK, CallInv
<1>1. /\ source[c] = "off" /\ call[c].second = None /\ key[c] # "live"
      /\ call[c].device # "no" /\ call[c].first = "notFound"
  BY <1>0 DEF PlaceInv, DeviceInv, KeyInv
<1>2. source' = [source EXCEPT ![c] = IF call'[c].at = "source" THEN "running" ELSE source[c]]
  BY DEF AskForKey
<1>3. CASE Return(c, "context")
  <2>1. call'[c].at = "done" BY <1>3, ReturnFacts DEF OpeningInv, Outcomes
  <2>2. source' = source BY <1>0, <1>2, <2>1
  <2> QED BY <1>0, <1>3, <2>2, ReturnPlain DEF Outcomes
<1>4. CASE Goto(c, "device")
  <2>1. call'[c].at = "device" BY <1>4, GotoFacts DEF OpeningInv, Places
  <2>2. source' = source BY <1>0, <1>2, <2>1
  <2> QED BY <1>0, <1>1, <1>4, <2>2, GotoPlain DEF Places
<1>5. CASE Goto(c, "source")
  <2>1. call'[c].at = "source" /\ call' \in [Callers -> CallRecord]
    BY <1>5, GotoFacts DEF OpeningInv, Places
  <2>2. source' = [source EXCEPT ![c] = "running"] BY <1>2, <2>1
  <2>3. source'[c] = "running" /\ \A d \in Callers \ {c} : source'[d] = source[d]
    BY <1>0, <2>2
  <2>4. LinkTypeOK' BY <1>0, <2>1, <2>2 DEF OpeningInv, LinkTypeOK
  <2>5. KeyInv(c)' BY <1>0, <1>1, <2>3 DEF KeyInv
  <2> QED BY <1>0, <1>1, <1>5, <2>3, <2>4, <2>5, GotoKept DEF Places
<1> QED BY <1>3, <1>4, <1>5 DEF AskForKey

\* The goroutine of a key source moves: it answers, or it wipes what nobody waits
\* for any more.
LEMMA SourceKept ==
  ASSUME OpeningInv, NEW c \in Callers, SourceAnswers(c) \/ SourceDiscards(c)
  PROVE  OpeningInv'
<1>0. /\ call \in [Callers -> CallRecord]
      /\ source \in [Callers -> {"off", "running", "key", "badKey", "error", "panic", "gone"}]
      /\ key \in [Callers -> {"none", "live", "wiped"}]
      /\ PlaceInv(c) /\ DeviceInv(c) /\ KeyInv(c) /\ TrustInv(c) /\ LinkInv(c)
  BY DEF OpeningInv, LinkTypeOK, CallInv
<1>1. UNCHANGED call BY DEF SourceAnswers, SourceDiscards
<1>2. /\ source' \in [Callers -> {"off", "running", "key", "badKey", "error", "panic", "gone"}]
      /\ key' \in [Callers -> {"none", "live", "wiped"}]
      /\ source[c] # "off" /\ source'[c] \notin {"off", "running"}
      /\ \A d \in Callers \ {c} : source'[d] = source[d] /\ key'[d] = key[d]
      /\ KeyInv(c)'
  <2>1. CASE SourceAnswers(c)
    <3>1. PICK s \in {"key", "badKey", "error", "panic", "gone"} :
            /\ source' = [source EXCEPT ![c] = s]
            /\ key' = [key EXCEPT ![c] = IF s \in {"key", "badKey", "error"} THEN "live" ELSE @]
      BY <2>1 DEF SourceAnswers
    <3>2. source[c] = "running" BY <2>1 DEF SourceAnswers
    <3> QED BY <1>0, <1>1, <3>1, <3>2 DEF KeyInv, Holding
  <2>2. CASE SourceDiscards(c)
    <3>1. /\ source' = [source EXCEPT ![c] = "gone"] /\ key' = [key EXCEPT ![c] = wipe(key[c])]
          /\ Holding(c)
      BY <2>2 DEF SourceDiscards
    <3>2. wipe(key[c]) \in {"none", "live", "wiped"} /\ wipe(key[c]) # "live"
      BY <1>0, WipeFacts
    <3> QED BY <1>0, <1>1, <3>1, <3>2 DEF KeyInv, Holding
  <2> QED BY <2>1, <2>2
<1>3. LinkTypeOK' BY <1>0, <1>1, <1>2 DEF LinkTypeOK
<1>4. PlaceInv(c)' BY <1>0, <1>1, <1>2 DEF PlaceInv
<1>5. DeviceInv(c)' BY <1>0, <1>1, <1>2 DEF DeviceInv
<1>6. TrustInv(c)' /\ LinkInv(c)' BY <1>0, <1>1 DEF TrustInv, LinkInv
<1>7. CallInv(c)' BY <1>2, <1>4, <1>5, <1>6 DEF CallInv
<1> QED BY <1>0, <1>1, <1>2, <1>3, <1>7, OthersKept

\* The waiting call takes the answer of its source, finds none, or gives up.
LEMMA WaitKept ==
  ASSUME OpeningInv, NEW c \in Callers, TakeAnswer(c) \/ SourceVanished(c) \/ GiveUp(c)
  PROVE  OpeningInv'
<1>0. /\ call[c].at = "source" /\ KeyInv(c) /\ DeviceInv(c)
      /\ source \in [Callers -> {"off", "running", "key", "badKey", "error", "panic", "gone"}]
      /\ key \in [Callers -> {"none", "live", "wiped"}]
  BY DEF TakeAnswer, SourceVanished, GiveUp, OpeningInv, LinkTypeOK, CallInv
<1>1. CASE SourceVanished(c) \/ GiveUp(c)
  <2>1. UNCHANGED <<source, key>> BY <1>1 DEF SourceVanished, GiveUp
  <2>2. PICK r \in {"context", "noKey"} : Return(c, r)
    BY <1>1 DEF SourceVanished, GiveUp, Failure
  <2> QED BY <1>0, <2>1, <2>2, ReturnPlain DEF Outcomes
<1>2. CASE TakeAnswer(c)
  <2> DEFINE usable == c \notin ended /\ source[c] = "key"
  <2>1. /\ Holding(c) /\ source' = [source EXCEPT ![c] = "gone"]
        /\ key' = [key EXCEPT ![c] = IF usable THEN key[c] ELSE wipe(key[c])]
    BY <1>2 DEF TakeAnswer
  <2>2. wipe(key[c]) \in {"none", "live", "wiped"} /\ wipe(key[c]) # "live"
    BY <1>0, WipeFacts
  <2>3. /\ source' \in [Callers -> {"off", "running", "key", "badKey", "error", "panic", "gone"}]
        /\ key' \in [Callers -> {"none", "live", "wiped"}]
        /\ source'[c] = "gone" /\ source[c] # "off" /\ (~usable => key'[c] # "live")
        /\ \A d \in Callers \ {c} : source'[d] = source[d] /\ key'[d] = key[d]
    BY <1>0, <2>1, <2>2 DEF Holding
  <2>4. CASE usable
    <3>1. Goto(c, "device") BY <1>2, <2>4 DEF TakeAnswer
    <3>2. call' \in [Callers -> CallRecord] /\ call'[c].at = "device"
      BY <3>1, GotoFacts DEF OpeningInv, Places
    <3>3. LinkTypeOK' BY <1>0, <2>3, <3>2 DEF OpeningInv, LinkTypeOK
    <3>4. KeyInv(c)' BY <2>3, <3>2 DEF KeyInv
    <3>5. call[c].device # "no" /\ call[c].first = "notFound" BY <1>0 DEF DeviceInv
    <3> QED BY <1>0, <2>3, <3>1, <3>3, <3>4, <3>5, GotoKept DEF Places
  <2>5. CASE ~usable
    <3>1. PICK r \in {"context", "panic", "noKey"} : Return(c, r)
      BY <1>2, <2>5 DEF TakeAnswer, Failure
    <3>2. call' \in [Callers -> CallRecord] BY <3>1, ReturnFacts DEF OpeningInv, Outcomes
    <3>3. LinkTypeOK' BY <1>0, <2>3, <3>2 DEF OpeningInv, LinkTypeOK
    <3>4. KeyInv(c)' BY <2>3, <2>5 DEF KeyInv
    <3> QED BY <1>0, <2>3, <3>1, <3>3, <3>4, ReturnKept DEF Outcomes
  <2> QED BY <2>4, <2>5
<1> QED BY <1>1, <1>2

\* The device's own request is answered, or either request is not; the key that
\* was used is wiped.
LEMMA RequestKept ==
  ASSUME OpeningInv, NEW c \in Callers, DeviceAnswered(c) \/ RequestFails(c)
  PROVE  OpeningInv'
<1>0. /\ call[c] \in CallRecord /\ call \in [Callers -> CallRecord] /\ UNCHANGED source
      /\ PlaceInv(c) /\ DeviceInv(c)
      /\ key \in [Callers -> {"none", "live", "wiped"}]
      /\ key' = [key EXCEPT ![c] = wipe(key[c])]
  BY DEF DeviceAnswered, RequestFails, OpeningInv, LinkTypeOK, CallInv
<1>1. /\ key' \in [Callers -> {"none", "live", "wiped"}] /\ key'[c] # "live"
      /\ \A d \in Callers \ {c} : key'[d] = key[d]
  BY <1>0, WipeFacts
<1>2. CASE RequestFails(c)
  <2>1. PICK r \in {"context", "relay"} : Return(c, r) BY <1>2 DEF RequestFails, Failure
  <2>2. call' \in [Callers -> CallRecord] BY <2>1, ReturnFacts DEF OpeningInv, Outcomes
  <2>3. LinkTypeOK' BY <1>0, <1>1, <2>2 DEF OpeningInv, LinkTypeOK
  <2>4. KeyInv(c)' BY <1>1 DEF KeyInv
  <2> QED BY <1>0, <1>1, <2>1, <2>3, <2>4, ReturnKept DEF Outcomes
<1>3. CASE DeviceAnswered(c)
  <2> DEFINE outcome(r) == InterpretReply(r, call[c].crid, call[c].cfg)
             heard(r) == [call[c] EXCEPT !.second = outcome(r)]
  <2>1. PICK r \in Replies :
          call' = [call EXCEPT ![c] =
            IF outcome(r) = "issued" THEN [heard(r) EXCEPT !.at = "open", !.link = r.link]
            ELSE Ended(heard(r), outcome(r))]
    BY <1>3 DEF DeviceAnswered
  <2>2. call[c].at = "device" BY <1>3 DEF DeviceAnswered
  <2> DEFINE out == outcome(r)
  <2>3. /\ out \in {"overloaded", "malformed", "notFound", "denied", "issued", "rejected"}
        /\ out = "issued" => r.link \in Links
    BY InterpretFacts
  <2>4. call[c].first = "notFound" BY <1>0, <2>2 DEF DeviceInv
  <2> HIDE DEF outcome
  <2>5. /\ heard(r) \in CallRecord /\ heard(r).device = call[c].device
        /\ heard(r).second = out /\ heard(r).first = "notFound"
        /\ heard(r).cfg = call[c].cfg
        /\ heard(r).result = call[c].result
    BY <1>0, <2>3, <2>4 DEF CallRecord, Outcomes
  <2>6. CASE out = "issued"
    <3> DEFINE new == [heard(r) EXCEPT !.at = "open", !.link = r.link]
    <3>1. call' = [call EXCEPT ![c] = new] BY <2>1, <2>6
    <3> HIDE DEF heard
    <3>2. new \in CallRecord BY <2>3, <2>5, <2>6 DEF CallRecord, Places
    <3>3. /\ new.at = "open" /\ new.device = call[c].device /\ new.first = "notFound"
          /\ new.cfg = call[c].cfg /\ new.result = call[c].result
      BY <2>5 DEF CallRecord
    <3> HIDE DEF new
    <3> QED BY <1>0, <1>1, <2>2, <3>1, <3>2, <3>3, HeardKept
  <2>7. CASE out # "issued"
    <3>1. call' = [call EXCEPT ![c] = Ended(heard(r), out)] BY <2>1, <2>7
    <3>2. out \in Outcomes \ {"opened"} BY <2>3 DEF Outcomes
    <3> HIDE DEF heard, out
    <3> QED BY <1>0, <1>1, <2>2, <2>5, <3>1, <3>2, HeardEnds
  <2> QED BY <2>6, <2>7
<1> QED BY <1>2, <1>3

-----------------------------------------------------------------------------
(***************************************************************************)
(* EnterPortalWith, and everything around the calls.                       *)
(***************************************************************************)

\* Only a link that was verified against this call's CRID and configuration is
\* knocked.
LEMMA OpenLinkKept ==
  ASSUME OpeningInv, NEW c \in Callers, OpenLink(c)
  PROVE  OpeningInv'
<1>1. call[c].at = "open" /\ UNCHANGED <<source, key>> BY DEF OpenLink
<1>2. CASE Return(c, "rejected") BY <1>1, <1>2, ReturnPlain DEF Outcomes
<1>3. CASE VerifyLinkForCRID(call[c].link, call[c].crid, call[c].cfg) /\ Goto(c, "knock")
  <2>1. /\ call[c].crid \in {None, call[c].link.resource}
        /\ call[c].link.signer \in call[c].cfg.issuers
    BY <1>3 DEF VerifyLinkForCRID, VerifyLink, KeyMatches
  <2> QED BY <1>1, <1>3, <2>1, GotoPlain DEF Places
<1> QED BY <1>2, <1>3 DEF OpenLink

\* The knock is answered: the portal opens, or the call ends without a handle.
LEMMA KnockKept ==
  ASSUME OpeningInv, NEW c \in Callers, KnockReturns(c)
  PROVE  OpeningInv'
<1>0. call[c].at = "knock" /\ UNCHANGED <<source, key>> BY DEF KnockReturns
<1>1. PICK r \in {"opened", "overloaded", "malformed", "denied", "context", "relay"} : Return(c, r)
  BY DEF KnockReturns, Failure
<1>2. CASE r # "opened" BY <1>0, <1>1, <1>2, ReturnPlain DEF Outcomes
<1>3. CASE r = "opened"
  <2>1. /\ call' \in [Callers -> CallRecord] /\ \A d \in Callers \ {c} : call'[d] = call[d]
        /\ call'[c].at = "done" /\ call'[c].result = "opened"
        /\ call'[c].device = call[c].device
        /\ call'[c].first = call[c].first /\ call'[c].second = call[c].second
        /\ call'[c].cfg = call[c].cfg
        /\ call'[c].crid = call[c].crid /\ call'[c].link = call[c].link
    BY <1>1, <1>3, ReturnFacts DEF OpeningInv, Outcomes
  <2>2. LinkTypeOK' BY <1>0, <2>1 DEF OpeningInv, LinkTypeOK
  <2>3. PlaceInv(c) /\ DeviceInv(c) /\ KeyInv(c) /\ TrustInv(c) /\ LinkInv(c)
    BY DEF OpeningInv, CallInv
  <2>4. PlaceInv(c)' BY <2>1 DEF PlaceInv
  <2>5. DeviceInv(c)' BY <1>0, <2>1, <2>3 DEF DeviceInv
  <2>6. KeyInv(c)' BY <1>0, <2>1, <2>3 DEF KeyInv, Holding
  <2>7. TrustInv(c)' BY <2>1, <2>3 DEF TrustInv
  <2>8. LinkInv(c)' BY <1>0, <2>1, <2>3 DEF LinkInv
  <2>9. CallInv(c)' BY <2>4, <2>5, <2>6, <2>7, <2>8 DEF CallInv
  <2> QED BY <1>0, <2>1, <2>2, <2>9, OthersKept
<1> QED BY <1>2, <1>3

\* Nothing the invariant speaks of changes.
LEMMA UntouchedKept == ASSUME OpeningInv, UNCHANGED <<call, source, key>> PROVE OpeningInv'
<1>1. LinkTypeOK' BY DEF OpeningInv, LinkTypeOK
<1>2. ASSUME NEW c \in Callers PROVE CallInv(c)'
  <2>1. CallInv(c) BY DEF OpeningInv
  <2> QED BY <2>1 DEF CallInv, PlaceInv, DeviceInv, KeyInv, TrustInv, LinkInv, Holding
<1> QED BY <1>1, <1>2 DEF OpeningInv

\* The invariant holds when the process starts.
LEMMA OpeningInit == Init => OpeningInv
<1> SUFFICES ASSUME Init PROVE OpeningInv OBVIOUS
<1>1. LinkTypeOK BY FreshFacts DEF Init, LinkTypeOK
<1>2. ASSUME NEW c \in Callers PROVE CallInv(c)
  <2>1. call[c] = Fresh /\ source[c] = "off" /\ key[c] = "none" BY DEF Init
  <2>2. Fresh.at = "idle" BY DEF Fresh
  <2> QED BY <2>1, <2>2, FreshFacts, LinkAssumption
          DEF CallInv, PlaceInv, DeviceInv, KeyInv, TrustInv, LinkInv
<1> QED BY <1>1, <1>2 DEF OpeningInv

\* Every step keeps it.
LEMMA OpeningStep == OpeningInv /\ [Next]_vars => OpeningInv'
<1> SUFFICES ASSUME OpeningInv, [Next]_vars PROVE OpeningInv' OBVIOUS
<1>1. CASE UNCHANGED vars BY <1>1, UntouchedKept DEF vars
<1>2. CASE SetDefaultProvider \/ Tick BY <1>2, UntouchedKept DEF SetDefaultProvider, Tick
<1>3. ASSUME NEW c \in Callers,
             OpenerCalls(c) \/ RequesterCalls(c) \/ GateRefuses(c) \/ CallStep(c)
               \/ ContextEnds(c) \/ SourceAnswers(c) \/ SourceDiscards(c)
      PROVE  OpeningInv'
  <2>1. CASE GateRefuses(c) BY <2>1, ReturnPlain DEF GateRefuses, Outcomes
  <2>2. CASE ContextEnds(c) BY <2>2, UntouchedKept DEF ContextEnds
  <2>3. CASE CallStep(c)
    BY <2>3, ConfigKept, AnonymousKept, AskForKeyKept, WaitKept, RequestKept, OpenLinkKept,
       KnockKept DEF CallStep
  <2> QED BY <1>3, <2>1, <2>2, <2>3, CallsKept, SourceKept
<1> QED BY <1>1, <1>2, <1>3 DEF Next

\* The inductive invariant of the calls.
THEOREM OpeningInvariant == Spec => []OpeningInv
BY OpeningInit, OpeningStep, PTL DEF Spec

\* Whatever a server, a relay or a manifest host answers: a handle is for the
\* resource the caller asked for, over a link signed by an issuer that the
\* configuration of that very call trusts.
THEOREM HandlesAreAsAsked == Spec => []OpenedAsAsked
<1>1. OpeningInv => OpenedAsAsked BY DEF OpeningInv, CallInv, LinkInv, OpenedAsAsked
<1> QED BY <1>1, OpeningInvariant, PTL

\* The floor is the newest version any call has adopted.
FloorInv == newest \in Int /\ floor = newest

\* The section under p.mu is the one place where the floor moves.
LEMMA FloorMoves ==
  ASSUME [Next]_vars, <<floor, newest>>' # <<floor, newest>>
  PROVE  \E c \in Callers : AdoptManifest(c) /\ NoDowngrade(call[c].seen)
<1>1. CASE \E c \in Callers : CallStep(c)
  BY <1>1 DEF CallStep, ReadDeployment, StartFetch, FetchManifest, AdoptManifest, SendAnonymous,
     AnonymousAnswered, AskForKey, TakeAnswer, SourceVanished, GiveUp, DeviceAnswered,
     RequestFails, OpenLink, KnockReturns
<1>2. CASE \A c \in Callers : ~CallStep(c)
  BY <1>2 DEF Next, vars, OpenerCalls, RequesterCalls, GateRefuses, ContextEnds, SourceAnswers,
     SourceDiscards, SetDefaultProvider, Tick
<1> QED BY <1>1, <1>2

\* What is adopted is no older than the floor, and becomes it.
LEMMA FloorKept ==
  ASSUME OpeningInv, FloorInv, NEW c \in Callers, AdoptManifest(c), NoDowngrade(call[c].seen)
  PROVE  /\ FloorInv' /\ newest <= call[c].seen.version
         /\ Configured(c, ManifestConfig(call[c].seen))
<1>1. call[c].seen.version \in Int
  BY LinkAssumption DEF OpeningInv, CallInv, TrustInv, AdoptManifest
<1>2. floor <= call[c].seen.version BY DEF NoDowngrade
<1> QED BY <1>1, <1>2 DEF AdoptManifest, FloorInv

\* Every step keeps the floor's invariant.
LEMMA FloorStep == OpeningInv /\ FloorInv /\ [Next]_vars => FloorInv'
<1> SUFFICES ASSUME OpeningInv, FloorInv, [Next]_vars PROVE FloorInv' OBVIOUS
<1>1. CASE UNCHANGED <<floor, newest>> BY <1>1 DEF FloorInv
<1>2. CASE <<floor, newest>>' # <<floor, newest>> BY <1>2, FloorMoves, FloorKept
<1> QED BY <1>1, <1>2

\* A call that comes to trust a manifest does so in the section under p.mu.
LEMMA ManifestTrusted ==
  ASSUME OpeningInv, [Next]_vars, NEW c \in Callers, call'[c].cfg # call[c].cfg,
         call'[c].cfg \notin Deployments \cup {None}
  PROVE  AdoptManifest(c) /\ NoDowngrade(call[c].seen)
<1>0. LinkTypeOK /\ call \in [Callers -> CallRecord] /\ call[c] \in CallRecord
  BY DEF OpeningInv, LinkTypeOK
<1>1. ASSUME NEW d \in Callers, NEW r \in Outcomes, Return(d, r) PROVE FALSE
  BY <1>0, <1>1, ReturnFacts
<1>2. ASSUME NEW d \in Callers, NEW p \in Places, Goto(d, p) PROVE FALSE
  BY <1>0, <1>2, GotoFacts
<1>3. ASSUME NEW d \in Callers, NEW new, call' = [call EXCEPT ![d] = new],
             new.cfg \in Deployments \cup {call[d].cfg, None}
      PROVE  FALSE
  BY <1>0, <1>3
<1>4. PICK d \in Callers : OpenerCalls(d) \/ RequesterCalls(d) \/ GateRefuses(d) \/ CallStep(d)
  BY DEF Next, vars, ContextEnds, SourceAnswers, SourceDiscards, SetDefaultProvider, Tick
<1>5. call[d] \in CallRecord BY <1>0
<1>6. CASE OpenerCalls(d)
  <2>1. PICK crid \in Resources \cup {None}, link \in Links :
          call' = [call EXCEPT ![d].at = "config", ![d].crid = crid, ![d].link = link]
    BY <1>6 DEF OpenerCalls
  <2> DEFINE new == [call[d] EXCEPT !.at = "config", !.crid = crid, !.link = link]
  <2>2. new.cfg = call[d].cfg BY <1>5 DEF CallRecord
  <2>3. call' = [call EXCEPT ![d] = new] BY <2>1
  <2> HIDE DEF new
  <2> QED BY <1>3, <2>2, <2>3
<1>7. CASE RequesterCalls(d)
  <2>1. PICK crid \in Resources, device \in {"no", "lent", "source"} :
          call' = [call EXCEPT ![d].at = "config", ![d].crid = crid, ![d].device = device]
    BY <1>7 DEF RequesterCalls
  <2> DEFINE new == [call[d] EXCEPT !.at = "config", !.crid = crid, !.device = device]
  <2>2. new.cfg = call[d].cfg BY <1>5 DEF CallRecord
  <2>3. call' = [call EXCEPT ![d] = new] BY <2>1
  <2> HIDE DEF new
  <2> QED BY <1>3, <2>2, <2>3
<1>8. CASE ReadDeployment(d)
  <2>1. PICK e \in Deployments : Configured(d, e) \/ Return(d, "notConfigured")
    BY <1>8 DEF ReadDeployment
  <2>2. CASE Configured(d, e)
    <3> DEFINE new == [call[d] EXCEPT !.cfg = e, !.seen = None,
                                      !.at = IF call[d].link = None THEN "endpoint" ELSE "open"]
    <3>1. call' = [call EXCEPT ![d] = new] BY <2>2 DEF Configured
    <3>2. new.cfg = e BY <1>5 DEF CallRecord
    <3> HIDE DEF new
    <3> QED BY <1>3, <3>1, <3>2
  <2> QED BY <1>1, <2>1, <2>2 DEF Outcomes
<1>9. CASE FetchManifest(d)
  <2>1. ASSUME NEW e \in Envelopes, call' = [call EXCEPT ![d].at = "floor", ![d].seen = e]
        PROVE  FALSE
    <3> DEFINE new == [call[d] EXCEPT !.at = "floor", !.seen = e]
    <3>1. call' = [call EXCEPT ![d] = new] BY <2>1
    <3>2. new.cfg = call[d].cfg BY <1>5 DEF CallRecord
    <3> HIDE DEF new
    <3> QED BY <1>3, <3>1, <3>2
  <2> QED BY <1>1, <1>9, <2>1 DEF FetchManifest, Failure, Outcomes
<1>10. CASE AdoptManifest(d)
  <2>1. CASE NoDowngrade(call[d].seen)
    <3>1. d = c BY <1>0, <1>10, <2>1 DEF AdoptManifest, Configured
    <3> QED BY <1>10, <2>1, <3>1
  <2>2. CASE ~NoDowngrade(call[d].seen) BY <1>1, <1>10, <2>2 DEF AdoptManifest, Outcomes
  <2> QED BY <2>1, <2>2
<1>11. CASE AnonymousAnswered(d) \/ DeviceAnswered(d)
  <2>1. ASSUME NEW heard \in CallRecord, NEW new, NEW r, heard.cfg = call[d].cfg,
               call' = [call EXCEPT ![d] = new],
               \/ \E link : new = [heard EXCEPT !.at = "open", !.link = link]
               \/ new = [heard EXCEPT !.at = "ask"]
               \/ new = Ended(heard, r)
        PROVE  FALSE
    <3>1. new.cfg \in {call[d].cfg, None} BY <2>1 DEF Ended, Fresh, CallRecord
    <3> QED BY <1>3, <2>1, <3>1
  <2>2. CASE AnonymousAnswered(d)
    <3>1. PICK r \in Replies :
            call' = [call EXCEPT ![d] =
              IF InterpretReply(r, call[d].crid, call[d].cfg) = "issued"
              THEN [[call[d] EXCEPT !.first = InterpretReply(r, call[d].crid, call[d].cfg)]
                      EXCEPT !.at = "open", !.link = r.link]
              ELSE IF SecondRequestDue(d, InterpretReply(r, call[d].crid, call[d].cfg))
              THEN [[call[d] EXCEPT !.first = InterpretReply(r, call[d].crid, call[d].cfg)]
                      EXCEPT !.at = "ask"]
              ELSE Ended([call[d] EXCEPT !.first = InterpretReply(r, call[d].crid, call[d].cfg)],
                         InterpretReply(r, call[d].crid, call[d].cfg))]
      BY <2>2 DEF AnonymousAnswered
    <3> DEFINE out == InterpretReply(r, call[d].crid, call[d].cfg)
               heard == [call[d] EXCEPT !.first = out]
    <3>2. out \in Outcomes BY InterpretFacts DEF Outcomes
    <3> HIDE DEF out
    <3>3. heard \in CallRecord /\ heard.cfg = call[d].cfg BY <1>5, <3>2 DEF CallRecord
    <3>4. \/ call' = [call EXCEPT ![d] = [heard EXCEPT !.at = "open", !.link = r.link]]
          \/ call' = [call EXCEPT ![d] = [heard EXCEPT !.at = "ask"]]
          \/ call' = [call EXCEPT ![d] = Ended(heard, out)]
      BY <3>1 DEF out
    <3> HIDE DEF heard
    <3> QED BY <2>1, <3>3, <3>4
  <2>3. CASE DeviceAnswered(d)
    <3>1. PICK r \in Replies :
            call' = [call EXCEPT ![d] =
              IF InterpretReply(r, call[d].crid, call[d].cfg) = "issued"
              THEN [[call[d] EXCEPT !.second = InterpretReply(r, call[d].crid, call[d].cfg)]
                      EXCEPT !.at = "open", !.link = r.link]
              ELSE Ended([call[d] EXCEPT !.second = InterpretReply(r, call[d].crid, call[d].cfg)],
                         InterpretReply(r, call[d].crid, call[d].cfg))]
      BY <2>3 DEF DeviceAnswered
    <3> DEFINE out == InterpretReply(r, call[d].crid, call[d].cfg)
               heard == [call[d] EXCEPT !.second = out]
    <3>2. out \in Outcomes BY InterpretFacts DEF Outcomes
    <3> HIDE DEF out
    <3>3. heard \in CallRecord /\ heard.cfg = call[d].cfg BY <1>5, <3>2 DEF CallRecord
    <3>4. \/ call' = [call EXCEPT ![d] = [heard EXCEPT !.at = "open", !.link = r.link]]
          \/ call' = [call EXCEPT ![d] = Ended(heard, out)]
      BY <3>1 DEF out
    <3> HIDE DEF heard
    <3> QED BY <2>1, <3>3, <3>4
  <2> QED BY <1>11, <2>2, <2>3
<1>12. CASE \/ GateRefuses(d) \/ StartFetch(d) \/ SendAnonymous(d) \/ AskForKey(d)
            \/ TakeAnswer(d) \/ SourceVanished(d) \/ GiveUp(d) \/ RequestFails(d)
            \/ OpenLink(d) \/ KnockReturns(d)
  <2>1. \/ \E r \in Outcomes : Return(d, r)
        \/ \E p \in Places : Goto(d, p)
    BY <1>12 DEF GateRefuses, StartFetch, SendAnonymous, AskForKey, TakeAnswer, SourceVanished,
       GiveUp, RequestFails, OpenLink, KnockReturns, Failure, Outcomes, Places
  <2> QED BY <1>1, <1>2, <2>1
<1> QED BY <1>4, <1>6, <1>7, <1>8, <1>9, <1>10, <1>11, <1>12 DEF CallStep

\* The trust of a call is genuine, and when a call adopts a manifest none newer has
\* been adopted, in whatever order concurrent fetches end.
THEOREM TrustIsKept == Spec => TrustHolds
<1>1. OpeningInv => TrustIsGenuine BY DEF OpeningInv, CallInv, TrustInv, TrustIsGenuine
<1>2. Init => FloorInv BY DiscoveryAssumption DEF Init, FloorInv
<1>3. OpeningInv /\ FloorInv /\ [Next]_vars =>
        [\A c \in Callers :
           LET cfg == call'[c].cfg
           IN cfg # call[c].cfg /\ cfg \notin Deployments \cup {None} => newest <= cfg.version]_vars
  <2> SUFFICES ASSUME OpeningInv, FloorInv, [Next]_vars, NEW c \in Callers,
                      call'[c].cfg # call[c].cfg, call'[c].cfg \notin Deployments \cup {None}
               PROVE  newest <= call'[c].cfg.version
    OBVIOUS
  <2>1. AdoptManifest(c) /\ NoDowngrade(call[c].seen) BY ManifestTrusted
  <2>2. newest <= call[c].seen.version /\ Configured(c, ManifestConfig(call[c].seen))
    BY <2>1, FloorKept
  <2>3. call'[c].cfg = ManifestConfig(call[c].seen)
    BY <2>2 DEF Configured, OpeningInv, LinkTypeOK
  <2> QED BY <2>2, <2>3 DEF ManifestConfig
<1> QED BY <1>1, <1>2, <1>3, FloorStep, OpeningInvariant, PTL
        DEF Spec, TrustHolds, TrustNeverRegresses

\* A device stays unknown to the server until the server itself has said "not
\* found", and is told "not found" only in answer to its own request.
THEOREM DeviceComesSecond == Spec => []AnonymousFirst
<1>1. OpeningInv => AnonymousFirst
  BY DEF OpeningInv, CallInv, DeviceInv, AnonymousFirst, DeviceStaysHidden, NotFoundIsTheDevices
<1> QED BY <1>1, OpeningInvariant, PTL

\* A returned call leaves no key behind but one its source's goroutine is about
\* to wipe, whatever the source does and whenever the context ends.
THEOREM KeysAreWiped == Spec => []NoKeyLeftBehind
<1>1. OpeningInv => NoKeyLeftBehind BY DEF OpeningInv, CallInv, KeyInv, NoKeyLeftBehind
<1> QED BY <1>1, OpeningInvariant, PTL

=============================================================================
