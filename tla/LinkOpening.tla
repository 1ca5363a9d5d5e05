---------------------------- MODULE LinkOpening ----------------------------
(***************************************************************************)
(* Opening a qURL with the process-wide configuration: EnterPortal and     *)
(* EnterPortalForCRID (qurl/portal.go, crid_link.go) open a link; OpenCRID *)
(* and its AsDevice and FromKeySource forms (crid_link_request.go) first   *)
(* ask the server for one, anonymously, and as the device only after "not  *)
(* found".  Configuration comes from the deployment file or from an        *)
(* installed DiscoveryProvider, whose floor all callers share.             *)
(*                                                                         *)
(* Each caller makes one call.  A step is what happens between two waits:  *)
(* for the network, for p.mu, or for the goroutine of a DeviceKeySource.   *)
(***************************************************************************)
EXTENDS Discovery, FiniteSets

CONSTANTS
  None,
  Openers,      \* callers that hold a link
  Requesters,   \* callers that hold only a CRID, and perhaps a device key
  Resources,    \* a CRID is the resource whose key derives it
  Links,        \* the qURL links that exist, genuine or not
  Deployments,  \* what the deployment file may hold
  Epoch, MaxTime   \* first and last time of the clock

Callers == Openers \cup Requesters

VARIABLES
  now,       \* the wall clock
  provider,  \* defaultProvider: "none" or "discovery"
  floor,     \* the downgrade floor of the DiscoveryProvider
  newest,    \* the newest version any call has adopted so far (history)
  call,      \* the call of each caller
  ended,     \* the callers whose context has ended
  source,    \* the goroutine of each caller's DeviceKeySource
  key        \* the buffer that source filled

vars == <<now, provider, floor, newest, call, ended, source, key>>

Fresh == [at |-> "idle", crid |-> None, link |-> None, device |-> "no", cfg |-> None,
          seen |-> None, first |-> None, second |-> None, result |-> None]

Init ==
  /\ now = Epoch
  /\ provider \in {"none", "discovery"}
  /\ floor = MinVersion /\ newest = MinVersion
  /\ call = [c \in Callers |-> Fresh]
  /\ ended = {}
  /\ source = [c \in Callers |-> "off"]
  /\ key = [c \in Callers |-> "none"]

\* SetDefaultProvider
SetDefaultProvider ==
  /\ provider' = IF provider = "none" THEN "discovery" ELSE "none"
  /\ UNCHANGED <<now, floor, newest, call, ended, source, key>>

Tick ==
  /\ now < MaxTime
  /\ now' = now + 1
  /\ UNCHANGED <<provider, floor, newest, call, ended, source, key>>

ContextEnds(c) ==
  /\ call[c].at \notin {"idle", "done"}
  /\ ended' = ended \cup {c}
  /\ UNCHANGED <<now, provider, floor, newest, call, source, key>>

-----------------------------------------------------------------------------
(* How a call moves and ends. *)

wipe(k) == IF k = "live" THEN "wiped" ELSE k

Goto(c, p) == call' = [call EXCEPT ![c].at = p]
\* A call that opened nothing hands nothing back.
Ended(record, r) ==
  IF r = "opened" THEN [record EXCEPT !.at = "done", !.result = r]
  ELSE [Fresh EXCEPT !.at = "done", !.result = r, !.device = record.device,
                     !.first = record.first, !.second = record.second]
Return(c, r) == call' = [call EXCEPT ![c] = Ended(@, r)]

\* A failed exchange is the context's fault once the context has ended.
Failure(c, r) == IF c \in ended THEN "context" ELSE r

\* EnterPortal or EnterPortalForCRID.
OpenerCalls(c) ==
  /\ c \in Openers /\ call[c].at = "idle"
  /\ \E crid \in Resources \cup {None}, link \in Links :
       call' = [call EXCEPT ![c].at = "config", ![c].crid = crid, ![c].link = link]
  /\ UNCHANGED <<now, provider, floor, newest, ended, source, key>>

\* OpenCRID, OpenCRIDAsDevice or OpenCRIDAsDeviceFromKeySource.
RequesterCalls(c) ==
  /\ c \in Requesters /\ call[c].at = "idle"
  /\ \E crid \in Resources, device \in {"no", "lent", "source"} :
       call' = [call EXCEPT ![c].at = "config", ![c].crid = crid, ![c].device = device]
  /\ UNCHANGED <<now, provider, floor, newest, ended, source, key>>

\* A CRID, device key or source that cannot be used is refused before any I/O.
GateRefuses(c) ==
  /\ call[c].at = "idle"
  /\ Return(c, "refused")
  /\ UNCHANGED <<now, provider, floor, newest, ended, source, key>>

-----------------------------------------------------------------------------
(* resolveDefaultConfig. *)

\* A deployment without issuers, or without any transport, is refused.
DeploymentUsable(d) == d.issuers # {} /\ (d.cells # {} \/ d.relays # {})

\* A manifest has no cells and no CRID link endpoint.
ManifestConfig(e) ==
  [issuers |-> e.issuers, relays |-> e.relays, cells |-> {}, cridLink |-> None, version |-> e.version]

Configured(c, cfg) ==
  call' = [call EXCEPT ![c].cfg = cfg, ![c].seen = None,
                       ![c].at = IF call[c].link = None THEN "endpoint" ELSE "open"]

ReadDeployment(c) ==
  /\ call[c].at = "config" /\ provider = "none"
  /\ \E d \in Deployments :
       IF DeploymentUsable(d) THEN Configured(c, d) ELSE Return(c, "notConfigured")
  /\ UNCHANGED <<now, provider, floor, newest, ended, source, key>>

StartFetch(c) ==
  /\ call[c].at = "config" /\ provider = "discovery"
  /\ Goto(c, "fetch")
  /\ UNCHANGED <<now, provider, floor, newest, ended, source, key>>

\* The fetch returns: bytes that are checked at once, or an error.
FetchManifest(c) ==
  /\ call[c].at = "fetch"
  /\ \/ \E e \in Envelopes :
          IF Acceptable(e, now)
          THEN call' = [call EXCEPT ![c].at = "floor", ![c].seen = e]
          ELSE Return(c, "manifest")
     \/ Return(c, Failure(c, "fetch"))
  /\ UNCHANGED <<now, provider, floor, newest, ended, source, key>>

\* The section under p.mu.
FaultyNoDowngrade(e) == MinVersion <= e.version
NoDowngrade(e) == floor <= e.version

AdoptManifest(c) ==
  /\ call[c].at = "floor"
  /\ IF NoDowngrade(call[c].seen)
     THEN /\ floor' = call[c].seen.version
          /\ newest' = IF newest < floor' THEN floor' ELSE newest
          /\ Configured(c, ManifestConfig(call[c].seen))
     ELSE /\ Return(c, "downgrade")
          /\ UNCHANGED <<floor, newest>>
  /\ UNCHANGED <<now, provider, ended, source, key>>

\* A call that has not returned has no outcome; a manifest's version is a number.
ASSUME LinkAssumption ==
  /\ None \notin {"opened", "notFound"}
  /\ \A e \in Envelopes : e.version \in Int

-----------------------------------------------------------------------------
(* What makes a link usable. *)

\* The link's signed resource key derives the CRID.
FaultyKeyMatches(crid, l) == TRUE
KeyMatches(crid, l) == l.resource = crid

\* VerifyLink, and VerifyLinkForCRID when the caller holds a CRID.
VerifyLink(l, cfg) == l.transport /\ l.signer \in cfg.issuers
VerifyLinkForCRID(l, crid, cfg) == VerifyLink(l, cfg) /\ (crid = None \/ KeyMatches(crid, l))

\* verifyIssuedCRIDLink: an issued link is exactly the link origin and a fragment.
VerifyIssued(l, crid, cfg) ==
  /\ l.origin = cfg.cridLink
  /\ VerifyLink(l, cfg)
  /\ KeyMatches(crid, l)

-----------------------------------------------------------------------------
(* The link request. *)

\* resolveCRIDLinkEndpoint: an endpoint whose relay is allowed, and one cell.
EndpointUsable(cfg) ==
  /\ cfg.cridLink # None
  /\ cfg.relays # {}
  /\ Cardinality(cfg.cells) = 1

\* Authenticated replies to a link request: a busy server, an ACK that is not
\* an answer, a refusal by code, or an issued link with the CRID its metadata
\* echoes.
Replies ==
  [code : {"overloaded", "malformed", "notFound", "denied"}]
    \cup [code : {"issued"}, link : Links \cup {None}, echo : Resources \cup {None}]

\* interpretCRIDLinkReply: only the issued code carries a link, and the link is
\* used only if every check passes, the metadata's CRID included.
InfoCRIDMatches(r, crid) == r.echo \in {None, crid}

IssuedCRIDLink(r, crid, cfg) ==
  r.link # None /\ VerifyIssued(r.link, crid, cfg) /\ InfoCRIDMatches(r, crid)

InterpretReply(r, crid, cfg) ==
  IF r.code # "issued" THEN r.code
  ELSE IF IssuedCRIDLink(r, crid, cfg) THEN "issued"
  ELSE "rejected"

SendAnonymous(c) ==
  /\ call[c].at = "endpoint"
  /\ IF EndpointUsable(call[c].cfg) THEN Goto(c, "anonymous") ELSE Return(c, "notConfigured")
  /\ UNCHANGED <<now, provider, floor, newest, ended, source, key>>

\* The one outcome of the first request after which a device identifies itself.
SecondRequestDue(c, outcome) == call[c].device # "no" /\ outcome = "notFound"

AnonymousAnswered(c) ==
  /\ call[c].at = "anonymous"
  /\ \E r \in Replies :
       LET outcome == InterpretReply(r, call[c].crid, call[c].cfg)
           heard == [call[c] EXCEPT !.first = outcome]
       IN call' = [call EXCEPT ![c] =
            IF outcome = "issued" THEN [heard EXCEPT !.at = "open", !.link = r.link]
            ELSE IF SecondRequestDue(c, outcome) THEN [heard EXCEPT !.at = "ask"]
            ELSE Ended(heard, outcome)]
  /\ UNCHANGED <<now, provider, floor, newest, ended, source, key>>

\* The device key is asked for only while the context lives.
FaultyAskForKey(c) ==
  /\ call[c].at = "ask"
  /\ IF c \in ended THEN Return(c, "notFound")
     ELSE IF call[c].device = "lent" THEN Goto(c, "device")
     ELSE Goto(c, "source")
  /\ source' = [source EXCEPT ![c] = IF call'[c].at = "source" THEN "running" ELSE @]
  /\ UNCHANGED <<now, provider, floor, newest, ended, key>>
AskForKey(c) ==
  /\ call[c].at = "ask"
  /\ IF c \in ended THEN Return(c, "context")
     ELSE IF call[c].device = "lent" THEN Goto(c, "device")
     ELSE Goto(c, "source")
  /\ source' = [source EXCEPT ![c] = IF call'[c].at = "source" THEN "running" ELSE @]
  /\ UNCHANGED <<now, provider, floor, newest, ended, key>>

\* The source returns a key, an unusable key, an error with or without bytes,
\* or panics; a source that ends its goroutine (Goexit) hands nothing over.
SourceAnswers(c) ==
  /\ source[c] = "running"
  /\ \E s \in {"key", "badKey", "error", "panic", "gone"} :
       /\ source' = [source EXCEPT ![c] = s]
       /\ key' = [key EXCEPT ![c] = IF s \in {"key", "badKey", "error"} THEN "live" ELSE @]
  /\ UNCHANGED <<now, provider, floor, newest, call, ended>>

Holding(c) == source[c] \in {"key", "badKey", "error", "panic"}

\* wait takes the answer from the goroutine, and then the context decides.
TakeAnswer(c) ==
  LET usable == c \notin ended /\ source[c] = "key"
  IN /\ call[c].at = "source" /\ Holding(c)
     /\ source' = [source EXCEPT ![c] = "gone"]
     /\ IF usable THEN Goto(c, "device")
        ELSE Return(c, Failure(c, IF source[c] = "panic" THEN "panic" ELSE "noKey"))
     /\ key' = [key EXCEPT ![c] = IF usable THEN @ ELSE wipe(@)]
     /\ UNCHANGED <<now, provider, floor, newest, ended>>

SourceVanished(c) ==
  /\ call[c].at = "source" /\ source[c] = "gone"
  /\ Return(c, Failure(c, "noKey"))
  /\ UNCHANGED <<now, provider, floor, newest, ended, source, key>>

\* wait gives up when the context ends, whatever the source is doing.
FaultyGiveUp(c) ==
  /\ call[c].at = "source" /\ c \in ended /\ source[c] # "running"
  /\ Return(c, "context")
  /\ UNCHANGED <<now, provider, floor, newest, ended, source, key>>
GiveUp(c) ==
  /\ call[c].at = "source" /\ c \in ended
  /\ Return(c, "context")
  /\ UNCHANGED <<now, provider, floor, newest, ended, source, key>>

\* The goroutine finds that nobody waits any more.
FaultySourceDiscards(c) ==
  /\ call[c].at = "done" /\ Holding(c)
  /\ source' = [source EXCEPT ![c] = "gone"]
  /\ UNCHANGED <<now, provider, floor, newest, call, ended, key>>
SourceDiscards(c) ==
  /\ call[c].at = "done" /\ Holding(c)
  /\ source' = [source EXCEPT ![c] = "gone"]
  /\ key' = [key EXCEPT ![c] = wipe(@)]
  /\ UNCHANGED <<now, provider, floor, newest, call, ended>>

\* The answer to the device's own request is the result; the key is wiped.
DeviceAnswered(c) ==
  /\ call[c].at = "device"
  /\ \E r \in Replies :
       LET outcome == InterpretReply(r, call[c].crid, call[c].cfg)
           heard == [call[c] EXCEPT !.second = outcome]
       IN call' = [call EXCEPT ![c] =
            IF outcome = "issued" THEN [heard EXCEPT !.at = "open", !.link = r.link]
            ELSE Ended(heard, outcome)]
  /\ key' = [key EXCEPT ![c] = wipe(@)]
  /\ UNCHANGED <<now, provider, floor, newest, ended, source>>

\* Either request gets no authenticated answer.
RequestFails(c) ==
  /\ call[c].at \in {"anonymous", "device"}
  /\ Return(c, Failure(c, "relay"))
  /\ key' = [key EXCEPT ![c] = wipe(@)]
  /\ UNCHANGED <<now, provider, floor, newest, ended, source>>

-----------------------------------------------------------------------------
(* EnterPortalWith. *)

\* A configured cell catalog selects native UDP and refuses other cells; without
\* one the link's relay must be allowed.
CellKnown(l, cfg) == l.cell \in cfg.cells
RelayAllowed(l, cfg) == l.relay \in cfg.relays
Routable(l, cfg) == IF cfg.cells # {} THEN CellKnown(l, cfg) ELSE RelayAllowed(l, cfg)

\* The secret of the link is the private half of the key its claims sign.
KeyPairMatches(l) == l.keyPair

OpenLink(c) ==
  LET l == call[c].link
      cfg == call[c].cfg
  IN /\ call[c].at = "open"
     /\ IF VerifyLinkForCRID(l, call[c].crid, cfg) /\ Routable(l, cfg) /\ KeyPairMatches(l)
        THEN Goto(c, "knock")
        ELSE Return(c, "rejected")
     /\ UNCHANGED <<now, provider, floor, newest, ended, source, key>>

\* interpretReply, or no reply.
KnockReturns(c) ==
  /\ call[c].at = "knock"
  /\ \E r \in {"opened", "overloaded", "malformed", "denied", Failure(c, "relay")} : Return(c, r)
  /\ UNCHANGED <<now, provider, floor, newest, ended, source, key>>

-----------------------------------------------------------------------------
CallStep(c) ==
  \/ ReadDeployment(c) \/ StartFetch(c) \/ FetchManifest(c) \/ AdoptManifest(c)
  \/ SendAnonymous(c) \/ AnonymousAnswered(c) \/ AskForKey(c)
  \/ TakeAnswer(c) \/ SourceVanished(c) \/ GiveUp(c)
  \/ DeviceAnswered(c) \/ RequestFails(c)
  \/ OpenLink(c) \/ KnockReturns(c)

Next ==
  \/ \E c \in Callers :
       OpenerCalls(c) \/ RequesterCalls(c) \/ GateRefuses(c) \/ CallStep(c) \/ ContextEnds(c)
         \/ SourceAnswers(c) \/ SourceDiscards(c)
  \/ SetDefaultProvider \/ Tick

Spec == Init /\ [][Next]_vars

\* A call runs and its network exchanges return: the transports are bounded by
\* the context.  A DeviceKeySource need never return, but a goroutine that has
\* an answer in hand goes on.
FairSpec ==
  /\ Spec
  /\ \A c \in Callers : WF_vars(CallStep(c)) /\ WF_vars(SourceDiscards(c))

-----------------------------------------------------------------------------
(* Correctness. *)

\* A handle is for the resource whose CRID the caller held, over a link whose
\* issuer the configuration of that very call trusts.
OpenedAsAsked ==
  \A c \in Callers : call[c].result = "opened" =>
    /\ call[c].crid \in {None, call[c].link.resource}
    /\ call[c].link.signer \in call[c].cfg.issuers

\* The issuers a call trusts come from a deployment file or a genuine manifest.
TrustIsGenuine ==
  \A c \in Callers : call[c].cfg # None =>
    \/ call[c].cfg \in Deployments
    \/ \E e \in Envelopes : e.genuine /\ call[c].cfg = ManifestConfig(e)

\* Whatever order their fetches finish in, no call adopts a manifest older than one
\* another call has adopted by then: an issuer that was withdrawn stays withdrawn,
\* also for a call that had fetched and checked the old manifest before.
TrustNeverRegresses ==
  [][\A c \in Callers :
       LET cfg == call'[c].cfg
       IN cfg # call[c].cfg /\ cfg \notin Deployments \cup {None} => newest <= cfg.version]_vars

\* The trust a call acts on is genuine, and it is the newest there was when the call
\* adopted it.
TrustHolds == []TrustIsGenuine /\ TrustNeverRegresses

\* The device's identity leaves the process, and the source of its key is asked,
\* only after the server itself said "not found" to the anonymous request.
DeviceStaysHidden ==
  \A c \in Callers :
    call[c].at = "device" \/ call[c].second # None \/ source[c] # "off" =>
      call[c].device # "no" /\ call[c].first = "notFound"

\* A device is told "not found" only in answer to its own request.
NotFoundIsTheDevices ==
  \A c \in Callers :
    call[c].result = "notFound" /\ call[c].device # "no" => call[c].second = "notFound"

\* The anonymous request comes first, and its answer is never taken for the
\* answer to the device's own.
AnonymousFirst == DeviceStaysHidden /\ NotFoundIsTheDevices

\* When a call has returned, no key a source gave is left in memory, except one
\* the source's goroutine has in hand and is about to wipe.
NoKeyLeftBehind ==
  \A c \in Callers : call[c].at = "done" /\ key[c] = "live" => Holding(c)

\* A call whose context has ended returns, whatever its source does, and a key
\* that comes too late is wiped.
CallsReturn ==
  \A c \in Callers :
    /\ c \in ended ~> call[c].at = "done"
    /\ call[c].at = "done" /\ key[c] = "live" ~> key[c] = "wiped"

=============================================================================
