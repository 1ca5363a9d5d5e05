------------------------------ MODULE Discovery ------------------------------
(***************************************************************************)
(* DiscoveryProvider of qurl/discovery.go: what a fetched envelope must    *)
(* satisfy before its issuers are trusted.  The transport is untrusted, so *)
(* an envelope is whatever the network hands over; the anchors are the pin *)
(* and the manifest-signing keys.  The downgrade floor, the one thing a    *)
(* provider remembers, is state of the module that extends this one.       *)
(***************************************************************************)
EXTENDS Integers

CONSTANTS
  Envelopes,         \* what a fetch may return
  Pin,               \* PinSHA256 is configured
  ManifestKeys,      \* kids of the configured manifest-signing keys
  RequireSignature,
  ExpectedProfile,
  MinVersion,
  Leeway             \* manifestClockSkewLeewaySec

\* A provider that would trust blindly is refused.
NewDiscoveryProvider ==
  /\ Pin \/ ManifestKeys # {}
  /\ RequireSignature => ManifestKeys # {}

ASSUME DiscoveryAssumption ==
  /\ Pin \in BOOLEAN /\ RequireSignature \in BOOLEAN
  /\ MinVersion \in Int /\ Leeway \in Nat
  /\ NewDiscoveryProvider

\* A pinned digest and a signature that verifies are made by the deployment
\* that publishes the manifest, and by nobody else.
ASSUME AnchorAssumption ==
  \A e \in Envelopes : e.digest = "pin" \/ e.sig = "good" => e.genuine

DecodeEnvelope(e) == "envelope" \notin e.faults

VerifyManifestSig(e) == e.kid \in ManifestKeys /\ e.sig = "good"

\* Every configured anchor that is present must validate, and one must be.
Authenticate(e) ==
  LET signed == ManifestKeys # {} /\ e.sig # "none"
  IN /\ Pin => e.digest = "pin"
     /\ signed => VerifyManifestSig(e)
     /\ RequireSignature => signed
     /\ Pin \/ signed

ParseManifest(e) ==
  /\ "manifest" \notin e.faults
  /\ 0 < e.version
  /\ 0 < e.issuedAt /\ e.issuedAt < e.notAfter
  /\ e.issuers # {} /\ e.relays # {}

\* In the window at time t: not from the future beyond the leeway, and valid
\* through notAfter.
InWindow(e, t) == e.issuedAt <= t + Leeway /\ t <= e.notAfter

\* Every issuer entry has a kid of its own and a key that parses.
BuildTrustMaterial(e) == "keys" \notin e.faults

\* Resolve, up to the section under p.mu.
Acceptable(e, t) ==
  /\ DecodeEnvelope(e)
  /\ Authenticate(e)
  /\ ParseManifest(e)
  /\ ExpectedProfile \in {"", e.profile}
  /\ InWindow(e, t)
  /\ BuildTrustMaterial(e)

=============================================================================
