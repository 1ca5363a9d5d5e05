--------------------------- MODULE MCLinkOpening ---------------------------
(***************************************************************************)
(* LinkOpening with an opener and a requester, two resources, an issuer i1 *)
(* that version 2 of the manifest replaces by i2, and a signer i3 nobody   *)
(* vouches for.                                                            *)
(***************************************************************************)
EXTENDS LinkOpening

Manifest(version, issuedAt, notAfter, issuers) ==
  [version |-> version, issuedAt |-> issuedAt, notAfter |-> notAfter, issuers |-> issuers,
   relays |-> {"relay"}, profile |-> "prod", kid |-> "k1", digest |-> "other",
   sig |-> "good", faults |-> {}, genuine |-> TRUE]

MCEnvelopes ==
  { Manifest(1, 1, 2, {"i1"}),
    Manifest(2, 1, 3, {"i2"}),
    [Manifest(3, 1, 3, {"i3"}) EXCEPT !.sig = "bad", !.genuine = FALSE],
    [Manifest(2, 1, 3, {"i3"}) EXCEPT !.sig = "none", !.genuine = FALSE],
    [Manifest(2, 1, 3, {"i2"}) EXCEPT !.faults = {"keys"}] }

Link(signer, resource) ==
  [origin |-> "origin", transport |-> TRUE, signer |-> signer, resource |-> resource,
   cell |-> "cell", relay |-> "relay", keyPair |-> TRUE]

MCLinks ==
  { Link("i1", "r1"), Link("i2", "r1"), Link("i3", "r1"),
    [Link("i1", "r1") EXCEPT !.origin = "elsewhere", !.cell = "other", !.relay = "other"] }

MCDeployments ==
  LET whole == [issuers |-> {"i1"}, relays |-> {"relay"}, cells |-> {"cell"},
                cridLink |-> "origin", version |-> 0]
  IN { whole, [whole EXCEPT !.issuers = {}] }

=============================================================================
