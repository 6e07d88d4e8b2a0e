---------------------------- MODULE MCAttestation ----------------------------
(* An instance of Attestation for TLC. *)
EXTENDS Attestation

CONSTANTS p1, p2, p3, r1, r2

Image(root) == FromImageManifest("artifact", root)
Release(s, by) == [statement |-> s, by |-> by]
MCLog0 == <<Release(Image("v1"), Us), Release(FromJWK("k1"), Us), Release(FromJWK("k2"), "someone")>>

\* The same keys with their subjects in both orders, a statement with too many
\* subjects, one without any, data, and a sanitized provenance.
Keys(order) == FromOHTTPKeyConfigs("keys", "periods", order)
Many == FromSLSA02ProvenanceStatement(<<Subject("a", "x"), Subject("b", "y"), Subject("c", "z")>>,
                                      [builder |-> "b", event |-> "secret"])
Build == FromSLSA02ProvenanceStatement(<<Subject("a", "x")>>, [builder |-> "b", event |-> "secret"])
None  == NewStatement("public-key", <<>>, [jwkRaw |-> "k"])
Data  == NewStatement("data", <<>>, [data |-> "d"])

Sig(s)        == [op |-> "sign", statement |-> s]
Import(b)     == [op |-> "import", bundle |-> b]
Find(s)       == [op |-> "find", statement |-> s]
List(t, d)    == [op |-> "list", type |-> t, digest |-> d]
Idle          == [op |-> "none"]
Plan(serial, faults, a, b, c) ==
    [serial |-> serial, reliable |-> faults = 0, faults |-> faults,
     of |-> (p1 :> a) @@ (p2 :> b) @@ (p3 :> c)]

Nobody == Plan(TRUE, 0, Idle, Idle, Idle)
MCTasks ==
    {Nobody,
     Plan(TRUE, 0, Sig(Keys(1)), Sig(Keys(2)), Find(Keys(1))),
     Plan(TRUE, 1, Sig(Keys(1)), Sig(Keys(2)), Find(Keys(1))),
     Plan(TRUE, 0, Sig(FromJWK("k1")), Import(2), Find(FromJWK("k1"))),
     Plan(TRUE, 0, Import(2), Sig(FromJWK("k3")), List("public-key", "")),
     Plan(TRUE, 0, Sig(Many), Find(None), Sig(Data)),
     Plan(FALSE, 0, Import(3), Find(FromJWK("k2")), List("", "x")),
     Plan(FALSE, 1, Sig(Build), Sig(Build), List("slsa", "x")),
     Plan(FALSE, 0, Sig(Keys(1)), Sig(Keys(2)), Find(Keys(1))),
     Plan(FALSE, 0, Sig(FromJWK("k3")), Import(2), List("", ""))}

Machine(cloud, device, dmesg, gpus, secure, bundle, roots) ==
    [cloud |-> cloud, device |-> device, dmesg |-> dmesg, gpus |-> gpus, missing |-> {}, untrusted |-> {},
     secureBoot |-> secure, bundle |-> bundle, root |-> "v1", roots |-> roots,
     told |-> <<>>, replays |-> TRUE]
Gce   == Machine("gce", "sev-guest", {}, {"gpu"}, TRUE, 1, {})
Azure == Machine("azure", "tdx_guest", {}, {"switch"}, TRUE, 1, {})
Dev   == Machine("fake", "", {}, {}, FALSE, 0, {"v1"})

\* A machine that boots other images, one in development, and one without secure
\* boot go through everything; then machines that lack a piece, or have one that
\* does not verify, or another image's bundle, or a log that says something else
\* than was measured, with digests that replay and with digests that do not.
MCHosts ==
    {[Gce EXCEPT !.roots = {"v1", "dev"}], Dev,
     Machine("azure", "", {"tdx"}, {"gpu", "switch"}, FALSE, 1, {"v1"}),
     [Azure EXCEPT !.missing = {"TdxCollateral"}],
     [Gce EXCEPT !.missing = {"NvidiaCCIntermediateCertificate"}],
     [Gce EXCEPT !.untrusted = {"GceAkCertificate"}],
     [Azure EXCEPT !.untrusted = {"NvidiaSwitchETA"}],
     [Azure EXCEPT !.device = "sev-guest", !.untrusted = {"SevSnpReport"}],
     [Gce EXCEPT !.missing = {"EventLog"}],
     [Azure EXCEPT !.missing = {"SecureBoot"}],
     [Gce EXCEPT !.missing = {"TpmtPublic"}],
     [Gce EXCEPT !.root = "dev", !.told = <<"v1", TRUE>>],
     [Gce EXCEPT !.root = "dev", !.told = <<"v1", TRUE>>, !.replays = FALSE],
     Machine("gce", "", {}, {}, TRUE, 2, {})}
=============================================================================
