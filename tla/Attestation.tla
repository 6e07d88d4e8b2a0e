----------------------------- MODULE Attestation -----------------------------
(* Clients that send a request to a compute node only after they have verified *)
(* its evidence: ConfidentSecurityVerifier (FakeVerifier in development), the  *)
(* transparency log that vouches for the image, and the receiver that opens    *)
(* the chunks of a request with a key only the TPM has.                        *)
EXTENDS ComputeNode

CONSTANTS SeqBase,   \* values of a byte of the sequence number (256 in the code)
          SeqLen     \* its bytes (12 in the code)

ASSUME SeqAssumption == SeqBase \in Nat \ {0} /\ SeqLen \in Nat \ {0}

vars == <<transparencyVars, nodeVars>>

NewRequest == [at |-> "idle", ev |-> NoEvidence, counter |-> 0, under |-> NoPolicy,
               fault |-> FALSE, seq |-> [i \in 1..SeqLen |-> 0], opened |-> 0]

\* Either the log and its store are used, or a node.
Init ==
    /\ TransparencyInit
    /\ NodeInit
    /\ host = NoHost <=> \E p \in Procs : Task(p).op # "none"
    /\ req = [r \in Requests |-> NewRequest]

-----------------------------------------------------------------------------
(* VerifyComputeNode, step by step.                                            *)
Verifies(h, piece) == piece \in Pieces(h) \ h.untrusted

SEVSNPReport(h) == Verifies(h, "SevSnpReport")

\* The report is verified against the collateral that came with it.
TDXReport(h) == Verifies(h, "TdxCollateral") /\ Verifies(h, "TdxReport")

VerifyTEE(h) ==
    /\ Cardinality(Pieces(h) \cap {"SevSnpReport", "TdxReport"}) = 1
    /\ "SevSnpReport" \in Pieces(h) => SEVSNPReport(h)
    /\ "TdxReport" \in Pieces(h) => TDXReport(h)

GceAkIntermediateCertificate(h) == Verifies(h, "GceAkIntermediateCertificate")

\* Verified against the intermediate certificate.
GceAkCertificate(h) == Verifies(h, "GceAkCertificate")

AzureAkCertificate(h) == Verifies(h, "AzureAkCertificate")

\* The two clouds exclude each other.
VerifyAK(h) ==
    \/ /\ "AzureAkCertificate" \notin Pieces(h)
       /\ GceAkIntermediateCertificate(h) /\ GceAkCertificate(h)
    \/ /\ "GceAkIntermediateCertificate" \notin Pieces(h)
       /\ AzureAkCertificate(h)

GetIntermediateCert(h, cert) == Verifies(h, cert)

VerifyJWT(h, eta) == Verifies(h, eta)

\* A GPU or a switch is verified when there is evidence of it.
VerifyGPU(h) ==
    /\ "NvidiaETA" \in Pieces(h) =>
          GetIntermediateCert(h, "NvidiaCCIntermediateCertificate") /\ VerifyJWT(h, "NvidiaETA")
    /\ "NvidiaSwitchETA" \in Pieces(h) =>
          GetIntermediateCert(h, "NvidiaSwitchIntermediateCertificate") /\ VerifyJWT(h, "NvidiaSwitchETA")

\* The certified creation is signed by the attestation key.
REKCreation(e) == e.cert # NoKey

\* The values are those the quote signed.
TPMQuote(e) == e.values = e.quote

EventLogOfAll(e, manifest) ==
    /\ e.log.secure /\ e.log.root = manifest.root
    /\ e.values = [boot |-> e.log.digests]

EventLogUnreplayed(e, manifest) == e.log.secure /\ e.log.root = manifest.root

\* The secure boot field, the root hash in the data of the kernel command line's
\* event, and digests that explain every register but that of the models. The
\* data are not compared with the digests.
EventLog(e, manifest) ==
    /\ e.log.secure
    /\ e.log.root = manifest.root
    /\ e.log.digests = e.values.boot

ImageSigstoreBundle(b) == VerifyImageManifestBundle(b)

TPMTName(e) == e.public = e.cert

\* The key is the certified one, and sealed to the quoted registers.
TPMT(e) == e.public = e.cert /\ e.public.policy = e.values

\* Five pieces, in their order.
FakeVerifier(h, e) ==
    /\ "TpmtPublic" \notin h.missing
    /\ REKCreation(e) /\ TPMQuote(e) /\ TPMT(e) /\ Verifies(h, "Fake")

\* What comes before the event log and the public key are looked at.
BeforeEventLog(h, e) ==
    /\ VerifyTEE(h) /\ VerifyAK(h) /\ REKCreation(e) /\ VerifyGPU(h) /\ TPMQuote(e)
    /\ ImageSigstoreBundle(h.bundle)

ConfidentSecurityVerifier(h, e) ==
    /\ BeforeEventLog(h, e)
    /\ EventLog(e, log[h.bundle].statement.predicate.imageManifest)
    /\ TPMT(e)

\* The event log, its secure boot field and the public key are used without a
\* look whether they are there.
Panics(h, e) ==
    /\ h.cloud # "fake" /\ BeforeEventLog(h, e)
    /\ \/ h.missing \cap {"EventLog", "SecureBoot"} # {}
       \/ /\ EventLog(e, log[h.bundle].statement.predicate.imageManifest)
          /\ "TpmtPublic" \in h.missing

VerifyComputeNode(e) ==
    CASE Panics(host, e)       -> "panic"
      [] host.cloud = "fake"   -> IF FakeVerifier(host, e) THEN "accepted" ELSE "distrusted"
      [] OTHER                 -> IF ConfidentSecurityVerifier(host, e) THEN "accepted" ELSE "distrusted"

-----------------------------------------------------------------------------
(* A client gets the evidence the node started with, however long ago, and     *)
(* seals its request to the key in it.                                         *)
Fetch(r) ==
    /\ At("serve") /\ req[r].at = "idle"
    /\ req' = [req EXCEPT ![r].at = "fetched", ![r].ev = node.ev]
    /\ UNCHANGED <<host, tpm, node>>

Verify(r) ==
    /\ req[r].at = "fetched"
    /\ ReqTo(r, VerifyComputeNode(req[r].ev))
    /\ UNCHANGED <<host, tpm, node>>

Send(r) ==
    /\ req[r].at = "accepted"
    /\ ReqTo(r, IF At("serve") THEN "arrived" ELSE "lost")
    /\ UNCHANGED <<host, tpm, node>>

RECURSIVE Digits(_)
Digits(s) == IF s = <<>> THEN 0 ELSE Digits(Front(s)) * SeqBase + Last(s)

IncrementLast(s) == [s EXCEPT ![SeqLen] = (@ + 1) % SeqBase]

IncrementUnmasked(s) == [s EXCEPT ![SeqLen] = @ + 1]

\* The carry goes on through the bytes that are full.
Increment(s) ==
    [i \in 1..SeqLen |->
        IF \A j \in (i + 1)..SeqLen : s[j] = SeqBase - 1 THEN (s[i] + 1) % SeqBase ELSE s[i]]

Overflows(s) == \A i \in 1..SeqLen : s[i] = SeqBase - 1

\* A chunk is opened with the sequence number; the one that would make it
\* overflow is thrown away.
Open(r) ==
    /\ At("serve") /\ req[r].at = "open"
    /\ req' = IF Overflows(req[r].seq) THEN [req EXCEPT ![r].at = "refused"]
              ELSE [req EXCEPT ![r].seq = Increment(@), ![r].opened = @ + 1]
    /\ UNCHANGED <<host, tpm, node>>

\* The request ends and is answered.
Answer(r) ==
    /\ At("serve") /\ req[r].at = "open" /\ req[r].opened > 0
    /\ ReqTo(r, "answered")
    /\ UNCHANGED <<host, tpm, node>>

RequestStep(r) ==
    \/ Fetch(r) \/ Verify(r) \/ Send(r)
    \/ \E wellFormed \in BOOLEAN : GenerateHandler(r, wellFormed)
    \/ PCRPolicySession(r) \/ ECDHZGen(r) \/ Open(r) \/ Answer(r)
    \/ PolicyPCRFails(r) \/ ECDHZGenFails(r) \/ CleanupFails(r)

NodeNext == SetupStep \/ SetupFails \/ Reboot \/ Extend \/ \E r \in Requests : RequestStep(r)

Next ==
    \/ NodeNext /\ UNCHANGED transparencyVars
    \/ TransparencyNext /\ UNCHANGED nodeVars

Spec == Init /\ [][Next]_vars

-----------------------------------------------------------------------------
(* Properties                                                                  *)

TypeOK ==
    /\ store \in [DOMAIN store -> {Empty, Garbled} \cup (1..Len(log))]
    /\ Len(log) <= MaxLog
    /\ \A p \in Procs : call[p].held \in {Empty, Garbled} \cup (0..Len(log))
    /\ tpm.model \in 0..MaxExtends /\ tpm.boots \in 1..MaxBoots
    /\ tpm.sessions \subseteq Requests /\ Cardinality(tpm.sessions) <= MaxSessions
    /\ {tpm.ticket, tpm.hash, tpm.ak.id, tpm.primary.id, tpm.child.id} \subseteq 0..tpm.keys
    /\ \A r \in Requests : req[r].seq \in [1..SeqLen -> 0..(SeqBase - 1)]

Released(root) ==
    \E i \in DOMAIN log : /\ log[i].by = Us /\ log[i].statement.type = "image-manifest"
                          /\ log[i].statement.predicate.imageManifest.root = root

Trusted(r) == req[r].at \notin {"idle", "fetched", "distrusted", "panic"}

\* The data of a log say what its digests measured.
LogTells(e) == e.log.digests = <<e.log.root, e.log.secure>>

\* The key a client accepts is one the TPM made for the very registers it
\* quoted, and nothing it presented was left unverified. Outside of development,
\* if the data of the event log are what was measured, which the client does not
\* check, those are the registers of a machine that booted a released image
\* with secure boot. Models may be loaded and the node may fail or boot between
\* any two steps that make up the evidence.
AcceptedIsSealed ==
    \A r \in Requests : Trusted(r) =>
        /\ req[r].ev.public = req[r].ev.cert
        /\ req[r].ev.public.policy = req[r].ev.quote
        /\ Pieces(host) \cap host.untrusted = {}
        /\ host.cloud # "fake" /\ LogTells(req[r].ev) =>
              req[r].ev.quote.boot[2] /\ Released(req[r].ev.quote.boot[1])

\* Whenever a node opens a request its registers are those the client accepted,
\* whatever was loaded, started again or booted since the client looked.
OpenedAsAttested ==
    \A r \in Requests : req[r].under # NoPolicy => req[r].under = req[r].ev.quote

\* A machine that runs a released image with secure boot, has all its pieces,
\* good ones, and loads no model between making its key and the end of its quote
\* is never distrusted. A request sealed to its key can be opened until it boots
\* or loads a model.
HonestIsAccepted ==
    \A r \in Requests :
        /\ req[r].at \in {"distrusted", "panic"} =>
              \/ ~req[r].ev.calm \/ host.missing # {} \/ host.untrusted # {}
              \/ host.cloud # "fake" /\ (~host.secureBoot \/ ~Released(req[r].ev.quote.boot[1])
                                         \/ GetTEEType(host) = "NoTEE" \/ host.bundle # 1
                                         \/ host.told # <<>>)
        /\ req[r].at = "unreadable" =>
              req[r].ev.public # node.ev.public \/ req[r].ev.quote # Pcrs

\* A session of the TPM outlives its use only if one of its commands failed, or
\* the registers have changed under the node, which will then never open
\* another request (PCRPolicySession and its caller).
SessionsReleased ==
    \A r \in tpm.sessions :
        req[r].at \in {"policy", "zgen"} \/ req[r].fault \/ node.ev.values # Pcrs

\* The sequence number, carried from byte to byte, is the number of chunks
\* opened, so that each chunk has the nonce the sender used for it and no other.
SeqCounts == \A r \in Requests : Digits(req[r].seq) = req[r].opened

\* Attestation is exact: what is accepted is sealed to what was attested and
\* opened only there, and what is honest is accepted (VerifyComputeNode, Setup).
AttestationExact == AcceptedIsSealed /\ OpenedAsAttested /\ HonestIsAccepted

\* The node keeps count of its sessions and its sequence numbers (ECDHZGen,
\* openContext.increment).
NodeKeepsCount == TypeOK /\ SessionsReleased /\ SeqCounts

\* The store is sound: what is found in it was signed, nothing is signed twice
\* for want of finding it, and what is stored stays (CachingSigner, FSStore).
BundlesSound == [](FoundIsSigned /\ SignedOnce) /\ StoredStays
=============================================================================
