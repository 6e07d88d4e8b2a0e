----------------------------- MODULE ComputeNode -----------------------------
(* A compute node with its TPM: setting up the request encryption key (REK),   *)
(* collecting evidence of it, and opening the requests sealed to it.           *)
(*                                                                             *)
(* The PCRs that are attested are 0-5, 7 and 8, which hold what was booted and *)
(* do not change until the next boot ("boot"), and 12, which the node extends  *)
(* with the models it loads ("model"). A policy is the values it was computed  *)
(* from. The TPM itself is external; mem-compute has one in its own memory,    *)
(* which is empty whenever the process starts.                                 *)
EXTENDS Transparency

CONSTANTS Hosts,        \* the machines to explore
          Requests,     \* requests made to the node
          MaxExtends,   \* bound: extensions of PCR 12 in one boot
          MaxBoots,     \* bound: times the machine boots
          NodeFaults,   \* bound: commands of the TPM that fail
          MaxSessions   \* sessions the TPM can hold

VARIABLES host,   \* the machine
          tpm,    \* its TPM
          node,   \* the process
          req     \* the requests

nodeVars == <<host, tpm, node, req>>

NoHost == [cloud |-> "none", device |-> "", dmesg |-> {}, gpus |-> {}, missing |-> {},
           untrusted |-> {}, secureBoot |-> FALSE, bundle |-> 0, root |-> "", roots |-> {},
           told |-> <<>>, replays |-> TRUE]

NoPolicy == [boot |-> <<>>]

NoKey == [id |-> 0, policy |-> NoPolicy]

NoLog == [root |-> "", secure |-> FALSE, digests |-> <<>>]

NoEvidence == [cert |-> NoKey, quote |-> NoPolicy, values |-> NoPolicy,
               public |-> NoKey, log |-> NoLog, calm |-> FALSE]

-----------------------------------------------------------------------------
(* The attestors: which pieces of evidence a machine can give beside those of  *)
(* its TPM. host.missing are the pieces its attestors could not get, and       *)
(* host.untrusted those whose signatures or certificates do not verify.        *)
GetTEEType(h) ==
    CASE h.device = "sev-guest" -> "SevSnp"
      [] h.device = "tdx_guest" -> "Tdx"
      [] "tdx" \in h.dmesg      -> "Tdx"
      [] "sev" \in h.dmesg      -> "SevSnp"
      [] OTHER                  -> "NoTEE"

\* A piece is there when its attestor could get it and had what it is made from.
Piece(h, name, source) == IF source /\ name \notin h.missing THEN {name} ELSE {}

SEVSNPTEEAttestor(h) == Piece(h, "SevSnpReport", GetTEEType(h) = "SevSnp" /\ h.cloud # "azure")

AzureSEVSNPTEEAttestor(h) == Piece(h, "SevSnpReport", GetTEEType(h) = "SevSnp" /\ h.cloud = "azure")

TDXTEEAttestor(h) == Piece(h, "TdxReport", GetTEEType(h) = "Tdx" /\ h.cloud # "azure")

AzureTDXTEEAttestor(h) == Piece(h, "TdxReport", GetTEEType(h) = "Tdx" /\ h.cloud = "azure")

\* The collateral is fetched for the certificate in the quote.
TDXCollateralAttestor(h) ==
    Piece(h, "TdxCollateral", TDXTEEAttestor(h) \cup AzureTDXTEEAttestor(h) # {})

GceAkCertificateAttestor(h) == Piece(h, "GceAkCertificate", h.cloud = "gce")

\* The intermediate certificate is fetched from where the first one says.
GceAkIntermediateCertificateAttestor(h) ==
    Piece(h, "GceAkIntermediateCertificate", GceAkCertificateAttestor(h) # {})

AzureAkCertificateAttestor(h) == Piece(h, "AzureAkCertificate", h.cloud = "azure")

FakeAttestor(h) == Piece(h, "Fake", h.cloud = "fake")

NVidiaAttestor(h) ==
    Piece(h, "NvidiaETA", "gpu" \in h.gpus) \cup Piece(h, "NvidiaSwitchETA", "switch" \in h.gpus)

\* The certificate is the one that the token names.
NvidiaCCIntermediateCertificateAttestor(h) ==
    Piece(h, "NvidiaCCIntermediateCertificate", "NvidiaETA" \in NVidiaAttestor(h))
    \cup Piece(h, "NvidiaSwitchIntermediateCertificate", "NvidiaSwitchETA" \in NVidiaAttestor(h))

Pieces(h) ==
    SEVSNPTEEAttestor(h) \cup AzureSEVSNPTEEAttestor(h) \cup TDXTEEAttestor(h)
    \cup AzureTDXTEEAttestor(h) \cup TDXCollateralAttestor(h)
    \cup GceAkCertificateAttestor(h) \cup GceAkIntermediateCertificateAttestor(h)
    \cup AzureAkCertificateAttestor(h) \cup FakeAttestor(h)
    \cup NVidiaAttestor(h) \cup NvidiaCCIntermediateCertificateAttestor(h)

-----------------------------------------------------------------------------
(* The PCRs. The event log has a digest and data for everything the boot       *)
(* registers were extended with, and beside them what was made of the secure   *)
(* boot events. The firmware's own log (host.told empty) has the three agree;  *)
(* host.told is what the data and the secure boot field of another one say,    *)
(* and host.replays whether its digests are still those of the registers.      *)
Measured == <<tpm.root, host.secureBoot>>

Pcrs == [boot |-> Measured, model |-> tpm.model]

FirmwareLogState ==
    LET told == IF host.told = <<>> THEN Measured ELSE host.told
    IN  [root |-> told[1], secure |-> told[2],
         digests |-> IF host.replays THEN Measured ELSE told]

\* Nine registers, at most eight of them in one command: the last one, PCR 12,
\* is read by a second one, and no other of them can change in between.
PCRRead == Pcrs

\* Something loads a model: external.
Extend ==
    /\ host # NoHost /\ tpm.model < MaxExtends
    /\ tpm' = [tpm EXCEPT !.model = @ + 1]
    /\ node' = [node EXCEPT !.calm = FALSE]
    /\ UNCHANGED <<host, req>>

-----------------------------------------------------------------------------
(* SetupAttestationKey, SetupEncryptionKeys, collectEvidence and NewRouterCom. *)
EmptyTPM(root, boots, keys) ==
    [root |-> root, model |-> 0, boots |-> boots, keys |-> keys, ak |-> NoKey, primary |-> NoKey,
     child |-> NoKey, ticket |-> 0, hash |-> 0, sessions |-> {}]

Fresh(faults) ==
    [at |-> "ak", golden |-> NoPolicy, key |-> NoKey, ev |-> NoEvidence, faults |-> faults,
     calm |-> FALSE]

NodeInit ==
    /\ host \in Hosts \cup {NoHost}
    /\ tpm = EmptyTPM(host.root, 1, 0)
    /\ node = Fresh(NodeFaults)

At(step) == host # NoHost /\ node.at = step

NodeTo(step) == node' = [node EXCEPT !.at = step]

\* A key the TPM makes; no two are the same.
NewKey(policy) == [id |-> tpm.keys + 1, policy |-> policy]

\* What is at the handle is evicted, so that something else can be persisted
\* there; a handle that is free is no error.
MaybeClearPersistentHandle(t, handle) == [t EXCEPT ![handle] = NoKey]

PersistObject(t, handle, key) == [t EXCEPT ![handle] = key, !.keys = key.id]

Persist(handle, key) ==
    tpm' = PersistObject(MaybeClearPersistentHandle(tpm, handle), handle, key)

MaybeClearNVIndex(t, index) == [t EXCEPT ![index] = 0]

\* The index is defined and written; one that is defined already is written too.
WriteToNVRamNoAuth(t, index, data) == [t EXCEPT ![index] = data]

SetupAttestationKey ==
    /\ At("ak")
    /\ Persist("ak", NewKey(NoPolicy))
    /\ NodeTo("primary")
    /\ UNCHANGED <<host, req>>

CreateECCPrimaryKey ==
    /\ At("primary")
    /\ Persist("primary", NewKey(NoPolicy))
    /\ NodeTo("golden")
    /\ UNCHANGED <<host, req>>

ReadGolden ==
    /\ At("golden")
    /\ node' = [node EXCEPT !.at = "create", !.golden = PCRRead, !.calm = TRUE]
    /\ UNCHANGED <<host, tpm, req>>

CreateECCEncryptionKey ==
    /\ At("create")
    /\ Persist("child", NewKey(node.golden))
    /\ node' = [node EXCEPT !.at = "ticket", !.key = NewKey(node.golden)]
    /\ UNCHANGED <<host, req>>

\* The ticket and the hash of the key's creation are kept for its certification.
KeepCreation(index, next) ==
    /\ At(index)
    /\ tpm' = WriteToNVRamNoAuth(MaybeClearNVIndex(tpm, index), index, node.key.id)
    /\ NodeTo(next)
    /\ UNCHANGED <<host, req>>

\* The TPM certifies the creation of the key at the child handle when ticket and
\* hash are those of its creation.
CertifyCreationKey ==
    /\ At("certify")
    /\ node' = IF tpm.child # NoKey /\ tpm.ticket = tpm.child.id /\ tpm.hash = tpm.child.id
               THEN [node EXCEPT !.at = "quote", !.ev.cert = tpm.child]
               ELSE [node EXCEPT !.at = "failed"]
    /\ UNCHANGED <<host, tpm, req>>

Quote ==
    /\ At("quote")
    /\ node' = [node EXCEPT !.at = "read", !.ev.quote = Pcrs]
    /\ UNCHANGED <<host, tpm, req>>

\* The values that go with the quote are read after it was signed.
ReadQuoted ==
    /\ At("read")
    /\ node' = [node EXCEPT !.at = "public", !.ev.values = PCRRead, !.ev.calm = node.calm]
    /\ UNCHANGED <<host, tpm, req>>

ReadPublic ==
    /\ At("public")
    /\ node' = [node EXCEPT !.at = "start", !.ev.public = tpm.child,
                            !.ev.log = FirmwareLogState]
    /\ UNCHANGED <<host, tpm, req>>

\* The service takes the key and the values of all the registers from the
\* evidence.
NewRouterCom ==
    /\ At("start")
    /\ NodeTo(IF DOMAIN node.ev.values = DOMAIN Pcrs /\ "TpmtPublic" \notin host.missing
              THEN "serve" ELSE "failed")
    /\ UNCHANGED <<host, tpm, req>>

SetupStep ==
    \/ SetupAttestationKey \/ CreateECCPrimaryKey \/ ReadGolden \/ CreateECCEncryptionKey
    \/ KeepCreation("ticket", "hash") \/ KeepCreation("hash", "certify")
    \/ CertifyCreationKey \/ Quote \/ ReadQuoted \/ ReadPublic \/ NewRouterCom

\* A command fails while the node sets itself up, and the process exits.
SetupFails ==
    /\ host # NoHost /\ node.at \notin {"serve", "failed"}
    /\ node.faults > 0
    /\ node' = [node EXCEPT !.at = "failed", !.faults = @ - 1]
    /\ UNCHANGED <<host, tpm, req>>

InProgress == {"arrived", "policy", "zgen", "open"}

\* The machine boots, perhaps another image, or the process is started once more.
Reboot ==
    /\ host # NoHost /\ tpm.boots < MaxBoots
    /\ \E root \in host.roots : tpm' = EmptyTPM(root, tpm.boots + 1, tpm.keys)
    /\ node' = Fresh(node.faults)
    /\ req' = [r \in Requests |->
                  IF req[r].at \in InProgress THEN [req[r] EXCEPT !.at = "lost"] ELSE req[r]]
    /\ UNCHANGED host

-----------------------------------------------------------------------------
(* Opening a request. The service has the values of its evidence: the policy   *)
(* session is refused when the registers are not at them. A command that fails *)
(* refuses the request, and the node goes on serving.                          *)
ReqTo(r, at) == req' = [req EXCEPT ![r].at = at]

\* generateHandler up to the start of the session; a request whose headers are
\* not right, or whose session cannot be started, is refused.
GenerateHandler(r, wellFormed) ==
    /\ At("serve") /\ req[r].at = "arrived"
    /\ IF wellFormed /\ Cardinality(tpm.sessions) < MaxSessions
       THEN /\ tpm' = [tpm EXCEPT !.sessions = @ \cup {r}]
            /\ ReqTo(r, "policy")
       ELSE ReqTo(r, "refused") /\ UNCHANGED tpm
    /\ UNCHANGED <<host, node>>

\* PolicyPCR; when it fails the session is not closed.
PCRPolicySession(r) ==
    /\ At("serve") /\ req[r].at = "policy"
    /\ IF node.ev.values = Pcrs
       THEN req' = [req EXCEPT ![r].at = "zgen", ![r].counter = tpm.model]
       ELSE ReqTo(r, "unreadable")
    /\ UNCHANGED <<host, tpm, node>>

CommandFails ==
    /\ node.faults > 0
    /\ node' = [node EXCEPT !.faults = @ - 1]

\* Another error of PolicyPCR leaves the session open as well.
PolicyPCRFails(r) ==
    /\ At("serve") /\ req[r].at = "policy"
    /\ CommandFails
    /\ req' = [req EXCEPT ![r].at = "refused", ![r].fault = TRUE]
    /\ UNCHANGED <<host, tpm>>

UsableAtAnyCount(r) ==
    tpm.child = node.ev.public /\ tpm.child.policy = node.ev.values

\* The TPM uses the key at the child handle when it is the one named, the
\* session meets its policy and no register has changed since the session did.
Usable(r) ==
    /\ tpm.child = node.ev.public /\ tpm.child.policy = node.ev.values
    /\ tpm.model = req[r].counter

DecapsulatePrimary(r) == req[r].ev.public.id = tpm.primary.id

\* The secret is the sender's when the request was sealed to this very key.
Decapsulate(r) == req[r].ev.public.id = tpm.child.id

Setup(r) == Usable(r) /\ Decapsulate(r)

\* A request sealed to another key fails to decrypt.
Opened(r) ==
    IF Setup(r) THEN [req[r] EXCEPT !.at = "open", !.under = Pcrs]
    ELSE [req[r] EXCEPT !.at = "unreadable"]

ECDHZGenKeepsSession(r) ==
    /\ At("serve") /\ req[r].at = "zgen"
    /\ req' = [req EXCEPT ![r] = Opened(r)]
    /\ UNCHANGED <<host, node, tpm>>

\* The session is closed either way.
ECDHZGen(r) ==
    /\ At("serve") /\ req[r].at = "zgen"
    /\ req' = [req EXCEPT ![r] = Opened(r)]
    /\ tpm' = [tpm EXCEPT !.sessions = @ \ {r}]
    /\ UNCHANGED <<host, node>>

ECDHZGenFails(r) ==
    /\ At("serve") /\ req[r].at = "zgen"
    /\ CommandFails
    /\ ReqTo(r, "refused")
    /\ tpm' = [tpm EXCEPT !.sessions = @ \ {r}]
    /\ UNCHANGED host

\* The error of the deferred cleanup is joined to a result nobody returns: the
\* request goes on, and the session stays.
CleanupFails(r) ==
    /\ At("serve") /\ req[r].at = "zgen"
    /\ CommandFails
    /\ req' = [req EXCEPT ![r] = [Opened(r) EXCEPT !.fault = TRUE]]
    /\ UNCHANGED <<host, tpm>>
=============================================================================
