----------------------------- MODULE Transparency -----------------------------
(* Statements signed into a public transparency log, and the file store that   *)
(* keeps the bundles: CachingSigner, BundleImporter, StatementFinder, FSStore. *)
(*                                                                             *)
(* A bundle is the number of its log entry, which is its time stamp as well;   *)
(* a file can also hold no bytes or the bytes of two bundles. Data (Sign) and  *)
(* statements (SignStatement) share the store under different keys.            *)
EXTENDS Integers, Sequences, FiniteSets, SequencesExt, TLC

CONSTANTS Procs,                \* goroutines and processes that use the store
          MaxCacheableSubjects, \* 10 in the code
          Tasks,                \* the assignments of tasks to Procs to explore
          Log0,                 \* the log before anyone starts
          MaxLog                \* bound: entries of the log

VARIABLES log,     \* the transparency log
          store,   \* the files: key -> content, for the keys that exist
          tasks,   \* what each process is about to do, and how they may fail
          call     \* how far each process is

transparencyVars == <<log, store, tasks, call>>

Empty   == -1
Garbled == -2

Us == "release"   \* the identity the policy asks for

-----------------------------------------------------------------------------
(* Statements. The subjects are in the order of a Go map iteration.            *)
Subject(n, d) == [name |-> n, digest |-> d]

NewStatement(type, subjects, predicate) ==
    [type |-> type, subjects |-> subjects, predicate |-> predicate]

Validate(s) ==
    /\ s.subjects # <<>>
    /\ \A i, j \in DOMAIN s.subjects :
          i # j => s.subjects[i].name # s.subjects[j].name
    /\ s.type # ""

\* The statement of an image names the artifact and carries the manifest, here
\* the root hash of its kernel command line.
FromImageManifest(artifact, root) ==
    NewStatement("image-manifest", <<Subject("image-manifest", artifact)>>,
                 [imageManifest |-> [artifact |-> artifact, root |-> root]])

FromOHTTPKeyConfigs(keys, periods, order) ==
    NewStatement("ohttp-keys",
        IF order = 1
        THEN <<Subject("ohttp-keys", keys), Subject("key-rotation-periods", periods)>>
        ELSE <<Subject("key-rotation-periods", periods), Subject("ohttp-keys", keys)>>,
        [ohttpKeys |-> keys, keyRotationPeriods |-> periods])

FromJWK(key) ==
    NewStatement("public-key", <<Subject("jwk", key)>>, [jwkRaw |-> key])

\* What a build says of pull requests and branches is blanked.
FromSLSA02ProvenanceStatement(subjects, invocation) ==
    NewStatement("slsa", subjects,
                 [invocation |-> [builder |-> invocation.builder, event |-> ""]])

FirstSubjectKey(s) ==
    <<s.type, IF s.subjects = <<>> THEN {} ELSE {Head(s.subjects)}, s.predicate>>

\* Two statements have one key when they say the same of the same subjects, in
\* whatever order. Data has its own keys.
NewStatementBundleKey(s) == <<s.type, ToSet(s.subjects), s.predicate>>

Keyable(s) ==
    s.type = "data" \/ (Validate(s) /\ Len(s.subjects) <= MaxCacheableSubjects)

-----------------------------------------------------------------------------
(* Verifying a bundle: it has to parse, be in the log, be signed by the        *)
(* identity asked for and, for these calls, hold a statement.                  *)
VerifyAnyIdentity(b) == b > 0 /\ log[b].statement.type # "data"

VerifyStatementIntegrity(b) ==
    b > 0 /\ log[b].by = Us /\ log[b].statement.type # "data"

\* The data in the predicate has to be one of the signed subjects.
VerifyStatement(b, data) ==
    /\ VerifyStatementIntegrity(b)
    /\ data \in {s.digest : s \in ToSet(log[b].statement.subjects)}

VerifyImageManifestBundle(b) ==
    /\ VerifyStatementIntegrity(b)
    /\ LET s == log[b].statement
       IN  /\ Validate(s) /\ s.type = "image-manifest"
           /\ VerifyStatement(b, s.predicate.imageManifest.artifact)

ToOHTTPKeyConfigs(b) ==
    /\ VerifyStatementIntegrity(b)
    /\ LET s == log[b].statement
       IN  /\ s.type = "ohttp-keys" /\ VerifyStatement(b, s.predicate.ohttpKeys)
           /\ ToSet(s.subjects) = {Subject("ohttp-keys", s.predicate.ohttpKeys),
                                   Subject("key-rotation-periods", s.predicate.keyRotationPeriods)}

ToRSAPublicKey(b) ==
    /\ VerifyStatementIntegrity(b)
    /\ LET s == log[b].statement
       IN  /\ Validate(s) /\ s.type = "public-key"
           /\ s.subjects = <<Subject("jwk", s.predicate.jwkRaw)>>

ToSLSA02ProvenanceStatement(b) ==
    VerifyStatementIntegrity(b) /\ Validate(log[b].statement) /\ log[b].statement.type = "slsa"

\* How the reader of a statement of each type checks and reads it.
ReadableAs(type, b) ==
    CASE type = "image-manifest" -> VerifyImageManifestBundle(b)
      [] type = "ohttp-keys"     -> ToOHTTPKeyConfigs(b)
      [] type = "public-key"     -> ToRSAPublicKey(b)
      [] OTHER                   -> ToSLSA02ProvenanceStatement(b)

-----------------------------------------------------------------------------
(* The processes. A process that runs serially starts when the others are done.*)
NoCall == [at |-> "idle", held |-> 0, seen |-> <<>>, must |-> {}]

Ended == {"done", "failed", "crashed"}

TransparencyInit ==
    /\ log = Log0
    /\ store = <<>>
    /\ tasks \in Tasks
    /\ call = [p \in Procs |-> NoCall]

Task(p) == tasks.of[p]

To(p, at) == call' = [call EXCEPT ![p].at = at]

KeyOf(p) == NewStatementBundleKey(
    IF Task(p).op = "import" THEN log[Task(p).bundle].statement ELSE Task(p).statement)

\* The importer verifies the bundle before it makes a key.
Start(p) ==
    /\ call[p].at = "idle" /\ Task(p).op # "none"
    /\ tasks.serial => \A q \in Procs \ {p} : call[q].at \in Ended \cup {"idle"}
    /\ CASE Task(p).op = "list" ->
              call' = [call EXCEPT ![p].at = "walk", ![p].must = DOMAIN store]
         [] Task(p).op = "import" ->
              To(p, IF VerifyStatementIntegrity(Task(p).bundle)
                       /\ Keyable(log[Task(p).bundle].statement) THEN "lookup" ELSE "failed")
         [] OTHER -> To(p, IF Keyable(Task(p).statement) THEN "lookup" ELSE "failed")
    /\ UNCHANGED <<log, store, tasks>>

\* What a file can be read as: while it is written, also a mixture.
Writing(k) == \E q \in Procs : call[q].at = "copy" /\ KeyOf(q) = k

Reads(k) == {store[k]} \cup (IF Writing(k) THEN {Garbled} ELSE {})

LookupAlwaysMisses(p) ==
    /\ call[p].at = "lookup" /\ Task(p).op # "find"
    /\ To(p, IF Task(p).op = "sign" THEN "sign" ELSE "create")
    /\ UNCHANGED <<log, store, tasks>>

\* FindByKey. The signer returns what it finds, unseen; the importer compares
\* it to what it imports; the finder verifies it.
FindByKey(p) ==
    /\ call[p].at = "lookup"
    /\ IF KeyOf(p) \notin DOMAIN store
       THEN To(p, CASE Task(p).op = "sign"   -> "sign"
                    [] Task(p).op = "import" -> "create"
                    [] OTHER                 -> "failed")
       ELSE \E b \in Reads(KeyOf(p)) :
              call' = [call EXCEPT
                 ![p].held = b,
                 ![p].at = CASE Task(p).op = "sign"   -> "done"
                             [] Task(p).op = "import" ->
                                  IF b = Task(p).bundle THEN "done" ELSE "failed"
                             [] OTHER -> IF VerifyStatementIntegrity(b) THEN "done" ELSE "failed"]
    /\ UNCHANGED <<log, store, tasks>>

\* Signing adds an entry to the log, which can never be taken back; the call
\* may fail before and after that.
Sign(p, entered, ok) ==
    /\ call[p].at = "sign"
    /\ ok \/ tasks.faults > 0   \* bound: faults
    /\ ok => entered
    /\ entered => Len(log) < MaxLog
    /\ log' = IF entered THEN Append(log, [statement |-> Task(p).statement, by |-> Us]) ELSE log
    /\ call' = [call EXCEPT ![p].at = IF ok THEN "create" ELSE "failed",
                            ![p].held = IF ok THEN Len(log) + 1 ELSE 0]
    /\ tasks' = IF ok THEN tasks ELSE [tasks EXCEPT !.faults = @ - 1]
    /\ UNCHANGED store

Bundle(p) == IF Task(p).op = "import" THEN Task(p).bundle ELSE call[p].held

\* Insert: os.Create truncates a file that is there.
Create(p) ==
    /\ call[p].at = "create"
    /\ store' = (KeyOf(p) :> Empty) @@ store
    /\ To(p, "copy")
    /\ UNCHANGED <<log, tasks>>

\* io.Copy writes from the start of the file: when another writer has filled it
\* since it was truncated, the end of a longer bundle stays.
Copy(p) ==
    /\ call[p].at = "copy"
    /\ \E c \in {Bundle(p)} \cup (IF store[KeyOf(p)] = Empty THEN {} ELSE {Garbled}) :
         store' = [store EXCEPT ![KeyOf(p)] = c]
    /\ call' = [call EXCEPT ![p].at = "done", ![p].held = Bundle(p)]
    /\ UNCHANGED <<log, tasks>>

\* Insert fails, or the process dies, before or after the file was created.
\* Nothing takes the file away.
InsertFails(p, crash) ==
    /\ call[p].at \in {"create", "copy"}
    /\ tasks.faults > 0
    /\ tasks' = [tasks EXCEPT !.faults = @ - 1]
    /\ To(p, IF crash THEN "crashed" ELSE "failed")
    /\ UNCHANGED <<log, store>>

\* The pattern of a StatementBundleQuery, each part of which may be left out.
Matches(p, k) ==
    /\ k[1] # "data"
    /\ Task(p).type \in {"", k[1]}
    /\ Task(p).digest \in {""} \cup {s.digest : s \in k[2]}

\* FindByGlob walks the files: those that were there are seen, those that
\* appear meanwhile may be.
Walk(p) ==
    /\ call[p].at = "walk"
    /\ \E k \in DOMAIN store :
         /\ Matches(p, k)
         /\ \A i \in DOMAIN call[p].seen : call[p].seen[i].key # k
         /\ \E b \in Reads(k) :
              call' = [call EXCEPT ![p].must = @ \ {k},
                                   ![p].seen = Append(@, [key |-> k, bundle |-> b])]
    /\ UNCHANGED <<log, store, tasks>>

Newer(x, y) == x.bundle > y.bundle
Older(x, y) == x.bundle < y.bundle

SortOldest(seen) == SortSeq(seen, Older)
SortNewest(seen) == SortSeq(seen, Newer)

\* FindStatements: one bundle that does not verify fails the call.
FindStatements(p) ==
    /\ call[p].at = "walk"
    /\ \A k \in call[p].must : ~Matches(p, k)
    /\ call' = [call EXCEPT
          ![p].seen = SortNewest(@),
          ![p].at = IF \A i \in DOMAIN call[p].seen :
                          VerifyStatementIntegrity(call[p].seen[i].bundle)
                    THEN "done" ELSE "failed"]
    /\ UNCHANGED <<log, store, tasks>>

TransparencyNext ==
    \E p \in Procs :
        \/ Start(p) \/ FindByKey(p) \/ Create(p) \/ Copy(p)
        \/ \E entered, ok \in BOOLEAN : Sign(p, entered, ok)
        \/ \E crash \in BOOLEAN : InsertFails(p, crash)
        \/ Walk(p) \/ FindStatements(p)

-----------------------------------------------------------------------------
(* Properties                                                                  *)

\* A statement found in the store was signed by the identity of the policy, is
\* about what was asked for and can be read by the reader of its type; a list
\* comes newest first. However writers race, fail or die, a finder fails rather
\* than return anything else.
FoundIsSigned ==
    \A p \in Procs : call[p].at = "done" =>
        /\ Task(p).op = "find" =>
              /\ call[p].held > 0 /\ log[call[p].held].by = Us
              /\ NewStatementBundleKey(log[call[p].held].statement) = KeyOf(p)
              /\ ReadableAs(Task(p).statement.type, call[p].held)
        /\ Task(p).op = "list" =>
              /\ \A i \in DOMAIN call[p].seen :
                    /\ call[p].seen[i].bundle > 0
                    /\ log[call[p].seen[i].bundle].by = Us
                    /\ ReadableAs(log[call[p].seen[i].bundle].statement.type, call[p].seen[i].bundle)
              /\ \A i, j \in DOMAIN call[p].seen :
                    i < j => call[p].seen[i].bundle > call[p].seen[j].bundle

\* Processes that follow one another and do not fail put a statement in the log
\* at most once, whatever the order its subjects come in: that is what the
\* store is kept for, as an entry can never be taken back.
SignedOnce ==
    (tasks.serial /\ tasks.reliable) =>
        \A i, j \in (Len(Log0) + 1)..Len(log) :
            (ToSet(log[i].statement.subjects) = ToSet(log[j].statement.subjects)
               /\ log[i].statement.predicate = log[j].statement.predicate) => i = j

\* A bundle once stored stays the stored one while writers follow one another,
\* even when one of them fails on the way: it is the identity that importers
\* compare to.
StoredStays ==
    [][tasks.serial => \A k \in DOMAIN store : store[k] > 0 => store'[k] = store[k]]_transparencyVars
=============================================================================
