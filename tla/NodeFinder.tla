------------------------------ MODULE NodeFinder ------------------------------
(* How the client finds the compute nodes a request may be sent to:            *)
(* CachedNodeFinder around simpleNodeFinder, with the auth client that sells   *)
(* the attestation token and, with the first credit, hands out the badge.      *)
(*                                                                             *)
(* A tag is the sequence of its parts between "|" signs, so that the string    *)
(* CachedNodeFinder joins from the sorted tags is the concatenation of them.   *)
EXTENDS Integers, Sequences, FiniteSets, SequencesExt, KeyRotation

CONSTANTS Requests,      \* requests made with the client
          Ui,            \* the caller of ListCachedVerifiedNodes
          Nodes,         \* compute nodes
          TagsOf,        \* the tags each node has
          MaxNodes,      \* maxCandidateNodes of the client
          ExpiresAfter,  \* lifetime of a cache entry, in ticks
          MaxCacheSize,  \* entries of the LRU cache
          MaxTries,      \* tries before the exponential backoff gives up
          MaxClock       \* bound: the clock stops here

ASSUME FinderAssumption ==
    /\ Ui \notin Requests
    /\ {MaxNodes, MaxCacheSize, MaxTries} \subseteq Nat \ {0}
    /\ {ExpiresAfter, MaxClock} \subseteq Nat

VARIABLES now,    \* time.Now
          key,    \* the OHTTP key the client was created with
          badge,  \* badge of the auth client: "nil", "empty" or "verified"
          cache,  \* the LRU cache, the entry used last at the end
          find    \* the FindVerifiedNodes call of each caller

finderVars == <<now, key, badge, cache, find>>

Callers == Requests \cup {Ui}

\* The largest list ListCachedVerifiedNodes asks for (100 in the code).
UiMaxNodes == Cardinality(Nodes)
MaxFor(c) == IF c = Ui THEN UiMaxNodes ELSE MaxNodes

NoFind == [at |-> "idle", tags |-> {}, nodes |-> {}, tries |-> 0]

\* sort.Strings on the parts: a proper prefix comes first.
TagLess(s, t) ==
    \E i \in 1..Len(t) :
        /\ \A j \in 1..(i - 1) : j <= Len(s) /\ s[j] = t[j]
        /\ i <= Len(s) => s[i] < t[i]

FirstTagKey(tags) == IF tags = {} THEN <<>> ELSE SetToSortSeq(tags, TagLess)[1]

NormalizedCacheKey(tags) == FlattenSeq(SetToSortSeq(tags, TagLess))

-----------------------------------------------------------------------------
(* The LRU cache: Get makes an entry the one used last, Add does so too and    *)
(* drops the one used longest ago when there are too many.                     *)
Without(k) == SelectSeq(cache, LAMBDA e : e.key # k)

EntriesOf(k) == {e \in ToSet(cache) : e.key = k}

CacheGet(k) == Without(k) \o SetToSeq(EntriesOf(k))

CacheAddUnbounded(e) == Append(Without(e.key), e)

CacheAdd(e) ==
    LET added == Append(Without(e.key), e)
    IN  IF Len(added) > MaxCacheSize THEN Tail(added) ELSE added

-----------------------------------------------------------------------------
(* doRetryingCreditRequest, for an attestation token or a credit: its answer   *)
(* carries a badge, which is read while none is known. Parsing fails after the *)
(* new badge has been stored, checking it fails before it is kept.             *)
CreditRequestNoBadge(ok) == ok \in BOOLEAN /\ UNCHANGED badge

CreditRequest(ok) ==
    \/ ~ok /\ UNCHANGED badge
    \/ ok /\ badge # "nil" /\ UNCHANGED badge
    \/ ok /\ badge = "nil" /\ badge' = "verified"

\* The request went through and still fails: the badge has a model twice, or
\* cannot be decoded.
CreditWithoutBadge(why) ==
    /\ badge = "nil"
    /\ badge' = IF why = "garbled" THEN "empty" ELSE "nil"

StartFind(c, tags) == [NoFind EXCEPT !.at = "lookup", !.tags = tags]

\* A hit gives the cached nodes in a random order; anything else goes on to ask.
Lookup(c) ==
    /\ find[c].at = "lookup"
    /\ LET k    == NormalizedCacheKey(find[c].tags)
           hits == {e \in EntriesOf(k) : e.expires >= now}
       IN  /\ cache' = CacheGet(k)
           /\ find' = [find EXCEPT ![c] =
                 IF hits = {} THEN [@ EXCEPT !.at = "token"]
                 ELSE [@ EXCEPT !.at = "done", !.nodes = (CHOOSE e \in hits : TRUE).nodes]]
    /\ UNCHANGED <<now, key, badge>>

FindTo(c, at) == find' = [find EXCEPT ![c].at = at]

GetAttestationToken(c) ==
    /\ find[c].at = "token"
    /\ \/ CreditRequest(TRUE) /\ FindTo(c, "manifests")
       \/ CreditRequest(FALSE) /\ FindTo(c, "failed")
       \/ \E why \in {"duplicate", "garbled"} :
             CreditWithoutBadge(why) /\ FindTo(c, "failed")
    /\ UNCHANGED <<now, key, cache>>

\* The router lists nodes that have all the tags, at most as many as asked for;
\* those whose evidence does not verify are skipped. No node at all is retried
\* from the token on until the backoff gives up.
Manifests(c) ==
    /\ find[c].at = "manifests"
    /\ Forwarded({key}, key.id, "router", "compute-manifests", now)
    /\ \E vs \in SUBSET {n \in Nodes : find[c].tags \subseteq TagsOf[n]} :
         /\ Cardinality(vs) <= MaxFor(c)
         /\ find' = [find EXCEPT ![c] =
               IF vs # {} THEN [@ EXCEPT !.at = "store", !.nodes = vs, !.tries = 0]
               ELSE [@ EXCEPT !.tries = @ + 1,
                              !.at = IF find[c].tries + 1 < MaxTries THEN "token" ELSE "failed"]]
    /\ UNCHANGED <<now, key, badge, cache>>

\* Any error of the request is permanent: refused by the gateway, a status
\* other than 200, an answer that cannot be decoded.
ManifestsFail(c) ==
    /\ find[c].at = "manifests"
    /\ FindTo(c, "failed")
    /\ UNCHANGED <<now, key, badge, cache>>

\* The entry is dated when it is stored, not when its nodes were verified.
Store(c) ==
    /\ find[c].at = "store"
    /\ cache' = CacheAdd([key |-> NormalizedCacheKey(find[c].tags),
                          nodes |-> find[c].nodes, expires |-> now + ExpiresAfter])
    /\ FindTo(c, "done")
    /\ UNCHANGED <<now, key, badge>>

ListCachedVerifiedNodes ==
    /\ find[Ui].at = "idle"
    /\ find' = [find EXCEPT ![Ui] = StartFind(Ui, {})]
    /\ UNCHANGED <<now, key, badge, cache>>

FinderStep(c) ==
    \/ Lookup(c)
    \/ GetAttestationToken(c)
    \/ Manifests(c)
    \/ ManifestsFail(c)
    \/ Store(c)
=============================================================================
