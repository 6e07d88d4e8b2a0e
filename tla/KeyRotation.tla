----------------------------- MODULE KeyRotation -----------------------------
(* The keys of the OHTTP gateway (keyrotation/period.go, gateway/): a key has  *)
(* an id and a period [from, until] in which the gateway accepts it; a client  *)
(* picks one key when it is created and keeps it. Where the periods come from  *)
(* is left open: the ends of one period say nothing about those of another.    *)
(* What the gateway forwards depends on the key's validity and the endpoints.  *)
EXTENDS Integers

IsExpired(p, now) == now > p.until

\* The period is open at its start and closed at its end: a key is not active at the instant it is
\* activated, and still is at the instant it expires.
IsActive(p, now) == now > p.from /\ ~IsExpired(p, now)

\* What is left of the rotation periods once those not yet or no longer active
\* are deleted.
ValidKeys(periods, now) == {p \in periods : IsActive(p, now)}

\* The most recently activated key, here with the key id it is looked up by
\* among the key configs; no candidate when the lookup fails.
DesiredKeys(periods, configs, now) ==
    {p \in ValidKeys(periods, now) :
        /\ \A q \in ValidKeys(periods, now) : q.from <= p.from
        /\ p.id \in configs}

\* The gateway tries its key pairs in turn: one that has the header's key id
\* and is active is used.
FindSecretKey(keyPairs, id, now) ==
    {p \in keyPairs : p.id = id /\ IsActive(p, now)}

\* limitEndpointsMiddleware and ValidRequest: what is proxied, and where to.
Endpoints ==
    {"bank"} \X {"deposit", "exchange", "withdraw", "withdraw-full", "balance"}
    \cup {"router"} \X {"ping", "compute-manifests", "/"}

Forwarded(keyPairs, id, host, path, now) ==
    /\ FindSecretKey(keyPairs, id, now) # {}
    /\ <<host, path>> \in Endpoints
=============================================================================
