-------------------------------- MODULE Client --------------------------------
(* The openpcc client (client.go) and its C API (main/): requests that pay     *)
(* with a credit of the wallet, are sent through the OHTTP gateway to a node   *)
(* that was verified before, and get what they did not spend back in a trailer *)
(* of the response; handles for clients, responses and streams on top of them. *)
(*                                                                             *)
(* The wallet is the one Wallet models, reduced to its interface: a payment is *)
(* granted, refused, or given up by its caller and returned later, and Close   *)
(* waits for every payment that was begun. When a step of the wallet's         *)
(* pipeline fails, payments are also answered with an error, or not at all,    *)
(* and a credit handed back may wait for ever to be taken.                     *)
EXTENDS NodeFinder

CONSTANTS Periods,       \* the rotation periods the auth service publishes
          KeyConfigs,    \* the ids of the key configs it publishes
          DefaultTags,   \* the default tags the client is created with
          TagChoices,    \* the tags SetDefaultNodeTags is called with
          HeaderTags,    \* the tags a request asks for in its own header
          PingAttempts,  \* attempts of pingRouter
          Destroyers,    \* callers of Confsec_ClientDestroy
          Scenarios,     \* bound: who takes part, [requests, ui, tags, streams, destroyers,
                         \* ticks, breaks]
          HonestRouter   \* whether answers name a candidate and refunds parse

ASSUME ClientAssumption ==
    PingAttempts \in Nat \ {0} /\ HonestRouter \in BOOLEAN

VARIABLES scene,    \* the scenario of this behaviour
          client,   \* the client's handle: "none", "pinging", "failed", "live", "gone"
          pings,    \* attempts pingRouter has made
          defaults, \* the default node tags, params.NodeTags
          wallet,   \* "open", "closing", "closed"
          pipe,     \* the wallet's pipeline: "ok", or "broken" once a step of it failed
          wg,       \* paymentsWG of the wallet
          req,      \* a RoundTrip per request, and the body of its response
          refund,   \* the threads of a request inside doRefund, with the trailer each saw
          handle,   \* the response's handle in the C API
          stream,   \* the response's stream in the C API
          destroy   \* the calls of Confsec_ClientDestroy

lifeVars == <<scene, client, pings, defaults, pipe>>
apiVars == <<handle, stream, destroy>>
clientVars == <<lifeVars, wallet, wg, req, refund, apiVars>>
vars == <<finderVars, clientVars>>

\* A response body can be read and closed by two threads at once.
Threads == {"read", "close"}
Trailers == {"none", "refund", "bad"}

NewRequest == [stage |-> "idle", pay |-> "none", trailer |-> "none",
               eof |-> FALSE, cut |-> FALSE, refunded |-> FALSE, closed |-> FALSE]

NoKey == [id |-> 0, from |-> 0, until |-> 0, chosen |-> 0]

Init ==
    /\ now = 0
    /\ key = NoKey
    /\ badge = "nil"
    /\ cache = <<>>
    /\ find = [c \in Callers |-> NoFind]
    /\ scene \in Scenarios
    /\ client = "none"
    /\ pings = 0
    /\ defaults = DefaultTags
    /\ wallet = "open"
    /\ pipe = "ok"
    /\ wg = 0
    /\ req = [r \in Requests |-> NewRequest]
    /\ refund = [r \in Requests |-> [t \in Threads |-> "no"]]
    /\ handle = [r \in Requests |-> "none"]
    /\ stream = [r \in Requests |-> "none"]
    /\ destroy = [d \in Destroyers |-> "idle"]

-----------------------------------------------------------------------------
(* NewFromConfig. *)

\* The OHTTP transport is built for the key chosen now; without one there is no
\* client. The checks of the configuration come first and fail alike.
NewFromConfig ==
    /\ client = "none"
    /\ \/ /\ DesiredKeys(Periods, KeyConfigs, now) = {}
          /\ client' = "failed"
          /\ UNCHANGED key
       \/ \E p \in DesiredKeys(Periods, KeyConfigs, now) :
             /\ key' = [id |-> p.id, from |-> p.from, until |-> p.until, chosen |-> now]
             /\ client' = "pinging"
    /\ UNCHANGED <<now, badge, cache, find, scene, pings, defaults, pipe, wallet, wg, req, refund, apiVars>>

\* pingRouter: an answer ends it, a client error ends it in failure, anything
\* else is retried while attempts are left.
PingRouter(outcome) ==
    /\ client = "pinging"
    /\ outcome = "pong" => Forwarded({key}, key.id, "router", "ping", now)
    /\ client' = CASE outcome = "pong" -> "live"
                   [] outcome = "4xx"  -> "failed"
                   [] OTHER            -> IF pings + 1 = PingAttempts THEN "failed" ELSE "pinging"
    /\ pings' = IF client' = "pinging" THEN pings + 1 ELSE 0
    /\ UNCHANGED <<finderVars, scene, defaults, pipe, wallet, wg, req, refund, apiVars>>

\* The tags are assigned before they are checked: they stay when the call
\* returns an error (a model that is unknown, or more than one).
SetDefaultNodeTags(tags) ==
    /\ client = "live"
    /\ "default" \in scene.tags
    /\ defaults' = tags
    /\ UNCHANGED <<finderVars, scene, client, pings, pipe, wallet, wg, req, refund, apiVars>>

-----------------------------------------------------------------------------
(* The payment of a request: wallet/payment.go as the client uses it. *)

\* Begun, and not completed: still possible, or no longer, because the answer
\* was an error or the credit handed back is not taken.
Outstanding ==
    {r \in Requests : req[r].pay \in {"asked", "held", "dangling", "errored", "stuck"}}
Lost == {r \in Requests : req[r].pay \in {"errored", "stuck"}}

ReleasedAgain(r) == 1

\* Success and Cancel: whoever completes the payment first counts, and the
\* wallet's wait group is released then and only then.
Complete(r, how) == IF req[r].pay = "held" THEN how ELSE req[r].pay
Released(r) == IF req[r].pay = "held" THEN 1 ELSE 0

\* BeginPayment takes the close mutex shared: it waits while the wallet closes,
\* and is refused by a closed wallet.
BeginPayment(r) ==
    /\ req[r].pay = "wanted"
    /\ \/ /\ wallet = "open"
          /\ req' = [req EXCEPT ![r].pay = "asked"]
          /\ wg' = wg + 1
       \/ /\ wallet = "closed"
          /\ req' = [req EXCEPT ![r].pay = "refused"]
          /\ UNCHANGED wg
    /\ UNCHANGED <<finderVars, lifeVars, wallet, refund, apiVars>>

\* A step of the wallet's pipeline returns an error, which shuts the others down.
PipelineFails ==
    /\ scene.breaks
    /\ wallet # "closed"
    /\ pipe = "ok"
    /\ pipe' = "broken"
    /\ UNCHANGED <<finderVars, scene, client, pings, defaults, wallet, wg, req, refund, apiVars>>

\* Payments are not taken back any more: complete waits for the pipeline to
\* take the credit, with the payment's mutex held and no context to end it.
HandingBackHangs(r) == pipe = "broken" /\ req[r].pay = "held"

\* The wallet answers, or the caller's context ends: before the request is
\* enqueued, which releases the wait group, or after, which leaves the answer
\* to waitForDanglingResponse. An error as an answer does not release it.
PaymentAnswered(r) ==
    /\ req[r].pay = "asked"
    /\ \/ /\ \E a \in {"held", "dangling"} : req' = [req EXCEPT ![r].pay = a]
          /\ UNCHANGED wg
       \/ /\ req' = [req EXCEPT ![r].pay = "refused"]
          /\ wg' = wg - 1
       \/ /\ pipe = "broken"
          /\ req' = [req EXCEPT ![r].pay = "errored"]
          /\ UNCHANGED wg
    /\ UNCHANGED <<finderVars, lifeVars, wallet, refund, apiVars>>

DanglingAnsweredLeaks(r) ==
    /\ req[r].pay = "dangling"
    /\ req' = [req EXCEPT ![r].pay = "returned"]
    /\ UNCHANGED <<finderVars, lifeVars, wallet, wg, refund, apiVars>>

\* waitForDanglingResponse: the credit goes back to the wallet; an error ends
\* it, and so does a pipeline that no longer takes credits.
DanglingAnswered(r) ==
    /\ req[r].pay = "dangling"
    /\ \/ /\ req' = [req EXCEPT ![r].pay = "returned"]
          /\ wg' = wg - 1
       \/ /\ pipe = "broken"
          /\ \E a \in {"errored", "stuck"} : req' = [req EXCEPT ![r].pay = a]
          /\ UNCHANGED wg
    /\ UNCHANGED <<finderVars, lifeVars, wallet, refund, apiVars>>

-----------------------------------------------------------------------------
(* RoundTrip. *)

\* Confsec_ClientDoRequest looks the client up and calls RoundTrip. A request
\* that fails the checks of scheme, host, tags and amount ends before anything
\* is asked for; otherwise payment and nodes are asked for at the same time.
StartRequest(r) ==
    /\ client = "live"
    /\ r \in scene.requests
    /\ req[r].stage = "idle"
    /\ \E tags \in {defaults} \cup (IF "header" \in scene.tags THEN HeaderTags ELSE {}) :
          find' = [find EXCEPT ![r] = StartFind(r, tags)]
    /\ req' = [req EXCEPT ![r].stage = "resources", ![r].pay = "wanted"]
    /\ UNCHANGED <<now, key, badge, cache, lifeVars, wallet, wg, refund, apiVars>>

RejectRequest(r) ==
    /\ client = "live"
    /\ r \in scene.requests
    /\ req[r].stage = "idle"
    /\ req' = [req EXCEPT ![r].stage = "failed"]
    /\ UNCHANGED <<finderVars, lifeVars, wallet, wg, refund, apiVars>>

\* RoundTrip returns an error after it has cancelled the payment it holds,
\* unless that hangs.
FailRequest(r) ==
    \/ /\ req' = [req EXCEPT ![r].stage = "failed", ![r].pay = Complete(r, "returned")]
       /\ wg' = wg - Released(r)
    \/ /\ HandingBackHangs(r)
       /\ req' = [req EXCEPT ![r].stage = "hung", ![r].pay = "stuck"]
       /\ UNCHANGED wg

\* BeginPayment has returned: with a payment or with an error.
PaymentAsked(r) == req[r].pay \notin {"wanted", "asked"}

RequestResourcesFirst(r) ==
    /\ req[r].stage = "resources"
    /\ \/ find[r].at = "failed"
       \/ PaymentAsked(r) /\ find[r].at = "done"
    /\ IF find[r].at = "done" /\ req[r].pay = "held"
       THEN req' = [req EXCEPT ![r].stage = "badge"] /\ UNCHANGED wg
       ELSE FailRequest(r)
    /\ find' = [find EXCEPT ![r] = NoFind]
    /\ UNCHANGED <<now, key, badge, cache, lifeVars, wallet, refund, apiVars>>

RequestResourcesBoth(r) ==
    /\ req[r].stage = "resources"
    /\ req[r].pay = "held" /\ find[r].at = "done"
    /\ req' = [req EXCEPT ![r].stage = "badge"]
    /\ find' = [find EXCEPT ![r] = NoFind]
    /\ UNCHANGED <<now, key, badge, cache, lifeVars, wallet, wg, refund, apiVars>>

\* requestResources waits for both answers before it looks at either.
RequestResources(r) ==
    /\ req[r].stage = "resources"
    /\ PaymentAsked(r)
    /\ find[r].at \in {"done", "failed"}
    /\ IF find[r].at = "done" /\ req[r].pay = "held"
       THEN req' = [req EXCEPT ![r].stage = "badge"] /\ UNCHANGED wg
       ELSE FailRequest(r)
    /\ find' = [find EXCEPT ![r] = NoFind]
    /\ UNCHANGED <<now, key, badge, cache, lifeVars, wallet, refund, apiVars>>

\* GetBadge: a badge that is known is used as it is, else a token is requested
\* for the badge that comes with it.
GetBadge(r) ==
    /\ req[r].stage = "badge"
    /\ \/ /\ badge # "nil" \/ CreditRequest(TRUE)
          /\ badge # "nil" => UNCHANGED badge
          /\ req' = [req EXCEPT ![r].stage = "send"]
          /\ UNCHANGED wg
       \/ /\ badge = "nil"
          /\ \/ CreditRequest(FALSE)
             \/ \E why \in {"duplicate", "garbled"} : CreditWithoutBadge(why)
          /\ FailRequest(r)
    /\ UNCHANGED <<now, key, cache, find, lifeVars, wallet, refund, apiVars>>

\* No answer, or one with a status other than 200: the whole credit goes back
\* to the wallet, whether or not the router has spent it.
RouterFails(r) ==
    /\ req[r].stage = "send"
    /\ FailRequest(r)
    /\ UNCHANGED <<finderVars, lifeVars, wallet, refund, apiVars>>

\* A 200: the credit is spent, and the body becomes a refundReader. The node's
\* id is read from a header; an id that does not parse closes the body, one
\* that is no candidate returns an error with the body left open. Decapsulating
\* the response may fail, which closes the body too.
RouterAnswers(r) ==
    /\ req[r].stage = "send"
    /\ Forwarded({key}, key.id, "router", "/", now)
    /\ \E tr \in IF HonestRouter THEN {"none", "refund"} ELSE Trailers :
       \E how \in {"ok", "undecodable"} \cup (IF HonestRouter THEN {} ELSE {"not a candidate"}) :
         IF how = "not a candidate"
         THEN FailRequest(r)
         ELSE /\ req' = [req EXCEPT ![r].trailer = tr,
                                    ![r].stage = IF how = "ok" THEN "open" ELSE "closing"]
              /\ UNCHANGED wg
    /\ handle' = [handle EXCEPT ![r] = IF req'[r].stage = "open" THEN "live" ELSE @]
    /\ UNCHANGED <<finderVars, lifeVars, wallet, refund, stream, destroy>>

\* After the deferred Close, RoundTrip cancels what is still not completed.
EndClosing(r) ==
    /\ req[r].stage = "closing"
    /\ req[r].closed
    /\ refund[r]["close"] = "no"
    /\ FailRequest(r)
    /\ UNCHANGED <<finderVars, lifeVars, wallet, refund, apiVars>>

-----------------------------------------------------------------------------
(* refundReader: the body of a response. *)

\* doRefund reads the flag first and sets it later: two threads can both find
\* it unset.
EnterRefund(r, t, seen) ==
    refund' = IF req[r].refunded THEN refund ELSE [refund EXCEPT ![r][t] = seen]

\* A read meets the end of the body.
ReadEOF(r) ==
    /\ req[r].stage = "open"
    /\ handle[r] = "live" \/ stream[r] \in {"live", "gone"}
    /\ ~req[r].eof /\ ~req[r].cut
    /\ refund[r]["read"] = "no"
    /\ req' = [req EXCEPT ![r].eof = TRUE]
    /\ EnterRefund(r, "read", req[r].trailer)
    /\ UNCHANGED <<finderVars, lifeVars, wallet, wg, apiVars>>

CloseWithoutDrain(r) ==
    /\ req[r].stage \in {"open", "closing"}
    /\ ~req[r].closed
    /\ req' = [req EXCEPT ![r].closed = TRUE]
    /\ EnterRefund(r, "close", IF req[r].eof THEN req[r].trailer ELSE "none")

\* Close drains what is left so that the trailers arrive; the connection may
\* break first. Closing twice does nothing.
CloseBody(r) ==
    /\ req[r].stage \in {"open", "closing"}
    /\ ~req[r].closed
    /\ \E cut \in {FALSE, ~req[r].eof} :
         /\ req' = [req EXCEPT ![r].closed = TRUE, ![r].cut = cut, ![r].eof = ~cut]
         /\ EnterRefund(r, "close", IF cut THEN "none" ELSE req[r].trailer)

\* The flag is set, the trailer parsed and the payment completed. A refund that
\* does not parse ends here with the payment not completed.
DoRefund(r, t) ==
    /\ refund[r][t] # "no"
    /\ refund' = [refund EXCEPT ![r][t] = "no"]
    /\ IF refund[r][t] = "bad"
       THEN req' = [req EXCEPT ![r].refunded = TRUE] /\ UNCHANGED wg
       ELSE /\ req[r].pay # "stuck"
            /\ req' = [req EXCEPT ![r].refunded = TRUE,
                  ![r].pay = Complete(r, IF refund[r][t] = "refund" THEN "refunded" ELSE "kept")]
            /\ wg' = wg - Released(r)
    /\ UNCHANGED <<finderVars, lifeVars, wallet, apiVars>>

\* The refund is not taken: the thread stays in Success, with the mutex.
RefundHangs(r, t) ==
    /\ refund[r][t] = "refund"
    /\ HandingBackHangs(r)
    /\ req' = [req EXCEPT ![r].refunded = TRUE, ![r].pay = "stuck"]
    /\ UNCHANGED <<finderVars, lifeVars, wallet, wg, refund, apiVars>>

CloseUndecodable(r) ==
    /\ req[r].stage = "closing"
    /\ CloseBody(r)
    /\ UNCHANGED <<finderVars, lifeVars, wallet, wg, apiVars>>

-----------------------------------------------------------------------------
(* The C API: responses and streams are registered under handles of their own, *)
(* and either can be destroyed while the other is in use.                      *)

\* resp.close() under the response's mutex.
CloseResponse(r) ==
    IF req[r].closed THEN UNCHANGED <<req, refund>> ELSE CloseBody(r)

ResponseGetStream(r) ==
    /\ handle[r] = "live"
    /\ scene.streams
    /\ stream[r] = "none"
    /\ stream' = [stream EXCEPT ![r] = "live"]
    /\ UNCHANGED <<finderVars, lifeVars, wallet, wg, req, refund, handle, destroy>>

\* The stream is at its end: the response is closed and the stream marked done.
StreamEnds(r) ==
    /\ stream[r] = "live"
    /\ req[r].eof /\ refund[r]["read"] = "no"
    /\ CloseResponse(r)
    /\ stream' = [stream EXCEPT ![r] = "done"]
    /\ UNCHANGED <<finderVars, lifeVars, wallet, wg, handle, destroy>>

ResponseStreamDestroy(r) ==
    /\ stream[r] \in {"live", "done"}
    /\ CloseResponse(r)
    /\ stream' = [stream EXCEPT ![r] = "gone"]
    /\ UNCHANGED <<finderVars, lifeVars, wallet, wg, handle, destroy>>

ResponseDestroy(r) ==
    /\ handle[r] = "live"
    /\ CloseResponse(r)
    /\ handle' = [handle EXCEPT ![r] = "gone"]
    /\ UNCHANGED <<finderVars, lifeVars, wallet, wg, stream, destroy>>

\* Confsec_ClientDestroy: the first caller closes the wallet and holds its
\* mutex, any other waits for the mutex and finds it closed.
ClientDestroy(d) ==
    /\ client = "live"
    /\ d \in scene.destroyers
    /\ destroy[d] = "idle"
    /\ destroy' = [destroy EXCEPT ![d] = "waiting"]
    /\ UNCHANGED <<finderVars, lifeVars, wallet, wg, req, refund, handle, stream>>

CloseWallet(d) ==
    /\ destroy[d] = "waiting"
    /\ wallet = "open"
    /\ wallet' = "closing"
    /\ destroy' = [destroy EXCEPT ![d] = "closing"]
    /\ UNCHANGED <<finderVars, lifeVars, wg, req, refund, handle, stream>>

EndDestroyAtOnce(d) ==
    /\ destroy[d] \in {"waiting", "closing"}
    /\ wallet' = "closed"
    /\ destroy' = [destroy EXCEPT ![d] = "done"]
    /\ client' = "gone"
    /\ UNCHANGED <<finderVars, scene, pings, defaults, pipe, wg, req, refund, handle, stream>>

\* The wait group is waited for whatever the context says; the pipeline then
\* closes, in time or not, with the error of a step that failed. Only a close
\* without error removes the handle.
EndDestroy(d) ==
    /\ \/ destroy[d] = "closing" /\ wg = 0
       \/ destroy[d] = "waiting" /\ wallet = "closed"
    /\ wallet' = "closed"
    /\ \E ok \in {destroy[d] = "waiting" \/ pipe = "ok", destroy[d] = "waiting"} :
         /\ destroy' = [destroy EXCEPT ![d] = IF ok THEN "done" ELSE "error"]
         /\ client' = IF ok THEN "gone" ELSE client
    /\ UNCHANGED <<finderVars, scene, pings, defaults, pipe, wg, req, refund, handle, stream>>

-----------------------------------------------------------------------------
Tick ==
    /\ now < scene.ticks
    /\ now' = now + 1
    /\ UNCHANGED <<key, badge, cache, find, clientVars>>

RequestStep(r) ==
    \/ BeginPayment(r)
    \/ PaymentAnswered(r)
    \/ DanglingAnswered(r)
    \/ RequestResources(r)
    \/ GetBadge(r)
    \/ RouterFails(r)
    \/ RouterAnswers(r)
    \/ CloseUndecodable(r)
    \/ EndClosing(r)
    \/ \E t \in Threads : DoRefund(r, t) \/ RefundHangs(r, t)

\* What the users of responses do, in any order.
UserStep(r) ==
    \/ ReadEOF(r)
    \/ ResponseGetStream(r)
    \/ StreamEnds(r)
    \/ ResponseStreamDestroy(r)
    \/ ResponseDestroy(r)

Create == NewFromConfig \/ \E o \in {"pong", "4xx", "error"} : PingRouter(o)

Next ==
    \/ Create
    \/ \E c \in Callers : FinderStep(c) /\ UNCHANGED clientVars
    \/ client = "live" /\ scene.ui /\ ListCachedVerifiedNodes /\ UNCHANGED clientVars
    \/ \E tags \in TagChoices : SetDefaultNodeTags(tags)
    \/ \E r \in Requests : StartRequest(r) \/ RejectRequest(r)
    \/ \E r \in Requests : RequestStep(r) \/ UserStep(r)
    \/ \E d \in Destroyers : ClientDestroy(d) \/ CloseWallet(d) \/ EndDestroy(d)
    \/ PipelineFails
    \/ Tick

Spec == Init /\ [][Next]_vars

\* The steps of a request that come by themselves. Each takes it further, so
\* that fairness to any of them is fairness to all. A wallet whose pipeline works
\* answers; of a broken one nothing is expected.
RequestProgress(r) ==
    \/ BeginPayment(r)
    \/ pipe = "ok" /\ (PaymentAnswered(r) \/ DanglingAnswered(r))
    \/ RequestResources(r) \/ GetBadge(r) \/ RouterFails(r)
    \/ CloseUndecodable(r) \/ EndClosing(r)
    \/ \E t \in Threads : DoRefund(r, t)

\* Every call the client makes has a timeout, so that it ends, and a goroutine
\* that can go on does.
Fairness ==
    /\ \A c \in Callers : WF_vars(FinderStep(c) /\ UNCHANGED clientVars)
    /\ \A r \in Requests : WF_vars(RequestProgress(r))
    /\ \A d \in Destroyers : WF_vars(CloseWallet(d) \/ EndDestroy(d))

\* Users destroy the responses they get.
FairSpec == Spec /\ Fairness /\ \A r \in Requests : WF_vars(ResponseDestroy(r))

-----------------------------------------------------------------------------
(* Properties. *)

\* Every variable of the client has its type.
TypeOK ==
    /\ now \in 0..MaxClock
    /\ badge \in {"nil", "empty", "verified"}
    /\ Len(cache) <= MaxCacheSize
    /\ client \in {"none", "pinging", "failed", "live", "gone"}
    /\ pings \in 0..PingAttempts
    /\ wallet \in {"open", "closing", "closed"}
    /\ wg \in 0..Cardinality(Requests)
    /\ \A c \in Callers : find[c].nodes \subseteq Nodes /\ find[c].tries \in 0..MaxTries
    /\ pipe \in {"ok", "broken"}
    /\ \A r \in Requests : \A t \in Threads : refund[r][t] \in Trailers \cup {"no"}

\* The tags that can be asked for, and what they are made of between "|" signs.
AskedTags == {{}, DefaultTags} \cup TagChoices \cup HeaderTags
Parts(tags) == UNION {ToSet(t) : t \in tags}

\* The nodes a request is given are at least one, and each has all the tags of
\* a set that is spelled like the one asked for. Without a "|" inside a tag that
\* is the set asked for: the cache, which other requests fill, does not answer
\* for other tags. With one it may, since the key joins the tags with "|"
\* (normalizedCacheKey in cached_node_finder.go).
NodesFit ==
    \A c \in Callers : find[c].at = "done" =>
        /\ find[c].nodes # {}
        /\ \A n \in find[c].nodes :
              \E tags \in AskedTags :
                 Parts(tags) = Parts(find[c].tags) /\ tags \subseteq TagsOf[n]

\* The wallet's wait group counts exactly the payments that are begun and not
\* completed, though a payment is completed by whichever of two threads of
\* doRefund, or the cancelling RoundTrip, comes first; as long as the pipeline
\* works none of them is beyond completion (payment.go, Wallet.BeginPayment).
WaitGroupExact ==
    /\ wg = Cardinality(Outstanding)
    /\ pipe = "ok" => Lost = {}

\* The request ended: with an error, or with its body closed.
Settled(r) ==
    \/ req[r].stage = "failed"
    \/ req[r].closed /\ \A t \in Threads : refund[r][t] = "no"

\* A request that ended holds no payment back, however one of the two things it
\* asked for failed (RoundTrip, requestResources and refundReader).
PaymentsEnd ==
    \A r \in Requests : Settled(r) => req[r].pay \notin {"wanted", "asked", "held"}

\* Once the body of a response is closed the wallet has the refund of its
\* trailer, unless the connection broke before it came, and never the whole
\* credit: it has been spent (refundReader and the deferred calls around it).
RefundCollected ==
    \A r \in Requests : req[r].closed /\ Settled(r) =>
        req[r].pay = IF req[r].trailer = "refund" /\ ~req[r].cut THEN "refunded" ELSE "kept"

\* A client whose handle was removed has no payment left: no credit is lost
\* with it, although requests that looked the handle up before still run
\* (Confsec_ClientDestroy and Wallet.Close).
DestroyedIsSettled == client = "gone" => wallet = "closed" /\ Outstanding = {}

\* A badge is known when a request is about to use it (GetBadge dereferences it).
BadgeKnown == \A r \in Requests : req[r].stage \in {"send", "open"} => badge # "nil"

\* Every request ends, in an error or with a response whose body is closed and
\* whose payment is completed. Only a broken pipeline keeps one for ever: while
\* it waits for its payment, or for its credit to be taken back.
RequestsEnd ==
    \A r \in Requests : [](req[r].stage = "resources" =>
        <>(\/ Settled(r)
           \/ [](pipe = "broken" /\ req[r].pay \in {"wanted", "asked", "stuck"})))

\* Confsec_ClientDestroy returns. Only a broken pipeline can keep it waiting,
\* for a payment that will not be completed: whatever WalletCloseTimeout says,
\* Wallet.Close waits for those without looking at its context.
DestroyReturns ==
    \A d \in Destroyers : [](destroy[d] = "waiting" =>
        <>(\/ destroy[d] \in {"done", "error"}
           \/ [](pipe = "broken" /\ \E r \in Outstanding : req[r].pay # "held")))

\* A request uses what fits it: nodes with its tags from a cache within its
\* bound, and a badge that is known.
RequestFits == TypeOK /\ NodesFit /\ BadgeKnown

\* Payments are accounted for: the wait group is exact, a request that ended
\* holds nothing back, refunds are collected, and a destroyed client has settled.
PaymentsAccounted == WaitGroupExact /\ PaymentsEnd /\ RefundCollected /\ DestroyedIsSettled

\* Requests end and Confsec_ClientDestroy returns, as long as the pipeline works.
CallsReturn == RequestsEnd /\ DestroyReturns
=============================================================================
