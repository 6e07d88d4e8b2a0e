--------------------------- MODULE RouterCluster ---------------------------
(***************************************************************************)
(* Routers that share what they know of the compute nodes (NodeState):      *)
(*   - the agents on the nodes (router/agent/agent.go), which post           *)
(*     heartbeats and a shutdown event to a router of their choice;          *)
(*   - the cluster members (router/cluster_member.go), which merge an event  *)
(*     or a check, broadcast it, and exchange whole states now and then;     *)
(*   - the health checker (router/health/checker.go) and the background      *)
(*     evaluations (router/state/manager.go).                                *)
(*                                                                         *)
(* Posts and gossip are messages that are handled at most once, in any order *)
(* and at any time, or never.  A state is read by one router and merged by   *)
(* the other later.  Which router checks which node is left open.            *)
(***************************************************************************)
EXTENDS NodeState

CONSTANTS Reachable,  \* the routers that the agents' AddrFinder finds
          MaxEvents,  \* bound: the events one agent sends
          MaxPulls,   \* bound: the exchanges of whole states
          LastEvent,  \* bound: the last instant of an event or a check
          MaxTime     \* bound: the last instant

ASSUME RouterClusterAssumption ==
    /\ Reachable \subseteq Routers
    /\ MaxEvents \in Nat /\ MaxPulls \in Nat /\ LastEvent \in Nat
    /\ MaxTime \in Nat /\ MaxTime > LastEvent + MaxAge

VARIABLES now,       \* the clock; routers and nodes agree on it
          agent,     \* Nodes -> the agent's next event index, and whether it runs
          rt,        \* Routers -> what the router knows (NodeState)
          posts,     \* events on their way to a router
          gossip,    \* events and checks on their way to the other routers
          checking,  \* Routers -> the health checks under way
          pulled,    \* Routers -> states of others it has read and not merged
          pulls      \* how many it has read

vars == <<now, agent, rt, posts, gossip, checking, pulled, pulls>>

Event == [node : Nodes, index : Nat, ts : Nat, info : BOOLEAN, shutdown : BOOLEAN]
NodeCheck == [node : Nodes, check : Check]

TypeOK ==
    /\ now \in 0 .. MaxTime
    /\ agent \in [Nodes -> [next : 0 .. MaxEvents, up : BOOLEAN]]
    /\ \A r \in Routers :
          /\ rt[r].up \in BOOLEAN
          /\ DOMAIN rt[r].agents \subseteq Nodes /\ Range(rt[r].agents) \subseteq Agent
          /\ DOMAIN rt[r].health \subseteq Nodes
          /\ \A n \in DOMAIN rt[r].health : rt[r].health[n] \in Seq(Check)
          /\ rt[r].pending \in [Nodes -> Nat]
          /\ rt[r].routing \subseteq Nodes
          /\ checking[r] \subseteq NodeCheck
    /\ posts \subseteq Routers \X Event
    /\ gossip \subseteq Routers \X (Event \cup NodeCheck)
    /\ pulls \in 0 .. MaxPulls

Empty == [n \in {} |-> n]

Init ==
    /\ now = 0
    /\ agent = [n \in Nodes |-> [next |-> 0, up |-> TRUE]]
    /\ rt = [r \in Routers |-> [agents |-> Empty, health |-> Empty,
                                pending |-> [n \in Nodes |-> 0], routing |-> {}, up |-> TRUE]]
    /\ posts = {} /\ gossip = {}
    /\ checking = [r \in Routers |-> {}]
    /\ pulled = [r \in Routers |-> {}]
    /\ pulls = 0

Tick ==
    /\ now < MaxTime
    /\ now' = now + 1
    /\ UNCHANGED <<agent, rt, posts, gossip, checking, pulled, pulls>>
-----------------------------------------------------------------------------
(* Agents.  The index is counted up even when nothing could be sent. *)

sendEvent(n, info, shutdown) ==
    /\ agent[n].up /\ agent[n].next < MaxEvents /\ now <= LastEvent
    /\ \E r \in Reachable :
          posts' = posts \cup {<<r, [node |-> n, index |-> agent[n].next, ts |-> now,
                                     info |-> info, shutdown |-> shutdown]>>}
    /\ agent' = [agent EXCEPT ![n] = [next |-> @.next + 1, up |-> ~shutdown]]
    /\ UNCHANGED <<now, rt, gossip, checking, pulled, pulls>>

sendHeartbeat(n) == sendEvent(n, TRUE, FALSE)

sendShutdown(n) == sendEvent(n, FALSE, TRUE)

\* The node disappears without a word.
Vanish(n) ==
    /\ agent[n].up
    /\ agent' = [agent EXCEPT ![n].up = FALSE]
    /\ UNCHANGED <<now, rt, posts, gossip, checking, pulled, pulls>>
-----------------------------------------------------------------------------
(* Cluster members *)

Broadcast(r, body) == gossip' = gossip \cup {<<s, body>> : s \in Routers \ {r}}

\* POST /node-events: merge, then broadcast.
AddNodeEvent(r, e) ==
    /\ rt[r].up /\ <<r, e>> \in posts
    /\ posts' = posts \ {<<r, e>>}
    /\ rt' = [rt EXCEPT ![r] = MergeNodeEvent(@, e, now)]
    /\ Broadcast(r, e)
    /\ UNCHANGED <<now, agent, checking, pulled, pulls>>

\* The checker reads its targets and asks one; the answer counts as of now.
\* No two checks are made at the same instant (times are in nanoseconds).
StartCheck(r, n) ==
    /\ rt[r].up /\ now <= LastEvent
    /\ n \in HealthcheckTargets(rt[r])
    /\ \A c \in checking[r] : c.node # n
    /\ \E ok \in BOOLEAN :
          /\ ok => agent[n].up
          /\ checking' = [checking EXCEPT ![r] =
                            @ \cup {[node |-> n, check |-> [ts |-> now, ok |-> ok, by |-> r]]}]
    /\ now' = now + 1
    /\ UNCHANGED <<agent, rt, posts, gossip, pulled, pulls>>

\* The result is merged, whatever has become of the node, and broadcast (a
\* panic while it is merged takes the router down before).
AddHealthcheck(r, c) ==
    /\ rt[r].up /\ c \in checking[r]
    /\ checking' = [checking EXCEPT ![r] = @ \ {c}]
    /\ rt' = [rt EXCEPT ![r] = MergeHealthcheck(@, c.node, c.check, now)]
    /\ IF rt'[r].up THEN Broadcast(r, c) ELSE UNCHANGED gossip
    /\ UNCHANGED <<now, agent, posts, pulled, pulls>>

\* A broadcast of another member: merged, and not broadcast again.
HandleMessage(r, body) ==
    /\ rt[r].up /\ <<r, body>> \in gossip
    /\ gossip' = gossip \ {<<r, body>>}
    /\ rt' = [rt EXCEPT ![r] = IF "check" \in DOMAIN body
                               THEN MergeHealthcheck(@, body.node, body.check, now)
                               ELSE MergeNodeEvent(@, body, now)]
    /\ UNCHANGED <<now, agent, posts, checking, pulled, pulls>>

ReadState(r, s) ==
    /\ rt[r].up /\ rt[s].up /\ pulls < MaxPulls
    /\ pulled' = [pulled EXCEPT ![r] = @ \cup {[agents |-> rt[s].agents, health |-> rt[s].health]}]
    /\ pulls' = pulls + 1
    /\ UNCHANGED <<now, agent, rt, posts, gossip, checking>>

HandleState(r) ==
    /\ rt[r].up
    /\ \E other \in pulled[r] :
          /\ pulled' = [pulled EXCEPT ![r] = @ \ {other}]
          /\ rt' = [rt EXCEPT ![r] = MergeState(@, other, now)]
    /\ UNCHANGED <<now, agent, posts, gossip, checking, pulls>>

bgEvaluation(r, n) ==
    /\ rt[r].up /\ rt[r].pending[n] > 0
    /\ rt' = [rt EXCEPT ![r] = BackgroundEvaluate(@, n, now)]
    /\ UNCHANGED <<now, agent, posts, gossip, checking, pulled, pulls>>
-----------------------------------------------------------------------------
Next ==
    \/ Tick
    \/ \E n \in Nodes : sendHeartbeat(n) \/ sendShutdown(n) \/ Vanish(n)
    \/ \E m \in posts : AddNodeEvent(m[1], m[2])
    \/ \E m \in gossip : HandleMessage(m[1], m[2])
    \/ \E r \in Routers, n \in Nodes : StartCheck(r, n) \/ bgEvaluation(r, n)
    \/ \E r \in Routers : \E c \in checking[r] : AddHealthcheck(r, c)
    \/ \E r, s \in Routers : r # s /\ ReadState(r, s)
    \/ \E r \in Routers : HandleState(r)

Spec == Init /\ [][Next]_vars

\* Time passes, and the delay pool hands out every node that waits in it.
\* Nothing is assumed of the network or of the nodes.
Fairness ==
    /\ WF_vars(Tick)
    /\ \A r \in Routers, n \in Nodes : WF_vars(bgEvaluation(r, n))

FairSpec == Spec /\ Fairness
-----------------------------------------------------------------------------
\* A router sends requests only to nodes it has routing info and enough checks
\* for, and that have not announced their shutdown: the routing set follows
\* the state through every merge, eviction and background evaluation.
RoutedIsAvailable ==
    \A r \in Routers : \A n \in rt[r].routing :
        /\ n \in HealthcheckTargets(rt[r])
        /\ n \in DOMAIN rt[r].health /\ Len(rt[r].health[n]) >= MinChecks

\* A node with an agent always has an evaluation ahead of it, so that a silent
\* one is found out ("the async evaluation process will keep scheduling").
AgentsAreReevaluated ==
    \A r \in Routers : rt[r].up =>
        \A n \in DOMAIN rt[r].agents : rt[r].pending[n] > 0

\* Two routers that have heard of the same last event of a node agree on it,
\* whichever way and in whichever order they heard of it.
SameIndexSameEvent ==
    \A r, s \in Routers : \A n \in DOMAIN rt[r].agents \cap DOMAIN rt[s].agents :
        LET a == rt[r].agents[n]    b == rt[s].agents[n]
        IN a.index = b.index => a.ts = b.ts

\* While a router knows an agent it never goes back to an older event or forgets
\* its routing info (MergeNodeEvent, MergeState).
NeverGoesBack ==
    [][\A r \in Routers : \A n \in DOMAIN rt[r].agents \cap DOMAIN rt'[r].agents :
          LET a == rt[r].agents[n]    b == rt'[r].agents[n]
          IN a.index <= b.index /\ (a.info => b.info)]_vars

\* Histories stay in the order of time and have each check once, however they
\* are merged; the failure streak is counted from the last one.
HistoryInOrder ==
    \A r \in Routers : \A n \in DOMAIN rt[r].health :
        LET h == rt[r].health[n]
        IN \A i \in 1 .. Len(h) - 1 : h[i].ts < h[i + 1].ts

\* A node that shut down or vanished is in the end routed to by nobody, even if
\* old events, checks and states arrive after it was evicted.
GoneIsForgotten ==
    \A r \in Routers, n \in Nodes : <>[](~agent[n].up => n \notin rt[r].routing)

\* What a router routes to and what it evaluates again follow from its state, in
\* every order of merges and evictions (evaluateRouterChange, evaluateNode).
RoutingFollows == TypeOK /\ RoutedIsAvailable /\ AgentsAreReevaluated

\* Routers that know the same agree: on a node's event by its index, and on the
\* order of its checks (Agent.MergeState, History.Merge).
MergesAgree == SameIndexSameEvent /\ HistoryInOrder
=============================================================================
