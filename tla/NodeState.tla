----------------------------- MODULE NodeState -----------------------------
(***************************************************************************)
(* What one router knows of the compute nodes, and how it changes:          *)
(*   - router/state: agents by event index, health by history, merging of    *)
(*     events, checks and whole states, evaluation and eviction;             *)
(*   - router/health: histories and their grade;                             *)
(*   - router/node_evaluation.go and router/routing_set.go.                  *)
(*                                                                         *)
(* The manager's mutex makes every operation atomic, so each is a function   *)
(* from the router's record to its next one.  The Go maps are functions      *)
(* whose domain is the set of keys.  Routing info is whether there is any;   *)
(* a check is its time, its success and the router that made it.  The        *)
(* manager's knownNodeCount, which nothing but tests reads, is left out.     *)
(***************************************************************************)
EXTENDS Integers, Sequences, FiniteSetsExt, Functions

CONSTANTS Routers,
          Nodes,
          MinChecks,       \* GraderConfig
          MinSuccessRate,  \* ... in percent
          MaxStreak,       \* ... MaxRecentFailureStreak
          MaxAge           \* ... and how old an agent's last event may be

ASSUME NodeStateAssumption ==
    /\ MinChecks \in Nat \ {0}
    /\ MinSuccessRate \in 0 .. 100
    /\ MaxStreak \in Nat
    /\ MaxAge \in Nat \ {0}
    /\ MaxStreak # 0 \/ MinSuccessRate # 0

Agent == [index : Nat, ts : Nat, info : BOOLEAN, shutdown : BOOLEAN]
Check == [ts : Nat, ok : BOOLEAN, by : Routers]

\* A map without some keys, and with a value for one.
Without(f, nodes) == Restrict(f, DOMAIN f \ nodes)
With(f, n, x) == [m \in DOMAIN f \cup {n} |-> IF m = n THEN x ELSE f[m]]
-----------------------------------------------------------------------------
(* Agents *)

\* Mutated form: the time of the newer event is not taken.
MergeAgentKeepsTime(a, o) ==
    IF a.index < o.index
    THEN [index |-> o.index, ts |-> a.ts, info |-> a.info \/ o.info, shutdown |-> a.shutdown \/ o.shutdown]
    ELSE [a EXCEPT !.info = @ \/ o.info]

\* Mutated form: whatever comes last wins.
MergeAgentLast(a, o) == [o EXCEPT !.info = a.info \/ o.info]

\* A newer index wins, a shutdown stays; routing info is filled in from either.
MergeAgent(a, o) ==
    IF a.index < o.index
    THEN [index |-> o.index, ts |-> o.ts, info |-> a.info \/ o.info, shutdown |-> a.shutdown \/ o.shutdown]
    ELSE [a EXCEPT !.info = @ \/ o.info]

\* What an event says of its agent; a shutdown event has no routing info.
FromEvent(e) == [index |-> e.index, ts |-> e.ts, info |-> e.info, shutdown |-> e.shutdown]
-----------------------------------------------------------------------------
(* Health *)

\* How many checks of a history in order are from t or before.
UpTo(h, t) == Cardinality({i \in DOMAIN h : h[i].ts <= t})

\* Appended and sorted, which moves it behind the checks that are not later.
Insert(h, c) ==
    IF c \in Range(h) THEN h
    ELSE LET k == UpTo(h, c.ts) IN SubSeq(h, 1, k) \o <<c>> \o SubSeq(h, k + 1, Len(h))

\* Mutated form: the histories are put one behind the other.
MergeHistoryAppends(h, o) == h \o SelectSeq(o, LAMBDA x : x \notin Range(h))

\* The loop over both histories, from its i-th and j-th checks on: the earlier
\* check first, equal ones once.
MergeHistory(h, o) ==
    LET merged[p \in (1 .. Len(h) + 1) \X (1 .. Len(o) + 1)] ==
            LET i == p[1]
                j == p[2]
            IN IF i > Len(h) THEN SubSeq(o, j, Len(o))
               ELSE IF j > Len(o) THEN SubSeq(h, i, Len(h))
               ELSE IF h[i].ts < o[j].ts THEN <<h[i]>> \o merged[<<i + 1, j>>]
               ELSE IF o[j].ts < h[i].ts THEN <<o[j]>> \o merged[<<i, j + 1>>]
               ELSE (IF h[i] = o[j] THEN <<h[i]>> ELSE <<h[i], o[j]>>) \o merged[<<i + 1, j + 1>>]
    IN merged[<<1, 1>>]

\* NodeHealth keeps its history when the merge is no longer than it.
MergeHealth(h, o) ==
    LET merged == MergeHistory(h, o) IN IF Len(merged) = Len(h) THEN h ELSE merged

After(h, cutoff) == SubSeq(h, UpTo(h, cutoff - 1) + 1, Len(h))

Successes(h) == Cardinality({i \in DOMAIN h : h[i].ok})
FailureStreak(h) == Len(h) - Max({0} \cup {i \in DOMAIN h : h[i].ok})

Grade(h, now) ==
    LET window  == After(h, now - MaxAge)
        failing == \/ MaxStreak # 0 /\ FailureStreak(window) >= MaxStreak
                   \/ 100 * Successes(window) < MinSuccessRate * Len(window)
    IN IF Len(window) < MinChecks THEN "unknown" ELSE IF failing THEN "unavailable" ELSE "ok"
-----------------------------------------------------------------------------
(* The manager *)

\* Mutated form: a shut down agent is not looked for.
EvaluateForgetsShutdown(rt, n, now) ==
    LET grade == Grade(IF n \in DOMAIN rt.health THEN rt.health[n] ELSE <<>>, now) IN
    IF n \in DOMAIN rt.agents
    THEN IF rt.agents[n].ts < now - MaxAge THEN "evict"
         ELSE IF grade = "ok" /\ rt.agents[n].info THEN "route"
         ELSE IF grade = "unavailable" THEN "evict" ELSE "keep"
    ELSE IF n \notin DOMAIN rt.health \/ grade = "unavailable" THEN "evict"
    ELSE IF grade = "ok" THEN "panic" ELSE "keep"

\* GradedNodeEvaluator: route to the node, keep it, or evict it.  A node that
\* is graded ok and has no agent makes it follow a nil pointer.
Evaluate(rt, n, now) ==
    LET grade == Grade(IF n \in DOMAIN rt.health THEN rt.health[n] ELSE <<>>, now) IN
    IF n \in DOMAIN rt.agents
    THEN IF rt.agents[n].shutdown \/ rt.agents[n].ts < now - MaxAge THEN "evict"
         ELSE IF grade = "ok" /\ rt.agents[n].info THEN "route"
         ELSE IF grade = "unavailable" THEN "evict" ELSE "keep"
    ELSE IF n \notin DOMAIN rt.health \/ grade = "unavailable" THEN "evict"
    ELSE IF grade = "ok" THEN "panic" ELSE "keep"

\* Mutated form: only nodes that are routed to are evaluated again.
evaluateNodesOnce(rt, nodes, schedule, now) ==
    LET verdicts == {<<n, Evaluate(rt, n, now)>> : n \in nodes}
        evicted  == {n \in nodes : <<n, "evict">> \in verdicts}
        routed   == {n \in nodes : <<n, "route">> \in verdicts}
    IN
    IF \E n \in nodes : <<n, "panic">> \in verdicts THEN [rt EXCEPT !.up = FALSE, !.routing = {}]
    ELSE [rt EXCEPT !.agents = Without(@, evicted), !.health = Without(@, evicted),
                    !.pending = [n \in Nodes |-> IF n \in schedule \cap routed
                                                 THEN @[n] + 1 ELSE @[n]],
                    !.routing = (@ \ nodes) \cup routed]

\* Mutated form: the evicted nodes are also taken out of the delay pool.
evaluateNodesTakesOut(rt, nodes, schedule, now) ==
    LET verdicts == {<<n, Evaluate(rt, n, now)>> : n \in nodes}
        evicted  == {n \in nodes : <<n, "evict">> \in verdicts}
        routed   == {n \in nodes : <<n, "route">> \in verdicts}
    IN
    IF \E n \in nodes : <<n, "panic">> \in verdicts THEN [rt EXCEPT !.up = FALSE, !.routing = {}]
    ELSE [rt EXCEPT !.agents = Without(@, evicted), !.health = Without(@, evicted),
                    !.pending = [n \in Nodes |-> IF n \in (schedule \cap nodes) \ evicted
                                                 THEN @[n] + 1
                                                 ELSE IF n \in evicted THEN @[n] - 1 ELSE @[n]],
                    !.routing = (@ \ nodes) \cup routed]

\* evaluateNode on every node of a set, and the update of the routing set that
\* follows; schedule are the nodes whose next background evaluation is to be
\* scheduled.  A node's verdict depends on nothing that another's changes.  A
\* panic ends the process, which routes to nobody any more.
evaluateNodes(rt, nodes, schedule, now) ==
    LET verdicts == {<<n, Evaluate(rt, n, now)>> : n \in nodes}
        evicted  == {n \in nodes : <<n, "evict">> \in verdicts}
        routed   == {n \in nodes : <<n, "route">> \in verdicts}
    IN
    IF \E n \in nodes : <<n, "panic">> \in verdicts THEN [rt EXCEPT !.up = FALSE, !.routing = {}]
    ELSE [rt EXCEPT !.agents = Without(@, evicted), !.health = Without(@, evicted),
                    !.pending = [n \in Nodes |-> IF n \in (schedule \cap nodes) \ evicted
                                                 THEN @[n] + 1 ELSE @[n]],
                    !.routing = (@ \ nodes) \cup routed]

\* New nodes are those with a new agent, and those with new health only when
\* there is no new agent at all (RouterChange.IsNewNode).
evaluateRouterChange(rt, newAgents, newHealth, changed, now) ==
    evaluateNodes(rt, changed, IF newAgents # {} THEN newAgents ELSE newHealth, now)

MergeNodeEvent(rt, e, now) ==
    LET n == e.node
        known == n \in DOMAIN rt.agents
        a == IF known THEN MergeAgent(rt.agents[n], FromEvent(e)) ELSE FromEvent(e)
    IN IF known /\ a = rt.agents[n] THEN rt
       ELSE evaluateRouterChange([rt EXCEPT !.agents = With(@, n, a)],
                                 IF known THEN {} ELSE {n}, {}, {n}, now)

MergeHealthcheck(rt, n, c, now) ==
    LET known == n \in DOMAIN rt.health
        h == IF known THEN Insert(rt.health[n], c) ELSE <<c>>
    IN IF known /\ Len(h) = Len(rt.health[n]) THEN rt
       ELSE evaluateRouterChange([rt EXCEPT !.health = With(@, n, h)],
                                 {}, IF known THEN {} ELSE {n}, {n}, now)

\* Merges what another router knows (other has the fields agents and health).
MergeState(rt, other, now) ==
    LET A == DOMAIN rt.agents    B == DOMAIN other.agents
        H == DOMAIN rt.health    I == DOMAIN other.health
        agents == [n \in A \cup B |->
                      IF n \notin B THEN rt.agents[n]
                      ELSE IF n \in A THEN MergeAgent(rt.agents[n], other.agents[n])
                      ELSE other.agents[n]]
        health == [n \in H \cup I |->
                      IF n \notin I THEN rt.health[n]
                      ELSE IF n \in H THEN MergeHealth(rt.health[n], other.health[n])
                      ELSE other.health[n]]
        updated == {n \in A : agents[n] # rt.agents[n]} \cup {n \in H : health[n] # rt.health[n]}
        changed == (B \ A) \cup (I \ H) \cup updated
    IN evaluateRouterChange([rt EXCEPT !.agents = agents, !.health = health],
                            B \ A, I \ H, changed, now)

\* Mutated form: the next evaluation is left to the merge of new nodes.
BackgroundEvaluateOnce(rt, n, now) ==
    evaluateNodes([rt EXCEPT !.pending[n] = @ - 1], {n}, {}, now)

\* The background worker takes the node out of the delay pool, evaluates it
\* and always schedules its next evaluation, unless it is evicted.
BackgroundEvaluate(rt, n, now) ==
    evaluateNodes([rt EXCEPT !.pending[n] = @ - 1], {n}, {n}, now)

\* Agent.CanHealthcheck of the agents in the state.
HealthcheckTargets(rt) ==
    {n \in DOMAIN rt.agents : rt.agents[n].info /\ ~rt.agents[n].shutdown}
=============================================================================
