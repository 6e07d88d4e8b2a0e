-------------------------------- MODULE Gossip --------------------------------
(* The gossip network of the routers: the App around memberlist (external),    *)
(* its delegate, the broadcaster and receiver that carry a message in chunks,  *)
(* and the ring that divides the health checks among the routers.              *)
EXTENDS Integers, Sequences, FiniteSets, SequencesExt, TLC

CONSTANTS Routers,          \* routers of the cluster
          OldMember,        \* a member of the older cluster, not a router
          RouterPos,        \* the positions of the virtual nodes of each router
          Nodes,            \* compute nodes to check
          NodePos,          \* the position of each
          Threshold,        \* PeerDiscoveryThreshold
          MaxPeersToJoin,
          Addrs,            \* the addresses of the routers, sorted
          JoinAddrs,        \* routers to join in any case
          MaxChunk,         \* most data that fits in one chunk
          Starts,           \* per choice: the routers that run, what each is to broadcast
          MaxFlaps,         \* bound: times a live member is taken for dead
          MaxStopped        \* bound: routers that do not run

\* What is configured: routers and nodes have positions, messages are bytes.
ASSUME GossipAssumption ==
    /\ IsFiniteSet(Routers) /\ OldMember \notin Routers
    /\ IsFiniteSet(Nodes) /\ NodePos \in [Nodes -> Nat]
    /\ RouterPos \in [Routers -> Seq(Nat)] /\ \A p \in Routers : RouterPos[p] # <<>>
    /\ Addrs \in Seq(Routers) /\ JoinAddrs \subseteq Routers
    /\ Threshold \in Nat \ {0} /\ MaxPeersToJoin \in Nat \ {0} /\ MaxChunk \in Nat
    /\ \A s \in Starts : s.up \subseteq Routers /\ s.backlog \in [Routers -> Seq(Seq(0..255))]

\* Virtual nodes do not share a position, nor do nodes (see the README).
ASSUME PositionsDistinct ==
    \A p, q \in Routers :
        /\ IsInjective(RouterPos[p])
        /\ p # q => ToSet(RouterPos[p]) \cap ToSet(RouterPos[q]) = {}

ASSUME NodesDistinct == \A m, n \in Nodes : NodePos[m] = NodePos[n] => m = n

VARIABLES app,      \* the App of each router: its state and its handlers
          members,  \* whom the memberlist of each member knows
          ring,     \* the ring of each router
          caster,   \* the broadcaster of each router
          receiver, \* the receiver of each router
          net,      \* packets on their way; one may be lost, late or come again
          sent,     \* the messages given an ID so far
          handled,  \* what each message handler was given
          flaps

gossipVars == <<app, members, ring, caster, receiver, net, sent, handled, flaps>>

-----------------------------------------------------------------------------
(* The ring.                                                                   *)

\* The i-th number of a set, the elements of a sequence at some of its indices,
\* in order, and each set of positions in order: no two positions of a ring are
\* the same, so that to sort them is to sort their set.
Nth(K, i)    == CHOOSE x \in K : Cardinality(K \cap 0..x - 1) = i - 1
Picked(s, K) == [i \in 1..Cardinality(K) |-> s[Nth(K, i)]]
PositionsOf(qs) == UNION {ToSet(RouterPos[q]) : q \in qs}
Sorted == [K \in SUBSET PositionsOf(Routers) |-> [i \in 1..Cardinality(K) |-> Nth(K, i)]]

\* A map with one more entry.
With(f, x, v) == [y \in DOMAIN f \cup {x} |-> IF y = x THEN v ELSE f[y]]

NoRing == [routers |-> {}, positions |-> <<>>, owner |-> <<>>]

AddRouterUnsorted(g, q) ==
    IF q \in g.routers THEN g
    ELSE [routers   |-> g.routers \cup {q},
          positions |-> g.positions \o RouterPos[q],
          owner     |-> [x \in DOMAIN g.owner \cup ToSet(RouterPos[q]) |->
                            IF x \in ToSet(RouterPos[q]) THEN q ELSE g.owner[x]]]

AddRouter(g, q) ==
    IF q \in g.routers THEN g
    ELSE [routers   |-> g.routers \cup {q},
          positions |-> Sorted[ToSet(g.positions \o RouterPos[q])],
          owner     |-> [x \in DOMAIN g.owner \cup ToSet(RouterPos[q]) |->
                            IF x \in ToSet(RouterPos[q]) THEN q ELSE g.owner[x]]]

RemoveRouterPositions(g, q) ==
    IF q \notin g.routers THEN g
    ELSE [g EXCEPT !.routers = @ \ {q},
                   !.positions = Picked(@, {i \in DOMAIN @ : g.owner[@[i]] # q})]

RemoveRouter(g, q) ==
    IF q \notin g.routers THEN g
    ELSE LET gone == {i \in DOMAIN g.positions : g.owner[g.positions[i]] = q}
         IN  [routers   |-> g.routers \ {q},
              positions |-> Picked(g.positions, DOMAIN g.positions \ gone),
              owner     |-> Restrict(g.owner, DOMAIN g.owner \ {g.positions[i] : i \in gone})]

\* The nodes of a set in the order of their positions, and the index into the
\* positions of the ring that goes with each: it moves on by at most one from
\* node to node, and wraps around.
NodeOrder(N) ==
    [i \in 1..Cardinality(N) |->
        CHOOSE n \in N : Cardinality({m \in N : NodePos[m] < NodePos[n]}) = i - 1]

PosIndex(g, N) ==
    LET at[i \in 0..Cardinality(N)] ==
            IF i = 0 THEN 0
            ELSE LET before == at[i - 1]
                     next   == IF /\ before < Len(g.positions)
                                  /\ g.positions[before + 1] < NodePos[NodeOrder(N)[i]]
                               THEN before + 1 ELSE before
                 IN  IF next = Len(g.positions) THEN 0 ELSE next
    IN  at

\* What a router that knows the nodes N has to check. Where the index stands at
\* a node depends on the nodes before it that the router knows.
QueryHealthcheckURLs(p, N) ==
    LET index == PosIndex(ring[p], N)
    IN  {NodeOrder(N)[i] : i \in {j \in 1..Cardinality(N) :
            /\ ring[p].positions # <<>>
            /\ ring[p].owner[ring[p].positions[index[j] + 1]] = p}}

-----------------------------------------------------------------------------
(* Membership. memberlist tells the delegate of members it learns of and of    *)
(* members it takes for gone, which need not be.                               *)
GossipInit ==
    /\ \E s \in Starts :
          /\ app = [p \in Routers |-> [at |-> IF p \in s.up THEN "run" ELSE "closed", running |-> 0]]
          /\ caster = [p \in Routers |-> [backlog |-> s.backlog[p], id |-> 0, index |-> 0, rest |-> <<>>]]
    /\ members = [p \in Routers \cup {OldMember} |-> {}]
    /\ ring = [p \in Routers |-> AddRouter(NoRing, p)]
    /\ receiver = [p \in Routers |-> <<>>]
    /\ net = {} /\ sent = <<>> /\ flaps = 0
    /\ handled = [p \in Routers |-> <<>>]

Up(q) == IF q = OldMember THEN TRUE ELSE app[q].at = "run"

UpRouters == {p \in Routers : app[p].at = "run"}

\* HandleNodeJoin leaves members of the older cluster alone, addPeer itself.
HandleNodeJoin(p, q) == IF q = OldMember THEN ring[p] ELSE AddRouter(ring[p], q)

\* HandleNodeLeave.
HandleNodeLeave(p, q) == RemoveRouter(ring[p], q)

\* Whom a router reaches when it joins: the configured addresses and the first
\* of those it finds, which may be its own, known already, or of nobody that runs.
JoinTargets(p) ==
    {q \in JoinAddrs \cup {Addrs[i] : i \in DOMAIN Addrs \cap 1..MaxPeersToJoin} : q # p /\ Up(q)}

JoinAttemptCountsSelf(p, qs) ==
    /\ app[p].at = "run"
    /\ Cardinality(members[p]) + 1 < Threshold
    /\ members' = [r \in DOMAIN members |-> IF r = p THEN members[p] \cup qs
                                            ELSE IF r \in qs THEN members[r] \cup {p} ELSE members[r]]
    /\ ring' = [r \in Routers |-> IF r = p THEN FoldSet(LAMBDA q, g : AddRouter(g, q), ring[p], qs)
                                  ELSE IF r \in qs THEN HandleNodeJoin(r, p) ELSE ring[r]]
    /\ UNCHANGED <<app, caster, receiver, net, sent, handled, flaps>>

\* joinLoop and joinAttempt: a router that knows too few members, old ones
\* counted, joins those qs of its targets that answer; none when the addresses
\* cannot be found. Both sides learn of each other.
JoinAttempt(p, qs) ==
    /\ app[p].at = "run"
    /\ Cardinality(members[p]) + 1 < Threshold + 1
    /\ members' = [r \in DOMAIN members |-> IF r = p THEN members[p] \cup qs
                                            ELSE IF r \in qs THEN members[r] \cup {p} ELSE members[r]]
    /\ ring' = [r \in Routers |-> IF r = p THEN FoldSet(LAMBDA q, g : AddRouter(g, q), ring[p], qs)
                                  ELSE IF r \in qs THEN HandleNodeJoin(r, p) ELSE ring[r]]
    /\ UNCHANGED <<app, caster, receiver, net, sent, handled, flaps>>

\* NotifyJoin: a member hears of another, from itself or from a third.
NotifyJoin(p, q) ==
    /\ app[p].at = "run" /\ q # p /\ q \notin members[p] /\ Up(q)
    /\ p \in members[q] \/ \E r \in members[p] : Up(r) /\ q \in members[r]
    /\ members' = [members EXCEPT ![p] = @ \cup {q}]
    /\ ring' = [ring EXCEPT ![p] = HandleNodeJoin(p, q)]
    /\ UNCHANGED <<app, caster, receiver, net, sent, handled, flaps>>

\* The member of the older cluster joins a router, or hears of it.
OldMemberJoins(p) ==
    /\ app[p].at = "run" /\ p \notin members[OldMember]
    /\ members' = [members EXCEPT ![OldMember] = @ \cup {p}, ![p] = @ \cup {OldMember}]
    /\ ring' = [ring EXCEPT ![p] = HandleNodeJoin(p, OldMember)]
    /\ UNCHANGED <<app, caster, receiver, net, sent, handled, flaps>>

\* NotifyLeave: the member left, or has not answered in time.
NotifyLeave(p, q) ==
    /\ app[p].at = "run" /\ q \in members[p]
    /\ ~Up(q) \/ flaps < MaxFlaps
    /\ flaps' = IF Up(q) THEN flaps + 1 ELSE flaps
    /\ members' = [members EXCEPT ![p] = @ \ {q}]
    /\ ring' = [ring EXCEPT ![p] = HandleNodeLeave(p, q)]
    /\ UNCHANGED <<app, caster, receiver, net, sent, handled>>

-----------------------------------------------------------------------------
(* Broadcasting.                                                               *)

\* One chunk of GetBroadcasts, which memberlist calls for each member it is
\* about to send to: the chunk goes to that member. An empty message makes a
\* chunk without data.
MessageChunk(p, q, n) ==
    LET c     == caster[p]
        fresh == c.rest = <<>>
        rest  == IF fresh THEN Head(c.backlog) ELSE c.rest
        id    == IF fresh THEN Len(sent) + 1 ELSE c.id
        index == IF fresh THEN 0 ELSE c.index
        k     == IF Len(rest) <= n THEN Len(rest) ELSE n
    IN  /\ app[p].at = "run" /\ q \in members[p]
        /\ fresh => c.backlog # <<>>
        /\ sent' = IF fresh THEN Append(sent, rest) ELSE sent
        /\ net' = net \cup {[to |-> q, id |-> id, index |-> index, final |-> Len(rest) <= n,
                             data |-> SubSeq(rest, 1, k)]}
        /\ caster' = [caster EXCEPT ![p] =
              [backlog |-> IF fresh THEN Tail(c.backlog) ELSE c.backlog, id |-> id,
               index |-> index + 1, rest |-> SubSeq(rest, k + 1, Len(rest))]]
        /\ UNCHANGED <<app, members, ring, receiver, handled, flaps>>

\* The final chunk has come, and every one before it.
IsComplete(m) == m.final >= 0 /\ 0..m.final \subseteq DOMAIN m.chunks

NoMessage == [chunks |-> <<>>, final |-> -1]

MessageOf(p, id) == IF id \in DOMAIN receiver[p] THEN receiver[p][id] ELSE NoMessage

Bytes(m) ==
    IF IsComplete(m) THEN FlattenSeq([i \in 1..m.final + 1 |-> m.chunks[i - 1]]) ELSE <<>>

Received(m, c) ==
    [chunks |-> With(m.chunks, c.index, c.data),
     final  |-> IF c.final THEN c.index ELSE m.final]

NotifyMsgAgain(p, c) ==
    /\ app[p].at \in {"run", "leaving", "failed"} /\ c.to = p /\ c.data # <<>>
    /\ LET new == Received(MessageOf(p, c.id), c)
       IN  /\ receiver' = [receiver EXCEPT ![p] = With(@, c.id, new)]
           /\ IF IsComplete(new)
              THEN /\ handled' = [handled EXCEPT ![p] = Append(@, [id |-> c.id, data |-> Bytes(new)])]
                   /\ app' = [app EXCEPT ![p].running = @ + 1]
              ELSE UNCHANGED <<handled, app>>
    /\ UNCHANGED <<members, ring, caster, net, sent, flaps>>

\* NotifyMsg and receiveChunk: a chunk without data is malformed, one of a
\* message that is complete has come before, and both are dropped. A message that
\* becomes complete is handled by a goroutine of its own.
NotifyMsg(p, c) ==
    /\ app[p].at \in {"run", "leaving", "failed"} /\ c.to = p
    /\ c.data # <<>> /\ ~IsComplete(MessageOf(p, c.id))
    /\ LET new == Received(MessageOf(p, c.id), c)
       IN  /\ receiver' = [receiver EXCEPT ![p] = With(@, c.id, new)]
           /\ IF Bytes(new) # <<>>
              THEN /\ handled' = [handled EXCEPT ![p] = Append(@, [id |-> c.id, data |-> Bytes(new)])]
                   /\ app' = [app EXCEPT ![p].running = @ + 1]
              ELSE UNCHANGED <<handled, app>>
    /\ UNCHANGED <<members, ring, caster, net, sent, flaps>>

HandlerDone(p) ==
    /\ app[p].running > 0
    /\ app' = [app EXCEPT ![p].running = @ - 1]
    /\ UNCHANGED <<members, ring, caster, receiver, net, sent, handled, flaps>>

-----------------------------------------------------------------------------
(* The end of App.Run: leave, stop memberlist, wait for the handlers; when the *)
(* first or the second fails, return at once with what still runs.             *)
Shutdown(p) ==
    /\ app[p].at = "run" /\ Cardinality(Routers \ UpRouters) < MaxStopped
    /\ app' = [app EXCEPT ![p].at = "leaving"]
    /\ UNCHANGED <<members, ring, caster, receiver, net, sent, handled, flaps>>

StopMemberlist(p) ==
    /\ app[p].at = "leaving"
    /\ app' = [app EXCEPT ![p].at = "stopped"]
    /\ UNCHANGED <<members, ring, caster, receiver, net, sent, handled, flaps>>

StopMemberlistFails(p) ==
    /\ app[p].at = "leaving"
    /\ app' = [app EXCEPT ![p].at = "failed"]
    /\ UNCHANGED <<members, ring, caster, receiver, net, sent, handled, flaps>>

Close(p) ==
    /\ app[p].at = "stopped" /\ app[p].running = 0
    /\ app' = [app EXCEPT ![p].at = "closed"]
    /\ UNCHANGED <<members, ring, caster, receiver, net, sent, handled, flaps>>

GossipStep(p) ==
    \/ \E qs \in SUBSET JoinTargets(p) : JoinAttempt(p, qs)
    \/ OldMemberJoins(p) \/ HandlerDone(p)
    \/ Shutdown(p) \/ StopMemberlist(p) \/ StopMemberlistFails(p) \/ Close(p)
    \/ \E q \in Routers \cup {OldMember} : NotifyJoin(p, q) \/ NotifyLeave(p, q)
    \/ \E q \in Routers, n \in 1..MaxChunk : MessageChunk(p, q, n)
    \/ \E c \in net : NotifyMsg(p, c)

-----------------------------------------------------------------------------
(* Properties                                                                  *)

\* What a message handler is given is a message that was broadcast, whole, and
\* each one at most once, however its chunks were cut, lost, delayed, reordered
\* or repeated on the way.
HandledIntact ==
    \A p \in Routers :
        /\ \A i \in DOMAIN handled[p] : handled[p][i].data = sent[handled[p][i].id]
        /\ \A i, j \in DOMAIN handled[p] : i # j => handled[p][i].id # handled[p][j].id

\* Once the routers that run know of one another and of nobody else, each node
\* is checked by exactly one of those that know the same nodes, in whatever order
\* and however often routers came and went. Routers that know different nodes may
\* leave a node to nobody (see the README).
OneChecker ==
    (\A p \in UpRouters : ring[p].routers = UpRouters) =>
        \A N \in SUBSET Nodes : \A n \in N : UpRouters # {} =>
            Cardinality({p \in UpRouters : n \in QueryHealthcheckURLs(p, N)}) = 1
=============================================================================
