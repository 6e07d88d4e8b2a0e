----------------------------- MODULE RouterProcess -----------------------------
(* What runs around the logic of a router: the gossip network between routers  *)
(* and the runner of the applications inside one. Each behaviour is about one  *)
(* of the two.                                                                 *)
EXTENDS Gossip, AppRunner

CONSTANT Scenes   \* "gossip" and "runner"

VARIABLE scene

vars == <<gossipVars, runnerVars, scene>>

Init ==
    /\ scene \in Scenes
    /\ GossipInit
    /\ RunnerInit
    /\ scene = "runner" => \A p \in Routers : caster[p].backlog = <<>>

Next ==
    /\ \/ scene = "gossip" /\ (\E p \in Routers : GossipStep(p)) /\ UNCHANGED runnerVars
       \/ scene = "runner" /\ RunnerNext /\ UNCHANGED gossipVars
    /\ UNCHANGED scene

Spec == Init /\ [][Next]_vars

Gossiping(A) == scene = "gossip" /\ A /\ UNCHANGED <<runnerVars, scene>>
Running(A) == scene = "runner" /\ A /\ UNCHANGED <<gossipVars, scene>>

\* A router that may join reaches its targets in the end, members hear of one
\* another (one taken for dead refutes it), and members that are gone are noticed;
\* goroutines go on, and an application that was told to shut down does. The
\* time-out after the shutdown is not relied upon.
FairSpec ==
    /\ Spec
    /\ \A p \in Routers :
          /\ WF_vars(Gossiping(JoinAttempt(p, JoinTargets(p))))
          /\ \A q \in Routers \cup {OldMember} : WF_vars(Gossiping(NotifyJoin(p, q)))
          /\ WF_vars(Gossiping(OldMember \in members[p] /\ OldMemberJoins(p)))
          /\ \A q \in Routers : WF_vars(Gossiping(~Up(q) /\ NotifyLeave(p, q)))
    /\ \A a \in Apps : WF_vars(Running(RunnerStep(a))) /\ WF_vars(Running(AppHeeds(a)))
    /\ WF_vars(Running(MainStep))

-----------------------------------------------------------------------------
(* Properties                                                                  *)

TypeOK ==
    /\ \A p \in Routers :
          /\ app[p].at \in {"run", "leaving", "stopped", "closed", "failed"} /\ app[p].running \in Nat
          /\ members[p] \subseteq (Routers \ {p}) \cup {OldMember}
          /\ ring[p].routers \subseteq Routers
          /\ ToSet(ring[p].positions) = DOMAIN ring[p].owner
          /\ DOMAIN receiver[p] \subseteq 1..Len(sent)
    /\ run \in [Apps -> {"new", "running", "failed", "ended"}]
    /\ grp \in [Apps -> {"select", "join", "join failed", "report", "done"}]
    /\ asked \subseteq Apps /\ main.todo \subseteq Apps
    /\ main.code \in {0, 1} /\ main.at \in {"read", "returned", "panic"}

\* Nobody of one side knows anybody of the other.
Apart(S, T) == \A p \in S, q \in T : p \notin members[q] /\ q \notin members[p]

\* The network has split, and each router has what it looks for: it knows as many
\* members as the threshold asks for, be they of the older cluster only, or there
\* is nobody new at the first of the addresses.
SplitForGood ==
    /\ \E S \in SUBSET (UpRouters \cup {OldMember}) :
          /\ S \cap UpRouters # {} /\ ~ UpRouters \subseteq S
          /\ Apart(S, (UpRouters \cup {OldMember}) \ S)
    /\ \A p \in UpRouters : Cardinality(members[p]) >= Threshold \/ JoinTargets(p) \subseteq members[p]

\* In the end the routers that run agree on who they are, once members are no
\* longer taken for dead, or stay split because nobody looks for the others any
\* more: joinLoop stops at PeerDiscoveryThreshold members, and members of the
\* older cluster count.
RingsAgree ==
    scene = "gossip" =>
        <>[]((\A p \in UpRouters : ring[p].routers = UpRouters) \/ SplitForGood)

\* Messages are handled whole and once, and each node has one checker, in any
\* order of members and chunks (receiveChunk, queryHealthcheckURLs).
GossipSound == TypeOK /\ HandledIntact /\ OneChecker

\* The process ends with the right code, and never by a panic as long as its
\* parts keep to their time (Run, Multi).
ExitIsRight == PanicsOnlyWhenSlow /\ CodeIsRight

\* The process ends when one of its parts fails or it is told to.
ProcessEnds == FailureEnds /\ CancelEnds
=============================================================================
