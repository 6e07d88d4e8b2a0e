--------------------------- MODULE MCRouterProcess ---------------------------
(* An instance of RouterProcess for TLC. *)
EXTENDS RouterProcess

CONSTANTS r1, r2, r3, n1, n2, n3, old, http, tasks

\* Two virtual nodes for each router, interleaved.
Positions == (r1 :> <<1, 6>>) @@ (r2 :> <<3, 10>>) @@ (r3 :> <<8, 2>>)
NodePositions == (n1 :> 4) @@ (n2 :> 7) @@ (n3 :> 11)

\* Three routers with nothing to send; two, of which one has a message that
\* takes two or more chunks and an empty one.
Quiet == [up |-> {r1, r2, r3}, backlog |-> (r1 :> <<>>) @@ (r2 :> <<>>) @@ (r3 :> <<>>)]
Talk  == [up |-> {r1, r2}, backlog |-> (r1 :> <<<<1, 2, 3>>, <<>>>>) @@ (r2 :> <<>>) @@ (r3 :> <<>>)]
MCStarts == {Quiet, Talk}

MCAddrs == <<r1, r2, r3>>
=============================================================================
