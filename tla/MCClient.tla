------------------------------ MODULE MCClient ------------------------------
(* An instance of Client for TLC. *)
EXTENDS Client

CONSTANTS r1, r2, n1, n2, d1, d2

\* Two tags, and one whose text has a "|" between the two, so that {TagA, TagB}
\* and {TagAB} have the same key. n2 has the former, n1 a part of it, and no
\* node has the latter.
TagA == <<1>>
TagB == <<2>>
TagAB == <<1, 2>>
NodeTags == (n1 :> {TagA}) @@ (n2 :> {TagA, TagB})
OneTag == {TagA}
BothTags == {{TagA, TagB}}
AnyTags == {{TagA, TagB}, {TagAB}}

\* Two keys whose periods overlap, the later one ending first, and one that is
\* not active yet.
Key(id, from, until) == [id |-> id, from |-> from, until |-> until]
MCPeriods == {Key(1, -2, 3), Key(2, -1, 1), Key(3, 3, 5)}
MCKeyConfigs == 1..3
\* A request shares the cache with the user interface while time passes; two
\* requests share it with different tags; a response is read, streamed and
\* destroyed while two callers destroy the client; two requests race each other
\* and one such caller. In the last two the wallet's pipeline may break.
Scene(rs, ui, tags, streams, ds, ticks, breaks) ==
    [requests |-> rs, ui |-> ui, tags |-> tags, streams |-> streams, destroyers |-> ds,
     ticks |-> ticks, breaks |-> breaks]
MCScenarios ==
    {Scene({r1}, TRUE, {"default"}, FALSE, {}, 2, FALSE),
     Scene({r1, r2}, FALSE, {"header"}, FALSE, {}, 0, FALSE),
     Scene({r1}, FALSE, {}, TRUE, {d1, d2}, 0, TRUE),
     Scene({r1, r2}, FALSE, {}, FALSE, {d1}, 0, TRUE)}
=============================================================================
