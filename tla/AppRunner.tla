------------------------------- MODULE AppRunner -------------------------------
(* app.Run around a Multi of several applications: a failing application stops *)
(* the others, a cancelled context shuts all of them down, and the exit code   *)
(* says whether anything went wrong.                                           *)
EXTENDS Integers, FiniteSets

CONSTANTS Apps,      \* the applications of the Multi
          Remembers  \* those whose Run returns when Shutdown came before it

VARIABLES ctx,     \* the context of Run was cancelled
          group,   \* groupCtxCancel was called
          run,     \* Run of each application: "new", "running", "failed", "ended"
          asked,   \* applications whose Shutdown was called in time to have an effect
          grp,     \* groupApp.run of each application
          main,    \* the three goroutines of app.Run, and what they have seen
          slow     \* the application outlived runTimeoutAfterGracefulShutdown

runnerVars == <<ctx, group, run, asked, grp, main, slow>>

RunnerInit ==
    /\ ctx = FALSE /\ group = FALSE /\ slow = FALSE
    /\ run = [a \in Apps |-> "new"]
    /\ asked = {}
    /\ grp = [a \in Apps |-> "select"]
    /\ main = [run |-> "multi", shut |-> "select", todo |-> {}, shutErr |-> FALSE, multiErr |-> FALSE,
               at |-> "read", code |-> 0]

Returned == {"failed", "ended"}

\* The goroutine of an application gets to its Run.
StartApp(a) ==
    /\ run[a] = "new"
    /\ run' = [run EXCEPT ![a] = "running"]
    /\ UNCHANGED <<ctx, group, asked, grp, main, slow>>

\* Run returns, by itself or because it was told to.
AppReturns(a, failed) ==
    /\ run[a] = "running"
    /\ run' = [run EXCEPT ![a] = IF failed THEN "failed" ELSE "ended"]
    /\ UNCHANGED <<ctx, group, asked, grp, main, slow>>

\* SingleFuncApp.Shutdown before Run has nothing to cancel.
Asked(a) == IF run[a] = "new" /\ a \notin Remembers THEN asked ELSE asked \cup {a}

\* groupApp.run: the application returned.
GroupReceives(a) ==
    /\ grp[a] = "select" /\ run[a] \in Returned
    /\ grp' = [grp EXCEPT ![a] = IF run[a] = "failed" THEN "report" ELSE "done"]
    /\ UNCHANGED <<ctx, group, run, asked, main, slow>>

\* groupApp.run: another application failed. The result is waited for.
GroupCancelled(a, shutErr) ==
    /\ grp[a] = "select" /\ group
    /\ asked' = Asked(a)
    /\ grp' = [grp EXCEPT ![a] = IF shutErr THEN "join failed" ELSE "join"]
    /\ UNCHANGED <<ctx, group, run, main, slow>>

GroupJoins(a) ==
    /\ grp[a] \in {"join", "join failed"} /\ run[a] \in Returned
    /\ grp' = [grp EXCEPT ![a] = IF @ = "join failed" \/ run[a] = "failed" THEN "report" ELSE "done"]
    /\ UNCHANGED <<ctx, group, run, asked, main, slow>>

ReportQuietly(a) ==
    /\ grp[a] = "report"
    /\ grp' = [grp EXCEPT ![a] = "done"]
    /\ main' = [main EXCEPT !.multiErr = TRUE]
    /\ UNCHANGED <<ctx, group, run, asked, slow>>

\* The error goes to Multi.Run, then the others are stopped.
Report(a) ==
    /\ grp[a] = "report"
    /\ grp' = [grp EXCEPT ![a] = "done"]
    /\ main' = [main EXCEPT !.multiErr = TRUE]
    /\ group' = TRUE
    /\ UNCHANGED <<ctx, run, asked, slow>>

\* Multi.Run returns when every application is done.
MultiReturns ==
    /\ main.run = "multi" /\ \A a \in Apps : grp[a] = "done"
    /\ main' = [main EXCEPT !.run = "send"]
    /\ UNCHANGED <<ctx, group, run, asked, grp, slow>>

-----------------------------------------------------------------------------
(* app.Run.                                                                    *)
Cancel ==
    /\ ~ctx /\ ctx' = TRUE
    /\ UNCHANGED <<group, run, asked, grp, main, slow>>

\* The run goroutine sends the result, on a channel that may have been closed.
RunSends ==
    /\ main.run = "send"
    /\ main' = IF main.shut = "closed" THEN [main EXCEPT !.run = "done", !.at = "panic"]
               ELSE [main EXCEPT !.run = "done", !.code = IF main.multiErr THEN 1 ELSE @]
    /\ UNCHANGED <<ctx, group, run, asked, grp, slow>>

\* The shutdown goroutine: the run goroutine is done, or the context.
ShutRunDone ==
    /\ main.shut = "select" /\ main.run = "done"
    /\ main' = [main EXCEPT !.shut = "closed"]
    /\ UNCHANGED <<ctx, group, run, asked, grp, slow>>

ShutBegins ==
    /\ main.shut = "select" /\ ctx
    /\ main' = [main EXCEPT !.shut = "shutdown", !.todo = Apps]
    /\ UNCHANGED <<ctx, group, run, asked, grp, slow>>

ShutAppFirstOnly(a, shutErr) ==
    /\ main.shut = "shutdown" /\ a \in main.todo
    /\ asked' = IF main.todo = Apps THEN Asked(a) ELSE asked
    /\ main' = [main EXCEPT !.todo = @ \ {a}, !.shutErr = @ \/ shutErr,
                            !.shut = IF main.todo = {a} THEN "wait" ELSE @]
    /\ UNCHANGED <<ctx, group, run, grp, slow>>

\* Multi.Shutdown shuts the applications down side by side.
ShutApp(a, shutErr) ==
    /\ main.shut = "shutdown" /\ a \in main.todo
    /\ asked' = Asked(a)
    /\ main' = [main EXCEPT !.todo = @ \ {a}, !.shutErr = @ \/ shutErr,
                            !.shut = IF main.todo = {a} THEN "wait" ELSE @]
    /\ UNCHANGED <<ctx, group, run, grp, slow>>

ShutDoesNotWait ==
    /\ main.shut = "wait"
    /\ main' = [main EXCEPT !.shut = "send"]
    /\ UNCHANGED <<ctx, group, run, asked, grp, slow>>

ShutWaited ==
    /\ main.shut = "wait" /\ main.run = "done"
    /\ main' = [main EXCEPT !.shut = "send"]
    /\ UNCHANGED <<ctx, group, run, asked, grp, slow>>

ShutTimeout ==
    /\ main.shut = "wait" /\ main.run # "done"
    /\ slow' = TRUE
    /\ main' = [main EXCEPT !.shut = "send"]
    /\ UNCHANGED <<ctx, group, run, asked, grp>>

ShutSends ==
    /\ main.shut = "send"
    /\ main' = [main EXCEPT !.shut = "closed", !.code = IF main.shutErr THEN 1 ELSE @]
    /\ UNCHANGED <<ctx, group, run, asked, grp, slow>>

RunReturnsOnResult ==
    /\ main.at = "read" /\ main.run = "done"
    /\ main' = [main EXCEPT !.at = "returned"]
    /\ UNCHANGED <<ctx, group, run, asked, grp, slow>>

\* The reader sees the channel closed and returns the code.
RunReturns ==
    /\ main.at = "read" /\ main.shut = "closed"
    /\ main' = [main EXCEPT !.at = "returned"]
    /\ UNCHANGED <<ctx, group, run, asked, grp, slow>>

RunnerStep(a) ==
    \/ StartApp(a) \/ GroupReceives(a) \/ GroupJoins(a) \/ Report(a)
    \/ \E err \in BOOLEAN : GroupCancelled(a, err) \/ ShutApp(a, err)

MainStep ==
    \/ MultiReturns \/ RunSends \/ ShutRunDone \/ ShutBegins \/ ShutWaited \/ ShutSends \/ RunReturns

AppHeeds(a) == a \in asked /\ \E failed \in BOOLEAN : AppReturns(a, failed)

RunnerNext ==
    \/ \E a \in Apps : RunnerStep(a) \/ \E failed \in BOOLEAN : AppReturns(a, failed)
    \/ MainStep \/ ShutTimeout \/ Cancel

-----------------------------------------------------------------------------
(* Properties                                                                  *)

\* The channel of Run is written to after it was closed only by an application
\* that outlived the time it is given to shut down.
PanicsOnlyWhenSlow == main.at = "panic" => slow

\* The exit code is right: when Run returns in time it is 1 exactly if Multi
\* reported an error or a Shutdown failed, and every application has returned.
CodeIsRight ==
    (main.at = "returned" /\ ~slow) =>
        /\ \A a \in Apps : run[a] \in Returned
        /\ main.code = IF main.shutErr \/ main.multiErr THEN 1 ELSE 0
        /\ \A a \in Apps : run[a] = "failed" => main.code = 1

\* The failure of one application ends the program, when the others heed their
\* Shutdown (Multi.Run, groupApp.run).
FailureEnds == (\E a \in Apps : run[a] = "failed") ~> (main.at # "read")

\* Cancelling the context ends the program, when the applications heed their
\* Shutdown (Run, Multi.Shutdown).
CancelEnds == ctx ~> (main.at # "read")
=============================================================================
