------------------------------ MODULE Pipeline ------------------------------
(***************************************************************************)
(* work/pipeline.go, work/pipeline_steps.go and work/io.go: steps that run  *)
(* concurrently, connected by unbuffered channels.                          *)
(*                                                                         *)
(* A step is a goroutine.  pend[s] holds the values it is blocked sending,  *)
(* in order; a step with nothing to send may receive.  Sending and          *)
(* receiving are one step, as on an unbuffered Go channel.  A channel is    *)
(* closed by the pipeline when the last step that registered it as an       *)
(* output has returned.                                                     *)
(***************************************************************************)
EXTENDS Naturals, Sequences, FiniteSets

CONSTANTS Steps,      \* the steps given to RunPipeline
          OutputsOf,  \* Steps -> the channels each registers as its outputs
          Root        \* the one step that receives graceful cancellation

ASSUME PipelineAssumption ==
    IsFiniteSet(Steps) /\ Root \in Steps /\ DOMAIN OutputsOf = Steps

VARIABLES st,        \* Steps -> "run", or the result of its function
          pend,      \* Steps -> what it still has to send
          graceful,  \* gracefulCtx: "open", "closed" (by Close), "failed" (by a step)
          hard       \* hardCtx is cancelled

pipeVars == <<st, pend, graceful, hard>>

PipeTypeOK(Channels) ==
    /\ st \in [Steps -> {"run", "ok", "err"}]
    /\ DOMAIN pend = Steps
    /\ \A s \in Steps : \A i \in DOMAIN pend[s] : pend[s][i].ch \in Channels
    /\ graceful \in {"open", "closed", "failed"}
    /\ hard \in BOOLEAN

\* RunPipeline starts every step; some have a value to send at once.
RunPipeline(pending) ==
    /\ st = [s \in Steps |-> "run"]
    /\ pend = pending
    /\ graceful = "open" /\ hard = FALSE

Running(s) == st[s] = "run"
Failed     == \E s \in Steps : st[s] = "err"

Send(c, v) == [ch |-> c, val |-> v]

\* The steps blocked sending on c, and what s is about to send.
Senders(c) == {s \in Steps : Running(s) /\ pend[s] # <<>> /\ Head(pend[s]).ch = c}
Offer(s)   == Head(pend[s]).val

\* sharedOutputs.addMany: the steps that registered a channel as an output.
WritersOf ==
    [c \in UNION {OutputsOf[s] : s \in Steps} |-> {s \in Steps : c \in OutputsOf[s]}]

\* Mutated form: the first step that is done closes what it shares.
ClosedByFirst(c) == \E s \in WritersOf[c] : ~Running(s)

\* sharedOutputs.done: the count of registered writers that have not returned is 0.
ClosedByPipeline(c) == \A s \in WritersOf[c] : ~Running(s)

\* A step that may receive, and a receive by s from the step w that leaves s
\* with the values out to send.
Ready(s)        == Running(s) /\ pend[s] = <<>>
Move(w, s, out) == pend' = [pend EXCEPT ![w] = Tail(@), ![s] = out]
Emit(s, out)    == pend' = [pend EXCEPT ![s] = @ \o out]

\* The function of s returned nil.
Finish(s) ==
    /\ st' = [st EXCEPT ![s] = "ok"]
    /\ UNCHANGED <<pend, graceful, hard>>

\* The function of s returned an error: its outputs are done all the same, what
\* it still held is dropped, and the pipeline begins to shut down.  The first
\* cause of gracefulCtx stays.
FailStep(s) ==
    /\ st' = [st EXCEPT ![s] = "err"]
    /\ pend' = [pend EXCEPT ![s] = <<>>]
    /\ graceful' = IF graceful = "open" THEN "failed" ELSE graceful
    /\ UNCHANGED hard

\* The root waits for gracefulCtx and returns the cause, unless it is Close.
RootReturns ==
    /\ Running(Root) /\ graceful # "open"
    /\ IF graceful = "closed" THEN Finish(Root) ELSE FailStep(Root)

\* Close cancels gracefulCtx, then waits for every step; when the context of
\* Close is done it cancels hardCtx, on which every step returns: it sees the
\* cancellation wherever it receives, sends or calls a service.
ClosePipeline ==
    /\ graceful' = IF graceful = "open" THEN "closed" ELSE graceful
    /\ UNCHANGED <<st, pend, hard>>

HardCancel ==
    /\ ~hard /\ hard' = TRUE
    /\ st' = [s \in Steps |-> IF Running(s) THEN "err" ELSE st[s]]
    /\ pend' = [s \in Steps |-> <<>>]
    /\ UNCHANGED graceful

AllReturned == \A s \in Steps : ~Running(s)
=============================================================================
