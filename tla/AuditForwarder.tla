--------------------------- MODULE AuditForwarder ---------------------------
(***************************************************************************)
(* The audit trail (internal/audit/audit.go and forward.go): every event   *)
(* is written to stdout and, when it names an organisation, queued without *)
(* blocking for the one goroutine that posts batches to Hasfy-App, until   *)
(* the process is told to stop.                                            *)
(***************************************************************************)
EXTENDS Naturals, Sequences, Functions

CONSTANTS
    Events,         \* events the relay's goroutines emit
    Scoped,         \* those that name an organisation
    QueueSize,      \* forwardQueueSize (500 in the code)
    BatchSize       \* forwardBatchSize (50 in the code)

ASSUME AuditAssumption ==
    /\ Scoped \subseteq Events
    /\ QueueSize \in Nat \ {0}
    /\ BatchSize \in Nat \ {0}

VARIABLES
    emit,       \* emit[e]: progress of the call of Emit for e
    accepted,   \* events the queue took, in that order
    dropped,    \* events a full queue refused
    queue,      \* Forwarder.queue
    batch,      \* the batch Run is filling
    posted,     \* events handed to post, in order
    failed,     \* those whose post failed
    run,        \* the loop of Run
    ctxDone,    \* SIGTERM: the context of Run is cancelled
    exited      \* main has returned

loopVars == <<batch, posted, failed, run>>
vars == <<emit, accepted, dropped, queue, batch, posted, failed, run, ctxDone, exited>>

Init ==
    /\ emit = [e \in Events |-> "new"]
    /\ accepted = <<>> /\ dropped = {} /\ queue = <<>>
    /\ batch = <<>> /\ posted = <<>> /\ failed = {}
    /\ run = "select"
    /\ ctxDone = FALSE /\ exited = FALSE

-----------------------------------------------------------------------------
(* Emit, in any goroutine of the relay *)

\* The line goes to stdout; an event without an organisation goes no further.
Write(e) ==
    /\ ~exited /\ emit[e] = "new"
    /\ emit' = [emit EXCEPT ![e] = IF e \in Scoped THEN "written" ELSE "done"]
    /\ UNCHANGED <<accepted, dropped, queue, loopVars, ctxDone, exited>>

\* Enqueue: the queue takes the event, or is full and drops it.
EnqueueBlocking(e) ==
    /\ ~exited /\ emit[e] = "written"
    /\ emit' = [emit EXCEPT ![e] = "done"]
    /\ Len(queue) < QueueSize
    /\ queue' = Append(queue, e) /\ accepted' = Append(accepted, e)
    /\ UNCHANGED <<dropped, loopVars, ctxDone, exited>>

Enqueue(e) ==
    /\ ~exited /\ emit[e] = "written"
    /\ emit' = [emit EXCEPT ![e] = "done"]
    /\ \/ /\ Len(queue) < QueueSize
          /\ queue' = Append(queue, e) /\ accepted' = Append(accepted, e)
          /\ UNCHANGED dropped
       \/ /\ Len(queue) = QueueSize
          /\ dropped' = dropped \cup {e}
          /\ UNCHANGED <<queue, accepted>>
    /\ UNCHANGED <<loopVars, ctxDone, exited>>

-----------------------------------------------------------------------------
(* Run.  "post" and "deadPost" are calls of flush, on a live context and on *)
(* a cancelled one; "final" is the last post, on a context of its own.      *)

Posting == IF ctxDone THEN "deadPost" ELSE "post"

\* The select takes an event; a full batch is flushed.
TakeEvent ==
    /\ ~exited /\ run = "select" /\ queue # <<>>
    /\ queue' = Tail(queue) /\ batch' = Append(batch, Head(queue))
    /\ run' = IF Len(batch') >= BatchSize THEN Posting ELSE "select"
    /\ UNCHANGED <<emit, accepted, dropped, posted, failed, ctxDone, exited>>

\* The ticker fires: what there is, is flushed.
NoTick == FALSE /\ UNCHANGED vars

Tick ==
    /\ ~exited /\ run = "select" /\ batch # <<>>
    /\ run' = Posting
    /\ UNCHANGED <<emit, accepted, dropped, queue, batch, posted, failed, ctxDone, exited>>

\* The context is done: what the batch holds is posted and Run returns.
Stop ==
    /\ ~exited /\ run = "select" /\ ctxDone
    /\ run' = IF batch = <<>> THEN "returned" ELSE "final"
    /\ UNCHANGED <<emit, accepted, dropped, queue, batch, posted, failed, ctxDone, exited>>

\* post returns, within forwardHTTPTimeout, and the batch is emptied whatever
\* became of it.  On a cancelled context it always fails.
PostKeepingBatch ==
    /\ ~exited /\ run \in {"post", "deadPost", "final"}
    /\ \E lost \in {{}, Range(batch)} :
           (run = "deadPost" => lost # {}) /\ failed' = failed \cup lost
    /\ posted' = posted \o batch
    /\ run' = IF run = "final" THEN "returned" ELSE "select"
    /\ UNCHANGED <<emit, accepted, dropped, queue, batch, ctxDone, exited>>

Post ==
    /\ ~exited /\ run \in {"post", "deadPost", "final"}
    /\ \E lost \in {{}, Range(batch)} :
           (run = "deadPost" => lost # {}) /\ failed' = failed \cup lost
    /\ posted' = posted \o batch /\ batch' = <<>>
    /\ run' = IF run = "final" THEN "returned" ELSE "select"
    /\ UNCHANGED <<emit, accepted, dropped, queue, ctxDone, exited>>

-----------------------------------------------------------------------------
(* main *)

Sigterm ==
    /\ ~ctxDone /\ ctxDone' = TRUE
    /\ UNCHANGED <<emit, accepted, dropped, queue, loopVars, exited>>

\* http.Server.Shutdown has returned.  main does not wait for Run.
Exit ==
    /\ ctxDone /\ ~exited /\ exited' = TRUE
    /\ UNCHANGED <<emit, accepted, dropped, queue, loopVars, ctxDone>>

Loop == TakeEvent \/ Tick \/ Stop \/ Post

Next == (\E e \in Events : Write(e) \/ Enqueue(e)) \/ Loop \/ Sigterm \/ Exit

Spec == Init /\ [][Next]_vars

\* A goroutine in Emit runs on.  Nothing is assumed of Run or of Hasfy-App.
EmitterSpec == Spec /\ \A e \in Events : WF_vars(Enqueue(e))

\* The loop of Run runs on: select picks among its ready cases at random, so
\* that none is passed over for ever, and post ends by its timeout.
LoopFairness ==
    WF_vars(TakeEvent) /\ SF_vars(Tick) /\ SF_vars(Stop) /\ WF_vars(Post)

-----------------------------------------------------------------------------
(* Properties *)

\* Type correctness, with the queue and the batch within their capacity, and
\* only events that name an organisation beyond stdout.
TypeOK ==
    /\ emit \in [Events -> {"new", "written", "done"}]
    /\ accepted \in Seq(Scoped) /\ posted \in Seq(Scoped)
    /\ dropped \in SUBSET Scoped /\ failed \in SUBSET Scoped
    /\ queue \in Seq(Scoped) /\ Len(queue) <= QueueSize
    /\ batch \in Seq(Scoped) /\ Len(batch) <= BatchSize
    /\ run \in {"select", "post", "deadPost", "final", "returned"}
    /\ ctxDone \in BOOLEAN /\ exited \in BOOLEAN

\* The forwarder neither reorders, nor duplicates, nor silently loses what the
\* queue took: it has all been handed to post, or is in the batch, or in the
\* queue, in the order it came.
Conservation == accepted = posted \o batch \o queue

\* forward.go, "an audit sink must never be able to stall or fail the data
\* path it observes": Emit ends even if Run never takes a step again.
EmitNeverStalls == \A e \in Events : (emit[e] = "written") ~> (emit[e] = "done" \/ exited)

\* An event that was accepted is posted, within the interval, unless the
\* process is told to stop first, if only the loop runs on.
AcceptedIsPosted ==
    LoopFairness =>
        \A e \in Events : (e \in Range(accepted)) ~> (e \in Range(posted) \/ ctxDone)

-----------------------------------------------------------------------------
(* Statements of the repository that the code does not meet *)

\* forward.go, Run: "flushing what remains on the way out so a graceful
\* shutdown does not discard the last session's events": Run returns only when
\* it has taken everything the queue holds at that moment.
ShutdownFlushes ==
    [][run # "returned" /\ run' = "returned" => queue = <<>>]_vars
=============================================================================
