-------------------------- MODULE MetricsReporter --------------------------
(***************************************************************************)
(* The metrics reporter of the daemon (cmd/agent/metrics_ship.go and       *)
(* metrics.go): runMetricsReporter fetches an Elasticsearch key from       *)
(* Hasfy-App, samples, buffers and uploads, until the daemon's context is  *)
(* cancelled or the device refused.                                        *)
(*                                                                         *)
(* Documents are numbered in the order they are collected.  Hasfy-App and  *)
(* Elasticsearch are external.                                             *)
(***************************************************************************)
EXTENDS DaemonProcess, Naturals, Sequences

CONSTANTS
    MaxDocs,            \* bound on the documents collected
    MaxBatch,           \* most documents of one sample
    MaxBufferedSamples, \* maxBufferedSamples (60 in the code)
    MaxRotations,       \* bound on rotations of the key
    MaxLost             \* bound on uploads whose answer is lost

ASSUME MetricsAssumption ==
    /\ MaxDocs \in Nat /\ MaxBatch \in Nat /\ MaxRotations \in Nat
    /\ MaxLost \in Nat /\ MaxBufferedSamples \in Nat \ {0}

VARIABLES
    esKey,      \* the key Elasticsearch accepts, numbered by rotation
    stored,     \* stored[i]: copies of document i in Elasticsearch
    rejected,   \* documents Elasticsearch refused, each for itself
    lost,       \* uploads whose answer was lost
    mpc,        \* where runMetricsReporter is
    creds,      \* the key it holds, 0 for none
    old,        \* ingestCredentialsTTL has passed since it was fetched
    buffer,     \* documents not uploaded yet
    taken       \* documents collected so far

es == <<esKey, stored, rejected, lost>>
metricsVars == <<esKey, stored, rejected, lost, mpc, creds, old, buffer, taken>>

Docs == 1..MaxDocs
Buffered == {buffer[i] : i \in DOMAIN buffer}

MetricsInit ==
    /\ esKey = 1 /\ stored = [i \in Docs |-> 0] /\ rejected = {} /\ lost = 0
    /\ mpc = "wait" /\ creds = 0 /\ old = FALSE /\ buffer = <<>> /\ taken = 0

At(pc) == Started /\ mpc = pc

\* runMetricsReporter returns, and its buffer is gone.
Returns == mpc' = "stopped" /\ buffer' = <<>>

\* After an error it returns if the context is cancelled, and else tries again.
ReturnsOrRetries ==
    IF cancelled THEN Returns ELSE mpc' = "wait" /\ UNCHANGED buffer

-----------------------------------------------------------------------------
(* The key *)

\* The timer fires: on to the fetch, or straight to the sample.
MetricsTick ==
    /\ At("wait")
    /\ mpc' = IF creds = 0 \/ old THEN "fetch" ELSE "sample"
    /\ UNCHANGED <<processVars, es, creds, old, buffer, taken>>

FetchCreds ==
    /\ At("fetch") /\ ~revoked
    /\ mpc' = "sample" /\ creds' = esKey /\ old' = FALSE
    /\ UNCHANGED <<processVars, es, buffer, taken>>

\* The device is refused: the reporter ends for good.
FetchRefusedRetried ==
    /\ At("fetch") /\ revoked
    /\ mpc' = "wait"
    /\ UNCHANGED <<processVars, es, creds, old, buffer, taken>>

FetchRefused ==
    /\ At("fetch") /\ revoked
    /\ Returns
    /\ UNCHANGED <<processVars, es, creds, old, taken>>

\* Any other failure: no sample is taken before the next attempt.
FetchFails ==
    /\ At("fetch")
    /\ ReturnsOrRetries
    /\ UNCHANGED <<processVars, es, creds, old, taken>>

-----------------------------------------------------------------------------
(* Sampling and the buffer *)

\* appendBounded: the batch is added and the oldest documents go.
AppendNewestDropped(batch) ==
    SubSeq(buffer \o batch, 1,
           IF Len(buffer \o batch) < MaxBufferedSamples THEN Len(buffer \o batch)
           ELSE MaxBufferedSamples)

AppendBounded(batch) ==
    LET all == buffer \o batch IN
    IF Len(all) <= MaxBufferedSamples THEN all
    ELSE SubSeq(all, Len(all) - MaxBufferedSamples + 1, Len(all))

\* One sample: a document for the system, unless nothing could be read, one
\* per filesystem and one per interface.
Sample ==
    /\ At("sample")
    /\ \E n \in 0..MaxBatch :
           /\ taken + n <= MaxDocs
           /\ buffer' = AppendBounded([i \in 1..n |-> taken + i])
           /\ taken' = taken + n
    /\ mpc' = IF buffer' = <<>> THEN "wait" ELSE "ship"
    /\ UNCHANGED <<processVars, es, creds, old>>

-----------------------------------------------------------------------------
(* shipMetrics, and what its result leads to *)

\* Elasticsearch accepts the key and the batch, but for documents it refuses.
Accepts(refused) ==
    /\ At("ship") /\ creds = esKey
    /\ refused \subseteq Buffered
    /\ stored' = [i \in Docs |-> stored[i] + (IF i \in Buffered \ refused THEN 1 ELSE 0)]
    /\ rejected' = rejected \cup refused

\* A 2xx answer, whether or not its body can be decoded: the buffer is emptied.
\* Documents refused one by one are not sent again.
ShipKeepingBuffer ==
    /\ \E refused \in SUBSET Buffered : Accepts(refused)
    /\ mpc' = "wait"
    /\ UNCHANGED <<processVars, esKey, lost, creds, old, buffer, taken>>

Ship ==
    /\ \E refused \in SUBSET Buffered : Accepts(refused)
    /\ buffer' = <<>> /\ mpc' = "wait"
    /\ UNCHANGED <<processVars, esKey, lost, creds, old, taken>>

\* The batch is stored and the answer lost: an error like any other.
ShipAnswerLost ==
    /\ lost < MaxLost /\ lost' = lost + 1
    /\ Accepts({})
    /\ ReturnsOrRetries
    /\ UNCHANGED <<processVars, esKey, creds, old, taken>>

\* Elasticsearch cannot be reached or answers with an error: the buffer stays.
ShipFailsEmptying ==
    /\ At("ship")
    /\ mpc' = IF cancelled THEN "stopped" ELSE "wait"
    /\ buffer' = <<>>
    /\ UNCHANGED <<processVars, es, creds, old, taken>>

ShipFails ==
    /\ At("ship")
    /\ ReturnsOrRetries
    /\ UNCHANGED <<processVars, es, creds, old, taken>>

\* 401 or 403: the key is given up, the buffer stays.
ShipUnauthorizedKeepingKey ==
    /\ At("ship") /\ creds # esKey
    /\ mpc' = "wait"
    /\ UNCHANGED <<processVars, es, creds, old, buffer, taken>>

ShipUnauthorized ==
    /\ At("ship") /\ creds # esKey
    /\ creds' = 0 /\ mpc' = "wait"
    /\ UNCHANGED <<processVars, es, old, buffer, taken>>

\* The context is cancelled while the reporter waits.
MetricsCancelled ==
    /\ At("wait") /\ cancelled
    /\ Returns
    /\ UNCHANGED <<processVars, es, creds, old, taken>>

-----------------------------------------------------------------------------
(* The environment *)

\* A day passes.
CredsAge ==
    /\ Started /\ creds # 0 /\ ~old
    /\ old' = TRUE
    /\ UNCHANGED <<processVars, es, mpc, creds, buffer, taken>>

\* Hasfy-App rotates the key; the one before is no longer accepted.
RotateKey ==
    /\ Started /\ esKey <= MaxRotations
    /\ esKey' = esKey + 1
    /\ UNCHANGED <<processVars, stored, rejected, lost, mpc, creds, old,
                   buffer, taken>>

MetricsStep ==
    \/ MetricsTick \/ FetchCreds \/ FetchRefused \/ FetchFails \/ Sample
    \/ Ship \/ ShipAnswerLost \/ ShipFails \/ ShipUnauthorized
    \/ MetricsCancelled \/ CredsAge \/ RotateKey

\* The goroutine runs; Hasfy-App and Elasticsearch answer now and then.
MetricsFairness ==
    /\ WF_metricsVars(MetricsTick) /\ WF_metricsVars(Sample)
    /\ SF_metricsVars(FetchCreds) /\ SF_metricsVars(FetchRefused)
    /\ SF_metricsVars(Ship) /\ SF_metricsVars(ShipUnauthorized)

-----------------------------------------------------------------------------
(* Properties *)

\* Document i has left the buffer without an answer, which is only ever to make
\* room for newer ones.
Displaced(i) == i + MaxBufferedSamples <= taken

\* metrics_ship.go, "the buffer is bounded and drops oldest-first": it holds the
\* newest documents, in the order they were collected.
BufferIsNewest ==
    /\ Len(buffer) <= MaxBufferedSamples
    /\ buffer = [i \in 1..Len(buffer) |-> taken - Len(buffer) + i]

\* metrics_ship.go, "Buffers on failure", "keep the buffer: the samples are
\* still good": across refused keys, failed uploads and lost answers, every
\* document collected is in Elasticsearch, was refused by it, waits in the
\* buffer, or had to make room, as long as the reporter has not returned.
NoDocumentForgotten ==
    alive /\ mpc # "stopped" =>
        \A i \in 1..taken :
            stored[i] > 0 \/ i \in rejected \cup Buffered \/ Displaced(i)

\* A document is in Elasticsearch more than once only for uploads whose answer
\* was lost: an upload that succeeded is never repeated.
DuplicatesAreRetries == \A i \in Docs : stored[i] <= 1 + lost

\* metrics_ship.go, "re-fetches instead of retrying with a credential that will
\* never work again": whenever the key is rotated, what has been collected gets
\* to Elasticsearch, unless it has to make room, and the daily renewal of the
\* key is not needed for it.
DocumentsArrive ==
    MetricsFairness =>
        \A i \in Docs :
            (i <= taken) ~> (stored[i] > 0 \/ i \in rejected \/ Displaced(i)
                             \/ revoked \/ cancelled \/ ~alive)

\* metrics_ship.go, "metrics disabled: this device is no longer authorised":
\* although its Elasticsearch key goes on working, a revoked device stops, a day
\* later at the latest.
RevokedGoesQuiet ==
    MetricsFairness /\ WF_metricsVars(CredsAge) => ((revoked /\ Started) ~> (mpc = "stopped" \/ ~alive))

-----------------------------------------------------------------------------
(* Statements of the repository that the code does not meet *)

\* metrics.go:62-64, maxBufferedSamples: "60 samples, one hour at a sample a
\* minute", to be lost only in an outage longer than that.  The buffer counts
\* documents, of which a sample has one per filesystem and interface besides
\* its own: a sample too large for it loses its first documents even when
\* every upload succeeds.
SampleFitsBuffer ==
    [][mpc = "sample" /\ buffer = <<>> => Len(buffer') = taken' - taken]_metricsVars
=============================================================================
