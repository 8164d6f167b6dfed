--------------------------- MODULE BrokerServing ---------------------------
(* The serving process: main with its select between server and scheduler,   *)
(* the signal handler, the delayed graceful shutdown, the requests in flight *)
(* with their evaluation and decode slots, and the blocking tasks behind     *)
(* them.  The crawl scheduler appears only as main sees it (a task that ends *)
(* after shutdown, or too early, and hands writes to the blocking pool);     *)
(* Harvester has its inside, PolicyFilteredQuery that of an evaluation.      *)
EXTENDS Naturals, FiniteSets, Sequences

CONSTANTS
    Queries,        \* requests to /sparql
    Reads,          \* requests to GET /catalog or the management API
    SparqlSlots,    \* broker:sparqlMaxConcurrent
    CatalogSlots,   \* permits of AppState::catalog_slots
    Delay,          \* broker:shutdownDelaySecs, in ticks
    SignalKinds,    \* the signals listened for: SIGINT, SIGTERM
    Crawls,         \* whether the configuration lists participants
    MaxSignals      \* bound on the signals sent

ASSUME ServingAssumption ==
    /\ Queries \cap Reads = {}
    /\ IsFiniteSet(Queries) /\ IsFiniteSet(Reads)
    /\ SparqlSlots \in Nat \ {0} /\ CatalogSlots \in Nat \ {0}
    /\ SignalKinds # {}
    /\ Delay \in Nat /\ MaxSignals \in Nat /\ Crawls \in BOOLEAN

VARIABLES
    pending,        \* signals waiting on their listeners, one per kind
    sent,           \* signals sent to the process
    handler,        \* handle_signals: waiting for the first or second, or gone
    shutdown,       \* the shutdown token
    draining,       \* the draining token
    stop,           \* stop_after: waiting, delaying, done
    elapsed,        \* ticks of the delay slept so far
    failing,        \* ticks for which /ready has answered "stopping"
    listener,       \* open or closed
    main,           \* where main is
    code,           \* exit status, or Running
    crawler,        \* the scheduler task: none, running, ended
    write,          \* a catalog write on the blocking pool
    req,            \* request -> where its handler is
    task,           \* request -> its blocking task
    cancelled,      \* query -> its CancellationToken
    free_sparql,    \* AppState::sparql_slots
    free_catalog,   \* AppState::catalog_slots
    queue           \* reads waiting for a decode slot, first come first served

process == <<pending, sent, handler, shutdown, draining, stop, elapsed, failing,
             listener, main, code>>
crawling == <<crawler, write>>
requests == <<req, task, cancelled, free_sparql, free_catalog, queue>>
vars == <<process, crawling, requests>>

Requests == Queries \cup Reads
Running == 255
OpenHandler == {"slot", "waiting"}
LiveTask == {"queued", "running"}

Init ==
    /\ pending = {} /\ sent = 0 /\ handler = "first"
    /\ shutdown = FALSE /\ draining = FALSE
    /\ stop = "waiting" /\ elapsed = 0 /\ failing = 0
    /\ listener = "open" /\ main = "select" /\ code = Running
    /\ crawler = (IF Crawls THEN "running" ELSE "none") /\ write = "none"
    /\ req = [r \in Requests |-> "idle"]
    /\ task = [r \in Requests |-> "none"]
    /\ cancelled = [q \in Queries |-> FALSE]
    /\ free_sparql = SparqlSlots /\ free_catalog = CatalogSlots
    /\ queue = <<>>

\* Async tasks run until main returns; blocking threads until the process ends.
RuntimeUp == main \notin {"dropping", "exited"}
ProcessUp == main # "exited"

-----------------------------------------------------------------------------
(* Signals and the stages of shutdown *)

\* A listener keeps one pending notification however often its signal comes.
SendSignal(k) ==
    /\ ProcessUp /\ sent < MaxSignals
    /\ sent' = sent + 1
    /\ pending' = pending \cup {k}
    /\ UNCHANGED <<handler, shutdown, draining, stop, elapsed, failing, listener,
                   main, code, crawling, requests>>

HandleFirstSignal ==
    /\ RuntimeUp /\ handler = "first"
    /\ \E k \in pending : pending' = pending \ {k}
    /\ shutdown' = TRUE
    /\ handler' = "second"
    /\ UNCHANGED <<sent, draining, stop, elapsed, failing, listener, main, code,
                   crawling, requests>>

HandleSecondSignal ==
    /\ RuntimeUp /\ handler = "second"
    /\ \E k \in pending : pending' = pending \ {k}
    /\ main' = "exited" /\ code' = 130
    /\ handler' = "gone"
    /\ UNCHANGED <<sent, shutdown, draining, stop, elapsed, failing, listener,
                   crawling, requests>>

DelayBegins ==
    /\ RuntimeUp /\ shutdown /\ stop = "waiting"
    /\ stop' = "delaying"
    /\ UNCHANGED <<pending, sent, handler, shutdown, draining, elapsed, failing,
                   listener, main, code, crawling, requests>>

\* Mutant: the delay has no end of its own.
DelayTickOn ==
    /\ RuntimeUp /\ stop = "delaying" /\ elapsed <= Delay
    /\ elapsed' = elapsed + 1
    /\ failing' = failing
    /\ UNCHANGED <<pending, sent, handler, shutdown, draining, stop, listener,
                   main, code, crawling, requests>>

DelayTick ==
    /\ RuntimeUp /\ stop = "delaying" /\ elapsed < Delay
    /\ elapsed' = elapsed + 1
    /\ failing' = IF shutdown THEN failing + 1 ELSE failing
    /\ UNCHANGED <<pending, sent, handler, shutdown, draining, stop, listener,
                   main, code, crawling, requests>>

\* Mutant: drains as soon as shutdown begins.
DelayEndsAtOnce ==
    /\ RuntimeUp /\ stop = "delaying"
    /\ stop' = "done"
    /\ draining' = TRUE
    /\ UNCHANGED <<pending, sent, handler, shutdown, elapsed, failing, listener,
                   main, code, crawling, requests>>

\* stop_after returns and the graceful-shutdown future cancels `draining`.
DelayEnds ==
    /\ RuntimeUp /\ stop = "delaying" /\ elapsed = Delay
    /\ stop' = "done"
    /\ draining' = TRUE
    /\ UNCHANGED <<pending, sent, handler, shutdown, elapsed, failing, listener,
                   main, code, crawling, requests>>

CloseListener ==
    /\ RuntimeUp /\ stop = "done" /\ listener = "open"
    /\ listener' = "closed"
    /\ UNCHANGED <<pending, sent, handler, shutdown, draining, stop, elapsed,
                   failing, main, code, crawling, requests>>

-----------------------------------------------------------------------------
(* main *)

ServerDone ==
    /\ listener = "closed"
    /\ \A r \in Requests : req[r] \notin OpenHandler

\* Returning from main drops the runtime, and with it every async task.
ReturnFromMain ==
    /\ main' = "dropping"
    /\ handler' = "gone"

\* Mutant: main returns without waiting for the scheduler.
ServerEndsAlone ==
    /\ main = "select" /\ ServerDone
    /\ shutdown' = TRUE
    /\ ReturnFromMain
    /\ UNCHANGED <<pending, sent, draining, stop, elapsed, failing, listener, code,
                   crawling, requests>>

ServerEnds ==
    /\ main = "select" /\ ServerDone
    /\ shutdown' = TRUE
    /\ IF crawler = "none"
       THEN ReturnFromMain
       ELSE main' = "awaitScheduler" /\ UNCHANGED handler
    /\ UNCHANGED <<pending, sent, draining, stop, elapsed, failing, listener, code,
                   crawling, requests>>

SchedulerEnds ==
    /\ main = "select" /\ crawler = "ended"
    /\ IF shutdown
       THEN main' = "awaitServer" /\ UNCHANGED <<code, handler>>
       ELSE main' = "exited" /\ code' = 1 /\ handler' = "gone"
    /\ UNCHANGED <<pending, sent, shutdown, draining, stop, elapsed, failing,
                   listener, crawling, requests>>

\* Mutant: waits for the server again after it has ended.
RestEndsServerOnly ==
    /\ main = "awaitServer" /\ ServerDone
    /\ ReturnFromMain
    /\ UNCHANGED <<pending, sent, shutdown, draining, stop, elapsed, failing,
                   listener, code, crawling, requests>>

RestEnds ==
    /\ \/ main = "awaitScheduler" /\ crawler = "ended"
       \/ main = "awaitServer" /\ ServerDone
    /\ ReturnFromMain
    /\ UNCHANGED <<pending, sent, shutdown, draining, stop, elapsed, failing,
                   listener, code, crawling, requests>>

\* Dropping the runtime waits for the blocking tasks that have started.
RuntimeDropped ==
    /\ main = "dropping"
    /\ \A r \in Requests : task[r] # "running"
    /\ write # "running"
    /\ main' = "exited" /\ code' = 0
    /\ UNCHANGED <<pending, sent, handler, shutdown, draining, stop, elapsed,
                   failing, listener, crawling, requests>>

-----------------------------------------------------------------------------
(* The scheduler, from outside *)

\* A panic in the scheduler task: main learns of it through the join handle.
CrawlerFails ==
    /\ RuntimeUp /\ crawler = "running" /\ ~shutdown
    /\ crawler' = "ended"
    /\ UNCHANGED <<write, process, requests>>

CrawlerStops ==
    /\ RuntimeUp /\ crawler = "running" /\ shutdown
    /\ crawler' = "ended"
    /\ UNCHANGED <<write, process, requests>>

SubmitWrite ==
    /\ RuntimeUp /\ crawler = "running" /\ write = "none"
    /\ write' = "queued"
    /\ UNCHANGED <<crawler, process, requests>>

RunWrite ==
    /\ RuntimeUp /\ write = "queued"
    /\ write' = "running"
    /\ UNCHANGED <<crawler, process, requests>>

EndWrite ==
    /\ ProcessUp /\ write = "running"
    /\ write' = "none"
    /\ UNCHANGED <<crawler, process, requests>>

-----------------------------------------------------------------------------
(* Requests *)

\* Which status each way out gives is in CatalogRequests.
Answered(r) == req' = [req EXCEPT ![r] = "answered"]

Arrives(r) == RuntimeUp /\ listener = "open" /\ req[r] = "idle"

\* Bearer gate, Accept header, missing query, query that does not parse,
\* all answered before a slot is taken.
RejectQuery(q) ==
    /\ Arrives(q)
    /\ Answered(q)
    /\ UNCHANGED <<task, cancelled, free_sparql, free_catalog, queue,
                   process, crawling>>

RefuseBusy(q) ==
    /\ Arrives(q) /\ free_sparql = 0
    /\ Answered(q)
    /\ UNCHANGED <<task, cancelled, free_sparql, free_catalog, queue,
                   process, crawling>>

StartQuery(q) ==
    /\ Arrives(q) /\ free_sparql > 0
    /\ free_sparql' = free_sparql - 1
    /\ task' = [task EXCEPT ![q] = "queued"]
    /\ req' = [req EXCEPT ![q] = "waiting"]
    /\ UNCHANGED <<cancelled, free_catalog, queue, process, crawling>>

StartRead(c) ==
    /\ Arrives(c)
    /\ queue' = Append(queue, c)
    /\ req' = [req EXCEPT ![c] = "slot"]
    /\ UNCHANGED <<task, cancelled, free_sparql, free_catalog,
                   process, crawling>>

GrantDecodeSlot ==
    /\ RuntimeUp /\ queue # <<>> /\ free_catalog > 0
    /\ free_catalog' = free_catalog - 1
    /\ queue' = Tail(queue)
    /\ req' = [req EXCEPT ![Head(queue)] = "waiting"]
    /\ task' = [task EXCEPT ![Head(queue)] = "queued"]
    /\ UNCHANGED <<cancelled, free_sparql, process, crawling>>

\* Mutant: the slot is given back only to a request still waiting.
ReleaseSlotIfAwaited(r) ==
    /\ free_sparql' = IF r \in Queries /\ req[r] = "waiting"
                      THEN free_sparql + 1 ELSE free_sparql
    /\ free_catalog' = IF r \in Reads THEN free_catalog + 1 ELSE free_catalog

\* The slot is a local of the blocking closure and goes with it.
ReleaseSlot(r) ==
    /\ free_sparql' = IF r \in Queries THEN free_sparql + 1 ELSE free_sparql
    /\ free_catalog' = IF r \in Reads THEN free_catalog + 1 ELSE free_catalog

RunTask(r) ==
    /\ RuntimeUp /\ task[r] = "queued"
    /\ task' = [task EXCEPT ![r] = "running"]
    /\ UNCHANGED <<req, cancelled, free_sparql, free_catalog, queue,
                   process, crawling>>

\* A task ends when its work is done, it fails or panics, or it sees its token
\* cancelled, which it looks at on start and between reads of the store.
EndTask(r) ==
    /\ ProcessUp /\ task[r] = "running"
    /\ task' = [task EXCEPT ![r] = "returned"]
    /\ ReleaseSlot(r)
    /\ UNCHANGED <<req, cancelled, queue, process, crawling>>

\* The runtime is dropped before a queued closure ran: its slot goes with it.
DropQueuedTask(r) ==
    /\ main = "dropping" /\ task[r] = "queued"
    /\ task' = [task EXCEPT ![r] = "none"]
    /\ ReleaseSlot(r)
    /\ UNCHANGED <<req, cancelled, queue, process, crawling>>

\* Mutant: no drop guard.
CancelOnDropNever(r) == UNCHANGED cancelled

\* Leaving the handler drops CancelOnDrop, whatever the way out.
CancelOnDrop(r) ==
    cancelled' = IF r \in Queries THEN [cancelled EXCEPT ![r] = TRUE] ELSE cancelled

TakeResult(r) ==
    /\ RuntimeUp /\ req[r] = "waiting" /\ task[r] = "returned"
    /\ Answered(r)
    /\ CancelOnDrop(r)
    /\ UNCHANGED <<task, free_sparql, free_catalog, queue, process, crawling>>

\* Mutant: the limit is only seen once the evaluation has returned.
TimeLimitInEvaluation(q) ==
    /\ RuntimeUp /\ req[q] = "waiting" /\ task[q] = "returned"
    /\ Answered(q)
    /\ CancelOnDrop(q)
    /\ UNCHANGED <<task, free_sparql, free_catalog, queue, process, crawling>>

\* tokio's timeout looks at the evaluation before it looks at the clock.
TimeLimit(q) ==
    /\ RuntimeUp /\ req[q] = "waiting" /\ task[q] # "returned"
    /\ Answered(q)
    /\ CancelOnDrop(q)
    /\ UNCHANGED <<task, free_sparql, free_catalog, queue, process, crawling>>

StopQuery(q) ==
    /\ RuntimeUp /\ draining /\ req[q] = "waiting"
    /\ Answered(q)
    /\ CancelOnDrop(q)
    /\ UNCHANGED <<task, free_sparql, free_catalog, queue, process, crawling>>

\* The queue without r: dropping the future of an acquire gives up its place.
Withdrawn(q, r) ==
    LET k == CHOOSE i \in DOMAIN q : q[i] = r
    IN SubSeq(q, 1, k - 1) \o SubSeq(q, k + 1, Len(q))

\* The client goes away: its handler is dropped where it stands.
ClientGone(r) ==
    /\ RuntimeUp /\ req[r] \in OpenHandler
    /\ req' = [req EXCEPT ![r] = "dropped"]
    /\ queue' = IF req[r] = "slot" THEN Withdrawn(queue, r) ELSE queue
    /\ CancelOnDrop(r)
    /\ UNCHANGED <<task, free_sparql, free_catalog, process, crawling>>

-----------------------------------------------------------------------------
Main == ServerEnds \/ SchedulerEnds \/ RestEnds \/ RuntimeDropped

Stages == DelayBegins \/ DelayTick \/ DelayEnds \/ CloseListener

Next ==
    \/ \E k \in SignalKinds : SendSignal(k)
    \/ HandleFirstSignal \/ HandleSecondSignal
    \/ Stages \/ Main
    \/ CrawlerFails \/ CrawlerStops \/ SubmitWrite \/ RunWrite \/ EndWrite
    \/ \E q \in Queries : RejectQuery(q) \/ RefuseBusy(q) \/ StartQuery(q)
                          \/ TimeLimit(q) \/ StopQuery(q)
    \/ \E c \in Reads : StartRead(c)
    \/ GrantDecodeSlot
    \/ \E r \in Requests : RunTask(r) \/ EndTask(r) \/ DropQueuedTask(r)
                           \/ TakeResult(r) \/ ClientGone(r)

Spec == Init /\ [][Next]_vars

\* The runtime's own work: tasks that can go on, timers, free threads.
\* Nothing is assumed of clients, signals or how long blocking work takes.
FairSpec ==
    /\ Spec
    /\ WF_vars(HandleFirstSignal) /\ WF_vars(HandleSecondSignal)
    /\ WF_vars(Stages) /\ WF_vars(Main)
    /\ WF_vars(CrawlerStops) /\ WF_vars(GrantDecodeSlot) /\ WF_vars(RunWrite)
    /\ \A r \in Requests : WF_vars(RunTask(r)) /\ WF_vars(TakeResult(r))
    /\ \A r \in Requests : WF_vars(DropQueuedTask(r))
    /\ \A q \in Queries : WF_vars(TimeLimit(q)) /\ WF_vars(StopQuery(q))

\* Blocking work ends: decodes and writes are finite, an evaluation runs on
\* at most until its in-memory work is done.
BlockingWorkEnds ==
    WF_vars(EndWrite) /\ \A r \in Requests : WF_vars(EndTask(r))

-----------------------------------------------------------------------------
(* Properties *)

\* Types of the process, its tasks and the requests.
ServingTypeOK ==
    /\ pending \subseteq SignalKinds /\ sent \in 0..MaxSignals
    /\ handler \in {"first", "second", "gone"}
    /\ shutdown \in BOOLEAN /\ draining \in BOOLEAN
    /\ stop \in {"waiting", "delaying", "done"}
    /\ elapsed \in 0..Delay /\ failing \in 0..Delay
    /\ listener \in {"open", "closed"}
    /\ main \in {"select", "awaitScheduler", "awaitServer", "dropping", "exited"}
    /\ code \in {Running, 0, 1, 130}
    /\ crawler \in {"none", "running", "ended"}
    /\ write \in {"none", "queued", "running"}
    /\ req \in [Requests -> {"idle", "slot", "waiting", "answered", "dropped"}]
    /\ task \in [Requests -> {"none", "queued", "running", "returned"}]
    /\ cancelled \in [Queries -> BOOLEAN]
    /\ free_sparql \in 0..SparqlSlots /\ free_catalog \in 0..CatalogSlots
    /\ queue \in Seq(Reads)

LiveQueries == {q \in Queries : task[q] \in LiveTask}
LiveReads == {c \in Reads : task[c] \in LiveTask}

\* Every slot is either free or held by a blocking task that has not ended: no
\* more evaluations or decodes run at once than configured, also after their
\* requests timed out or went away, and no way out of a task leaks its slot.
SlotsAccountedFor ==
    /\ free_sparql + Cardinality(LiveQueries) = SparqlSlots
    /\ free_catalog + Cardinality(LiveReads) = CatalogSlots

\* An evaluation nobody waits for has been told to stop, however its handler
\* ended: answered, timed out, drained or dropped with its client.
AbandonedAreCancelled ==
    \A q \in LiveQueries : req[q] # "waiting" => cancelled[q]

\* The listener closes only after /ready has failed for the whole configured
\* delay, so a load balancer had that long to stop routing here.
ReadyFailsBeforeClose ==
    listener = "closed" => shutdown /\ failing >= Delay

\* Exit status 0 means a drained broker: no request without an answer, no
\* evaluation, decode or catalog write cut off, and the scheduler over.
CleanExitIsDrained ==
    code = 0 =>
        /\ \A r \in Requests : req[r] \notin OpenHandler /\ task[r] # "running"
        /\ write # "running" /\ crawler # "running"

\* A query gets an answer (or its client leaves) even when its evaluation
\* never ends: the time limit does not depend on the blocking task.
QueriesAnswered ==
    \A q \in Queries : req[q] = "waiting" ~> (req[q] # "waiting" \/ ~ProcessUp)

\* Once a signal was handled the process ends, whatever is in flight and
\* whichever of server and scheduler main sees first, if blocking work ends.
ShutdownEnds ==
    BlockingWorkEnds => (shutdown ~> ~ProcessUp)

\* docs/operations.md: a second signal exits at once, without draining.  It
\* must not depend on how long an evaluation runs on.
SecondSignalExits ==
    (handler = "second" /\ pending # {}) ~> ~ProcessUp
=============================================================================
