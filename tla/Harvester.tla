------------------------------ MODULE Harvester ------------------------------
(***************************************************************************)
(* The crawl scheduler and its Harvester (crates/crawler/src/lib.rs),      *)
(* driving the writers of CatalogStore.  A cycle crawls every participant, *)
(* at most Concurrency at once, each fetch under its own time limit; then  *)
(* it dates the successes, removes the catalogs that have become too old   *)
(* and publishes the status that /ready reports.  Shutdown drops the cycle *)
(* in flight while a write it has handed to the blocking pool goes on.     *)
(*                                                                         *)
(* The writer of a participant's catalog is named by the participant.  A   *)
(* catalog is represented by the time at which it was fetched.             *)
(***************************************************************************)
EXTENDS CatalogStore

CONSTANTS
    Concurrency,         \* CrawlLimits::concurrency
    ParticipantTimeout,  \* CrawlLimits::participant_timeout
    MaxCatalogAge,       \* CrawlLimits::max_catalog_age
    Interval,            \* ParticipantsConfig::interval_secs, at least 1
    Never,               \* no such instant: None, or no entry in a map
    MaxTime              \* bound: no cycle starts at or after MaxTime

ASSUME HarvesterAssumption ==
    /\ Writers = Nodes
    /\ IsFiniteSet(Nodes)
    /\ Catalogs \subseteq Nat
    /\ {Concurrency, ParticipantTimeout, MaxCatalogAge, MaxTime} \subseteq Nat
    /\ Interval \in Nat \ {0}
    /\ Never \notin Nat

VARIABLES
    clock,         \* Instant::now()
    shutdown,      \* the shutdown token
    phase,         \* where the scheduler task is
    next_tick,     \* when the interval fires next
    crawl,         \* each participant's part in the cycle
    outcome,       \* what each participant's last write returned, until read
    last_success,  \* Harvester::last_success
    cycle_end,     \* `now` of the last run_cycle that finished its crawls
    stale,         \* run_cycle's `stale`
    tried,         \* the part of `stale` the delete loop has been through
    expired,       \* run_cycle's `expired`
    status         \* SharedCrawlStatus

cycleVars == <<phase, next_tick, crawl, last_success, cycle_end, stale, tried,
               expired, status>>
harvesterVars == <<clock, shutdown, outcome, cycleVars>>
vars == <<storeVars, harvesterVars>>

Instant == Nat \cup {Never}

Phases ==
    {"tick",      \* in interval.tick()
     "crawl",     \* in crawl_once
     "expire",    \* in the delete loop
     "deleting",  \* in cache.delete
     "stopped"}   \* the task has ended

\* `at` is the start of a fetch, or the end of a crawl.
Crawl == [st : {"none", "queued", "fetching", "caching", "ok", "failed"},
          at : Nat]

ParticipantStatus == [last_attempt : Instant, last_success : Instant,
                      failed : BOOLEAN, cached : BOOLEAN]

CrawlStatus == [cycles_completed : Nat,
                participants : [Nodes -> ParticipantStatus]]

HarvesterTypeOK ==
    /\ StoreTypeOK
    /\ clock \in Nat
    /\ shutdown \in BOOLEAN
    /\ phase \in Phases
    /\ next_tick \in Nat
    /\ crawl \in [Nodes -> Crawl]
    /\ outcome \in [Nodes -> {"none", "ok", "failed"}]
    /\ last_success \in [Nodes -> Instant]
    /\ cycle_end \in Nat
    /\ stale \in SUBSET Nodes
    /\ tried \in SUBSET stale
    /\ expired \in SUBSET Nodes
    /\ status \in CrawlStatus

NoCrawl == [n \in Nodes |-> [st |-> "none", at |-> 0]]

\* Harvester::new: every participant is listed before its first crawl.
Init ==
    /\ StoreInit
    /\ clock = 0
    /\ shutdown = FALSE
    /\ phase = "tick"
    /\ next_tick = 0
    /\ crawl = NoCrawl
    /\ outcome = [n \in Nodes |-> "none"]
    /\ last_success = [n \in Nodes |-> Never]
    /\ cycle_end = 0
    /\ stale = {}
    /\ tried = {}
    /\ expired = {}
    /\ status = [cycles_completed |-> 0,
                 participants |-> [n \in Nodes |->
                     [last_attempt |-> Never, last_success |-> Never,
                      failed |-> FALSE, cached |-> FALSE]]]

-----------------------------------------------------------------------------
(* The writers, which leave behind the result their function returns. *)

Returns(w, result) == outcome' = [outcome EXCEPT ![w] = result]

WriterRuns(w) ==
    /\ \/ FailBeforeTransaction(w) /\ Returns(w, "failed")
       \/ StartTransaction(w) /\ UNCHANGED outcome
       \/ DeleteAbsent(w) /\ Returns(w, "ok")
       \/ LookupFails(w) /\ Returns(w, "failed")
       \/ BeginGuard(w) /\ UNCHANGED outcome
       \/ Commit(w) /\ Returns(w, "ok")
       \/ CommitFails(w) /\ Returns(w, "failed")
       \/ RemoveFails(w) /\ Returns(w, "failed")
       \/ Rollback(w) /\ UNCHANGED outcome
       \/ DropGuard(w) /\ UNCHANGED outcome
    /\ UNCHANGED <<clock, shutdown, cycleVars>>

-----------------------------------------------------------------------------
(* crawl_once. *)

\* The interval's missed-tick behaviour is Delay: a late tick moves the next
\* one.  The first tick is immediate.
StartCycle ==
    /\ phase = "tick"
    /\ clock >= next_tick
    /\ clock < MaxTime
    /\ phase' = "crawl"
    /\ next_tick' = clock + Interval
    /\ crawl' = [n \in Nodes |-> [st |-> "queued", at |-> 0]]
    /\ UNCHANGED <<storeVars, clock, shutdown, outcome, last_success, cycle_end,
                   stale, tried, expired, status>>

Crawling(st, n, at) == crawl' = [crawl EXCEPT ![n] = [st |-> st, at |-> at]]

\* The participants that hold a slot of buffer_unordered.
Busy == {n \in Nodes : crawl[n].st \in {"fetching", "caching"}}

Slots == IF Concurrency = 0 THEN 1 ELSE Concurrency

CrawlFrame ==
    UNCHANGED <<clock, shutdown, phase, next_tick, last_success, cycle_end,
                stale, tried, expired, status>>

\* A free slot takes the next participant.  (The code takes them in participant
\* order, the model in any order.)
StartCrawl(n) ==
    /\ phase = "crawl"
    /\ crawl[n].st = "queued"
    /\ Cardinality(Busy) < Slots
    /\ Crawling("fetching", n, clock)
    /\ UNCHANGED <<storeVars, outcome>>
    /\ CrawlFrame

\* crawl_one returns a catalog and crawl_and_cache hands it to the store.  A
\* fetch that is ready is taken even when its time limit has passed too.
FetchOk(n) ==
    /\ phase = "crawl"
    /\ crawl[n].st = "fetching"
    /\ clock \in Catalogs
    /\ StartUpsert(n, n, clock)
    /\ Crawling("caching", n, clock)
    /\ UNCHANGED outcome
    /\ CrawlFrame

\* crawl_one returns an error: no holder, presentation or request failed, HTTP
\* error status, body too large, malformed JSON.
FetchFails(n) ==
    /\ phase = "crawl"
    /\ crawl[n].st = "fetching"
    /\ Crawling("failed", n, clock)
    /\ UNCHANGED <<storeVars, outcome>>
    /\ CrawlFrame

\* Mutant: the fetch has no time limit.
FetchTimesOutNever(n) == FALSE /\ UNCHANGED vars

\* tokio::time::timeout around crawl_one.
FetchTimesOut(n) ==
    /\ phase = "crawl"
    /\ crawl[n].st = "fetching"
    /\ clock - crawl[n].at >= ParticipantTimeout
    /\ Crawling("failed", n, clock)
    /\ UNCHANGED <<storeVars, outcome>>
    /\ CrawlFrame

\* Mutant: the crawl does not wait for the write it has started.
CacheReturnsAtOnce(n) ==
    /\ phase = "crawl"
    /\ crawl[n].st = "caching"
    /\ Crawling("ok", n, clock)
    /\ UNCHANGED <<storeVars, outcome>>
    /\ CrawlFrame

\* The awaited upsert has returned; the outcome carries its own end time.
CacheReturns(n) ==
    /\ phase = "crawl"
    /\ crawl[n].st = "caching"
    /\ wpc[n] = "idle"
    /\ Crawling(outcome[n], n, clock)
    /\ Returns(n, "none")
    /\ UNCHANGED storeVars
    /\ CrawlFrame

-----------------------------------------------------------------------------
(* The rest of run_cycle, which never yields: shutdown cannot interrupt it. *)

Succeeded == {n \in Nodes : crawl[n].st = "ok"}

\* Mutant: off by one.
TooOldLate(times, n) == times[n] # Never /\ clock - times[n] > MaxCatalogAge + 1

TooOld(times, n) == times[n] # Never /\ clock - times[n] > MaxCatalogAge

\* Mutant: what is stale is decided before the successes are dated.
EndCrawlStaleFirst ==
    /\ phase = "crawl"
    /\ \A n \in Nodes : crawl[n].st \in {"ok", "failed"}
    /\ phase' = "expire"
    /\ cycle_end' = clock
    /\ last_success' = [n \in Nodes |-> IF n \in Succeeded THEN crawl[n].at
                                        ELSE last_success[n]]
    /\ stale' = {n \in Nodes : TooOld(last_success, n)}
    /\ tried' = {}
    /\ expired' = {}
    /\ UNCHANGED <<storeVars, clock, shutdown, outcome, next_tick, crawl, status>>

\* Mutant: the delete loop goes on from where the previous cycle's ended.
EndCrawlKeepsTried ==
    LET dated == [n \in Nodes |-> IF n \in Succeeded THEN crawl[n].at
                                  ELSE last_success[n]]
    IN  /\ phase = "crawl"
        /\ \A n \in Nodes : crawl[n].st \in {"ok", "failed"}
        /\ phase' = "expire"
        /\ cycle_end' = clock
        /\ last_success' = dated
        /\ stale' = {n \in Nodes : TooOld(dated, n)}
        /\ expired' = {}
        /\ UNCHANGED <<storeVars, clock, shutdown, outcome, next_tick, crawl,
                       tried, status>>

EndCrawl ==
    LET dated == [n \in Nodes |-> IF n \in Succeeded THEN crawl[n].at
                                  ELSE last_success[n]]
    IN  /\ phase = "crawl"
        /\ \A n \in Nodes : crawl[n].st \in {"ok", "failed"}
        /\ phase' = "expire"
        /\ cycle_end' = clock
        /\ last_success' = dated
        /\ stale' = {n \in Nodes : TooOld(dated, n)}
        /\ tried' = {}
        /\ expired' = {}
        /\ UNCHANGED <<storeVars, clock, shutdown, outcome, next_tick, crawl,
                       status>>

\* cache.delete runs on the scheduler's own thread.
DeleteStale(n) ==
    /\ phase = "expire"
    /\ n \in stale \ tried
    /\ StartDelete(n, n)
    /\ phase' = "deleting"
    /\ tried' = tried \cup {n}
    /\ UNCHANGED <<clock, shutdown, outcome, next_tick, crawl, last_success,
                   cycle_end, stale, expired, status>>

\* Mutant: a catalog is no longer tracked even when its delete failed.
DeleteReturnsForgets(n) ==
    /\ phase = "deleting"
    /\ outcome[n] # "none"
    /\ wpc[n] = "idle"
    /\ last_success' = [last_success EXCEPT ![n] = Never]
    /\ expired' = IF outcome[n] = "ok" THEN expired \cup {n} ELSE expired
    /\ phase' = "expire"
    /\ Returns(n, "none")
    /\ UNCHANGED <<storeVars, clock, shutdown, next_tick, crawl, cycle_end, stale,
                   tried, status>>

\* A catalog counts as expired only once it is really gone.
DeleteReturns(n) ==
    /\ phase = "deleting"
    /\ outcome[n] # "none"
    /\ wpc[n] = "idle"
    /\ IF outcome[n] = "ok"
       THEN /\ last_success' = [last_success EXCEPT ![n] = Never]
            /\ expired' = expired \cup {n}
       ELSE UNCHANGED <<last_success, expired>>
    /\ phase' = "expire"
    /\ Returns(n, "none")
    /\ UNCHANGED <<storeVars, clock, shutdown, next_tick, crawl, cycle_end, stale,
                   tried, status>>

\* record_status's update of one participant: its outcome, then its expiry.
Recorded(old, n) ==
    LET ok == n \in Succeeded
    IN  [last_attempt |-> crawl[n].at,
         last_success |-> IF ok THEN crawl[n].at ELSE old.last_success,
         failed |-> ~ok,
         cached |-> (ok \/ old.cached) /\ n \notin expired]

\* record_status under the status lock; run_cycle returns its report and the
\* scheduler waits for the next tick.
RecordStatus ==
    /\ phase = "expire"
    /\ tried = stale
    /\ status' = [cycles_completed |-> status.cycles_completed + 1,
                  participants |-> [n \in Nodes |->
                                      Recorded(status.participants[n], n)]]
    /\ phase' = "tick"
    /\ crawl' = NoCrawl
    /\ UNCHANGED <<storeVars, clock, shutdown, outcome, next_tick, last_success,
                   cycle_end, stale, tried, expired>>

-----------------------------------------------------------------------------
Shutdown ==
    /\ ~shutdown
    /\ shutdown' = TRUE
    /\ UNCHANGED <<storeVars, clock, outcome, cycleVars>>

\* The select's shutdown branch: the cycle in flight is dropped, its requests
\* with it, but not the writes on the blocking pool.
Stop ==
    /\ shutdown
    /\ phase \in {"tick", "crawl"}
    /\ phase' = "stopped"
    /\ crawl' = NoCrawl
    /\ UNCHANGED <<storeVars, clock, shutdown, outcome, next_tick, last_success,
                   cycle_end, stale, tried, expired, status>>

\* Time is bounded: past MaxTime it goes on only until the fetches under way
\* have reached their limit.
Advance ==
    /\ \/ clock < MaxTime
       \/ \E n \in Nodes : /\ crawl[n].st = "fetching"
                            /\ clock - crawl[n].at < ParticipantTimeout
    /\ clock' = clock + 1
    /\ UNCHANGED <<storeVars, shutdown, outcome, cycleVars>>

\* The steps of the scheduler task that do not wait for a participant.
SchedulerStep ==
    \/ \E n \in Nodes : StartCrawl(n) \/ FetchTimesOut(n) \/ CacheReturns(n)
    \/ EndCrawl
    \/ \E n \in Nodes : DeleteStale(n) \/ DeleteReturns(n)
    \/ RecordStatus
    \/ Stop

Next ==
    \/ \E w \in Nodes : WriterRuns(w)
    \/ StartCycle
    \/ SchedulerStep
    \/ \E n \in Nodes : FetchOk(n) \/ FetchFails(n)
    \/ Shutdown
    \/ Advance

Spec == Init /\ [][Next]_vars

\* Threads run and timers fire; no participant ever has to answer.
FairSpec ==
    /\ Spec
    /\ WF_vars(SchedulerStep)
    /\ \A n \in Nodes : WF_vars(WriterRuns(n))
    /\ WF_vars(Advance)

-----------------------------------------------------------------------------
(* Properties. *)

Stored(n) == store[n] # NoCatalog

\* Between two cycles the three records of what is cached agree: a participant
\* has a catalog in the store exactly when the harvester tracks its age and
\* the published status says cached, with the time of the crawl that brought
\* that catalog - after any mix of failed fetches, failed writes and failed
\* deletes.  (run_cycle and record_status; "a participant that has never
\* succeeded has nothing cached".)
BookkeepingMatchesStore ==
    phase = "tick" =>
        \A n \in Nodes :
            LET reported == status.participants[n] IN
            /\ Stored(n) <=> last_success[n] # Never
            /\ Stored(n) <=> reported.cached
            /\ Stored(n) => /\ reported.last_success = last_success[n]
                            /\ store[n] <= last_success[n]

\* When a cycle has ended, a catalog older than max_catalog_age is still there
\* only if its delete was tried in that cycle and failed.
ExpiryComplete ==
    phase = "tick" =>
        \A n \in Nodes :
            Stored(n) /\ cycle_end - last_success[n] > MaxCatalogAge
                => n \in tried \ expired

\* A catalog is removed only when it was fetched more than max_catalog_age
\* ago: neither a crawl that has just succeeded nor one whose cycle took long
\* for the sake of others loses it.
OnlyOldCatalogsRemoved ==
    [][\A n \in Nodes :
          Stored(n) /\ store'[n] = NoCatalog => clock - store[n] > MaxCatalogAge]_vars

\* Crawling one participant at a time keeps the writes apart, although the
\* writer lock is released before the write sequence is: what SerialSpec of
\* PolicyFilteredQuery assumes.
OneSlotSerializesWrites == Concurrency <= 1 => OneGuardAtATime

\* A cycle ends or is dropped, even if no participant ever answers.
CyclesEnd == phase = "crawl" ~> phase \in {"tick", "stopped"}
==============================================================================
