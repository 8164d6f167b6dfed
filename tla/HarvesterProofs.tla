--------------------------- MODULE HarvesterProofs ---------------------------
(***************************************************************************)
(* Proofs about Harvester: type correctness; that crawling one participant *)
(* at a time keeps the store's writes apart; that the harvester implements *)
(* CatalogStore; and that store, bookkeeping and status agree.             *)
(***************************************************************************)
EXTENDS Harvester, FiniteSetTheorems, TLAPS

-----------------------------------------------------------------------------
(* Type correctness. *)

\* Every step of a writer keeps the store's type; no result leaves its range.
LEMMA WriterRunsType ==
    ASSUME HarvesterTypeOK, NEW w \in Nodes, WriterRuns(w)
    PROVE  HarvesterTypeOK'
<1> USE CatalogStoreAssumption, HarvesterAssumption
<1>1. UNCHANGED <<clock, shutdown, phase, next_tick, crawl, last_success,
                  cycle_end, stale, tried, expired, status>>
  BY DEF WriterRuns, cycleVars
<1>2. outcome' \in [Nodes -> {"none", "ok", "failed"}]
  BY DEF WriterRuns, Returns, HarvesterTypeOK
<1>3. StoreTypeOK'
  <2> USE DEF HarvesterTypeOK, StoreTypeOK
  <2>1. CASE FailBeforeTransaction(w) \/ DeleteAbsent(w) \/ LookupFails(w)
               \/ Rollback(w) \/ DropGuard(w)
    BY <2>1 DEF FailBeforeTransaction, DeleteAbsent, LookupFails, Rollback,
       DropGuard, Return, Goto, WriterStates
  <2>2. CASE StartTransaction(w) \/ BeginGuard(w) \/ CommitFails(w)
               \/ RemoveFails(w)
    BY <2>2 DEF StartTransaction, BeginGuard, CommitFails, RemoveFails, Goto,
       WriterStates
  <2>3. CASE Commit(w)
    BY <2>3 DEF Commit, Goto, WriterStates, Job
  <2> QED
    BY <2>1, <2>2, <2>3 DEF WriterRuns
<1> QED
  BY <1>1, <1>2, <1>3 DEF HarvesterTypeOK

\* The two ways the harvester gives a writer its job keep the store's type.
LEMMA StartWriteType ==
    ASSUME StoreTypeOK, NEW n \in Nodes,
           StartDelete(n, n) \/ \E c \in Catalogs : StartUpsert(n, n, c)
    PROVE  StoreTypeOK'
BY HarvesterAssumption
DEF StoreTypeOK, StartUpsert, StartDelete, Goto, WriterStates, Job, Content

\* The steps of crawl_once keep every type.
LEMMA CrawlType ==
    ASSUME HarvesterTypeOK, NEW n \in Nodes,
           StartCrawl(n) \/ FetchOk(n) \/ FetchFails(n) \/ FetchTimesOut(n)
             \/ CacheReturns(n)
    PROVE  HarvesterTypeOK'
<1> USE DEF HarvesterTypeOK
<1>1. CrawlFrame
  BY DEF StartCrawl, FetchOk, FetchFails, FetchTimesOut, CacheReturns
<1>2. StoreTypeOK'
  <2>1. CASE FetchOk(n)
    BY <2>1, StartWriteType DEF FetchOk
  <2>2. CASE ~FetchOk(n)
    BY <2>2 DEF StartCrawl, FetchFails, FetchTimesOut, CacheReturns, storeVars,
       StoreTypeOK
  <2> QED
    BY <2>1, <2>2
<1>3. outcome' \in [Nodes -> {"none", "ok", "failed"}]
  BY DEF StartCrawl, FetchOk, FetchFails, FetchTimesOut, CacheReturns, Returns
<1>4. crawl' \in [Nodes -> Crawl]
  <2>1. PICK st \in {"fetching", "caching", "ok", "failed", "none"} :
          Crawling(st, n, clock)
    BY DEF StartCrawl, FetchOk, FetchFails, FetchTimesOut, CacheReturns
  <2>2. [st |-> st, at |-> clock] \in Crawl
    BY DEF Crawl
  <2> QED
    BY <2>1, <2>2 DEF Crawling
<1> QED
  BY <1>1, <1>2, <1>3, <1>4 DEF CrawlFrame

\* The steps that end a cycle keep every type.
LEMMA CycleEndType ==
    ASSUME HarvesterTypeOK,
           EndCrawl \/ RecordStatus
             \/ \E n \in Nodes : DeleteStale(n) \/ DeleteReturns(n)
    PROVE  HarvesterTypeOK'
<1> USE DEF HarvesterTypeOK
<1>1. CASE EndCrawl
  <2>1. \A n \in Nodes : crawl[n].at \in Nat
    BY DEF Crawl
  <2> QED
    BY <1>1, <2>1 DEF EndCrawl, storeVars, StoreTypeOK, Phases, Instant
<1>2. ASSUME NEW n \in Nodes, DeleteStale(n)
      PROVE  HarvesterTypeOK'
  BY <1>2, StartWriteType DEF DeleteStale, Phases
<1>3. ASSUME NEW n \in Nodes, DeleteReturns(n)
      PROVE  HarvesterTypeOK'
  BY <1>3 DEF DeleteReturns, Returns, storeVars, StoreTypeOK, Phases, Instant
<1>4. CASE RecordStatus
  <2>1. crawl' \in [Nodes -> Crawl]
    BY <1>4 DEF RecordStatus, NoCrawl, Crawl
  <2>2. \A n \in Nodes :
          Recorded(status.participants[n], n) \in ParticipantStatus
    BY DEF Recorded, Succeeded, CrawlStatus, ParticipantStatus, Instant, Crawl
  <2>3. status' \in CrawlStatus
    BY <1>4, <2>2 DEF RecordStatus, CrawlStatus
  <2> QED
    BY <1>4, <2>1, <2>3 DEF RecordStatus, storeVars, StoreTypeOK, Phases
<1> QED
  BY <1>1, <1>2, <1>3, <1>4

\* HarvesterTypeOK holds in every reachable state, for every set of
\* participants, every concurrency and all limits.
THEOREM HarvesterTypeCorrect == Spec => []HarvesterTypeOK
<1>1. Init => HarvesterTypeOK
  <2> SUFFICES ASSUME Init PROVE HarvesterTypeOK
    OBVIOUS
  <2>1. StoreTypeOK
    BY DEF Init, StoreInit, StoreTypeOK, Content, WriterStates
  <2>2. status \in CrawlStatus
    BY DEF Init, CrawlStatus, ParticipantStatus, Instant
  <2>3. crawl \in [Nodes -> Crawl]
    BY DEF Init, NoCrawl, Crawl
  <2> QED
    BY <2>1, <2>2, <2>3 DEF Init, HarvesterTypeOK, Phases, Instant
<1>2. HarvesterTypeOK /\ [Next]_vars => HarvesterTypeOK'
  <2> SUFFICES ASSUME HarvesterTypeOK, [Next]_vars PROVE HarvesterTypeOK'
    OBVIOUS
  <2>1. CASE StartCycle
    BY <2>1, HarvesterAssumption
    DEF StartCycle, HarvesterTypeOK, storeVars, StoreTypeOK, Phases, Crawl
  <2>2. CASE Stop
    BY <2>2 DEF Stop, HarvesterTypeOK, storeVars, StoreTypeOK, Phases, NoCrawl,
       Crawl
  <2>3. CASE Advance
    BY <2>3 DEF Advance, HarvesterTypeOK, storeVars, cycleVars, StoreTypeOK
  <2>4. CASE Shutdown
    <3>1. shutdown' \in BOOLEAN
      BY <2>4 DEF Shutdown
    <3> QED
      BY <2>4, <3>1 DEF Shutdown, HarvesterTypeOK, storeVars, cycleVars,
         StoreTypeOK
  <2>5. CASE UNCHANGED vars
    BY <2>5 DEF vars, harvesterVars, HarvesterTypeOK, storeVars, cycleVars,
       StoreTypeOK
  <2> QED
    BY <2>1, <2>2, <2>3, <2>4, <2>5, WriterRunsType, CrawlType, CycleEndType
    DEF Next, SchedulerStep
<1> QED
  BY <1>1, <1>2, PTL DEF Spec

-----------------------------------------------------------------------------
(* Writes do not overlap when one participant is crawled at a time.        *)
(*                                                                         *)
(* OneGuardAtATime says nothing of where the harvester is, so it is not    *)
(* inductive.  The invariant ties the writers to the cycle: a writer that  *)
(* works, or whose result has not been read, belongs to the one crawl that *)
(* holds the slot or to the one delete in progress.                        *)

\* Writer w runs, or its caller has yet to read its result.
Active(w) == wpc[w] # "idle" \/ outcome[w] # "none"

WritersFollowCycle ==
    /\ \A v, w \in Nodes : Active(v) /\ Active(w) => v = w
    /\ \A v, w \in Busy : v = w
    /\ phase = "crawl" => \A w \in Nodes : Active(w) => crawl[w].st = "caching"
    /\ phase \in {"tick", "expire"} => \A w \in Nodes : ~Active(w)

\* A slot is given out only when none is taken.
LEMMA OneSlotFree ==
    ASSUME Concurrency <= 1, Cardinality(Busy) < Slots
    PROVE  Busy = {}
<1>1. IsFiniteSet(Busy)
  BY HarvesterAssumption, FS_Subset DEF Busy
<1>2. Cardinality(Busy) \in Nat
  BY <1>1, FS_CardinalityType
<1>3. Cardinality(Busy) = 0
  BY <1>2, HarvesterAssumption DEF Slots
<1> QED
  BY <1>1, <1>3, FS_EmptySet

\* Only a writer with a job takes steps, and no other writer notices.
LEMMA WriterRunsActive ==
    ASSUME HarvesterTypeOK, NEW w \in Nodes, WriterRuns(w)
    PROVE  /\ Active(w)
           /\ \A v \in Nodes : Active(v)' => Active(v)
           /\ UNCHANGED <<phase, crawl>>
<1>1. /\ wpc[w] # "idle"
      /\ \A v \in Nodes \ {w} : wpc'[v] = wpc[v]
  BY HarvesterAssumption
  DEF WriterRuns, FailBeforeTransaction, StartTransaction, DeleteAbsent,
      LookupFails, BeginGuard, Commit, CommitFails, RemoveFails, Rollback,
      DropGuard, Return, Goto, HarvesterTypeOK, StoreTypeOK
<1>2. \A v \in Nodes \ {w} : outcome'[v] = outcome[v]
  BY DEF WriterRuns, Returns, HarvesterTypeOK
<1> QED
  BY <1>1, <1>2 DEF Active, WriterRuns, cycleVars

\* Every step of the harvester keeps WritersFollowCycle.
LEMMA WritersFollowCycleStep ==
    ASSUME HarvesterTypeOK, WritersFollowCycle, [Next]_vars, Concurrency <= 1
    PROVE  WritersFollowCycle'
<1> USE HarvesterAssumption
<1>1. ASSUME NEW w \in Nodes, WriterRuns(w)
      PROVE  WritersFollowCycle'
  BY <1>1, WriterRunsActive DEF WritersFollowCycle, Busy
<1>2. CASE StartCycle
  BY <1>2 DEF StartCycle, storeVars, WritersFollowCycle, Busy, Active
<1>3. ASSUME NEW n \in Nodes, StartCrawl(n)
      PROVE  WritersFollowCycle'
  <2>1. Busy = {}
    BY <1>3, OneSlotFree DEF StartCrawl
  <2>2. \A w \in Nodes : ~Active(w)
    BY <1>3, <2>1 DEF StartCrawl, WritersFollowCycle, Busy
  <2>3. \A w \in Nodes : ~Active(w)'
    BY <1>3, <2>2 DEF StartCrawl, storeVars, Active
  <2>4. Busy' = {n}
    BY <1>3, <2>1 DEF StartCrawl, Crawling, Busy, HarvesterTypeOK
  <2> QED
    BY <2>3, <2>4 DEF WritersFollowCycle
<1>4. ASSUME NEW n \in Nodes, FetchOk(n)
      PROVE  WritersFollowCycle'
  <2>1. \A w \in Nodes : Active(w) => w = n
    BY <1>4 DEF FetchOk, WritersFollowCycle, Busy
  <2>2. \A w \in Nodes : Active(w)' => w = n
    BY <1>4, <2>1 DEF FetchOk, StartUpsert, Goto, Active, HarvesterTypeOK,
       StoreTypeOK
  <2>3. Busy' = Busy /\ crawl'[n].st = "caching" /\ phase' = "crawl"
    BY <1>4 DEF FetchOk, Crawling, CrawlFrame, Busy, HarvesterTypeOK
  <2> QED
    BY <2>2, <2>3 DEF WritersFollowCycle
<1>5. ASSUME NEW n \in Nodes, FetchFails(n) \/ FetchTimesOut(n)
      PROVE  WritersFollowCycle'
  <2>1. /\ phase' = "crawl" /\ phase = "crawl"
        /\ crawl[n].st = "fetching"
        /\ \A w \in Nodes \ {n} : crawl'[w] = crawl[w]
        /\ crawl'[n].st = "failed"
    BY <1>5 DEF FetchFails, FetchTimesOut, CrawlFrame, Crawling, HarvesterTypeOK
  <2>2. \A w \in Nodes : Active(w)' <=> Active(w)
    BY <1>5 DEF FetchFails, FetchTimesOut, storeVars, Active
  <2> QED
    BY <2>1, <2>2 DEF WritersFollowCycle, Busy
<1>6. ASSUME NEW n \in Nodes, CacheReturns(n)
      PROVE  WritersFollowCycle'
  <2>1. /\ phase' = "crawl" /\ phase = "crawl"
        /\ \A w \in Nodes \ {n} : crawl'[w] = crawl[w]
        /\ crawl'[n].st \in {"none", "ok", "failed"}
    BY <1>6 DEF CacheReturns, CrawlFrame, Crawling, HarvesterTypeOK
  <2>2. ~Active(n)' /\ \A w \in Nodes \ {n} : Active(w)' <=> Active(w)
    BY <1>6 DEF CacheReturns, storeVars, Returns, Active, HarvesterTypeOK
  <2> QED
    BY <2>1, <2>2 DEF WritersFollowCycle, Busy
<1>7. CASE EndCrawl
  <2>1. \A w \in Nodes : ~Active(w)
    BY <1>7 DEF EndCrawl, WritersFollowCycle
  <2>2. \A w \in Nodes : ~Active(w)'
    BY <1>7, <2>1 DEF EndCrawl, storeVars, Active
  <2> QED
    BY <1>7, <2>2 DEF EndCrawl, WritersFollowCycle, Busy
<1>8. ASSUME NEW n \in Nodes, DeleteStale(n)
      PROVE  WritersFollowCycle'
  <2>1. \A w \in Nodes : Active(w)' => w = n
    BY <1>8 DEF DeleteStale, StartDelete, Goto, Active, WritersFollowCycle,
       HarvesterTypeOK, StoreTypeOK
  <2> QED
    BY <1>8, <2>1 DEF DeleteStale, WritersFollowCycle, Busy
<1>9. ASSUME NEW n \in Nodes, DeleteReturns(n)
      PROVE  WritersFollowCycle'
  <2>1. \A w \in Nodes : Active(w) => w = n
    BY <1>9 DEF DeleteReturns, Active, WritersFollowCycle
  <2>2. \A w \in Nodes : ~Active(w)'
    BY <1>9, <2>1 DEF DeleteReturns, Returns, storeVars, Active, HarvesterTypeOK
  <2> QED
    BY <1>9, <2>2 DEF DeleteReturns, WritersFollowCycle, Busy
<1>10. CASE RecordStatus \/ Stop
  <2>1. Busy' = {}
    BY <1>10 DEF RecordStatus, Stop, NoCrawl, Busy
  <2>2. \A w \in Nodes : Active(w)' <=> Active(w)
    BY <1>10 DEF RecordStatus, Stop, storeVars, Active
  <2> QED
    BY <1>10, <2>1, <2>2 DEF RecordStatus, Stop, WritersFollowCycle
<1>11. CASE Shutdown \/ Advance \/ UNCHANGED vars
  BY <1>11 DEF Shutdown, Advance, vars, harvesterVars, storeVars, cycleVars,
     WritersFollowCycle, Busy, Active
<1> QED
  BY <1>1, <1>2, <1>3, <1>4, <1>5, <1>6, <1>7, <1>8, <1>9, <1>10, <1>11
  DEF Next, SchedulerStep

\* With concurrency 1 (or 0, which the code raises to 1) no two writes are
\* ever between their guard's creation and its drop, whatever the fetches and
\* writes return and whenever shutdown comes: the premise under which
\* PolicyFilteredQueryProofs shows that filtered queries are atomic.
THEOREM OneSlotSerializes == Spec => []OneSlotSerializesWrites
<1>1. Init => WritersFollowCycle
  <2> SUFFICES ASSUME Init PROVE WritersFollowCycle
    OBVIOUS
  <2>1. \A w \in Nodes : ~Active(w)
    BY HarvesterAssumption DEF Init, StoreInit, Active
  <2>2. Busy = {}
    BY DEF Init, NoCrawl, Busy
  <2> QED
    BY <2>1, <2>2 DEF Init, WritersFollowCycle
<1>2. WritersFollowCycle => OneSlotSerializesWrites
  BY HarvesterAssumption
  DEF WritersFollowCycle, OneSlotSerializesWrites, OneGuardAtATime, GuardAlive,
      Active
<1>3. CASE Concurrency <= 1
  <2>1. HarvesterTypeOK /\ WritersFollowCycle /\ [Next]_vars
          => WritersFollowCycle'
    BY <1>3, WritersFollowCycleStep
  <2> QED
    BY <1>1, <1>2, <2>1, HarvesterTypeCorrect, PTL DEF Spec
<1>4. CASE ~(Concurrency <= 1)
  <2>1. OneSlotSerializesWrites
    BY <1>4 DEF OneSlotSerializesWrites
  <2> QED
    BY <2>1, PTL
<1> QED
  BY <1>3, <1>4

-----------------------------------------------------------------------------
(* The harvester drives the store's writers.                               *)

\* Every step of the harvester is a step of one writer or leaves the store alone.
LEMMA HarvesterStepsStore ==
    ASSUME HarvesterTypeOK, [Next]_vars
    PROVE  [WritersNext]_storeVars
<1> USE HarvesterAssumption DEF WritersNext
<1>1. ASSUME NEW w \in Nodes, WriterRuns(w) PROVE WritersNext
  BY <1>1 DEF WriterRuns, WriterStep
<1>2. ASSUME NEW n \in Nodes, FetchOk(n) PROVE WritersNext
  BY <1>2 DEF FetchOk, WriterStep
<1>3. ASSUME NEW n \in Nodes, DeleteStale(n) PROVE WritersNext
  BY <1>3 DEF DeleteStale, WriterStep
<1>4. CASE UNCHANGED storeVars
  BY <1>4
<1>5. QED
  BY <1>1, <1>2, <1>3, <1>4
     DEF Next, SchedulerStep, StartCycle, StartCrawl, FetchTimesOut, CacheReturns,
         EndCrawl, DeleteReturns, RecordStatus, Stop, FetchFails, Shutdown,
         Advance, vars

\* The harvester drives the store as CatalogStore's writers do: what is shown of
\* the store under every order of its writers' steps holds of it here.
THEOREM HarvesterImplementsStore == Spec => StoreSpec
<1>1. Init => StoreInit
  BY DEF Init
<1>2. HarvesterTypeOK /\ [Next]_vars => [WritersNext]_storeVars
  BY HarvesterStepsStore
<1>3. QED
  BY <1>1, <1>2, HarvesterTypeCorrect, PTL DEF Spec, StoreSpec

\* With one slot it drives the store as PolicyFilteredQuery's SerialSpec does,
\* so the atomicity proved there applies to a broker configured that way.
THEOREM OneSlotImplementsSerialStore ==
    ASSUME Concurrency <= 1
    PROVE  Spec => SerialStoreSpec
<1>1. Init => StoreInit
  BY DEF Init
<1>2. /\ HarvesterTypeOK /\ [Next]_vars /\ OneSlotSerializesWrites'
      => [WritersNext /\ OneGuardAtATime']_storeVars
  BY HarvesterStepsStore DEF OneSlotSerializesWrites
<1>3. QED
  BY <1>1, <1>2, HarvesterTypeCorrect, OneSlotSerializes, PTL
     DEF Spec, SerialStoreSpec

-----------------------------------------------------------------------------
(* The store, the harvester's record of it and the published status agree. *)
(*                                                                         *)
(* They agree between two cycles; in a cycle each lags behind the others   *)
(* in its own way.  The invariant says how, phase by phase: a crawl that   *)
(* has landed is ahead of last_success until EndCrawl dates it, the status *)
(* is behind until RecordStatus, and a delete that has returned is ahead   *)
(* of last_success until DeleteReturns reads its result.                   *)

\* What each writer is doing, given where the cycle is.
WriterFits(n) ==
    /\ wpc[n] # "idle" => /\ job[n].node = n
                          /\ job[n].cat = NoCatalog <=> phase = "deleting"
                          /\ phase = "crawl" => job[n].cat <= crawl[n].at
    /\ wpc[n] \in {"encode", "call", "open", "begun"} => outcome[n] = "none"
    /\ phase = "crawl" /\ Active(n) => crawl[n].st = "caching"
    /\ phase \in {"tick", "expire"} => ~Active(n)

Tracked(n) == last_success[n] # Never

\* The store and the record of the last success agree about n.
Agree(n) ==
    /\ Stored(n) <=> Tracked(n)
    /\ Stored(n) => store[n] <= last_success[n]

\* The crawl in progress has replaced n's catalog.
Landed(n) ==
    crawl[n].st = "ok" \/ (crawl[n].st = "caching" /\ outcome[n] = "ok")

StoreFits(n) ==
    /\ phase \in {"tick", "expire"} => Agree(n)
    /\ phase = "crawl" => IF Landed(n) THEN Stored(n) /\ store[n] <= crawl[n].at
                          ELSE Agree(n)
    /\ phase = "deleting" => IF outcome[n] = "ok" THEN ~Stored(n) ELSE Agree(n)

StatusFits(n) ==
    LET old == status.participants[n] IN
    /\ phase \in {"tick", "crawl"} =>
          /\ Tracked(n) <=> old.cached
          /\ Tracked(n) => old.last_success = last_success[n]
    /\ phase \in {"expire", "deleting"} =>
          /\ n \notin expired => (Tracked(n) <=> n \in Succeeded \/ old.cached)
          /\ Tracked(n) => last_success[n] = IF n \in Succeeded THEN crawl[n].at
                                             ELSE old.last_success

Overdue(n) == Tracked(n) /\ cycle_end - last_success[n] > MaxCatalogAge

StaleFits(n) ==
    /\ phase \in {"expire", "deleting"} =>
          /\ n \in stale \ expired <=> Overdue(n)
          /\ n \in expired => ~Tracked(n)
    /\ phase = "tick" => (Overdue(n) => n \in tried \ expired)

OneDelete ==
    \E d \in tried \ expired : \A n \in Nodes : Active(n) => n = d

CacheInv ==
    /\ cycle_end <= clock
    /\ expired \subseteq tried
    /\ phase = "deleting" => OneDelete
    /\ \A n \in Nodes : /\ crawl[n].at <= clock
                        /\ WriterFits(n)
                        /\ StoreFits(n)
                        /\ StatusFits(n)
                        /\ StaleFits(n)

\* One step of a writer: nothing of the others changes, and it either leaves
\* the store alone and reports no success, or reports success with its node as
\* the job asked for.
WriterEffect(w) ==
    /\ UNCHANGED <<clock, phase, next_tick, crawl, last_success, cycle_end,
                   stale, tried, expired, status>>
    /\ \A v \in Nodes \ {w} : /\ wpc'[v] = wpc[v] /\ job'[v] = job[v]
                              /\ outcome'[v] = outcome[v]
                              /\ store'[v] = store[v]
    /\ wpc[w] # "idle"
    /\ wpc'[w] # "idle" => job'[w] = job[w]
    /\ wpc'[w] \in {"encode", "call", "open", "begun"} => outcome'[w] = "none"
    /\ \/ /\ store'[w] = store[w]
          /\ \/ outcome'[w] = outcome[w]
             \/ outcome[w] = "none" /\ outcome'[w] = "failed"
       \/ /\ store'[w] = job[w].cat
          /\ outcome[w] = "none" /\ outcome'[w] = "ok"

\* Every step of a writer has that effect.
LEMMA WriterRunsEffect ==
    ASSUME HarvesterTypeOK, NEW w \in Nodes, WriterFits(w), WriterRuns(w)
    PROVE  WriterEffect(w)
<1> USE HarvesterAssumption
<1>t. /\ wpc \in [Nodes -> WriterStates] /\ outcome \in [Nodes -> {"none", "ok", "failed"}]
      /\ store \in [Nodes -> Content] /\ job \in [Nodes -> Job \cup {NoJob}]
      /\ wpc[w] # "idle" => job[w].node = w
      /\ wpc[w] \in {"encode", "call", "open", "begun"} => outcome[w] = "none"
  BY DEF HarvesterTypeOK, StoreTypeOK, WriterFits
<1>1. UNCHANGED <<clock, phase, next_tick, crawl, last_success, cycle_end,
                  stale, tried, expired, status>>
  BY DEF WriterRuns, cycleVars
<1> USE DEF WriterEffect
<1>2. CASE FailBeforeTransaction(w) /\ Returns(w, "failed")
  BY <1>t, <1>1, <1>2 DEF FailBeforeTransaction, Returns, Return, Goto
<1>3. CASE StartTransaction(w) /\ UNCHANGED outcome
  BY <1>t, <1>1, <1>3 DEF StartTransaction, Goto
<1>4. CASE DeleteAbsent(w) /\ Returns(w, "ok")
  BY <1>t, <1>1, <1>4 DEF DeleteAbsent, Returns, Return, Goto
<1>5. CASE LookupFails(w) /\ Returns(w, "failed")
  BY <1>t, <1>1, <1>5 DEF LookupFails, Returns, Return, Goto
<1>6. CASE BeginGuard(w) /\ UNCHANGED outcome
  BY <1>t, <1>1, <1>6 DEF BeginGuard, Goto
<1>7. CASE Commit(w) /\ Returns(w, "ok")
  BY <1>t, <1>1, <1>7 DEF Commit, Returns, Goto
<1>8. CASE CommitFails(w) /\ Returns(w, "failed")
  BY <1>t, <1>1, <1>8 DEF CommitFails, Returns, Goto
<1>9. CASE RemoveFails(w) /\ Returns(w, "failed")
  BY <1>t, <1>1, <1>9 DEF RemoveFails, Returns, Goto
<1>10. CASE Rollback(w) /\ UNCHANGED outcome
  BY <1>t, <1>1, <1>10 DEF Rollback, Return, Goto
<1>11. CASE DropGuard(w) /\ UNCHANGED outcome
  BY <1>t, <1>1, <1>11 DEF DropGuard, Return, Goto
<1>12. QED
  BY <1>2, <1>3, <1>4, <1>5, <1>6, <1>7, <1>8, <1>9, <1>10, <1>11 DEF WriterRuns

\* A participant none of whose records change keeps its part of the invariant
\* while the cycle stays in its phase.
LEMMA NodeUntouched ==
    ASSUME NEW n \in Nodes, WriterFits(n), StoreFits(n), StatusFits(n),
           StaleFits(n), UNCHANGED <<phase, status, cycle_end, stale>>,
           wpc'[n] = wpc[n], job'[n] = job[n], outcome'[n] = outcome[n],
           store'[n] = store[n], crawl'[n] = crawl[n],
           last_success'[n] = last_success[n],
           n \in expired' <=> n \in expired, n \in tried => n \in tried'
    PROVE  WriterFits(n)' /\ StoreFits(n)' /\ StatusFits(n)' /\ StaleFits(n)'
<1>1. WriterFits(n)'
  BY DEF WriterFits, Active
<1>2. StoreFits(n)'
  BY DEF StoreFits, Agree, Landed, Stored, Tracked
<1>3. StatusFits(n)'
  BY DEF StatusFits, Tracked, Succeeded
<1>4. StaleFits(n)'
  BY DEF StaleFits, Overdue, Tracked
<1>5. QED
  BY <1>1, <1>2, <1>3, <1>4

\* The steps of the writers keep the records in agreement.
LEMMA WriterKeepsCacheInv ==
    ASSUME HarvesterTypeOK, CacheInv, NEW w \in Nodes, WriterRuns(w)
    PROVE  CacheInv'
<1>e. WriterEffect(w)
  BY WriterRunsEffect DEF CacheInv
<1> USE DEF WriterEffect
<1>1. /\ WriterFits(w) /\ StoreFits(w) /\ StatusFits(w) /\ StaleFits(w)
      /\ Active(w) /\ crawl[w].at <= clock
  BY <1>e DEF CacheInv, Active
<1>2. WriterFits(w)'
  BY <1>1, <1>e DEF WriterFits, Active
<1>3. StoreFits(w)'
  <2>1. phase \notin {"tick", "expire"}
    BY <1>1 DEF WriterFits
  <2>2. CASE store'[w] = store[w] /\ (outcome'[w] = "ok" <=> outcome[w] = "ok")
    BY <1>1, <1>e, <2>1, <2>2 DEF StoreFits, Agree, Landed, Stored, Tracked
  <2>3. CASE store'[w] = job[w].cat /\ outcome'[w] = "ok"
    BY <1>1, <1>e, <2>1, <2>3 DEF WriterFits, StoreFits, Landed, Stored
  <2>4. QED
    BY <1>e, <2>2, <2>3
<1>4. StatusFits(w)' /\ StaleFits(w)'
  BY <1>1, <1>e DEF StatusFits, StaleFits, Overdue, Tracked, Succeeded
<1>5. phase' = "deleting" => OneDelete'
  BY <1>e, WriterRunsActive DEF CacheInv, OneDelete
<1>6. \A n \in Nodes \ {w} : /\ WriterFits(n)' /\ StoreFits(n)'
                             /\ StatusFits(n)' /\ StaleFits(n)'
  BY <1>e, NodeUntouched DEF CacheInv
<1>7. QED
  BY <1>1, <1>2, <1>3, <1>4, <1>5, <1>6, <1>e DEF CacheInv

\* The steps of crawl_once keep the records in agreement.
LEMMA CrawlKeepsCacheInv ==
    ASSUME HarvesterTypeOK, CacheInv, NEW n \in Nodes,
           StartCrawl(n) \/ FetchOk(n) \/ FetchFails(n) \/ FetchTimesOut(n)
             \/ CacheReturns(n)
    PROVE  CacheInv'
<1> USE HarvesterAssumption
<1>t. /\ clock \in Nat /\ crawl \in [Nodes -> Crawl] /\ crawl[n].at \in Nat
      /\ outcome \in [Nodes -> {"none", "ok", "failed"}]
      /\ wpc \in [Nodes -> WriterStates] /\ store \in [Nodes -> Content]
      /\ job \in [Nodes -> Job \cup {NoJob}]
  BY DEF HarvesterTypeOK, StoreTypeOK, Crawl
<1>i. /\ WriterFits(n) /\ StoreFits(n) /\ StatusFits(n) /\ StaleFits(n)
      /\ crawl[n].at <= clock
  BY DEF CacheInv
<1>f. /\ phase = "crawl"
      /\ UNCHANGED <<clock, phase, store, last_success, cycle_end, stale, tried,
                     expired, status>>
  BY DEF StartCrawl, FetchOk, FetchFails, FetchTimesOut, CacheReturns, CrawlFrame,
     storeVars, StartUpsert
<1>1. PICK st \in {"fetching", "caching", "ok", "failed", "none"} :
          crawl' = [crawl EXCEPT ![n] = [st |-> st, at |-> clock]]
  BY <1>t DEF StartCrawl, FetchOk, FetchFails, FetchTimesOut, CacheReturns,
     Crawling
<1>2. \A v \in Nodes \ {n} : /\ wpc'[v] = wpc[v] /\ job'[v] = job[v]
                             /\ outcome'[v] = outcome[v]
                             /\ crawl'[v] = crawl[v]
  BY <1>t, <1>1 DEF StartCrawl, FetchOk, FetchFails, FetchTimesOut, CacheReturns,
     storeVars, StartUpsert, Goto, Returns
<1>3. crawl'[n] = [st |-> st, at |-> clock]
  BY <1>t, <1>1
<1>4. WriterFits(n)' /\ StoreFits(n)'
  <2>1. CASE StartCrawl(n)
    <3>1. crawl[n].st = "queued" /\ crawl'[n].st = "fetching" /\ ~Active(n)
      BY <1>t, <1>i, <2>1 DEF StartCrawl, Crawling, WriterFits
    <3>2. wpc' = wpc /\ job' = job /\ outcome' = outcome
      BY <2>1 DEF StartCrawl, storeVars
    <3>3. QED
      BY <1>i, <1>f, <3>1, <3>2
         DEF WriterFits, Active, StoreFits, Landed, Agree, Stored, Tracked
  <2>2. CASE FetchOk(n)
    <3>1. crawl[n].st = "fetching" /\ crawl'[n].st = "caching" /\ ~Active(n)
      BY <1>t, <1>i, <2>2 DEF FetchOk, Crawling, WriterFits
    <3>2. /\ wpc'[n] = "encode" /\ job'[n] = [node |-> n, cat |-> clock]
          /\ outcome' = outcome /\ clock \in Catalogs
      BY <1>t, <2>2 DEF FetchOk, StartUpsert, Goto
    <3>3. outcome[n] = "none" /\ clock # NoCatalog
      BY <3>1, <3>2, CatalogStoreAssumption DEF Active
    <3>4. WriterFits(n)'
      BY <1>t, <1>3, <1>f, <3>1, <3>2, <3>3 DEF WriterFits, Active
    <3>5. StoreFits(n)'
      BY <1>i, <1>f, <3>1, <3>2, <3>3
         DEF StoreFits, Landed, Agree, Stored, Tracked
    <3>6. QED
      BY <3>4, <3>5
  <2>3. CASE FetchFails(n) \/ FetchTimesOut(n)
    <3>1. crawl[n].st = "fetching" /\ crawl'[n].st = "failed" /\ ~Active(n)
      BY <1>t, <1>i, <2>3 DEF FetchFails, FetchTimesOut, Crawling, WriterFits
    <3>2. wpc' = wpc /\ job' = job /\ outcome' = outcome
      BY <2>3 DEF FetchFails, FetchTimesOut, storeVars
    <3>3. QED
      BY <1>i, <1>f, <3>1, <3>2
         DEF WriterFits, Active, StoreFits, Landed, Agree, Stored, Tracked
  <2>4. CASE CacheReturns(n)
    <3>1. /\ crawl[n].st = "caching" /\ wpc[n] = "idle" /\ wpc' = wpc
          /\ crawl'[n] = [st |-> outcome[n], at |-> clock]
          /\ outcome'[n] = "none"
      BY <1>t, <2>4 DEF CacheReturns, Crawling, Returns, storeVars
    <3>2. WriterFits(n)'
      BY <1>f, <3>1 DEF WriterFits, Active
    <3>3. Landed(n) <=> outcome[n] = "ok"
      BY <3>1 DEF Landed
    <3>4. Landed(n)' <=> outcome[n] = "ok"
      BY <1>t, <3>1 DEF Landed
    <3>5. CASE outcome[n] = "ok"
      <4>1. Stored(n) /\ store[n] <= crawl[n].at
        BY <1>i, <1>f, <3>3, <3>5 DEF StoreFits
      <4>2. store[n] \in Nat
        BY <4>1, <1>t DEF Stored, Content
      <4>3. Stored(n)' /\ store'[n] <= crawl'[n].at
        BY <1>t, <1>i, <1>f, <3>1, <4>1, <4>2 DEF Stored
      <4>4. QED
        BY <1>f, <3>2, <3>4, <3>5, <4>3 DEF StoreFits
    <3>6. CASE outcome[n] # "ok"
      <4>1. Agree(n)
        BY <1>i, <1>f, <3>3, <3>6 DEF StoreFits
      <4>2. Agree(n)'
        BY <1>f, <4>1 DEF Agree, Stored, Tracked
      <4>3. QED
        BY <1>f, <3>2, <3>4, <3>6, <4>2 DEF StoreFits
    <3>7. QED
      BY <3>5, <3>6
  <2>5. QED
    BY <2>1, <2>2, <2>3, <2>4
<1>5. StatusFits(n)' /\ StaleFits(n)'
  BY <1>i, <1>f DEF StatusFits, StaleFits, Tracked
<1>6. \A v \in Nodes \ {n} : /\ WriterFits(v)' /\ StoreFits(v)'
                             /\ StatusFits(v)' /\ StaleFits(v)'
  BY <1>f, <1>2, NodeUntouched DEF CacheInv
<1>7. \A v \in Nodes : crawl'[v].at <= clock'
  BY <1>t, <1>f, <1>2, <1>3 DEF CacheInv
<1>8. QED
  BY <1>f, <1>4, <1>5, <1>6, <1>7 DEF CacheInv

\* Dating the successes and choosing what is stale keeps the records in
\* agreement: a catalog that landed is dated no earlier than it was fetched.
LEMMA EndCrawlKeepsCacheInv ==
    ASSUME HarvesterTypeOK, CacheInv, EndCrawl
    PROVE  CacheInv'
<1> USE HarvesterAssumption
<1> DEFINE dated == [n \in Nodes |-> IF n \in Succeeded THEN crawl[n].at
                                     ELSE last_success[n]]
<1>f. /\ phase = "crawl" /\ phase' = "expire" /\ cycle_end' = clock
      /\ last_success' = dated /\ tried' = {} /\ expired' = {}
      /\ stale' = {n \in Nodes : TooOld(dated, n)}
      /\ \A n \in Nodes : crawl[n].st \in {"ok", "failed"}
      /\ UNCHANGED <<store, wpc, job, outcome, crawl, clock, status>>
  BY DEF EndCrawl, storeVars
<1>1. clock \in Nat
  BY DEF HarvesterTypeOK
<1>2. ASSUME NEW n \in Nodes
      PROVE  /\ crawl'[n].at <= clock' /\ WriterFits(n)' /\ StoreFits(n)'
             /\ StatusFits(n)' /\ StaleFits(n)'
  <2>1. /\ WriterFits(n) /\ StoreFits(n) /\ StatusFits(n) /\ crawl[n].at <= clock
        /\ crawl[n].at \in Nat /\ crawl[n].st \in {"ok", "failed"}
        /\ status.participants[n].cached \in BOOLEAN
    BY <1>f DEF CacheInv, HarvesterTypeOK, Crawl, CrawlStatus, ParticipantStatus
  <2>2. WriterFits(n)'
    BY <1>f, <2>1 DEF WriterFits, Active
  <2>3. Landed(n) <=> n \in Succeeded
    BY <2>1 DEF Landed, Succeeded
  <2>4. Succeeded' = Succeeded
    BY <1>f DEF Succeeded
  <2>5. last_success'[n] = IF n \in Succeeded THEN crawl[n].at ELSE last_success[n]
    BY <1>f
  <2>6. Agree(n)'
    BY <1>f, <2>1, <2>3, <2>5 DEF StoreFits, Agree, Stored, Tracked
  <2>7. StatusFits(n)'
    <3>1. CASE n \in Succeeded
      BY <1>f, <2>1, <2>4, <2>5, <3>1 DEF StatusFits, Tracked
    <3>2. CASE n \notin Succeeded
      BY <1>f, <2>1, <2>4, <2>5, <3>2 DEF StatusFits, Tracked
    <3>3. QED
      BY <3>1, <3>2
  <2>8. StaleFits(n)'
    BY <1>f, <2>5 DEF StaleFits, Overdue, Tracked, TooOld
  <2>9. QED
    BY <1>f, <2>1, <2>2, <2>6, <2>7, <2>8 DEF StoreFits
<1>3. QED
  BY <1>1, <1>2, <1>f DEF CacheInv

\* Starting a delete: the loop is the only writer, and the catalog is overdue.
LEMMA DeleteStaleKeepsCacheInv ==
    ASSUME HarvesterTypeOK, CacheInv, NEW n \in Nodes, DeleteStale(n)
    PROVE  CacheInv'
<1> USE HarvesterAssumption
<1>t. /\ outcome \in [Nodes -> {"none", "ok", "failed"}]
      /\ wpc \in [Nodes -> WriterStates] /\ job \in [Nodes -> Job \cup {NoJob}]
  BY DEF HarvesterTypeOK, StoreTypeOK
<1>f. /\ phase = "expire" /\ phase' = "deleting" /\ tried' = tried \cup {n}
      /\ n \in stale \ tried
      /\ wpc' = [wpc EXCEPT ![n] = "call"]
      /\ job' = [job EXCEPT ![n] = [node |-> n, cat |-> NoCatalog]]
      /\ UNCHANGED <<store, outcome, clock, crawl, last_success, cycle_end, stale,
                     expired, status>>
  BY DEF DeleteStale, StartDelete, Goto
<1>1. \A v \in Nodes : ~Active(v)
  BY <1>f DEF CacheInv, WriterFits
<1>2. \A v \in Nodes : Active(v)' => v = n
  BY <1>t, <1>f, <1>1 DEF Active
<1>3. OneDelete'
  BY <1>2, <1>f DEF OneDelete, CacheInv
<1>4. ASSUME NEW v \in Nodes
      PROVE  /\ WriterFits(v)' /\ StoreFits(v)' /\ StatusFits(v)' /\ StaleFits(v)'
  <2>1. WriterFits(v) /\ StoreFits(v) /\ StatusFits(v) /\ StaleFits(v)
    BY DEF CacheInv
  <2>2. /\ outcome'[v] = "none"
        /\ wpc'[v] # "idle" => v = n /\ job'[v] = [node |-> n, cat |-> NoCatalog]
    BY <1>t, <1>f, <1>1 DEF Active
  <2>3. WriterFits(v)'
    BY <1>f, <2>2 DEF WriterFits
  <2>4. StoreFits(v)'
    BY <1>f, <2>1, <2>2 DEF StoreFits, Agree, Stored, Tracked
  <2>5. StatusFits(v)' /\ StaleFits(v)'
    BY <1>f, <2>1 DEF StatusFits, StaleFits, Overdue, Tracked, Succeeded
  <2>6. QED
    BY <2>3, <2>4, <2>5
<1>5. QED
  BY <1>3, <1>4, <1>f DEF CacheInv

\* A delete that returns: its catalog is gone and no longer tracked, or it
\* failed and nothing about the participant has changed.
LEMMA DeleteReturnsKeepsCacheInv ==
    ASSUME HarvesterTypeOK, CacheInv, NEW n \in Nodes, DeleteReturns(n)
    PROVE  CacheInv'
<1>t. /\ outcome \in [Nodes -> {"none", "ok", "failed"}]
      /\ last_success \in [Nodes -> Instant] /\ tried \subseteq stale
  BY DEF HarvesterTypeOK
<1>f. /\ phase = "deleting" /\ phase' = "expire"
      /\ outcome[n] # "none" /\ wpc[n] = "idle"
      /\ outcome' = [outcome EXCEPT ![n] = "none"]
      /\ UNCHANGED <<store, wpc, job, clock, crawl, cycle_end, stale, tried, status>>
  BY DEF DeleteReturns, Returns, storeVars
<1>1. Active(n) /\ n \in tried /\ \A v \in Nodes : Active(v) => v = n
  BY <1>f DEF Active, CacheInv, OneDelete
<1>2. \A v \in Nodes : ~Active(v)'
  BY <1>t, <1>f, <1>1 DEF Active
<1>3. n \in tried \ expired
  BY <1>f, <1>1 DEF CacheInv, OneDelete
<1>4. IF outcome[n] = "ok"
      THEN /\ last_success' = [last_success EXCEPT ![n] = Never]
           /\ expired' = expired \cup {n}
      ELSE last_success' = last_success /\ expired' = expired
  BY DEF DeleteReturns
<1>5. expired' \subseteq tried'
  BY <1>f, <1>3, <1>4 DEF CacheInv
<1>6. ASSUME NEW v \in Nodes, v # n \/ outcome[n] # "ok"
      PROVE  StoreFits(v)' /\ StatusFits(v)' /\ StaleFits(v)'
  <2>1. StoreFits(v) /\ StatusFits(v) /\ StaleFits(v)
    BY DEF CacheInv
  <2>2. last_success'[v] = last_success[v] /\ (v \in expired' <=> v \in expired)
    BY <1>t, <1>4, <1>6
  <2>3. outcome[v] # "ok"
    BY <1>1, <1>6 DEF Active
  <2>4. StoreFits(v)'
    BY <1>f, <2>1, <2>2, <2>3 DEF StoreFits, Agree, Stored, Tracked
  <2>5. StatusFits(v)' /\ StaleFits(v)'
    BY <1>f, <2>1, <2>2 DEF StatusFits, StaleFits, Overdue, Tracked, Succeeded
  <2>6. QED
    BY <2>4, <2>5
<1>7. ASSUME outcome[n] = "ok"
      PROVE  StoreFits(n)' /\ StatusFits(n)' /\ StaleFits(n)'
  <2>1. ~Stored(n) /\ last_success'[n] = Never /\ n \in expired'
    BY <1>t, <1>f, <1>4, <1>7 DEF CacheInv, StoreFits
  <2>2. StoreFits(n)'
    BY <1>f, <2>1 DEF StoreFits, Agree, Stored, Tracked
  <2>3. StatusFits(n)' /\ StaleFits(n)'
    BY <1>f, <2>1 DEF StatusFits, StaleFits, Overdue, Tracked
  <2>4. QED
    BY <2>2, <2>3
<1>8. \A v \in Nodes : WriterFits(v)' /\ crawl'[v].at <= clock'
  BY <1>f, <1>2 DEF WriterFits, Active, CacheInv
<1>9. QED
  BY <1>f, <1>5, <1>6, <1>7, <1>8 DEF CacheInv

\* record_status publishes what the cycle did: the successes, then the expiries.
LEMMA RecordStatusKeepsCacheInv ==
    ASSUME HarvesterTypeOK, CacheInv, RecordStatus
    PROVE  CacheInv'
<1>f. /\ phase = "expire" /\ phase' = "tick" /\ tried = stale /\ crawl' = NoCrawl
      /\ UNCHANGED <<store, wpc, job, outcome, clock, last_success, cycle_end,
                     stale, tried, expired>>
  BY DEF RecordStatus, storeVars
<1>1. clock \in Nat
  BY DEF HarvesterTypeOK
<1>2. ASSUME NEW n \in Nodes
      PROVE  /\ crawl'[n].at <= clock' /\ WriterFits(n)' /\ StoreFits(n)'
             /\ StatusFits(n)' /\ StaleFits(n)'
  <2> DEFINE old == status.participants[n]
             new == status'.participants[n]
  <2>1. WriterFits(n) /\ StoreFits(n) /\ StatusFits(n) /\ StaleFits(n)
    BY DEF CacheInv
  <2>2. crawl'[n].at <= clock'
    BY <1>f, <1>1 DEF NoCrawl
  <2>3. WriterFits(n)' /\ StoreFits(n)'
    BY <1>f, <2>1 DEF WriterFits, Active, StoreFits, Agree, Stored, Tracked
  <2>4. new = Recorded(old, n)
    BY DEF RecordStatus
  <2>a. new.last_success = IF n \in Succeeded THEN crawl[n].at ELSE old.last_success
    BY <2>4 DEF Recorded
  <2>b. ASSUME NEW x, x = ((n \in Succeeded \/ old.cached) /\ n \notin expired)
        PROVE  new.cached = x
    <3>1. new = [last_attempt |-> crawl[n].at,
                 last_success |-> IF n \in Succeeded THEN crawl[n].at
                                  ELSE old.last_success,
                 failed |-> n \notin Succeeded, cached |-> x]
      BY <2>4, <2>b, Zenon DEF Recorded
    <3>2. QED
      BY <3>1
  <2>5. new.cached <=> (n \in Succeeded \/ old.cached) /\ n \notin expired
    BY <2>b, Zenon
  <2>6. (Tracked(n) <=> new.cached)
    BY <1>f, <2>1, <2>5 DEF StatusFits, StaleFits
  <2>7. Tracked(n) => new.last_success = last_success[n]
    BY <1>f, <2>1, <2>a DEF StatusFits
  <2>8. StatusFits(n)'
    BY <1>f, <2>6, <2>7 DEF StatusFits, Tracked
  <2>9. StaleFits(n)'
    BY <1>f, <2>1 DEF StaleFits, Overdue, Tracked
  <2>10. QED
    BY <2>2, <2>3, <2>8, <2>9
<1>3. QED
  BY <1>f, <1>2 DEF CacheInv

\* The steps that only move the scheduler or the clock.
LEMMA IdleKeepsCacheInv ==
    ASSUME HarvesterTypeOK, CacheInv,
           StartCycle \/ Stop \/ Shutdown \/ Advance \/ UNCHANGED vars
    PROVE  CacheInv'
<1>t. clock \in Nat /\ cycle_end \in Nat /\ crawl \in [Nodes -> Crawl]
  BY DEF HarvesterTypeOK
<1>1. CASE StartCycle
  <2>f. /\ phase = "tick" /\ phase' = "crawl"
        /\ crawl' = [n \in Nodes |-> [st |-> "queued", at |-> 0]]
        /\ UNCHANGED <<store, wpc, job, outcome, clock, last_success, cycle_end,
                       stale, tried, expired, status>>
    BY <1>1 DEF StartCycle, storeVars
  <2>1. ASSUME NEW n \in Nodes
        PROVE  /\ crawl'[n].at <= clock' /\ WriterFits(n)' /\ StoreFits(n)'
               /\ StatusFits(n)' /\ StaleFits(n)'
    <3>1. WriterFits(n) /\ StoreFits(n) /\ StatusFits(n)
      BY DEF CacheInv
    <3>2. crawl'[n] = [st |-> "queued", at |-> 0]
      BY <2>f
    <3>3. WriterFits(n)'
      BY <2>f, <3>1 DEF WriterFits, Active
    <3>4. StoreFits(n)'
      BY <2>f, <3>1, <3>2 DEF StoreFits, Landed, Agree, Stored, Tracked
    <3>5. StatusFits(n)' /\ StaleFits(n)'
      BY <2>f, <3>1 DEF StatusFits, StaleFits, Tracked
    <3>6. QED
      BY <1>t, <2>f, <3>2, <3>3, <3>4, <3>5
  <2>2. QED
    BY <2>f, <2>1 DEF CacheInv
<1>2. CASE Stop
  <2>f. /\ phase \in {"tick", "crawl"} /\ phase' = "stopped" /\ crawl' = NoCrawl
        /\ UNCHANGED <<store, wpc, job, outcome, clock, last_success, cycle_end,
                       stale, tried, expired, status>>
    BY <1>2 DEF Stop, storeVars
  <2>1. ASSUME NEW n \in Nodes
        PROVE  /\ crawl'[n].at <= clock' /\ WriterFits(n)' /\ StoreFits(n)'
               /\ StatusFits(n)' /\ StaleFits(n)'
    <3>1. WriterFits(n)
      BY DEF CacheInv
    <3>2. crawl'[n].at <= clock'
      BY <1>t, <2>f DEF NoCrawl
    <3>3. WriterFits(n)'
      BY <2>f, <3>1 DEF WriterFits
    <3>4. QED
      BY <2>f, <3>2, <3>3 DEF StoreFits, StatusFits, StaleFits
  <2>2. QED
    BY <2>f, <2>1 DEF CacheInv
<1>3. CASE Shutdown \/ Advance \/ UNCHANGED vars
  <2>f. /\ clock' = clock \/ clock' = clock + 1
        /\ UNCHANGED <<store, wpc, job, outcome, phase, crawl, last_success,
                       cycle_end, stale, tried, expired, status>>
    BY <1>3 DEF Shutdown, Advance, vars, harvesterVars, storeVars, cycleVars
  <2>1. ASSUME NEW n \in Nodes
        PROVE  /\ crawl'[n].at <= clock' /\ WriterFits(n)' /\ StoreFits(n)'
               /\ StatusFits(n)' /\ StaleFits(n)'
    <3>1. /\ WriterFits(n) /\ StoreFits(n) /\ StatusFits(n) /\ StaleFits(n)
          /\ crawl[n].at <= clock /\ crawl[n].at \in Nat
      BY <1>t DEF CacheInv, Crawl
    <3>2. QED
      BY <1>t, <2>f, <3>1, NodeUntouched
  <2>2. cycle_end' <= clock'
    BY <1>t, <2>f DEF CacheInv
  <2>3. phase' = "deleting" => OneDelete'
    BY <2>f DEF CacheInv, OneDelete, Active
  <2>4. QED
    BY <2>f, <2>1, <2>2, <2>3 DEF CacheInv
<1>4. QED
  BY <1>1, <1>2, <1>3

\* CacheInv holds in every reachable state.
THEOREM RecordsAgree == Spec => [](HarvesterTypeOK /\ CacheInv)
<1>1. Init => CacheInv
  <2> SUFFICES ASSUME Init PROVE CacheInv
    OBVIOUS
  <2>f. /\ phase = "tick" /\ clock = 0 /\ cycle_end = 0 /\ expired = {} /\ tried = {}
        /\ \A n \in Nodes :
              /\ crawl[n].at = 0 /\ wpc[n] = "idle" /\ outcome[n] = "none"
              /\ store[n] = NoCatalog /\ last_success[n] = Never
              /\ status.participants[n].cached = FALSE
    BY HarvesterAssumption DEF Init, StoreInit, NoCrawl
  <2>1. ASSUME NEW n \in Nodes
        PROVE  WriterFits(n) /\ StoreFits(n) /\ StatusFits(n) /\ StaleFits(n)
    BY <2>f DEF WriterFits, Active, StoreFits, Agree, Stored, Tracked, StatusFits,
       StaleFits, Overdue
  <2>2. QED
    BY <2>f, <2>1 DEF CacheInv
<1>2. HarvesterTypeOK /\ CacheInv /\ [Next]_vars => CacheInv'
  BY WriterKeepsCacheInv, CrawlKeepsCacheInv, EndCrawlKeepsCacheInv,
     DeleteStaleKeepsCacheInv, DeleteReturnsKeepsCacheInv,
     RecordStatusKeepsCacheInv, IdleKeepsCacheInv DEF Next, SchedulerStep
<1>3. QED
  BY <1>1, <1>2, HarvesterTypeCorrect, PTL DEF Spec

\* Between two cycles the store, the harvester's own record and the published
\* status agree about every participant, whatever failed on the way and at any
\* concurrency.
THEOREM BookkeepingIsRight == Spec => []BookkeepingMatchesStore
<1>1. HarvesterTypeOK /\ CacheInv => BookkeepingMatchesStore
  BY DEF CacheInv, StoreFits, StatusFits, Agree, Tracked, BookkeepingMatchesStore
<1>2. QED
  BY <1>1, RecordsAgree, PTL

\* A catalog that outlives its cycle's expiry is one whose delete that cycle
\* tried and failed.
THEOREM ExpiryIsComplete == Spec => []ExpiryComplete
<1>1. CacheInv => ExpiryComplete
  BY DEF CacheInv, StoreFits, StaleFits, Overdue, Agree, Tracked, ExpiryComplete
<1>2. QED
  BY <1>1, RecordsAgree, PTL

\* No step removes a catalog fetched within max_catalog_age, neither in a cycle
\* that took long nor after a shutdown.
THEOREM OnlyOldAreRemoved == Spec => OnlyOldCatalogsRemoved
<1> DEFINE Old == \A n \in Nodes : Stored(n) /\ store'[n] = NoCatalog
                                     => clock - store[n] > MaxCatalogAge
<1>1. HarvesterTypeOK /\ CacheInv /\ [Next]_vars => [Old]_vars
  <2> SUFFICES ASSUME HarvesterTypeOK, CacheInv, Next, NEW n \in Nodes,
                      Stored(n), store'[n] = NoCatalog
               PROVE  clock - store[n] > MaxCatalogAge
    OBVIOUS
  <2>t. /\ clock \in Nat /\ cycle_end \in Nat /\ cycle_end <= clock
        /\ store[n] \in Nat /\ MaxCatalogAge \in Nat
        /\ last_success[n] \in Nat \cup {Never}
    BY HarvesterAssumption
       DEF HarvesterTypeOK, StoreTypeOK, Content, Stored, CacheInv, Instant
  <2>1. PICK w \in Nodes : WriterRuns(w)
    BY DEF Stored, Next, SchedulerStep, StartCycle, StartCrawl, FetchTimesOut,
       CacheReturns, EndCrawl, DeleteStale, StartDelete, DeleteReturns,
       RecordStatus, Stop, FetchOk, StartUpsert, FetchFails, Shutdown, Advance,
       storeVars
  <2>2. WriterFits(w) /\ WriterEffect(w)
    BY <2>1, WriterRunsEffect DEF CacheInv
  <2>3. /\ w = n /\ wpc[n] # "idle" /\ job[n].cat = NoCatalog
        /\ outcome[n] = "none"
    BY <2>2 DEF WriterEffect, Stored
  <2>4. phase = "deleting"
    BY <2>2, <2>3 DEF WriterFits
  <2>5. Agree(n) /\ StaleFits(n)
    BY <2>3, <2>4 DEF CacheInv, StoreFits
  <2>6. n \in tried \ expired
    BY <2>3, <2>4 DEF CacheInv, OneDelete, Active
  <2>7. Overdue(n)
    BY <2>4, <2>5, <2>6 DEF StaleFits, HarvesterTypeOK
  <2>8. QED
    BY <2>t, <2>5, <2>7 DEF Agree, Overdue, Tracked
<1>2. QED
  BY <1>1, RecordsAgree, PTL DEF Spec, OnlyOldCatalogsRemoved
==============================================================================
