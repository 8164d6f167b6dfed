# TLA+ verification of ds-catalog-broker-rs

The broker crawls the DSP catalogs of its participants, keeps each one as a
named graph in an in-memory RDF store, and serves them through `GET /catalog`,
a management API and a policy-filtered `/sparql` endpoint. This directory holds
TLA+ models of it, the TLC runs that check them on small instances, and TLAPS
proofs for all instances. `PROJECT.json` is the machine-readable index: which
definition models which lines, which run checks which property, and which
hazards of the code each property is aimed at.

## Inventory of the system

| Component (source under `src/crates`) | State | Operations | Interaction |
|---|---|---|---|
| Catalog store writers (`rdf-store/.../mod.rs`) | graphs, `write_sequence`, the store's writer lock | `upsert` (blocking pool), `delete` (caller's thread) | called by the harvester; read by every route |
| Policy-filtered evaluation (`rdf-store/.../sparql.rs`) | `allow_lists`, `partial_allow_lists` | `sparql_query_json_policy_filtered` | reads the live store without locking it; cancelled by the route |
| Scheduler and harvester (`crawler/src/lib.rs`, `status.rs`) | `last_success`, shared status, crawls in flight | `run_cycle`, `record_status`, shutdown | writes the store; status read by `/ready` |
| Fetch and parsing (`crawler/src/lib.rs`) | none | `crawl_one`, `parse_*` | HTTP; result goes to the store |
| RDF codec (`write.rs`, `read.rs`, `vocab.rs`, `iris.rs`) | none | `write_catalog`, `load_catalog` | both sides of the store |
| Visibility (`sparql.rs`, `routes/policy.rs`) | none | `quad_is_visible`, `visible_resource_iris` | filters what a query reads |
| ODRL filter (`odrl_filter.rs`) | none | `dataset_is_visible`, `allow_list_key` | callback of the filtered evaluation; calls the library ds-odrl-engine |
| Routes (`routes/catalog.rs`, `management.rs`, `sparql.rs`) | evaluation and decode slots, cancellation tokens | `get_catalog`, `catalog_request_route`, `sparql_route` | time limit, drain, dropped clients |
| OAuth2 gate (`oauth2.rs`, `routes/auth.rs`) | the keys fetched at start | `fetch`, `verify`, `check_oauth2_bearer` | in front of every route; its claims go to the filter |
| Lifecycle (`main.rs`, `serving.rs`, `signals.rs`, `routes/ready.rs`) | shutdown and draining tokens, pending signals | signals, readiness, drain, exit | stops everything above |
| Configuration (`config.rs`, `crawler/src/config.rs`) | settings, fixed at start | `load`, `from_graph` | read by boot; says whom to crawl and how |
| Holder (`dcp-core`, `oid4vp.rs`, `routes/holder.rs`) | key pair, issued tokens | `mint_self_issued_token`, `answer_presentation_query`, `present` | crawls mint and present, providers call back |
| `policy-engine` | none | evaluation behind a C and WASM interface | nothing in the workspace depends on it |

What is hard here: the filtered query never blocks writers, so everything it
reads may change between two reads and only the write sequence tells; its
caches are shared by requests that can be cancelled at any point; a crawl cycle
overlaps fetches, writes on other threads, failures of each, and shutdown.
What makes each part correct:

- store and evaluation: an answer is of one store state; what is cached or
  resumed is as good as computed afresh; waits and retries end;
- harvester: the store, the ages it tracks and the status it publishes agree
  after every cycle; expiry removes what is too old and nothing else; a silent
  participant holds up nobody;
- routes and lifecycle: slots are neither leaked nor released early; abandoned
  work is told to stop; shutdown ends; `/ready` fails before the listener closes;
- parser, codec, filter, visibility: every reader hides what the policy hides,
  and a policy that cannot be represented stays denied from fetch to query;
- gate: only tokens of the configured issuer are answered;
- configuration and holder: an accepted configuration is complete; a credential
  goes only where it was meant to go.

## Modules

| Module | Role |
|---|---|
| `CatalogStore` | the writers: transaction, guard, sequence, error paths; `StoreSpec` and `SerialStoreSpec`, the store by itself |
| `PolicyFilteredQuery` | the optimistic reader on top of `CatalogStore` |
| `AtomicCatalogQuery` | abstract specification: a query answered in one step from one state |
| `PolicyFilteredQueryProofs` | theorems about the reader |
| `Harvester` | scheduler, cycle, expiry, status and shutdown, driving `CatalogStore`'s writers |
| `HarvesterProofs` | theorems about the harvester |
| `HarvestedQueries` | the broker's two halves around one store, `Harvester` writing and `PolicyFilteredQuery` reading, and theorems about both together |
| `BrokerServing` | the process: signals, graceful shutdown, requests, slots, blocking tasks |
| `BrokerServingProofs` | theorems about the serving process |
| `CatalogValues` | words, options and lists that catalogs, tokens and answers are made of; `Levels` and `Nested`, recursion over nested values |
| `CatalogQuads` | IRIs of resources, and which quads an allow-list lets a query match |
| `BearerTokens` | the OAuth2 gate, claims for the engine, allow-list key |
| `CatalogRoutes` | crawls and the three routes, for any parser, RDF form and policy decision |
| `CrawledCatalogs` | JSON responses and the parser that makes catalogs of them |
| `CatalogGraph` | catalogs as quads: writing and reading |
| `CatalogGraphProofs` | what is written can be read back |
| `PolicyFilter` | policy mapping and decision |
| `HiddenDatasets` | the offers as they would be had the hidden datasets never been sent |
| `CrawledCatalogsProofs` | theorems about gate and routes, about parser and filter, and about the routes run with the broker's own |
| `NatRecursion` | induction and recursion over the numbers, for the proofs about nested values |
| `CatalogRequests` | composes `CatalogRoutes` with the broker's parser, RDF form and filter |
| `BrokerConfig` | where a configuration comes from and what of it is accepted |
| `HolderCredentials` | boot on a `BrokerConfig`, crawls with credentials, callbacks, restart |
| `HolderCredentialsProofs` | theorems about configuration, redirects and callbacks |
| `MC...` | model-checking instances |

How they meet: `PolicyFilteredQuery` and `Harvester` both extend
`CatalogStore`, `Harvester` is proved to implement the store the reader is
proved on, and `HarvestedQueries` puts the two around one store, as `main` does
with the cache it hands to both. What is a step in one module is opened up in another: an
evaluation that runs in `BrokerServing` is a call of `PolicyFilteredQuery`; the
decision a callback takes there is `PolicyFilter`'s; the crawl that succeeds or
fails in `Harvester` is `Crawl` of `CatalogRoutes` (what becomes of the
response) and the crawl actions of `HolderCredentials` (how it is asked for);
the scheduler that ends in `BrokerServing` is `Stop` of `Harvester`.

### CatalogStore

A writer is a thread inside `store_catalog` or `remove_catalog`; its program
counter `wpc` has one value per point at which another thread can run in
between. Oxigraph's transaction is external: it is modelled from its use as the
single writer lock, held from `start_transaction` until the transaction value
is consumed by `commit(self)` or dropped. The guard is a separate local. Hence
the state `committed`: lock free, guard alive. Errors are separate actions:
before the transaction (`FailBeforeTransaction`), in the lookup of a delete
(`LookupFails`), in `remove_named_graph` (guard dropped first, then the
transaction: `RemoveFails`, `Rollback`) and in `commit`. A catalog is an opaque
value and a graph either holds one or is absent.

### PolicyFilteredQuery

`call[r]` is the record of locals of one call: program counter, caller key,
cancellation token, attempt, time waited, `before`, the snapshot of the scan,
the allow-list, the decision whose check is pending, what the query has read.
One action per step between two accesses to shared state. An allow-list is
represented by what it was decided from (per participant: the catalog, the
time, whether the callback ran to its end), since what matters is whether a
decision is the one that the current state would give. Graphs that do not
decode are skipped by the code as by `GET /catalog`; the model has none.
`Cancel` stands for the route's time limit, drain and dropped handler. Time is
counted in ticks, `WRITE_WAIT` in sleeps of the wait loop. The memory order of
the sequence is SeqCst, so its accesses interleave.

`Spec` lets writers overlap. `SerialSpec` is the same with one guard alive at a
time, which is what a broker with `crawlConcurrency` 1 does: that is not
assumed but shown, by `OneSlotSerializes` about `Harvester`.

### Harvester

The writers of `CatalogStore` are named by their participant, and a catalog is
represented by the time it was fetched. `phase` is where the scheduler task
is; `crawl[n]` is the participant's part in the cycle. A fetch is one step that
may succeed, fail, never happen, or run into its limit. After the crawls,
`run_cycle` has no point at which it yields (`delete` runs on the caller's
thread), so `Stop` is possible only while the task waits for the tick or in
`crawl_once`; writes already handed to the blocking pool go on after it, or are
dropped before they start. `stale` is sorted in the code and an unordered set
here; participants are started in any order.

### BrokerServing

One variable for each thing a task waits for: the two tokens, the listener,
main's place in its `select`, every request's handler and blocking task, the
free slots. The handler and its blocking task are separate because a request
that was answered 503 leaves an evaluation behind that still holds its slot.
Returning from `main` drops the runtime: async tasks are gone at once, started
blocking tasks are waited for, queued ones are dropped with their slots. Main
exits with 0, with 1 when the scheduler ends unasked, or with 130.

### From response to answer: CatalogRoutes, CatalogRequests and what they use

A string is a word with its spelling (`bare`, `odrl`, `iri`, `urn`), which is
all that parser, IRI test and operand normalisation look at; a JSON value is a
string, number, array, object or null; an object is a function from keys to
values. An `Option` is a sequence of at most one element. IRIs are paths, so
that percent-encoding is represented by its being injective. A graph is a set of
triples, and reading has no order but `sequenceIndex`, as in the code. The
engine is a library of its own; what it decides is taken from the broker's
tests: an assignee is compared with `sub`, a prohibition that applies denies, a
missing claim satisfies nothing. Operators other than `eq` and `neq` are known
to the mapping but not used by the instance.

`CatalogRoutes` crawls each participant once and then answers any sequence of
requests; changes of the store under a request are `PolicyFilteredQuery`'s
subject. The routes never look into the parser, the codec, the decision on a
dataset or the JSON of a policy, so these are constant operators there
(`ParseResponse`, `WriteCatalog`, `LoadCatalog`, `DatasetVisible`,
`PolicyToJson`); `CatalogRequests` defines the broker's, and the cfg files
give them as values. The code recurses over nested constraints, catalogs and
JSON values; the models do so with `Nested`, level by level down to a bound,
which is a function over the natural numbers and so can be reasoned about.
`Crawl` is parse and upsert; `cached` is the allow-list cache, whose
entries another token with the same key will use.

The properties are not stated over the parsed form: `Grants` reads the response
itself as ODRL, every value under a term in whatever spelling counting, and
says when a policy *understood to the last constraint* lets a caller in.
`ShownOnlyIfGranted` compares that with the end of the pipeline.
`OffersBlindToHidden` (`HiddenDatasets`) goes back to the response as well: it
takes the datasets a caller may not see out of the JSON (`Redacted`), out of
nested catalogs too and every later entry of the same id, parses what is left
anew, and asks that the offers, filtered by id or not, be those of that broker.
It is about datasets only. The management API keeps every service
(`ServiceFiltering::KeepAll`), so a service that only a hidden dataset's
distribution describes is still offered; `HarvestedWithout` leaves the services
as they were, and nothing is claimed of them.

### BrokerConfig, HolderCredentials

A configuration is a set of triples; `from_graph` accepts or refuses it. `load`
covers the environment variable, the default directory, remote documents and
their redirects. `Boot` is `main` up to the listener, `Restart` a new process:
a new key pair (its generation), no issued tokens. A token is who signed it,
for whom and until when. A callback has two steps, since the DID lookup is
awaited: `holder_presentation_query_route` up to the lookup, `DidResolved` or
`DidFailed` after it, at most `ResolutionTimeout` later. `held` and `resolved`
are history variables; `unfit` is the error `crawl_one` returns for a
participant that lacks something.

## Runs

| Run | Instance | Shows |
|---|---|---|
| `PFQ_serial` | 2 participants, 2 writers, a reader with 2 caller keys, maps of 1 entry, 2 attempts | the reader implements `AtomicCatalogQuery`; one sequence means one state; cached lists are exact; maps bounded; retries only because of writes; types |
| `PFQ_resume` | 2 participants, 1 writer, 3 instants, fairness | no truncated decision is kept, resumes are fresh, every call ends |
| `PFQ_torn` (violation) | 2 writers that overlap | the write sequence does not detect every write (finding 1) |
| `PFQ_ttl` (violation) | a cancelled build, resumed later | a cached list is older than its TTL says (finding 2) |
| `Harvester_cycles` | 2 participants crawled at once, 3 cycles, maximal age 0 | bookkeeping, expiry |
| `Harvester_oneslot` | 2 participants, 1 slot, 2 cycles, no symmetry | serial writes; every cycle ends |
| `Serving` | 2 queries for 1 slot, 1 catalog request, a crawler, 2 signals, a delay of 1 tick | slots, cancellation, readiness before closing, clean exits, answers, end of shutdown |
| `Serving_signal` (violation) | the same | a second signal may not be seen (finding 3) |
| `Requests` | 2 participants, 6 pairs of responses with about 60 policies, 5 settings, 15 tokens, 2 filters, depths 2 and 1 | storing, round trip, visibility on all routes, offers without what is hidden, the gate |
| `Requests_hide`, `Requests_key` (violations) | one response, one or two tokens | findings 4 and 5 |
| `Credentials` | 3 documents, about 90 near misses of two of them, locations with redirects, 2 providers, 3 tokens, cap 2, a restart | configuration, redirects, callbacks |

Bounds. Two participants suffice for a torn read (one read before, one after a
write), for two slots and for a resume that has one decision and lacks another.
Two writes suffice for every overlap (`MaxWrites` stops new writes only). One
reader calls again and again, so that a list cached or left partial by one call
is met by a later one; the maps hold one entry, so that the other key evicts.
Three cycles are a success, a failure whose delete fails, and the retry. The
clock bounds are chosen so that each TTL is both met and missed. Two queries
for one slot make one wait for what the other left behind.

In `Requests` the depth limits 64 and 56 are 2 and 1, in their order; the policies
include each limit and one past it. `JSON_DEPTH`, the nesting of a body (128 in
`serde_json`), is 4: no response of the run nests list objects or catalogs
deeper. Datasets do not influence each other's
visibility except through shared services, so one response carries a dataset for
each of eleven policies; the others have alternatives in both orders, nested
catalogs, repeated ids, services that are only referred to. In `Credentials` the
three unaltered documents are explored with time, mints and restarts, three
tokens for a cap of two; every near miss (a triple missing, added or changed) is
booted and crawled once, since it differs only in what is accepted.

Symmetry is used in safety runs only. `CHECK_DEADLOCK FALSE` is set where the
system may stop: the harvester after shutdown or at the bound on cycles, the
process after its exit, the broker that refuses to start or whose bounds on
time are used up.

Fairness. `PFQ_resume` assumes only that a running call, a thread of its own,
keeps taking steps; nothing is assumed of writers. `Harvester_oneslot` assumes
that the scheduler task and started writes keep running and that time passes;
no participant ever has to answer. Fetch time limits are timers of the runtime,
so the time-out step is part of the scheduler's fair steps. `Serving` assumes
that the runtime runs what can run: tasks, timers, queued work while a thread is
free. Nothing is assumed of clients or signals, nor, for `QueriesAnswered`, of how
long an evaluation takes; only `ShutdownEnds` has as its premise that started
blocking work ends (`BlockingWorkEnds`), since a runtime being dropped waits for it.

## Findings

1. `write_sequence` is documented as odd while a write transaction is open, so
   that a reader seeing one even value twice knows that no write overlapped.
   `commit` releases the writer lock before the guard is dropped; a second
   writer's guard then makes the sequence even while its transaction is open,
   and a query validated against that value may mix two store states
   (`PFQ_torn`). With one crawl slot this cannot happen.
2. The comment that `ALLOW_LIST_CACHE_TTL` bounds the staleness of a
   clock-dependent decision does not hold for lists completed by a resume
   (`PFQ_ttl`); `docs/operations.md` describes the longer delay.
3. A second signal is documented to exit at once. The task that would see it is
   gone once `main` has returned, while the runtime still waits for a running
   evaluation (`Serving_signal`).
4. Under `hide_dataset` a policy that cannot be mapped is documented to hide the
   dataset whatever the alternatives say; an alternative before it that allows
   shows the dataset (`Requests_hide`).
5. Tokens with one allow-list key are documented to get one decision; `jti` is
   not part of the key, and a policy may constrain it (`Requests_key`).

Also noticed, without a run: `cache.rs` says that the Oxigraph backend does its
blocking work off the calling task; `delete` does it on the caller's.

## Proofs

For every number of participants, writers, readers and keys, and all limits:

Reader (`PolicyFilteredQueryProofs`)

- `TypeCorrect`: type correctness.
- `SerialReadsOneState`, `SerialCachedLists`, `SerialAnswersAreAtomic`, from
  `SerialSpec`. None of the three properties is inductive. `ConsistencyInv`
  says that the sequence is odd exactly while a guard is alive, and that
  everything stamped with an even number that is still current (a call's
  `before`, a cached list, a partial list) was taken from the store as it is
  now. It is inductive because the store changes only under a guard, when the
  sequence is odd, and the sequence never comes back to an earlier value. The
  refinement then maps `store` and `answer` to themselves: a commit is
  `Replace`, a return is `Answered`, all else stutters.
- `NeverTruncated`, `ResumesAreFresh`, from `Spec`, overlapping writes
  included. `KeptInv` says that every list in a cache, a partial entry or a
  call holds only whole decisions, that none in a build is older than the
  build's start, and that a decision cut short is only ever pending in a call
  whose token is cancelled.
- `MapsStayBounded`: an insertion into a full map is preceded by an eviction,
  also when nothing in it is stale. The invariant adds that the keys in use are
  finitely many, which makes the cardinality of a map with one entry more or
  less that of the map plus or minus one.
- `RetriesAreWrites`: `RetriesInv` carries through a call that its stamp is at
  least twice the attempts made before it and not past the sequence; a retry
  follows a stamp that has become old, and the next stamp is even, so each
  attempt after the first takes a write, which adds two to the sequence.

Harvester (`HarvesterProofs`)

- `HarvesterTypeCorrect`; `OneSlotSerializes`: the invariant
  `WritersFollowCycle` ties the writers to the cycle (a working writer, or one
  whose result is unread, is the one crawl holding the slot or the one delete in
  progress).
- `HarvesterImplementsStore`, `OneSlotImplementsSerialStore`: each step of the
  harvester is a step of `CatalogStore`'s writers or leaves the store alone, and
  with one slot never begins a write under another. So the reader's theorems are
  about a store that this harvester does drive.
- `BookkeepingIsRight`, `ExpiryIsComplete`, `OnlyOldAreRemoved`. At the end of a
  cycle they compare variables that are written many steps apart, and in between
  they differ. `CacheInv` (proved inductive in `RecordsAgree`) says how, phase by
  phase: what a writer works on is what its crawl or delete asked for
  (`WriterFits`); the store is ahead of `last_success` exactly by the writes
  that have landed and are not yet recorded (`StoreFits`); the published status
  lags by the cycle in progress (`StatusFits`); and what is left of `stale` is
  what is overdue (`StaleFits`).

Serving process (`BrokerServingProofs`)

- `ServingTypes`, `SlotsNeverLeak`, `NoEvaluationUncancelled`, `ReadinessFirst`,
  `CleanExit`, for any number of requests, slots and signals and every delay. They
  follow from `ServingInv`, proved inductive in `ServingInvHolds`. Its parts:
  `QueueInv` (the queue for decode slots holds each waiting read once, and who has
  not been given a slot has no task; without it a grant might start a second task
  for one request and the slots would not add up), `StageInv` (`/ready` fails from
  the first tick of the delay, the listener closes after the last), `ExitInv`
  (where `main` stands says what has ended; a drained server stays drained because
  a closed listener admits nothing), and the slot sum, whose change is the cardinality
  of the set of live tasks with one element more or less. The upper bounds of the
  type invariant come from the sum.

Both halves of the broker (`HarvestedQueries`)

- `BrokerHarvests`, `BrokerQueries`: a broker with queries behaves as the
  harvester alone and as the reader among some writers, so what is proved of
  each holds of both running on one store.
- `OneSlotAnswersOneState`: with `crawlConcurrency` 1, every filtered query of
  that broker is answered from one state of the store.
- `QueriesAgreeWithStatus`: with one slot, a query answered between two cycles
  was filtered by decisions on exactly the catalogs the status reports as cached,
  none newer than the success it reports, and on an expired one only if its
  delete failed (`AnswersAgreeWithStatus`, which has no run of its own). It
  takes `CacheInv` for the store and the status, and the refinement of
  `AtomicCatalogQuery` for the answer.

Gate and routes (first part of `CrawledCatalogsProofs`), for every parser, codec, policy
decision and JSON form, since `CatalogRoutes` leaves these open:

- `IssuersTokensOnly`: for every JWKS and every token. The lemmas follow
  `fetch`: the last key of a kid is a usable one (by the least-number principle
  on positions), and a usable key is never given an HMAC algorithm, so what the
  gate verified was signed with a private key.
- `SparqlSharesByKey`: a filtered answer of `/sparql` is what *some* admitted
  caller with the same allow-list key may see of the store as it is. That it is not always what the caller itself may see is
  finding 5.
- `SparqlHides`: for every graph, parser and decision, a filtered answer of
  `/sparql` has no quad about a dataset or service, at any depth below it or
  linking to it, that the policies hide from all admitted callers with the key
  of this one (`SparqlHidesHidden`, which has no run of its own).
- These rest on `RoutesInv` (`AnswersAreCurrent`): answers and kept lists come
  after the last crawl, and each was made from the store that is still there,
  for a token the gate admits.

RDF form of a catalog (`CatalogGraphProofs`), for every catalog and every depth limit:

- `LoadInvertsWrite`: `load_catalog` of what `write_catalog` wrote is the catalog
  itself, whenever it has the fields of the model and no two of its datasets, and
  no two of its services, have one id (`CatalogForm`). Without the last two
  datasets would share a resource and their policies would be mixed. Three facts
  carry the proof. A resource's path begins with the path of what it is in and then
  says which list and which place (`Split`), so each resource's quads can be told
  from all others by their subjects. A list is a set of links in the graph, and
  comes back in order because each member has its `sequenceIndex` and no two have
  the same (`ListLoads`). Constraints nest, and are written and loaded by recursions
  that go down different things, a constraint and a graph: level by level, what is
  written is placed (`AllPlaced`), the graph holds exactly that below each
  constraint (`WrittenIsHeld`), and from the deepest level up each is loaded as
  what it was (`LoadedIsWritten`).

Parser and filter (`CrawledCatalogsProofs`), for every response and every
depth limit:

- `CrawlsAreStored`: `write_constraint` refuses what nests deeper than
  `MAX_CONSTRAINT_DEPTH`, and no catalog the parser makes does. By induction on
  the level: a constraint at level *k* of a parsed constraint comes from an entry
  at level *k* of the JSON, and the parser makes a group only above the last one.
- `StoreIsFaithful`: the store gives back what the crawler parsed, exactly. What is
  parsed has the form `LoadInvertsWrite` asks for (`ParsedHasForm`): each field is a
  value or missing, each list a list, constraints stay within the depth, and ids
  are used once, since the parser keeps the first of two entries with one id,
  across nested catalogs and access services (`AddUnseen`). That `store` is what
  was written of `catalog` is an invariant of its own (`WrittenInv`).
- `NotUnderstoodIsDenied`: a visible dataset has no policy, and that is open, or
  one alternative that is *understood in full* (`UnderstoodPolicy`, stated over the
  JSON) and lets the caller in. Whatever is not understood, in any spelling and at
  any depth, denies, unless `skip` is configured. The argument runs backwards:
  what the filter can map has no marker at any level, by induction on the level
  each constraint without a marker comes from an entry that says one thing, and a
  rule or policy that says more than the model has a place for gets a marker.
- `OffersRevealNothing`: the offers a caller gets are those of a broker whose
  participants never sent the datasets it may not see (`OffersBlindToHidden`).
  It has to be shown that taking entries out of the JSON and dropping datasets
  after parsing come to the same: the parser keeps the first of two entries with
  one id, so a later one of a hidden id must go too, or it would take the place
  of the first. `RedactRecurses` says what a redacted catalog is at each level,
  `ResponseEntriesLeft` that its entries are the others of the response in their
  order, `CollectedLeft` that the datasets collected from them are those that
  were visible, and `ParsedLeft` puts the catalog together; what is retained of
  joined lists is by induction on their length (`ListInduction`, `RetainFlattened`
  in `CatalogGraphProofs`). That the catalogs listed are stored ones, each once
  and under its own participant, is `PlacesAreTaken` and `ListedAreParsed`, and
  needs that no two strings have one place in the order.
- `MatchedWasUnderstood`: the two ends joined, for the routes run with the
  broker's parser, codec and decision. A filtered query matches a quad about a
  dataset only if a participant's response has a dataset of that id that could be
  read (`MatchedIsReadable`). It takes `SparqlHides`, `NotUnderstoodIsDenied`,
  `StoreIsFaithful`, and that the datasets collected from nested catalogs are parts
  of the response (`CollectedIsJson`).

Induction is over sets of numbers (`NatRecursion!Induction`, from the
least-number principle), since the library's induction rules take an operator.
That the recursive functions exist is `NatRecursion!RecursionExists`, with the
step of the recursion as a CONSTANT that each proof gives by INSTANCE. The
hypotheses of these theorems: the routes are run with the broker's own operators
(`OwnParserAndWriter`, `OwnReader`, `OwnDecision`), and participants answer with
JSON (`AnswersIn`) out of some set of values that is closed under their parts and
in which lists, arrays of one and catalogs nest no deeper than `JSON_DEPTH`
(`Json`). `OffersRevealNothing` takes in addition that each string of these has a
place in the order (`StringsOrdered`). The instance of `Requests` satisfies them.

Holder and configuration (`HolderCredentialsProofs`)

- `OnlyInvitedArePresentedTo`, `StrangersAreNotLookedUp`,
  `GenuineCallbacksAreAnswered`, from `TokenInv` (`TokensAccountedFor`). The
  record of issued tokens is pruned and capped, so it says little by itself.
  `HeldInv` and `IssuedInv` relate it to the tokens ever sent: a remembered
  entry is of a token of this process, and a live token that is not remembered
  is outlasted by as many others as the cap allows. `Invited` carries the check
  of the first half of a callback over the DID lookup to the second.
- `AcceptedConfigSuffices`, `CredentialsGoToAllowed`, from `ConfigInv`
  (`CrawlsFollowConfig`): what `from_graph` accepts has a holder, provider DIDs
  and response URIs wherever a participant's protocol needs them, and only
  allowed endpoints; boot and restart keep that; and every URL of a request in
  flight is of the origin that the configuration names for it, whatever the hops
  before, so that a token or a presentation never goes to another host, be it
  one over https. A crawl's redirects are steps, so the
  request in flight carries the invariant. Those of the configuration are the
  sequence of URLs that `Followed` describes link by link, not a recursion; they
  may lead to another host, but only over https or to this machine, for every
  `MaxRedirects`.

Assumptions are the ASSUMEs of the modules: special values are distinct from
ordinary ones, limits are natural numbers (`DepthAssumption` among them), the participants and the requests are
finitely many, a JWKS is a list (`RoutesAssumption`), no two strings have one
place in the order by which catalogs are listed (`OrderAssumption`), redirects are bounded and
lead to URLs the model knows (`ConfigAssumption`, `HolderAssumption`).

Only model-checked:

- Liveness: `CallsEnd`, `CyclesEnd`, `QueriesAnswered`, `ShutdownEnds`, which is
  out of the prover's reach.
- `SparqlShowsWhatCatalogShows`: it speaks of the claims of the caller itself, which
  is true of the tokens of the run and not of every set of tokens (finding 5). Proved
  for every set are the parts that hold there: the store is faithful
  (`StoreIsFaithful`), an answer is that of some caller with the same key
  (`SparqlSharesByKey`), and nothing hidden from all of these is matched
  (`SparqlHides`).
- `ShownOnlyIfGranted`, `OffersNeverLooser`: they compare with `Grants`, and with
  the offers' JSON read back; `CatalogRequests`, where these are, declares
  RECURSIVE operators and can hold no theorem. The part of `ShownOnlyIfGranted` that
  is about what is not understood is `NotUnderstoodIsDenied`.
- `NoSettingIgnored`: it garbles one triple at a time with a value that no
  setting has, so it is a statement about the documents of the run, about 90,
  and not about every graph.

## Not modelled

- The `policy-engine` crate: nothing in the workspace depends on it, and it keeps
  no state.
- Of `/ready`, the report of crawl results and the wait for the first cycle; of the
  management API, the descriptive fields of an offer; `GET
  /dsp/holder/did.json`, which renders constants.
- Turtle, JSON, HTTP and SPARQL syntax; percent-encoding; the wording of errors
  and logs; cryptography.
- Changes of the identity provider's keys: they are read once at start, by design.

## Plan

1. (done) `CatalogStore`, `PolicyFilteredQuery`, `AtomicCatalogQuery`, `Harvester`
   and their first theorems.
2. (done) `BrokerServing`, composing routes, lifecycle and scheduler.
3. (done) `CrawledCatalogs`, `CatalogGraph`, `PolicyFilter`, `CatalogRequests`: from
   response to answer, with the gate.
4. (done) `BrokerConfig`, `HolderCredentials`.
5. (done) `BrokerServingProofs`.
6. (done) The harvester's bookkeeping, expiry and refinement of the store; bounds
   of the maps and retries; the holder's tokens, configuration and redirects; gate
   and routes.
7. (done) `HarvestedQueries`; parser, codec and filter without RECURSIVE
   operators, and theorems about them; what a filtered answer hides, for every
   graph.
8. (done) The round trip through the graph for every catalog, and through parser,
   store and reader for every response.
9. Still worth having: the offers' JSON read back, for every policy.
