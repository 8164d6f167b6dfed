-------------------------- MODULE HarvestedQueries --------------------------
(***************************************************************************)
(* The broker's two halves around one store: the harvester of Harvester    *)
(* writes the catalogs, the policy-filtered queries of PolicyFilteredQuery *)
(* read them while it does.  main hands one cache to both, and they share  *)
(* nothing else.  Each half keeps its own clock.                           *)
(***************************************************************************)
EXTENDS HarvesterProofs

CONSTANTS Readers, Keys, NoKey, NoEntry, Undecided, Unread, NoPending,
          Attempts, WriteWait, Entries, ListTTL, PartialTTL

VARIABLES now, allow_lists, partials, call, answer

Query == INSTANCE PolicyFilteredQueryProofs

queryVars == <<now, allow_lists, partials, call, answer>>
brokerVars == <<vars, queryVars>>

BrokerInit == Init /\ Query!QueryInit

\* A request comes or is given up, a call runs, or the caches age.
QueryStep ==
    \/ \E r \in Readers, k \in Keys : Query!Begin(r, k)
    \/ \E r \in Readers : Query!Cancel(r)
    \/ \E r \in Readers : Query!CallStep(r)
    \/ Query!Tick

BrokerNext ==
    \/ Next /\ UNCHANGED queryVars
    \/ QueryStep /\ UNCHANGED vars

BrokerSpec == BrokerInit /\ [][BrokerNext]_brokerVars

-----------------------------------------------------------------------------
(* Properties *)

\* With one crawl at a time, a query that succeeds is answered as if it had read
\* the store once, at the moment it returns.
OneSlotAnswersAreAtomic == Concurrency <= 1 => Query!AnswersAreAtomic

\* The query of r succeeds in this step.
Succeeds(r) == answer'[r] # answer[r] /\ answer'[r].kind = "ok"

\* The decision on n that r was answered by, next to what the status says of n.
AgreesWithStatus(r, n) ==
    LET s == status.participants[n]
        decision == answer'[r].list[n]
    IN /\ decision # Undecided <=> s.cached
       /\ s.cached => /\ decision.cat <= s.last_success
                      /\ cycle_end - s.last_success > MaxCatalogAge
                             => n \in tried \ expired

SuccessesAgree ==
    (Concurrency <= 1 /\ phase = "tick") =>
        \A r \in Readers : Succeeds(r) => \A n \in Nodes : AgreesWithStatus(r, n)

\* With one crawl at a time, a query answered between two cycles was filtered
\* by decisions about exactly the catalogs that the status reports as cached,
\* none newer than the last success it reports for them; and about one that is
\* older than max_catalog_age only if its delete has failed.
AnswersAgreeWithStatus == [][SuccessesAgree]_brokerVars

-----------------------------------------------------------------------------
(* The proofs *)

\* The store of the two halves is one and the same.
LEMMA OneStore ==
    /\ StoreInit <=> Query!StoreInit
    /\ storeVars = Query!storeVars
    /\ storeVars' = Query!storeVars'
    /\ OneGuardAtATime' <=> Query!OneGuardAtATime'
BY DEF StoreInit, Query!StoreInit, storeVars, Query!storeVars, OneGuardAtATime,
   Query!OneGuardAtATime, GuardAlive, Query!GuardAlive

\* A step of a writer as the harvester drives it is one as the queries see it.
LEMMA OneSetOfWriters == ASSUME NEW w \in Writers, WriterStep(w) PROVE Query!WriterStep(w)
<1>1. \A label : Goto(w, label) <=> Query!Goto(w, label)
  BY DEF Goto, Query!Goto
<1>2. Return(w) <=> Query!Return(w)
  BY <1>1 DEF Return, Query!Return
<1>3. ASSUME NEW n \in Nodes, NEW c \in Catalogs, StartUpsert(w, n, c)
      PROVE  Query!StartUpsert(w, n, c)
  BY <1>1, <1>3 DEF StartUpsert, Query!StartUpsert
<1>4. ASSUME NEW n \in Nodes, StartDelete(w, n) PROVE Query!StartDelete(w, n)
  BY <1>1, <1>4 DEF StartDelete, Query!StartDelete
<1>5. /\ FailBeforeTransaction(w) => Query!FailBeforeTransaction(w)
      /\ DeleteAbsent(w) => Query!DeleteAbsent(w)
      /\ LookupFails(w) => Query!LookupFails(w)
      /\ Rollback(w) => Query!Rollback(w)
      /\ DropGuard(w) => Query!DropGuard(w)
  BY <1>2 DEF FailBeforeTransaction, Query!FailBeforeTransaction, DeleteAbsent,
     Query!DeleteAbsent, LookupFails, Query!LookupFails, Rollback, Query!Rollback,
     DropGuard, Query!DropGuard
<1>6. /\ StartTransaction(w) => Query!StartTransaction(w)
      /\ BeginGuard(w) => Query!BeginGuard(w)
      /\ Commit(w) => Query!Commit(w)
      /\ CommitFails(w) => Query!CommitFails(w)
      /\ RemoveFails(w) => Query!RemoveFails(w)
  BY <1>1 DEF StartTransaction, Query!StartTransaction, BeginGuard, Query!BeginGuard,
     Commit, Query!Commit, CommitFails, Query!CommitFails, RemoveFails, Query!RemoveFails
<1>7. QED
  BY <1>3, <1>4, <1>5, <1>6 DEF WriterStep, Query!WriterStep

\* A broker with queries behaves, in everything the harvester keeps, as
\* the harvester alone: no query writes the store or the status.
THEOREM BrokerHarvests == BrokerSpec => Spec
<1>1. BrokerInit => Init
  BY DEF BrokerInit
<1>2. [BrokerNext]_brokerVars => [Next]_vars
  BY DEF BrokerNext, brokerVars
<1>3. QED
  BY <1>1, <1>2, PTL DEF BrokerSpec, Spec

\* Whatever the harvester does with the store, a query sees writers of the kind
\* the reader is proved on: store_catalog and remove_catalog, step by step.
THEOREM BrokerQueries == BrokerSpec => Query!Spec
<1>1. BrokerInit => Query!Init
  BY OneStore DEF BrokerInit, Init, Query!Init
<1>2. HarvesterTypeOK /\ [BrokerNext]_brokerVars => [Query!Next]_(Query!vars)
  <2> SUFFICES ASSUME HarvesterTypeOK, [BrokerNext]_brokerVars
               PROVE  Query!Next \/ UNCHANGED Query!vars
    OBVIOUS
  <2>1. CASE Next /\ UNCHANGED queryVars
    <3>1. WritersNext \/ UNCHANGED storeVars
      BY <2>1, HarvesterStepsStore
    <3>2. CASE UNCHANGED storeVars
      BY <2>1, <3>2, OneStore DEF queryVars, Query!queryVars, Query!vars
    <3>3. CASE WritersNext
      BY <2>1, <3>3, OneSetOfWriters
         DEF WritersNext, queryVars, Query!queryVars, Query!Next
    <3>4. QED
      BY <3>1, <3>2, <3>3
  <2>2. CASE QueryStep /\ UNCHANGED vars
    <3>1. UNCHANGED Query!storeVars
      BY <2>2, OneStore DEF vars
    <3>2. QED
      BY <2>2, <3>1 DEF QueryStep, Query!Next
  <2>3. CASE UNCHANGED brokerVars
    BY <2>3, OneStore
       DEF brokerVars, vars, queryVars, Query!queryVars, Query!vars
  <2>4. QED
    BY <2>1, <2>2, <2>3 DEF BrokerNext
<1>3. QED
  BY <1>1, <1>2, BrokerHarvests, HarvesterTypeCorrect, PTL DEF BrokerSpec, Query!Spec

\* With crawlConcurrency 1 the queries see writers that take turns: no write
\* guard is alive while another is.
THEOREM OneSlotQueriesAreSerial ==
    ASSUME Concurrency <= 1
    PROVE  BrokerSpec => Query!SerialSpec
<1>1. BrokerInit => Query!Init
  BY OneStore DEF BrokerInit, Init, Query!Init
<1>2. /\ [Query!Next]_(Query!vars) /\ OneSlotSerializesWrites'
      => [Query!Next /\ Query!OneGuardAtATime']_(Query!vars)
  BY OneStore DEF OneSlotSerializesWrites
<1>3. BrokerSpec => [][Query!Next]_(Query!vars)
  BY BrokerQueries, PTL DEF Query!Spec
<1>4. QED
  BY <1>1, <1>2, <1>3, BrokerHarvests, OneSlotSerializes, PTL
     DEF BrokerSpec, Query!SerialSpec

\* With crawlConcurrency 1, whatever the fetches and writes return, the
\* policy-filtered evaluation answers from one state of the store.
THEOREM OneSlotAnswersOneState ==
    ASSUME Query!QueryAssumption
    PROVE  BrokerSpec => OneSlotAnswersAreAtomic
<1>1. CASE Concurrency <= 1
  <2>1. Query!CatalogStoreAssumption
    BY CatalogStoreAssumption
  <2>2. Query!SerialSpec => Query!AnswersAreAtomic
    BY <2>1, Query!SerialAnswersAreAtomic
  <2>3. BrokerSpec => Query!AnswersAreAtomic
    BY <1>1, <2>2, OneSlotQueriesAreSerial
  <2>4. QED
    BY <2>3 DEF OneSlotAnswersAreAtomic
<1>2. CASE ~ (Concurrency <= 1)
  BY <1>2 DEF OneSlotAnswersAreAtomic
<1>3. QED
  BY <1>1, <1>2

\* A step of the abstract specification in which r is answered answers it from
\* the store as it stands.
LEMMA SuccessIsFromStore ==
    ASSUME NEW r \in Readers, r \in DOMAIN answer, Succeeds(r),
           [Query!Atomic!Next]_(Query!Atomic!vars)
    PROVE  Query!Atomic!FromOneState(answer'[r])
<1>1. Query!Atomic!Next
  BY DEF Query!Atomic!vars, Succeeds
<1>2. PICK q \in Readers : Query!Atomic!Answered(q)
  BY <1>1 DEF Query!Atomic!Next, Query!Atomic!Replace, Succeeds
<1>3. q = r
  BY <1>2 DEF Query!Atomic!Answered, Succeeds
<1>4. QED
  BY <1>2, <1>3 DEF Query!Atomic!Answered, Succeeds

\* What a client of the query route sees between two cycles, next to what the
\* harvester publishes for the status: the filter decided about the catalogs
\* reported as cached and about no others.
THEOREM QueriesAgreeWithStatus ==
    ASSUME Query!QueryAssumption
    PROVE  BrokerSpec => AnswersAgreeWithStatus
<1>1. CASE Concurrency <= 1
  <2>1. Query!CatalogStoreAssumption
    BY CatalogStoreAssumption
  <2>2. Query!Spec => []Query!TypeOK
    BY <2>1, Query!TypeCorrect
  <2>3. BrokerSpec => [][Query!Atomic!Next]_(Query!Atomic!vars)
    <3>1. BrokerSpec => Query!AnswersAreAtomic
      BY <1>1, OneSlotAnswersOneState DEF OneSlotAnswersAreAtomic
    <3>2. QED
      BY <3>1, PTL DEF Query!AnswersAreAtomic, Query!Atomic!Spec
  <2>4. ASSUME Query!TypeOK, BookkeepingMatchesStore, ExpiryComplete,
               [Query!Atomic!Next]_(Query!Atomic!vars),
               NEW r \in Readers, phase = "tick", Succeeds(r), NEW n \in Nodes
        PROVE  AgreesWithStatus(r, n)
    <3>1. Query!Atomic!FromOneState(answer'[r])
      BY <2>4, SuccessIsFromStore DEF Query!TypeOK, Query!QueryTypeOK
    <3>2. QED
      BY <2>4, <3>1 DEF AgreesWithStatus, Query!Atomic!FromOneState,
         BookkeepingMatchesStore, ExpiryComplete, Stored
  <2>5. /\ Query!TypeOK /\ BookkeepingMatchesStore /\ ExpiryComplete
        /\ [Query!Atomic!Next]_(Query!Atomic!vars)
        => SuccessesAgree
    BY <2>4 DEF SuccessesAgree
  <2>6. QED
    BY <2>2, <2>3, <2>5, BrokerQueries, BrokerHarvests, BookkeepingIsRight,
       ExpiryIsComplete, PTL DEF BrokerSpec, AnswersAgreeWithStatus
<1>2. CASE ~ (Concurrency <= 1)
  <2>1. SuccessesAgree
    BY <1>2 DEF SuccessesAgree
  <2>2. QED
    BY <2>1, PTL DEF AnswersAgreeWithStatus
<1>3. QED
  BY <1>1, <1>2
=============================================================================
