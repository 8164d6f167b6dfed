------------------------ MODULE BrokerServingProofs ------------------------
(***************************************************************************)
(* Proofs about BrokerServing, for every number of requests, slots and     *)
(* signals and every delay: slot accounting, cancellation of abandoned     *)
(* evaluations, the order of shutdown, and what exit status 0 means.       *)
(***************************************************************************)
EXTENDS BrokerServing, FiniteSetTheorems, SequenceTheorems, TLAPS

-----------------------------------------------------------------------------
(* Next, by what its steps may touch. *)

ProcessStep ==
    \/ \E k \in SignalKinds : SendSignal(k)
    \/ HandleFirstSignal \/ HandleSecondSignal
    \/ Stages \/ Main

CrawlStep == CrawlerFails \/ CrawlerStops \/ SubmitWrite \/ RunWrite \/ EndWrite

\* Steps of one request, with the request they are of.
TakesSlot(r) ==
    \/ r \in Queries /\ StartQuery(r)
    \/ queue # <<>> /\ r = Head(queue) /\ GrantDecodeSlot
GivesSlot(r) == EndTask(r) \/ DropQueuedTask(r)
Leaves(r) ==
    \/ r \in Queries /\ (TimeLimit(r) \/ StopQuery(r))
    \/ TakeResult(r) \/ ClientGone(r)
Other(r) ==
    \/ r \in Queries /\ (RejectQuery(r) \/ RefuseBusy(r))
    \/ r \in Reads /\ StartRead(r)
    \/ RunTask(r)

FlagType == shutdown \in BOOLEAN /\ draining \in BOOLEAN

ProcessType ==
    /\ pending \subseteq SignalKinds /\ sent \in 0..MaxSignals
    /\ handler \in {"first", "second", "gone"}
    /\ stop \in {"waiting", "delaying", "done"}
    /\ elapsed \in 0..Delay /\ failing \in 0..Delay
    /\ listener \in {"open", "closed"}
    /\ main \in {"select", "awaitScheduler", "awaitServer", "dropping", "exited"}
    /\ code \in {Running, 0, 1, 130}

CrawlType ==
    /\ crawler \in {"none", "running", "ended"}
    /\ write \in {"none", "queued", "running"}

RequestType ==
    /\ req \in [Requests -> {"idle", "slot", "waiting", "answered", "dropped"}]
    /\ task \in [Requests -> {"none", "queued", "running", "returned"}]
    /\ cancelled \in [Queries -> BOOLEAN]
    /\ free_sparql \in Nat /\ free_catalog \in Nat
    /\ queue \in Seq(Reads)

\* Types but for the upper bounds of the slots, which follow from their sum.
WeakType ==
    /\ FlagType /\ ProcessType /\ CrawlType /\ RequestType

\* The queue holds each read that waits for a decode slot, once; a request that
\* has not been given a slot has no task.
QueueInv ==
    /\ \A i \in DOMAIN queue : req[queue[i]] = "slot"
    /\ \A i, j \in DOMAIN queue : queue[i] = queue[j] => i = j
    /\ \A r \in Requests : req[r] = "slot" => \E i \in DOMAIN queue : queue[i] = r
    /\ \A r \in Requests : req[r] \in {"idle", "slot"} => task[r] = "none"

\* /ready fails from the first tick of the delay, the delay is slept in full,
\* and the listener closes after it.
StageInv ==
    /\ failing = elapsed
    /\ stop # "waiting" => shutdown
    /\ stop = "waiting" => elapsed = 0
    /\ stop = "done" => elapsed = Delay
    /\ listener = "closed" => stop = "done"

\* Where main is says what has ended.
ExitInv ==
    /\ main = "awaitScheduler" => ServerDone
    /\ main = "awaitServer" => crawler = "ended"
    /\ main = "dropping" => ServerDone /\ crawler # "running"
    /\ main # "exited" <=> code = Running
    /\ code = 0 => /\ ServerDone /\ crawler # "running" /\ write # "running"
                   /\ \A r \in Requests : task[r] # "running"

ServingInv ==
    /\ WeakType /\ StageInv /\ QueueInv /\ ExitInv
    /\ AbandonedAreCancelled /\ SlotsAccountedFor

\* Withdrawing a member of the queue closes the gap and keeps the order.
LEMMA WithdrawnFacts ==
    ASSUME NEW S, NEW q \in Seq(S), NEW r, \E i \in DOMAIN q : q[i] = r
    PROVE  \E k \in 1..Len(q) :
               /\ q[k] = r
               /\ Withdrawn(q, r) \in Seq(S)
               /\ Len(Withdrawn(q, r)) = Len(q) - 1
               /\ \A i \in 1..(Len(q) - 1) :
                      Withdrawn(q, r)[i] = IF i < k THEN q[i] ELSE q[i + 1]
<1> DEFINE k == CHOOSE i \in DOMAIN q : q[i] = r
           a == SubSeq(q, 1, k - 1)
           b == SubSeq(q, k + 1, Len(q))
<1>1. k \in DOMAIN q /\ q[k] = r
  OBVIOUS
<1>2. Withdrawn(q, r) = a \o b
  BY Zenon DEF Withdrawn
<1> HIDE DEF k
<1>3. k \in 1..Len(q) /\ Len(q) \in Nat
  BY <1>1
<1>4. /\ a \in Seq(S) /\ Len(a) = k - 1
      /\ \A i \in 1..(k - 1) : a[i] = q[i]
  BY <1>3
<1>5. /\ b \in Seq(S) /\ Len(b) = Len(q) - k
      /\ \A i \in 1..(Len(q) - k) : b[i] = q[i + k]
  BY <1>3
<1> HIDE DEF a, b
<1>6. a \o b \in Seq(S) /\ Len(a \o b) = Len(q) - 1
  <2>1. a \o b \in Seq(S) /\ Len(a \o b) = Len(a) + Len(b)
    BY <1>4, <1>5, ConcatProperties
  <2> QED
    BY <2>1, <1>3, <1>4, <1>5
<1>7. ASSUME NEW i \in 1..(Len(q) - 1)
      PROVE  (a \o b)[i] = IF i < k THEN q[i] ELSE q[i + 1]
  <2>1. CASE i < k
    BY <2>1, <1>3, <1>4, <1>5
  <2>2. CASE ~(i < k)
    <3>1. i - (k - 1) \in 1..(Len(q) - k) /\ (i - (k - 1)) + k = i + 1
      BY <2>2, <1>3
    <3>2. (a \o b)[i] = b[i - (k - 1)]
      BY <2>2, <1>3, <1>4, <1>5
    <3> QED
      BY <2>2, <3>1, <3>2, <1>5
  <2> QED
    BY <2>1, <2>2
<1> QED
  BY <1>1, <1>2, <1>3, <1>6, <1>7

LEMMA NextCases ==
    ASSUME WeakType, Next
    PROVE  \/ ProcessStep \/ CrawlStep
           \/ \E r \in Requests : TakesSlot(r) \/ GivesSlot(r) \/ Leaves(r) \/ Other(r)
<1>1. CASE GrantDecodeSlot
  <2>1. queue # <<>> /\ queue \in Seq(Reads)
    BY <1>1 DEF GrantDecodeSlot, WeakType, RequestType
  <2>2. Head(queue) \in Requests
    BY <2>1 DEF Requests
  <2> QED
    BY <1>1, <2>1, <2>2 DEF TakesSlot
<1> QED
  BY <1>1 DEF Next, ProcessStep, CrawlStep, TakesSlot, GivesSlot, Leaves, Other, Requests

-----------------------------------------------------------------------------
(* What each group of steps leaves alone *)

LEMMA ProcessStepFrame ==
    ASSUME ProcessStep
    PROVE  UNCHANGED crawling /\ UNCHANGED requests
BY DEF ProcessStep, Stages, Main, SendSignal, HandleFirstSignal, HandleSecondSignal,
       DelayBegins, DelayTick, DelayEnds, CloseListener, ServerEnds, SchedulerEnds,
       RestEnds, RuntimeDropped, crawling, requests

LEMMA CrawlStepFrame ==
    ASSUME CrawlStep
    PROVE  UNCHANGED process /\ UNCHANGED requests
BY DEF CrawlStep, CrawlerFails, CrawlerStops, SubmitWrite, RunWrite, EndWrite

LEMMA RequestStepFrame ==
    ASSUME NEW r \in Requests, TakesSlot(r) \/ GivesSlot(r) \/ Leaves(r) \/ Other(r)
    PROVE  UNCHANGED process /\ UNCHANGED crawling
BY DEF TakesSlot, GivesSlot, Leaves, Other, StartQuery, GrantDecodeSlot, EndTask,
       DropQueuedTask, TimeLimit, StopQuery, TakeResult, ClientGone, RejectQuery,
       RefuseBusy, StartRead, RunTask

-----------------------------------------------------------------------------
(* The stages of shutdown *)

LEMMA StageStep ==
    ASSUME WeakType, StageInv, Next
    PROVE  StageInv'
<1> USE DEF StageInv, WeakType, ProcessType
<1>1. CASE ProcessStep
  <2>1. CASE \E k \in SignalKinds : SendSignal(k)
    BY <2>1 DEF SendSignal
  <2>2. CASE HandleFirstSignal \/ HandleSecondSignal
    BY <2>2 DEF HandleFirstSignal, HandleSecondSignal
  <2>3. CASE Stages
    BY <2>3, ServingAssumption
       DEF Stages, DelayBegins, DelayTick, DelayEnds, CloseListener
  <2>4. CASE Main
    BY <2>4 DEF Main, ServerEnds, SchedulerEnds, RestEnds, RuntimeDropped
  <2> QED
    BY <1>1, <2>1, <2>2, <2>3, <2>4 DEF ProcessStep
<1>2. CASE UNCHANGED process
  BY <1>2 DEF process
<1> QED
  BY <1>1, <1>2, NextCases, CrawlStepFrame, RequestStepFrame

-----------------------------------------------------------------------------
(* Types *)

LEMMA FlagTypeStep ==
    ASSUME WeakType, Next
    PROVE  FlagType'
<1> USE DEF FlagType, WeakType
<1>1. CASE ProcessStep
  <2>1. CASE \E k \in SignalKinds : SendSignal(k)
    BY <2>1 DEF SendSignal
  <2>2. CASE HandleFirstSignal \/ HandleSecondSignal
    BY <2>2 DEF HandleFirstSignal, HandleSecondSignal
  <2>3. CASE Stages
    BY <2>3 DEF Stages, DelayBegins, DelayTick, DelayEnds, CloseListener
  <2>4. CASE Main
    BY <2>4 DEF Main, ServerEnds, SchedulerEnds, RestEnds, RuntimeDropped
  <2> QED
    BY <1>1, <2>1, <2>2, <2>3, <2>4 DEF ProcessStep
<1>2. CASE UNCHANGED process
  BY <1>2 DEF process
<1> QED
  BY <1>1, <1>2, NextCases, CrawlStepFrame, RequestStepFrame

LEMMA ProcessTypeStep ==
    ASSUME WeakType, StageInv, Next
    PROVE  ProcessType'
<1> USE DEF ProcessType, WeakType
<1>1. CASE ProcessStep
  <2>1. CASE \E k \in SignalKinds : SendSignal(k)
    BY <2>1, ServingAssumption DEF SendSignal
  <2>2. CASE HandleFirstSignal \/ HandleSecondSignal
    BY <2>2 DEF HandleFirstSignal, HandleSecondSignal
  <2>3. CASE DelayTick
    BY <2>3, ServingAssumption DEF DelayTick, StageInv
  <2>4. CASE DelayBegins \/ DelayEnds \/ CloseListener
    BY <2>4 DEF DelayBegins, DelayEnds, CloseListener
  <2>5. CASE Main
    BY <2>5 DEF Main, ServerEnds, SchedulerEnds, RestEnds, RuntimeDropped,
                ReturnFromMain
  <2> QED
    BY <1>1, <2>1, <2>2, <2>3, <2>4, <2>5 DEF ProcessStep, Stages
<1>2. CASE UNCHANGED process
  BY <1>2 DEF process
<1> QED
  BY <1>1, <1>2, NextCases, CrawlStepFrame, RequestStepFrame

LEMMA CrawlTypeStep ==
    ASSUME WeakType, Next
    PROVE  CrawlType'
<1> USE DEF CrawlType, WeakType
<1>1. CASE CrawlStep
  BY <1>1 DEF CrawlStep, CrawlerFails, CrawlerStops, SubmitWrite, RunWrite, EndWrite
<1>2. CASE UNCHANGED crawling
  BY <1>2 DEF crawling
<1> QED
  BY <1>1, <1>2, NextCases, ProcessStepFrame, RequestStepFrame

LEMMA RequestTypeStep ==
    ASSUME WeakType, QueueInv, Next
    PROVE  RequestType'
<1> USE DEF RequestType, WeakType
<1>1. CASE UNCHANGED requests
  BY <1>1 DEF requests
<1>2. ASSUME NEW r \in Requests, TakesSlot(r) \/ GivesSlot(r) \/ Leaves(r) \/ Other(r)
      PROVE  RequestType'
  <2>1. CASE TakesSlot(r)
    <3>1. CASE r \in Queries /\ StartQuery(r)
      BY <3>1 DEF StartQuery
    <3>2. CASE queue # <<>> /\ r = Head(queue) /\ GrantDecodeSlot
      BY <3>2 DEF GrantDecodeSlot
    <3> QED
      BY <2>1, <3>1, <3>2 DEF TakesSlot
  <2>2. CASE GivesSlot(r)
    BY <2>2 DEF GivesSlot, EndTask, DropQueuedTask, ReleaseSlot
  <2>3. CASE Leaves(r)
    <3>1. queue' \in Seq(Reads)
      <4>1. CASE ClientGone(r) /\ req[r] = "slot"
        <5>1. \E i \in DOMAIN queue : queue[i] = r
          BY <4>1 DEF QueueInv
        <5>2. Withdrawn(queue, r) \in Seq(Reads)
          BY <5>1, WithdrawnFacts
        <5> QED
          BY <4>1, <5>2 DEF ClientGone
      <4>2. CASE ~(ClientGone(r) /\ req[r] = "slot")
        BY <2>3, <4>2 DEF Leaves, TimeLimit, StopQuery, TakeResult, ClientGone
      <4> QED
        BY <4>1, <4>2
    <3>2. cancelled' \in [Queries -> BOOLEAN]
      <4>1. CancelOnDrop(r)
        BY <2>3 DEF Leaves, TimeLimit, StopQuery, TakeResult, ClientGone
      <4> QED
        BY <4>1 DEF CancelOnDrop
    <3>3. /\ task' = task /\ free_sparql' = free_sparql /\ free_catalog' = free_catalog
          /\ req' \in {[req EXCEPT ![r] = "answered"], [req EXCEPT ![r] = "dropped"]}
      BY <2>3 DEF Leaves, TimeLimit, StopQuery, TakeResult, ClientGone, Answered
    <3> QED
      BY <3>1, <3>2, <3>3
  <2>4. CASE Other(r)
    <3>1. CASE r \in Queries /\ (RejectQuery(r) \/ RefuseBusy(r))
      BY <3>1 DEF RejectQuery, RefuseBusy, Answered
    <3>2. CASE r \in Reads /\ StartRead(r)
      BY <3>2 DEF StartRead
    <3>3. CASE RunTask(r)
      BY <3>3 DEF RunTask
    <3> QED
      BY <2>4, <3>1, <3>2, <3>3 DEF Other
  <2> QED
    BY <1>2, <2>1, <2>2, <2>3, <2>4
<1> QED
  BY <1>1, <1>2, NextCases, ProcessStepFrame, CrawlStepFrame

-----------------------------------------------------------------------------
(* The queue for decode slots *)

LEMMA QueueUntouched ==
    ASSUME WeakType, QueueInv, NEW r \in Requests,
           queue' = queue, task' = task, req[r] # "slot",
           req'[r] \notin {"idle", "slot"},
           \A x \in Requests \ {r} : req'[x] = req[x]
    PROVE  QueueInv'
<1> USE DEF WeakType, RequestType, QueueInv
<1>1. \A i \in DOMAIN queue : queue[i] \in Requests \ {r}
  BY DEF Requests
<1>2. \A i \in DOMAIN queue' : req'[queue'[i]] = "slot"
  BY <1>1
<1>3. \A x \in Requests : req'[x] = "slot" => \E i \in DOMAIN queue' : queue'[i] = x
  OBVIOUS
<1>4. \A x \in Requests : req'[x] \in {"idle", "slot"} => task'[x] = "none"
  OBVIOUS
<1> QED
  BY <1>2, <1>3, <1>4

LEMMA QueueStep ==
    ASSUME WeakType, QueueInv, Next
    PROVE  QueueInv'
<1>1. CASE UNCHANGED requests
  BY <1>1 DEF QueueInv, requests
<1>2. ASSUME NEW r \in Requests, TakesSlot(r) \/ GivesSlot(r) \/ Leaves(r) \/ Other(r)
      PROVE  QueueInv'
  <2> USE DEF WeakType, RequestType, QueueInv
  <2>1. CASE TakesSlot(r)
    <3>1. CASE r \in Queries /\ StartQuery(r)
      BY <3>1 DEF StartQuery, Arrives
    <3>2. CASE queue # <<>> /\ r = Head(queue) /\ GrantDecodeSlot
      <4>1. /\ queue' = Tail(queue) /\ r = queue[1] /\ queue \in Seq(Reads)
            /\ req' = [req EXCEPT ![r] = "waiting"]
            /\ task' = [task EXCEPT ![r] = "queued"]
        BY <3>2 DEF GrantDecodeSlot
      <4>2. /\ Len(queue) \in Nat \ {0} /\ DOMAIN queue = 1..Len(queue)
            /\ Len(queue') = Len(queue) - 1 /\ DOMAIN queue' = 1..(Len(queue) - 1)
            /\ \A i \in 1..(Len(queue) - 1) : queue'[i] = queue[i + 1]
        BY <3>2, <4>1
      <4>3. \A i \in DOMAIN queue' : queue'[i] # r /\ req[queue'[i]] = "slot"
        BY <4>1, <4>2
      <4>4. \A i \in DOMAIN queue' : req'[queue'[i]] = "slot"
        BY <4>1, <4>3
      <4>5. ASSUME NEW i \in DOMAIN queue', NEW j \in DOMAIN queue', queue'[i] = queue'[j]
            PROVE  i = j
        <5>1. i \in Nat /\ j \in Nat /\ i + 1 \in DOMAIN queue /\ j + 1 \in DOMAIN queue
          BY <4>2
        <5>2. queue[i + 1] = queue[j + 1]
          BY <4>2, <4>5
        <5>3. i + 1 = j + 1
          BY <5>1, <5>2
        <5> QED
          BY <5>1, <5>3
      <4>6. ASSUME NEW x \in Requests, req'[x] = "slot"
            PROVE  \E i \in DOMAIN queue' : queue'[i] = x
        <5>1. PICK j \in DOMAIN queue : queue[j] = x
          BY <4>1, <4>6
        <5>2. j - 1 \in DOMAIN queue' /\ queue'[j - 1] = x
          BY <4>1, <4>2, <4>6, <5>1
        <5> QED
          BY <5>2
      <4> QED
        BY <4>1, <4>4, <4>5, <4>6
    <3> QED
      BY <2>1, <3>1, <3>2 DEF TakesSlot
  <2>2. CASE GivesSlot(r)
    BY <2>2 DEF GivesSlot, EndTask, DropQueuedTask
  <2>3. CASE Leaves(r)
    <3>1. CASE ClientGone(r) /\ req[r] = "slot"
      <4>1. /\ queue' = Withdrawn(queue, r) /\ queue \in Seq(Reads)
            /\ req' = [req EXCEPT ![r] = "dropped"] /\ task' = task
        BY <3>1 DEF ClientGone
      <4>2. PICK k \in 1..Len(queue) :
               /\ queue[k] = r
               /\ Len(queue') = Len(queue) - 1 /\ queue' \in Seq(Reads)
               /\ \A i \in 1..(Len(queue) - 1) :
                      queue'[i] = IF i < k THEN queue[i] ELSE queue[i + 1]
        BY <3>1, <4>1, WithdrawnFacts
      <4>3. /\ Len(queue) \in Nat /\ DOMAIN queue = 1..Len(queue)
            /\ DOMAIN queue' = 1..(Len(queue) - 1)
        BY <4>1, <4>2
      <4> DEFINE old(i) == IF i < k THEN i ELSE i + 1
      <4>4. ASSUME NEW i \in DOMAIN queue'
            PROVE  /\ i \in Nat /\ old(i) \in DOMAIN queue /\ old(i) # k
                   /\ queue'[i] = queue[old(i)]
        BY <4>2, <4>3
      <4>5. ASSUME NEW i \in DOMAIN queue'
            PROVE  queue'[i] # r /\ req[queue'[i]] = "slot"
        <5> HIDE DEF old
        <5>1. queue[old(i)] # queue[k]
          BY <4>2, <4>3, <4>4
        <5> QED
          BY <4>2, <4>4, <5>1
      <4>6. \A i \in DOMAIN queue' : req'[queue'[i]] = "slot"
        BY <4>1, <4>5
      <4>7. ASSUME NEW i \in DOMAIN queue', NEW j \in DOMAIN queue', queue'[i] = queue'[j]
            PROVE  i = j
        <5>1. old(i) \in DOMAIN queue /\ old(j) \in DOMAIN queue
          BY <4>4
        <5>2. queue[old(i)] = queue[old(j)]
          BY <4>7, <4>4
        <5>3. old(i) = old(j)
          BY <5>1, <5>2
        <5> QED
          BY <4>2, <4>3, <5>3
      <4>8. ASSUME NEW x \in Requests, req'[x] = "slot"
            PROVE  \E i \in DOMAIN queue' : queue'[i] = x
        <5>1. PICK j \in DOMAIN queue : queue[j] = x
          BY <4>1, <4>8
        <5>2. j # k
          BY <4>1, <4>2, <4>8, <5>1
        <5>3. CASE j < k
          BY <4>2, <4>3, <5>1, <5>3
        <5>4. CASE j > k
          <6>1. j - 1 \in DOMAIN queue' /\ queue'[j - 1] = x
            BY <4>2, <4>3, <5>1, <5>4
          <6> QED
            BY <6>1
        <5> QED
          BY <4>3, <5>2, <5>3, <5>4
      <4> QED
        BY <4>1, <4>6, <4>7, <4>8
    <3>2. CASE ~(ClientGone(r) /\ req[r] = "slot")
      <4>1. /\ queue' = queue /\ task' = task /\ req[r] = "waiting"
            /\ req' \in {[req EXCEPT ![r] = "answered"], [req EXCEPT ![r] = "dropped"]}
        BY <2>3, <3>2 DEF Leaves, TimeLimit, StopQuery, TakeResult, ClientGone,
                          Answered, OpenHandler
      <4>2. req'[r] \notin {"idle", "slot"} /\ \A x \in Requests \ {r} : req'[x] = req[x]
        BY <4>1
      <4> QED
        BY <4>1, <4>2, QueueUntouched
    <3> QED
      BY <3>1, <3>2
  <2>4. CASE Other(r)
    <3>1. CASE r \in Queries /\ (RejectQuery(r) \/ RefuseBusy(r))
      <4>1. /\ queue' = queue /\ task' = task /\ req[r] = "idle"
            /\ req' = [req EXCEPT ![r] = "answered"]
        BY <3>1 DEF RejectQuery, RefuseBusy, Answered, Arrives
      <4>2. req'[r] \notin {"idle", "slot"} /\ \A x \in Requests \ {r} : req'[x] = req[x]
        BY <4>1
      <4> QED
        BY <4>1, <4>2, QueueUntouched
    <3>2. CASE r \in Reads /\ StartRead(r)
      <4>1. /\ queue' = Append(queue, r) /\ queue \in Seq(Reads) /\ req[r] = "idle"
            /\ req' = [req EXCEPT ![r] = "slot"] /\ task' = task
        BY <3>2 DEF StartRead, Arrives
      <4>2. /\ Len(queue) \in Nat /\ DOMAIN queue = 1..Len(queue)
            /\ DOMAIN queue' = 1..(Len(queue) + 1)
            /\ queue'[Len(queue) + 1] = r
            /\ \A i \in 1..Len(queue) : queue'[i] = queue[i]
        BY <3>2, <4>1
      <4>3. \A i \in DOMAIN queue : queue[i] # r
        BY <4>1
      <4>4. \A i \in DOMAIN queue' : req'[queue'[i]] = "slot"
        BY <4>1, <4>2, <4>3
      <4>5. \A i, j \in DOMAIN queue' : queue'[i] = queue'[j] => i = j
        BY <4>2, <4>3
      <4>6. \A x \in Requests : req'[x] = "slot" => \E i \in DOMAIN queue' : queue'[i] = x
        BY <4>1, <4>2
      <4> QED
        BY <4>1, <4>4, <4>5, <4>6
    <3>3. CASE RunTask(r)
      BY <3>3 DEF RunTask
    <3> QED
      BY <2>4, <3>1, <3>2, <3>3 DEF Other
  <2> QED
    BY <1>2, <2>1, <2>2, <2>3, <2>4
<1> QED
  BY <1>1, <1>2, NextCases, ProcessStepFrame, CrawlStepFrame

-----------------------------------------------------------------------------
(* What becomes of one request, for the two properties about live tasks *)

LEMMA TakesSlotFacts ==
    ASSUME WeakType, QueueInv, NEW r \in Requests, TakesSlot(r)
    PROVE  /\ RuntimeUp /\ task[r] = "none" /\ req[r] \in {"idle", "slot"}
           /\ req[r] = "idle" => listener = "open"
           /\ task' = [task EXCEPT ![r] = "queued"]
           /\ req' = [req EXCEPT ![r] = "waiting"]
           /\ cancelled' = cancelled
           /\ \/ /\ r \in Queries /\ free_sparql > 0
                 /\ free_sparql' = free_sparql - 1 /\ free_catalog' = free_catalog
              \/ /\ r \in Reads /\ free_catalog > 0
                 /\ free_catalog' = free_catalog - 1 /\ free_sparql' = free_sparql
<1> USE DEF WeakType, RequestType, QueueInv
<1>1. CASE r \in Queries /\ StartQuery(r)
  BY <1>1 DEF StartQuery, Arrives
<1>2. CASE queue # <<>> /\ r = Head(queue) /\ GrantDecodeSlot
  <2>1. 1 \in DOMAIN queue /\ queue[1] = r /\ r \in Reads
    BY <1>2
  <2>2. req[r] = "slot" /\ task[r] = "none"
    BY <2>1
  <2> QED
    BY <1>2, <2>1, <2>2 DEF GrantDecodeSlot
<1> QED
  BY <1>1, <1>2 DEF TakesSlot

LEMMA GivesSlotFacts ==
    ASSUME WeakType, NEW r \in Requests, GivesSlot(r)
    PROVE  /\ ProcessUp /\ task[r] \in LiveTask /\ req' = req /\ cancelled' = cancelled
           /\ \E v \in {"none", "returned"} : task' = [task EXCEPT ![r] = v]
           /\ ReleaseSlot(r)
BY DEF GivesSlot, EndTask, DropQueuedTask, LiveTask, ProcessUp

LEMMA LeavesFacts ==
    ASSUME WeakType, NEW r \in Requests, Leaves(r)
    PROVE  /\ RuntimeUp /\ req[r] \in OpenHandler /\ task' = task
           /\ \E v \in {"answered", "dropped"} : req' = [req EXCEPT ![r] = v]
           /\ CancelOnDrop(r)
           /\ free_sparql' = free_sparql /\ free_catalog' = free_catalog
BY DEF Leaves, TimeLimit, StopQuery, TakeResult, ClientGone, Answered, OpenHandler

LEMMA OtherFacts ==
    ASSUME WeakType, NEW r \in Requests, Other(r)
    PROVE  /\ RuntimeUp /\ cancelled' = cancelled
           /\ free_sparql' = free_sparql /\ free_catalog' = free_catalog
           /\ \/ /\ req[r] = "idle" /\ listener = "open" /\ task' = task
                 /\ \E v \in {"answered", "slot"} : req' = [req EXCEPT ![r] = v]
              \/ /\ task[r] = "queued" /\ req' = req
                 /\ task' = [task EXCEPT ![r] = "running"]
BY DEF Other, RejectQuery, RefuseBusy, StartRead, RunTask, Answered, Arrives

-----------------------------------------------------------------------------
(* Slots *)

\* Whether a task is live is all that the slots depend on.
LEMMA LiveUnchanged ==
    ASSUME \A x \in Requests : task'[x] \in LiveTask <=> task[x] \in LiveTask
    PROVE  LiveQueries' = LiveQueries /\ LiveReads' = LiveReads
BY DEF LiveQueries, LiveReads, Requests

LEMMA LiveFinite ==
    /\ IsFiniteSet(LiveQueries) /\ Cardinality(LiveQueries) \in Nat
    /\ IsFiniteSet(LiveReads) /\ Cardinality(LiveReads) \in Nat
<1>1. LiveQueries \subseteq Queries /\ LiveReads \subseteq Reads
  BY DEF LiveQueries, LiveReads
<1>2. IsFiniteSet(LiveQueries) /\ IsFiniteSet(LiveReads)
  BY <1>1, ServingAssumption, FS_Subset
<1> QED
  BY <1>2, FS_CardinalityType

LEMMA SlotStep ==
    ASSUME WeakType, QueueInv, SlotsAccountedFor, Next
    PROVE  SlotsAccountedFor'
<1> USE DEF WeakType, RequestType
<1>1. CASE UNCHANGED requests
  BY <1>1 DEF SlotsAccountedFor, LiveQueries, LiveReads, requests
<1>2. ASSUME NEW r \in Requests, TakesSlot(r)
      PROVE  SlotsAccountedFor'
  <2>1. r \in Queries => r \notin Reads
    BY ServingAssumption
  <2>2. /\ r \in Queries => LiveQueries' = LiveQueries \cup {r} /\ LiveReads' = LiveReads
        /\ r \in Reads => LiveReads' = LiveReads \cup {r} /\ LiveQueries' = LiveQueries
    BY <1>2, <2>1, TakesSlotFacts DEF LiveQueries, LiveReads, LiveTask, Requests
  <2>3. r \notin LiveQueries /\ r \notin LiveReads
    BY <1>2, TakesSlotFacts DEF LiveQueries, LiveReads, LiveTask
  <2>4. /\ Cardinality(LiveQueries \cup {r}) = Cardinality(LiveQueries) + 1
        /\ Cardinality(LiveReads \cup {r}) = Cardinality(LiveReads) + 1
    BY <2>3, LiveFinite, FS_AddElement
  <2>5. CASE r \in Queries
    <3>1. free_sparql' = free_sparql - 1 /\ free_catalog' = free_catalog
      BY <1>2, <2>1, <2>5, TakesSlotFacts
    <3>2. /\ Cardinality(LiveQueries') = Cardinality(LiveQueries) + 1
          /\ Cardinality(LiveReads') = Cardinality(LiveReads)
      BY <2>2, <2>4, <2>5
    <3> QED
      BY <3>1, <3>2, LiveFinite, ServingAssumption DEF SlotsAccountedFor
  <2>6. CASE r \in Reads
    <3>1. free_catalog' = free_catalog - 1 /\ free_sparql' = free_sparql
      BY <1>2, <2>1, <2>6, TakesSlotFacts
    <3>2. /\ Cardinality(LiveReads') = Cardinality(LiveReads) + 1
          /\ Cardinality(LiveQueries') = Cardinality(LiveQueries)
      BY <2>2, <2>4, <2>6
    <3> QED
      BY <3>1, <3>2, LiveFinite, ServingAssumption DEF SlotsAccountedFor
  <2> QED
    BY <2>5, <2>6 DEF Requests
<1>3. ASSUME NEW r \in Requests, GivesSlot(r)
      PROVE  SlotsAccountedFor'
  <2>1. r \in Queries => r \notin Reads
    BY ServingAssumption
  <2>2. /\ r \in Queries => LiveQueries' = LiveQueries \ {r} /\ LiveReads' = LiveReads
        /\ r \in Reads => LiveReads' = LiveReads \ {r} /\ LiveQueries' = LiveQueries
    BY <1>3, <2>1, GivesSlotFacts DEF LiveQueries, LiveReads, LiveTask, Requests
  <2>3. /\ r \in Queries => r \in LiveQueries
        /\ r \in Reads => r \in LiveReads
    BY <1>3, GivesSlotFacts DEF LiveQueries, LiveReads
  <2>4. /\ r \in Queries => Cardinality(LiveQueries \ {r}) = Cardinality(LiveQueries) - 1
        /\ r \in Reads => Cardinality(LiveReads \ {r}) = Cardinality(LiveReads) - 1
    BY <2>3, LiveFinite, FS_RemoveElement
  <2>5. CASE r \in Queries
    <3>1. free_sparql' = free_sparql + 1 /\ free_catalog' = free_catalog
      BY <1>3, <2>1, <2>5, GivesSlotFacts DEF ReleaseSlot
    <3>2. /\ Cardinality(LiveQueries') = Cardinality(LiveQueries) - 1
          /\ Cardinality(LiveReads') = Cardinality(LiveReads)
      BY <2>2, <2>4, <2>5
    <3> QED
      BY <3>1, <3>2, LiveFinite, ServingAssumption DEF SlotsAccountedFor
  <2>6. CASE r \in Reads
    <3>1. free_catalog' = free_catalog + 1 /\ free_sparql' = free_sparql
      BY <1>3, <2>1, <2>6, GivesSlotFacts DEF ReleaseSlot
    <3>2. /\ Cardinality(LiveReads') = Cardinality(LiveReads) - 1
          /\ Cardinality(LiveQueries') = Cardinality(LiveQueries)
      BY <2>2, <2>4, <2>6
    <3> QED
      BY <3>1, <3>2, LiveFinite, ServingAssumption DEF SlotsAccountedFor
  <2> QED
    BY <2>5, <2>6 DEF Requests
<1>4. ASSUME NEW r \in Requests, Leaves(r) \/ Other(r)
      PROVE  SlotsAccountedFor'
  <2>1. /\ free_sparql' = free_sparql /\ free_catalog' = free_catalog
        /\ \A x \in Requests : task'[x] \in LiveTask <=> task[x] \in LiveTask
    BY <1>4, LeavesFacts, OtherFacts DEF LiveTask
  <2> QED
    BY <2>1, LiveUnchanged DEF SlotsAccountedFor
<1> QED
  BY <1>1, <1>2, <1>3, <1>4, NextCases, ProcessStepFrame, CrawlStepFrame

-----------------------------------------------------------------------------
(* Cancellation *)

LEMMA CancelStep ==
    ASSUME WeakType, QueueInv, AbandonedAreCancelled, Next
    PROVE  AbandonedAreCancelled'
<1> USE DEF WeakType, RequestType
<1>1. CASE UNCHANGED requests
  BY <1>1 DEF AbandonedAreCancelled, LiveQueries, requests
<1>2. ASSUME NEW r \in Requests, TakesSlot(r) \/ GivesSlot(r) \/ Leaves(r) \/ Other(r)
      PROVE  AbandonedAreCancelled'
  <2> SUFFICES ASSUME NEW q \in Queries, task'[q] \in LiveTask, req'[q] # "waiting"
               PROVE  cancelled'[q]
    BY DEF AbandonedAreCancelled, LiveQueries
  <2>0. q \in Requests /\ (task[q] \in LiveTask /\ req[q] # "waiting" => cancelled[q])
    BY DEF AbandonedAreCancelled, LiveQueries, Requests
  <2>1. CASE TakesSlot(r)
    BY <2>0, <2>1, TakesSlotFacts
  <2>2. CASE GivesSlot(r)
    <3>1. q # r
      BY <2>0, <2>2, GivesSlotFacts DEF LiveTask
    <3> QED
      BY <2>0, <2>2, <3>1, GivesSlotFacts
  <2>3. CASE Leaves(r)
    BY <2>0, <2>3, LeavesFacts DEF CancelOnDrop
  <2>4. CASE Other(r)
    <3>1. CASE req[r] = "idle" /\ task' = task
      <4>1. q # r
        BY <2>0, <3>1 DEF QueueInv, LiveTask
      <4> QED
        BY <2>0, <2>4, <3>1, <4>1, OtherFacts
    <3>2. CASE task[r] = "queued" /\ req' = req /\ task' = [task EXCEPT ![r] = "running"]
      BY <2>0, <2>4, <3>2, OtherFacts DEF LiveTask
    <3> QED
      BY <2>4, <3>1, <3>2, OtherFacts
  <2> QED
    BY <1>2, <2>1, <2>2, <2>3, <2>4
<1> QED
  BY <1>1, <1>2, NextCases, ProcessStepFrame, CrawlStepFrame

-----------------------------------------------------------------------------
(* What main knows when it goes on *)

\* A closed listener admits nothing, so a drained server stays drained.
LEMMA ServerDoneStable ==
    ASSUME WeakType, QueueInv, Next, ServerDone
    PROVE  ServerDone'
<1> USE DEF WeakType, RequestType, ServerDone, OpenHandler
<1>1. CASE ProcessStep
  <2>1. UNCHANGED requests
    BY <1>1, ProcessStepFrame
  <2>2. listener' = "closed"
    BY <1>1 DEF ProcessStep, Stages, Main, SendSignal, HandleFirstSignal,
                HandleSecondSignal, DelayBegins, DelayTick, DelayEnds, CloseListener,
                ServerEnds, SchedulerEnds, RestEnds, RuntimeDropped
  <2> QED
    BY <2>1, <2>2 DEF requests
<1>2. CASE CrawlStep
  BY <1>2, CrawlStepFrame DEF process, requests
<1>3. ASSUME NEW r \in Requests, TakesSlot(r) \/ GivesSlot(r) \/ Leaves(r) \/ Other(r)
      PROVE  ServerDone'
  <2>1. listener' = "closed"
    BY <1>3, RequestStepFrame DEF process
  <2>2. ~TakesSlot(r)
    BY TakesSlotFacts
  <2>3. CASE GivesSlot(r)
    BY <2>1, <2>3, GivesSlotFacts
  <2>4. CASE Leaves(r)
    BY <2>1, <2>4, LeavesFacts
  <2>5. CASE Other(r)
    BY <2>1, <2>5, OtherFacts
  <2> QED
    BY <1>3, <2>2, <2>3, <2>4, <2>5
<1> QED
  BY <1>1, <1>2, <1>3, NextCases

LEMMA ExitStep ==
    ASSUME WeakType, QueueInv, ExitInv, Next
    PROVE  ExitInv'
<1> USE DEF WeakType, ProcessType, CrawlType, Running
<1>1. CASE ProcessStep
  <2>1. /\ crawler' = crawler /\ write' = write /\ req' = req /\ task' = task
    BY <1>1, ProcessStepFrame DEF crawling, requests
  <2>2. ServerDone => ServerDone'
    BY ServerDoneStable
  <2> HIDE DEF ServerDone
  <2>3. CASE \E k \in SignalKinds : SendSignal(k)
    BY <2>1, <2>2, <2>3 DEF SendSignal, ExitInv
  <2>4. CASE HandleFirstSignal \/ HandleSecondSignal
    BY <2>1, <2>2, <2>4 DEF HandleFirstSignal, HandleSecondSignal, RuntimeUp, ExitInv
  <2>5. CASE Stages
    BY <2>1, <2>2, <2>5 DEF Stages, DelayBegins, DelayTick, DelayEnds, CloseListener,
                            RuntimeUp, ExitInv
  <2>6. CASE ServerEnds
    BY <2>1, <2>2, <2>6 DEF ServerEnds, ReturnFromMain, ExitInv
  <2>7. CASE SchedulerEnds
    BY <2>1, <2>2, <2>7 DEF SchedulerEnds, ExitInv
  <2>8. CASE RestEnds
    BY <2>1, <2>2, <2>8 DEF RestEnds, ReturnFromMain, ExitInv
  <2>9. CASE RuntimeDropped
    BY <2>1, <2>2, <2>9 DEF RuntimeDropped, ExitInv
  <2> QED
    BY <1>1, <2>3, <2>4, <2>5, <2>6, <2>7, <2>8, <2>9 DEF ProcessStep, Main
<1>2. CASE UNCHANGED process
  <2>1. main' = main /\ code' = code
    BY <1>2 DEF process
  <2>2. ServerDone => ServerDone'
    BY ServerDoneStable
  <2>3. \/ CrawlStep
        \/ \E r \in Requests : TakesSlot(r) \/ GivesSlot(r) \/ Leaves(r) \/ Other(r)
        \/ ProcessStep
    BY NextCases
  <2>4. CASE CrawlStep
    <3>1. task' = task
      BY <2>4, CrawlStepFrame DEF requests
    <3>2. /\ main # "exited"
          /\ crawler' = crawler \/ crawler' = "ended"
          /\ crawler = "ended" => crawler' = "ended"
      BY <2>4 DEF CrawlStep, CrawlerFails, CrawlerStops, SubmitWrite, RunWrite, EndWrite,
                  RuntimeUp, ProcessUp
    <3> QED
      BY <2>1, <2>2, <3>1, <3>2 DEF ExitInv
  <2>5. ASSUME NEW r \in Requests, TakesSlot(r) \/ GivesSlot(r) \/ Leaves(r) \/ Other(r)
        PROVE  ExitInv'
    <3>1. crawler' = crawler /\ write' = write
      BY <2>5, RequestStepFrame DEF crawling
    <3>2. main # "exited"
      BY <2>5, TakesSlotFacts, GivesSlotFacts, LeavesFacts, OtherFacts
         DEF RuntimeUp, ProcessUp
    <3> QED
      BY <2>1, <2>2, <3>1, <3>2 DEF ExitInv
  <2> QED
    BY <1>1, <2>3, <2>4, <2>5
<1> QED
  BY <1>1, <1>2, NextCases, CrawlStepFrame, RequestStepFrame

-----------------------------------------------------------------------------
(* The theorems *)

LEMMA ServingInit ==
    ASSUME Init
    PROVE  ServingInv
<1> USE ServingAssumption DEF Init
<1>1. WeakType
  <2>1. FlagType /\ CrawlType
    BY DEF FlagType, CrawlType
  <2>2. ProcessType
    BY DEF ProcessType
  <2>3. RequestType
    BY DEF RequestType
  <2> QED
    BY <2>1, <2>2, <2>3 DEF WeakType
<1>2. StageInv /\ QueueInv
  BY DEF StageInv, QueueInv
<1>3. ExitInv
  BY DEF ExitInv, Running
<1>4. LiveQueries = {} /\ LiveReads = {}
  BY DEF LiveQueries, LiveReads, LiveTask, Requests
<1>5. AbandonedAreCancelled
  BY <1>4 DEF AbandonedAreCancelled
<1>6. SlotsAccountedFor
  BY <1>4, FS_EmptySet DEF SlotsAccountedFor
<1> QED
  BY <1>1, <1>2, <1>3, <1>5, <1>6 DEF ServingInv

LEMMA ServingStep ==
    ASSUME ServingInv, [Next]_vars
    PROVE  ServingInv'
<1>1. CASE Next
  BY <1>1, StageStep, FlagTypeStep, ProcessTypeStep, CrawlTypeStep, RequestTypeStep,
     QueueStep, ExitStep, CancelStep, SlotStep DEF ServingInv, WeakType
<1>2. CASE UNCHANGED vars
  <2>1. UNCHANGED process /\ UNCHANGED crawling /\ UNCHANGED requests
    BY <1>2 DEF vars
  <2>2. WeakType'
    BY <2>1 DEF ServingInv, WeakType, FlagType, ProcessType, CrawlType, RequestType,
                process, crawling, requests
  <2>3. StageInv' /\ QueueInv'
    BY <2>1 DEF ServingInv, StageInv, QueueInv, process, requests
  <2>4. ExitInv'
    BY <2>1 DEF ServingInv, ExitInv, ServerDone, process, crawling, requests
  <2>5. AbandonedAreCancelled' /\ SlotsAccountedFor'
    BY <2>1 DEF ServingInv, AbandonedAreCancelled, SlotsAccountedFor, LiveQueries,
                LiveReads, requests
  <2> QED
    BY <2>2, <2>3, <2>4, <2>5 DEF ServingInv
<1> QED
  BY <1>1, <1>2

\* The inductive invariant of the serving process holds throughout.
THEOREM ServingInvHolds == Spec => []ServingInv
<1>1. Init => ServingInv
  BY ServingInit
<1>2. ServingInv /\ [Next]_vars => ServingInv'
  BY ServingStep
<1> QED
  BY <1>1, <1>2, PTL DEF Spec

\* The serving process keeps its types; neither semaphore ever has more permits
\* than it was made with.
THEOREM ServingTypes == Spec => []ServingTypeOK
<1>1. ServingInv => ServingTypeOK
  <2> SUFFICES ASSUME ServingInv PROVE ServingTypeOK
    OBVIOUS
  <2>1. free_sparql \in 0..SparqlSlots /\ free_catalog \in 0..CatalogSlots
    BY ServingAssumption, LiveFinite
       DEF ServingInv, SlotsAccountedFor, WeakType, RequestType
  <2> QED
    BY <2>1 DEF ServingInv, ServingTypeOK, WeakType, FlagType, ProcessType, CrawlType,
                RequestType
<1> QED
  BY <1>1, ServingInvHolds, PTL

\* However many requests there are and however they end, each evaluation or
\* decode slot is free or held by exactly one blocking task that has not ended.
THEOREM SlotsNeverLeak == Spec => []SlotsAccountedFor
<1>1. ServingInv => SlotsAccountedFor
  BY DEF ServingInv
<1> QED
  BY <1>1, ServingInvHolds, PTL

\* No evaluation outlives its handler without having been told to stop.
THEOREM NoEvaluationUncancelled == Spec => []AbandonedAreCancelled
<1>1. ServingInv => AbandonedAreCancelled
  BY DEF ServingInv
<1> QED
  BY <1>1, ServingInvHolds, PTL

\* For every delay, the listener closes only after /ready failed that long.
THEOREM ReadinessFirst == Spec => []ReadyFailsBeforeClose
<1>1. ServingInv => ReadyFailsBeforeClose
  BY ServingAssumption
     DEF ServingInv, StageInv, ReadyFailsBeforeClose, WeakType, ProcessType
<1> QED
  BY <1>1, ServingInvHolds, PTL

\* Exit status 0 is only ever reached drained: no open request, no blocking work
\* cut off, the scheduler over.
THEOREM CleanExit == Spec => []CleanExitIsDrained
<1>1. ServingInv => CleanExitIsDrained
  BY DEF ServingInv, ExitInv, ServerDone, CleanExitIsDrained
<1> QED
  BY <1>1, ServingInvHolds, PTL
=============================================================================
