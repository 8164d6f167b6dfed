------------------------ MODULE PolicyFilteredQuery ------------------------
(***************************************************************************)
(* sparql_query_json_policy_filtered: the optimistic reader of the catalog *)
(* store (crates/rdf-store/src/oxigraph_backend/sparql.rs).  An attempt    *)
(* reads an even write sequence, obtains the caller's allow-list for that  *)
(* sequence (cached, or built from one snapshot, possibly resuming an      *)
(* earlier cancelled build), evaluates the query by reading the live store *)
(* once per lookup, and returns only if the sequence has not moved.        *)
(*                                                                         *)
(* The decision a policy takes about a catalog is a function of the        *)
(* catalog, the caller's key and the time, so an allow-list is represented *)
(* by what it was decided from: for each node, the catalog, the time, and  *)
(* whether the callback ran to its end.                                    *)
(***************************************************************************)
EXTENDS CatalogStore

CONSTANTS
    Readers,     \* requests in flight, each on a blocking-pool thread
    Keys,        \* caller keys (allow_list_key)
    NoKey,       \* no caller: the reader is idle
    NoEntry,     \* no cached or partial allow-list under a key
    Undecided,   \* the allow-list says nothing about the node
    Unread,      \* the query has not looked the node up
    NoPending,   \* no decision waits for the check after the callback
    Attempts,    \* POLICY_FILTERED_ATTEMPTS
    WriteWait,   \* WRITE_WAIT, in 2 ms sleeps of the wait loop
    Entries,     \* ALLOW_LIST_CACHE_ENTRIES
    ListTTL,     \* ALLOW_LIST_CACHE_TTL, in clock ticks
    PartialTTL,  \* PARTIAL_ALLOW_LIST_TTL, in clock ticks
    MaxTime      \* bound on the clock

ASSUME QueryAssumption ==
    /\ NoKey \notin Keys
    /\ {Attempts, WriteWait, ListTTL, PartialTTL, MaxTime} \subseteq Nat
    /\ Entries \in Nat \ {0}

VARIABLES
    now,          \* Instant::now()
    allow_lists,  \* OxigraphCatalogCache::allow_lists
    partials,     \* OxigraphCatalogCache::partial_allow_lists
    call,         \* the locals of each call in flight
    answer        \* what each reader's last call returned

queryVars == <<now, allow_lists, partials, call, answer>>
vars == <<storeVars, queryVars>>

Decision == [cat : Catalogs, at : Nat, whole : BOOLEAN]
List == [Nodes -> Decision \cup {Undecided}]
CachedAllowList == [seq : Nat, built : Nat, list : List]
PartialAllowList == [seq : Nat, started : Nat, list : List]
Pending == [node : Nodes, at : Nat, whole : BOOLEAN]
Reads == [Nodes -> Content \cup {Unread}]

Labels ==
    {"idle", "attempt", "wait", "cached", "scan", "resume", "decode",
     "decided", "remember", "insert", "query", "validate"}

Call == [pc : Labels, key : Keys \cup {NoKey}, cancelled : BOOLEAN,
         attempt : Nat, waited : Nat, before : Nat, snap : [Nodes -> Content],
         list : List, started : Nat, pending : Pending \cup {NoPending},
         reads : Reads, failed : {"no", "error", "cancelled"}]

Answer == [kind : {"none", "ok", "error", "cancelled", "busy"},
           reads : Reads, list : List]

NoList == [n \in Nodes |-> Undecided]
NoReads == [n \in Nodes |-> Unread]
NoSnap == [n \in Nodes |-> NoCatalog]

IdleCall ==
    [pc |-> "idle", key |-> NoKey, cancelled |-> FALSE, attempt |-> 0,
     waited |-> 0, before |-> 0, snap |-> NoSnap, list |-> NoList,
     started |-> 0, pending |-> NoPending, reads |-> NoReads, failed |-> "no"]

NoAnswer == [kind |-> "none", reads |-> NoReads, list |-> NoList]

\* A running call has a key, and a decision being checked is about a catalog
\* of the snapshot.
Shaped(c) ==
    /\ c.pc # "idle" => c.key \in Keys
    /\ c.pc = "decided" => /\ c.pending \in Pending
                           /\ c.snap[c.pending.node] \in Catalogs

QueryTypeOK ==
    /\ now \in Nat
    /\ allow_lists \in [Keys -> CachedAllowList \cup {NoEntry}]
    /\ partials \in [Keys -> PartialAllowList \cup {NoEntry}]
    /\ call \in [Readers -> Call]
    /\ \A r \in Readers : Shaped(call[r])
    /\ answer \in [Readers -> Answer]

QueryInit ==
    /\ now = 0
    /\ allow_lists = [k \in Keys |-> NoEntry]
    /\ partials = [k \in Keys |-> NoEntry]
    /\ call = [r \in Readers |-> IdleCall]
    /\ answer = [r \in Readers |-> NoAnswer]

-----------------------------------------------------------------------------
(* What a call's steps share. *)

Local(r, c) == call' = [call EXCEPT ![r] = c]

\* The call returns an error and its locals are gone.
Fail(r, kind) ==
    /\ Local(r, IdleCall)
    /\ answer' = [answer EXCEPT ![r] = [NoAnswer EXCEPT !.kind = kind]]

\* Mutant: the bound on the number of entries is forgotten.
EvictionsNever(used, k, fresh, time) == {{}}

\* The sets of keys that may be dropped to make room for k: none while there
\* is room or k has an entry; otherwise what `fresh` does not retain, and, if
\* the map is still full, also one of the oldest of the rest.
Evictions(used, k, fresh, time) ==
    IF k \in used \/ Cardinality(used) < Entries THEN {{}}
    ELSE LET kept == used \cap fresh
         IN  IF Cardinality(kept) < Entries THEN {used \ kept}
             ELSE {(used \ kept) \cup {x} :
                     x \in {y \in kept : \A z \in kept : time[y] <= time[z]}}

Inserted(map, dropped, k, entry) ==
    [x \in Keys |-> IF x = k THEN entry
                    ELSE IF x \in dropped THEN NoEntry ELSE map[x]]

Used(map) == {k \in Keys : map[k] # NoEntry}

\* cached_allow_list: built from store state `seq` and younger than the TTL.
Usable(entry, seq) ==
    /\ entry # NoEntry
    /\ entry.seq = seq
    /\ now - entry.built < ListTTL

\* remember_allow_list, whose `retain` keeps what cached_allow_list would use.
remember_allow_list(k, seq, list) ==
    \E dropped \in Evictions(Used(allow_lists), k,
                             {x \in Keys : Usable(allow_lists[x], seq)},
                             [x \in Used(allow_lists) |-> allow_lists[x].built]) :
        allow_lists' = Inserted(allow_lists, dropped, k,
                                [seq |-> seq, built |-> now, list |-> list])

FreshPartial(p) == p # NoEntry /\ now - p.started < PartialTTL

\* Mutant: keeping the progress restarts its age.
KeepPartialRestarted(c) ==
    \E dropped \in Evictions(Used(partials), c.key,
                             {x \in Keys : FreshPartial(partials[x])},
                             [x \in Used(partials) |-> partials[x].started]) :
        partials' = Inserted(partials, dropped, c.key,
                             [seq |-> c.before, started |-> now, list |-> c.list])

\* keep_partial: the progress of c's build, with the time the build started.
keep_partial(c) ==
    \E dropped \in Evictions(Used(partials), c.key,
                             {x \in Keys : FreshPartial(partials[x])},
                             [x \in Used(partials) |-> partials[x].started]) :
        partials' = Inserted(partials, dropped, c.key,
                             [seq |-> c.before, started |-> c.started,
                              list |-> c.list])

-----------------------------------------------------------------------------
(* The steps of one call. *)

Begin(r, k) ==
    /\ call[r].pc = "idle"
    /\ Local(r, [IdleCall EXCEPT !.pc = "attempt", !.key = k])
    /\ answer' = [answer EXCEPT ![r] = NoAnswer]
    /\ UNCHANGED <<now, allow_lists, partials>>

\* The caller's token is cancelled: its time limit, a drain or a closed
\* connection.  Tokens are never reset.
Cancel(r) ==
    /\ call[r].pc # "idle"
    /\ ~call[r].cancelled
    /\ Local(r, [call[r] EXCEPT !.cancelled = TRUE])
    /\ UNCHANGED <<now, allow_lists, partials, answer>>

\* The head of the for loop.
StartAttempt(r) ==
    LET c == call[r] IN
    /\ c.pc = "attempt"
    /\ \/ /\ c.attempt >= Attempts
          /\ Fail(r, "busy")
       \/ /\ c.attempt < Attempts
          /\ c.cancelled
          /\ Fail(r, "cancelled")
       \/ /\ c.attempt < Attempts
          /\ ~c.cancelled
          /\ Local(r, [c EXCEPT !.pc = "wait", !.attempt = c.attempt + 1])
          /\ UNCHANGED answer
    /\ UNCHANGED <<now, allow_lists, partials>>

\* Mutant: the wait for a write in progress has no limit.
LoadSequenceUnlimited(r) ==
    LET c == call[r] IN
    /\ c.pc = "wait"
    /\ \/ /\ Even(write_sequence)
          /\ Local(r, [c EXCEPT !.pc = "cached", !.before = write_sequence])
          /\ UNCHANGED answer
       \/ /\ ~Even(write_sequence)
          /\ c.cancelled
          /\ Fail(r, "cancelled")
    /\ UNCHANGED <<now, allow_lists, partials>>

\* One turn of the loop that waits for an even sequence.  A sleep lasts at
\* least its 2 ms and may last longer.
LoadSequence(r) ==
    LET c == call[r] IN
    /\ c.pc = "wait"
    /\ \/ /\ Even(write_sequence)
          /\ Local(r, [c EXCEPT !.pc = "cached", !.before = write_sequence])
          /\ UNCHANGED answer
       \/ /\ ~Even(write_sequence)
          /\ c.cancelled
          /\ Fail(r, "cancelled")
       \/ /\ ~Even(write_sequence)
          /\ ~c.cancelled
          /\ c.waited >= WriteWait
          /\ Fail(r, "busy")
       \/ /\ ~Even(write_sequence)
          /\ ~c.cancelled
          /\ \E t \in (c.waited + 1)..WriteWait :
                Local(r, [c EXCEPT !.waited = t])
          /\ UNCHANGED answer
    /\ UNCHANGED <<now, allow_lists, partials>>

LookupCache(r) ==
    LET c == call[r]
        entry == allow_lists[c.key] IN
    /\ c.pc = "cached"
    /\ \/ /\ Usable(entry, c.before)
          /\ Local(r, [c EXCEPT !.pc = "query", !.list = entry.list])
       \/ /\ ~Usable(entry, c.before)
          /\ Local(r, [c EXCEPT !.pc = "scan"])
    /\ UNCHANGED <<now, allow_lists, partials, answer>>

\* snapshots_until: every graph, from one store snapshot.
Scan(r) ==
    LET c == call[r] IN
    /\ c.pc = "scan"
    /\ \/ /\ Local(r, [c EXCEPT !.pc = "resume", !.snap = store])
          /\ UNCHANGED answer
       \/ /\ c.cancelled
          /\ Fail(r, "cancelled")
       \/ Fail(r, "error")
    /\ UNCHANGED <<now, allow_lists, partials>>

\* Mutant: a partial list is resumed whatever store state it is from.
ResumeAnyState(r) ==
    LET c == call[r]
        p == partials[c.key] IN
    /\ c.pc = "resume"
    /\ \/ /\ FreshPartial(p)
          /\ Local(r, [c EXCEPT !.pc = "decode", !.list = p.list,
                                !.started = p.started])
       \/ /\ ~FreshPartial(p)
          /\ Local(r, [c EXCEPT !.pc = "decode", !.list = NoList,
                                !.started = now])
    /\ partials' = [partials EXCEPT ![c.key] = NoEntry]
    /\ UNCHANGED <<now, allow_lists, answer>>

\* The partial list under the key is taken out of the map, and used only if it
\* belongs to this store state and is young enough.
Resume(r) ==
    LET c == call[r]
        p == partials[c.key] IN
    /\ c.pc = "resume"
    /\ \/ /\ FreshPartial(p) /\ p.seq = c.before
          /\ Local(r, [c EXCEPT !.pc = "decode", !.list = p.list,
                                !.started = p.started])
       \/ /\ ~(FreshPartial(p) /\ p.seq = c.before)
          /\ Local(r, [c EXCEPT !.pc = "decode", !.list = NoList,
                                !.started = now])
    /\ partials' = [partials EXCEPT ![c.key] = NoEntry]
    /\ UNCHANGED <<now, allow_lists, answer>>

\* Mutant: nodes without a graph are decided too.
RemainingAll(c) == {n \in Nodes : c.list[n] = Undecided}

Remaining(c) == {n \in Nodes : c.snap[n] # NoCatalog /\ c.list[n] = Undecided}

\* Cancelled before a catalog or after the last one: keep the progress.
StopBuilding(r) ==
    LET c == call[r] IN
    /\ c.pc = "decode"
    /\ c.cancelled
    /\ keep_partial(c)
    /\ Fail(r, "cancelled")
    /\ UNCHANGED <<now, allow_lists>>

\* Decode one catalog and run the allow_list callback on it.  A callback that
\* sees the token cancelled returns what it has decided so far.
Decide(r, n) ==
    LET c == call[r] IN
    /\ c.pc = "decode"
    /\ ~c.cancelled
    /\ n \in Remaining(c)
    /\ Local(r, [c EXCEPT !.pc = "decided",
                          !.pending = [node |-> n, at |-> now, whole |-> TRUE]])
    /\ UNCHANGED <<now, allow_lists, partials, answer>>

\* The token is cancelled while the callback runs, which then stops early.
TruncateCallback(r) ==
    LET c == call[r] IN
    /\ c.pc = "decided"
    /\ c.cancelled
    /\ c.pending.whole
    /\ Local(r, [c EXCEPT !.pending.whole = FALSE])
    /\ UNCHANGED <<now, allow_lists, partials, answer>>

\* Mutant: the token is not checked again after the callback.
RecheckNothing(r) ==
    LET c == call[r]
        p == c.pending IN
    /\ c.pc = "decided"
    /\ Local(r, [c EXCEPT !.pc = "decode", !.pending = NoPending,
                          !.list[p.node] = [cat |-> c.snap[p.node], at |-> p.at,
                                            whole |-> p.whole]])
    /\ UNCHANGED <<now, allow_lists, partials, answer>>

\* The check after the callback: a catalog whose callback may have been cut
\* short is not recorded.
Recheck(r) ==
    LET c == call[r]
        p == c.pending IN
    /\ c.pc = "decided"
    /\ \/ /\ c.cancelled
          /\ keep_partial(c)
          /\ Fail(r, "cancelled")
       \/ /\ ~c.cancelled
          /\ Local(r, [c EXCEPT !.pc = "decode", !.pending = NoPending,
                                !.list[p.node] = [cat |-> c.snap[p.node],
                                                  at |-> p.at,
                                                  whole |-> p.whole]])
          /\ UNCHANGED <<partials, answer>>
    /\ UNCHANGED <<now, allow_lists>>

BuildDone(r) ==
    LET c == call[r] IN
    /\ c.pc = "decode"
    /\ ~c.cancelled
    /\ Remaining(c) = {}
    /\ Local(r, [c EXCEPT !.pc = "remember", !.snap = NoSnap, !.started = 0])
    /\ UNCHANGED <<now, allow_lists, partials, answer>>

\* The sequence is loaded again; a list built across a write is not cached.
CheckUnchanged(r) ==
    LET c == call[r] IN
    /\ c.pc = "remember"
    /\ \/ /\ write_sequence = c.before
          /\ Local(r, [c EXCEPT !.pc = "insert"])
       \/ /\ write_sequence # c.before
          /\ Local(r, [c EXCEPT !.pc = "query"])
    /\ UNCHANGED <<now, allow_lists, partials, answer>>

Remember(r) ==
    LET c == call[r] IN
    /\ c.pc = "insert"
    /\ remember_allow_list(c.key, c.before, c.list)
    /\ Local(r, [c EXCEPT !.pc = "query"])
    /\ UNCHANGED <<now, partials, answer>>

\* One lookup of the query, a read of the live store.
Lookup(r, n) ==
    LET c == call[r] IN
    /\ c.pc = "query"
    /\ ~c.cancelled
    /\ c.reads[n] = Unread
    /\ Local(r, [c EXCEPT !.reads[n] = store[n]])
    /\ UNCHANGED <<now, allow_lists, partials, answer>>

\* Evaluation ends: with a result (a query that reads no more is not stopped
\* by its token), an evaluation error such as too many rows, or Cancelled when
\* a lookup finds the token cancelled.
EvaluationEnds(r) ==
    LET c == call[r] IN
    /\ c.pc = "query"
    /\ \E f \in {"no", "error"} \cup (IF c.cancelled THEN {"cancelled"} ELSE {}) :
          Local(r, [c EXCEPT !.pc = "validate", !.failed = f])
    /\ UNCHANGED <<now, allow_lists, partials, answer>>

\* Mutant: the result is returned without loading the sequence again.
ValidateNothing(r) ==
    LET c == call[r] IN
    /\ c.pc = "validate"
    /\ \/ /\ c.failed = "no"
          /\ answer' = [answer EXCEPT ![r] = [kind |-> "ok", reads |-> c.reads,
                                              list |-> c.list]]
          /\ Local(r, IdleCall)
       \/ /\ c.failed # "no"
          /\ Fail(r, c.failed)
    /\ UNCHANGED <<now, allow_lists, partials>>

\* Mutant: a query that failed is tried again although nothing was written.
ValidateRetriesErrors(r) ==
    LET c == call[r] IN
    /\ c.pc = "validate"
    /\ \/ /\ write_sequence = c.before
          /\ c.failed = "no"
          /\ answer' = [answer EXCEPT ![r] = [kind |-> "ok", reads |-> c.reads,
                                              list |-> c.list]]
          /\ Local(r, IdleCall)
       \/ /\ write_sequence # c.before \/ c.failed # "no"
          /\ Local(r, [IdleCall EXCEPT !.pc = "attempt", !.key = c.key,
                                       !.attempt = c.attempt])
          /\ UNCHANGED answer
    /\ UNCHANGED <<now, allow_lists, partials>>

\* The result, ok or error, is returned only if the sequence has not moved.
Validate(r) ==
    LET c == call[r] IN
    /\ c.pc = "validate"
    /\ \/ /\ write_sequence = c.before
          /\ c.failed = "no"
          /\ answer' = [answer EXCEPT ![r] = [kind |-> "ok", reads |-> c.reads,
                                              list |-> c.list]]
          /\ Local(r, IdleCall)
       \/ /\ write_sequence = c.before
          /\ c.failed # "no"
          /\ Fail(r, c.failed)
       \/ /\ write_sequence # c.before
          /\ c.cancelled
          /\ Fail(r, "cancelled")
       \/ /\ write_sequence # c.before
          /\ ~c.cancelled
          /\ Local(r, [IdleCall EXCEPT !.pc = "attempt", !.key = c.key,
                                       !.attempt = c.attempt])
          /\ UNCHANGED answer
    /\ UNCHANGED <<now, allow_lists, partials>>

\* The steps a running call takes by itself.
CallStep(r) ==
    \/ StartAttempt(r)
    \/ LoadSequence(r)
    \/ LookupCache(r)
    \/ Scan(r)
    \/ Resume(r)
    \/ StopBuilding(r)
    \/ \E n \in Nodes : Decide(r, n)
    \/ TruncateCallback(r)
    \/ Recheck(r)
    \/ BuildDone(r)
    \/ CheckUnchanged(r)
    \/ Remember(r)
    \/ \E n \in Nodes : Lookup(r, n)
    \/ EvaluationEnds(r)
    \/ Validate(r)

Tick ==
    /\ now < MaxTime
    /\ now' = now + 1
    /\ UNCHANGED <<allow_lists, partials, call, answer>>

-----------------------------------------------------------------------------
Init == StoreInit /\ QueryInit

Next ==
    \/ \E w \in Writers : WriterStep(w) /\ UNCHANGED queryVars
    \/ \E r \in Readers, k \in Keys : Begin(r, k) /\ UNCHANGED storeVars
    \/ \E r \in Readers : Cancel(r) /\ UNCHANGED storeVars
    \/ \E r \in Readers : CallStep(r) /\ UNCHANGED storeVars
    \/ Tick /\ UNCHANGED storeVars

Spec == Init /\ [][Next]_vars

\* The deployment that crawls one participant at a time
\* (CrawlLimits::concurrency = 1): writes never overlap.
SerialSpec == Init /\ [][Next /\ OneGuardAtATime']_vars

\* A running call is a thread of its own: nothing stops it for ever.
CallFairness == \A r \in Readers : WF_vars(CallStep(r) /\ UNCHANGED storeVars)

FairSpec == Spec /\ CallFairness

-----------------------------------------------------------------------------
(* Properties. *)

TypeOK == StoreTypeOK /\ QueryTypeOK

\* The list decides exactly the catalogs of s, each from its content in s.
Covers(list, s) ==
    \A n \in Nodes :
        IF s[n] = NoCatalog THEN list[n] = Undecided
        ELSE list[n] # Undecided /\ list[n].cat = s[n]

\* Everything a finished attempt read is the store as it is now.
ReadsOneState(c) ==
    /\ Covers(c.list, store)
    /\ \A n \in Nodes : c.reads[n] \in {Unread, store[n]}

\* "A reader that sees the same even value before and after its reads knows no
\* write overlapped them": when the validation of an attempt would succeed,
\* every lookup it made and the allow-list it used are of the one store state
\* that is current.  (Violated when writes overlap; see the finding.)
SameSequenceSameState ==
    \A r \in Readers :
        call[r].pc = "validate" /\ write_sequence = call[r].before
            => ReadsOneState(call[r])

\* The optimistic reader implements the atomic one: validating the sequence is
\* as good as holding the writer lock from the first read to the return.
Atomic == INSTANCE AtomicCatalogQuery WITH store <- store, answer <- answer

AnswersAreAtomic == Atomic!Spec

\* A cached allow-list stamped with the current sequence decides exactly the
\* catalogs in the store, from their current content: reusing it for another
\* request is as good as building it again, whatever was cancelled, resumed or
\* evicted on the way.
CachedListsMatchStore ==
    \A k \in Keys :
        allow_lists[k] # NoEntry /\ allow_lists[k].seq = write_sequence
            => Covers(allow_lists[k].list, store)

Complete(list) == \A n \in Nodes : list[n] # Undecided => list[n].whole

\* A decision that a cancelled callback left unfinished is never kept: not in
\* a cached list, not in the progress a later request resumes from, and not in
\* the list a query is evaluated with.
NoTruncatedDecision ==
    /\ \A k \in Keys :
          /\ allow_lists[k] # NoEntry => Complete(allow_lists[k].list)
          /\ partials[k] # NoEntry => Complete(partials[k].list)
    /\ \A r \in Readers : Complete(call[r].list)

\* A build resumes only from decisions younger than PARTIAL_ALLOW_LIST_TTL,
\* however many cancelled requests the progress was handed through.
ResumedDecisionsFresh ==
    [][\A r \in Readers, n \in Nodes :
          call[r].pc = "resume" /\ call'[r].pc = "decode"
              /\ call'[r].list[n] # Undecided
          => now - call'[r].list[n].at < PartialTTL]_vars

\* Both maps stay within ALLOW_LIST_CACHE_ENTRIES.
MapsBounded ==
    /\ Cardinality(Used(allow_lists)) <= Entries
    /\ Cardinality(Used(partials)) <= Entries

\* "The TTL bounds how stale a clock-dependent policy decision can get": a
\* cached list is used only while each of its decisions is younger than
\* ALLOW_LIST_CACHE_TTL.  (Violated by a list that was resumed; see the
\* finding.)
TTLBoundsDecisionAge ==
    [][\A r \in Readers, n \in Nodes :
          call[r].pc = "cached" /\ call'[r].pc = "query"
              /\ call'[r].list[n] # Undecided
          => now - call'[r].list[n].at < ListTTL]_vars

\* An attempt is repeated only because a write overlapped it: after k attempts
\* the sequence has moved past k distinct even values.
RetriesNeedWrites ==
    \A r \in Readers :
        call[r].pc = "attempt" /\ call[r].attempt > 0
            => write_sequence >= 2 * call[r].attempt - 1

\* Every call ends, although writers owe the reader nothing: a writer may
\* stall for ever with the sequence odd, or keep invalidating attempts.
CallsEnd == \A r \in Readers : call[r].pc # "idle" ~> call[r].pc = "idle"
=============================================================================
