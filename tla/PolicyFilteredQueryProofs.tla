--------------------- MODULE PolicyFilteredQueryProofs ---------------------
(* TLAPS proofs about PolicyFilteredQuery, for every value of its constants. *)
EXTENDS PolicyFilteredQuery, FiniteSetTheorems, TLAPS

-----------------------------------------------------------------------------
(* Type correctness. *)

\* A writer's step keeps the store's variables within their types.
LEMMA StoreTypeStep ==
    ASSUME StoreTypeOK, NEW w \in Writers, WriterStep(w)
    PROVE  StoreTypeOK'
<1> USE DEF StoreTypeOK, WriterStates, Job, Content, Goto, Return
<1>1. CASE \E n \in Nodes, c \in Catalogs : StartUpsert(w, n, c)
  BY <1>1 DEF StartUpsert
<1>2. CASE \E n \in Nodes : StartDelete(w, n)
  BY <1>2 DEF StartDelete
<1>3. CASE FailBeforeTransaction(w) \/ DeleteAbsent(w) \/ LookupFails(w) \/ Rollback(w) \/ DropGuard(w)
  BY <1>3 DEF FailBeforeTransaction, DeleteAbsent, LookupFails, Rollback, DropGuard
<1>4. CASE StartTransaction(w) \/ BeginGuard(w) \/ CommitFails(w) \/ RemoveFails(w)
  BY <1>4 DEF StartTransaction, BeginGuard, CommitFails, RemoveFails
<1>5. CASE Commit(w)
  BY <1>5 DEF Commit
<1>6. QED
  BY <1>1, <1>2, <1>3, <1>4, <1>5 DEF WriterStep

\* The constant records and functions of the model have their types.
LEMMA ConstantTypes ==
    /\ NoList \in List
    /\ NoReads \in Reads
    /\ NoSnap \in [Nodes -> Content]
    /\ IdleCall \in Call
    /\ NoAnswer \in Answer
BY DEF NoList, List, NoReads, Reads, NoSnap, Content, IdleCall, Call, Labels,
       NoAnswer, Answer

\* Making room and inserting keeps a map of entries a map of entries.
LEMMA InsertedType ==
    ASSUME NEW S, NEW map \in [Keys -> S \cup {NoEntry}], NEW dropped,
           NEW k, NEW e \in S
    PROVE  Inserted(map, dropped, k, e) \in [Keys -> S \cup {NoEntry}]
BY DEF Inserted

\* Replacing one call's locals by well-typed ones.
LEMMA LocalType ==
    ASSUME QueryTypeOK, NEW r \in Readers, NEW d \in Call, Shaped(d), Local(r, d)
    PROVE  /\ call' \in [Readers -> Call]
           /\ \A q \in Readers : Shaped(call'[q])
BY DEF QueryTypeOK, Local

\* The progress kept for a later request is a partial list.
LEMMA KeepPartialType ==
    ASSUME QueryTypeOK, NEW c \in Call, keep_partial(c)
    PROVE  partials' \in [Keys -> PartialAllowList \cup {NoEntry}]
<1> DEFINE e == [seq |-> c.before, started |-> c.started, list |-> c.list]
<1>1. e \in PartialAllowList
  BY DEF Call, PartialAllowList
<1>2. PICK dropped : partials' = Inserted(partials, dropped, c.key, e)
  BY DEF keep_partial
<1>3. QED
  BY <1>1, <1>2, InsertedType DEF QueryTypeOK

\* A call that fails leaves well-typed locals and a well-typed answer.
LEMMA FailType ==
    ASSUME QueryTypeOK, NEW r \in Readers,
           NEW kind \in {"error", "cancelled", "busy"}, Fail(r, kind)
    PROVE  /\ call' \in [Readers -> Call]
           /\ \A q \in Readers : Shaped(call'[q])
           /\ answer' \in [Readers -> Answer]
<1>1. [NoAnswer EXCEPT !.kind = kind] \in Answer
  BY ConstantTypes DEF NoAnswer, Answer
<1>2. Shaped(IdleCall)
  BY DEF Shaped, IdleCall
<1>3. answer' \in [Readers -> Answer]
  BY <1>1 DEF Fail, QueryTypeOK
<1>4. QED
  BY <1>2, <1>3, ConstantTypes, LocalType DEF Fail

\* A step of one call keeps the query's variables within their types.
LEMMA CallTypeStep ==
    ASSUME StoreTypeOK, QueryTypeOK, NEW r \in Readers, CallStep(r)
    PROVE  QueryTypeOK'
<1> DEFINE c == call[r]
<1>c. c \in Call /\ Shaped(c)
  BY DEF QueryTypeOK
<1>u. ASSUME NEW d \in Call, Shaped(d), Local(r, d),
             UNCHANGED <<now, allow_lists, partials, answer>>
      PROVE  QueryTypeOK'
  BY <1>u, LocalType DEF QueryTypeOK
<1>f. ASSUME NEW kind \in {"error", "cancelled", "busy"}, Fail(r, kind),
             UNCHANGED <<now, allow_lists, partials>>
      PROVE  QueryTypeOK'
  BY <1>f, FailType DEF QueryTypeOK
<1>k. ASSUME keep_partial(c), Fail(r, "cancelled"), UNCHANGED <<now, allow_lists>>
      PROVE  QueryTypeOK'
  BY <1>k, <1>c, FailType, KeepPartialType DEF QueryTypeOK
<1>1. CASE StartAttempt(r)
  <2>1. CASE c.attempt < Attempts /\ ~c.cancelled
    <3> DEFINE d == [c EXCEPT !.pc = "wait", !.attempt = c.attempt + 1]
    <3>1. c.pc = "attempt" /\ c.attempt \in Nat /\ Attempts \in Nat
      BY <1>1, <1>c, QueryAssumption DEF StartAttempt, Call
    <3>a. ASSUME NEW a \in Nat
          PROVE  LET e == [c EXCEPT !.pc = "wait", !.attempt = a]
                 IN  e \in Call /\ Shaped(e)
      BY <3>1, <1>c DEF Call, Labels, Shaped
    <3>b. c.attempt + 1 \in Nat
      BY <3>1
    <3>2. d \in Call /\ Shaped(d)
      BY <3>b, <3>a, Zenon
    <3>3. Local(r, d) /\ UNCHANGED <<now, allow_lists, partials, answer>>
      BY <1>1, <2>1, <3>1 DEF StartAttempt
    <3>4. QED
      BY <3>2, <3>3, <1>u
  <2>2. QED
    BY <1>1, <2>1, <1>f DEF StartAttempt
<1>2. CASE LoadSequence(r)
  <2>1. CASE Even(write_sequence)
    <3> DEFINE d == [c EXCEPT !.pc = "cached", !.before = write_sequence]
    <3>1. d \in Call /\ Shaped(d)
      BY <1>2, <1>c DEF LoadSequence, Call, Labels, Shaped, StoreTypeOK
    <3>2. QED
      BY <1>2, <2>1, <3>1, <1>u DEF LoadSequence
  <2>2. ASSUME NEW t \in (c.waited + 1)..WriteWait, Local(r, [c EXCEPT !.waited = t]),
               UNCHANGED answer
        PROVE  QueryTypeOK'
    <3> DEFINE d == [c EXCEPT !.waited = t]
    <3>1. t \in Nat
      BY <1>c, QueryAssumption DEF Call
    <3>2. d \in Call /\ Shaped(d)
      BY <1>2, <1>c, <3>1 DEF LoadSequence, Call, Labels, Shaped
    <3>3. QED
      BY <1>2, <2>2, <3>2, <1>u DEF LoadSequence
  <2>3. QED
    BY <1>2, <2>1, <2>2, <1>f DEF LoadSequence
<1>3. CASE LookupCache(r)
  <2> DEFINE entry == allow_lists[c.key]
  <2>1. CASE Usable(entry, c.before)
    <3> DEFINE d == [c EXCEPT !.pc = "query", !.list = entry.list]
    <3>1. entry.list \in List
      BY <1>3, <2>1, <1>c DEF LookupCache, Shaped, Usable, QueryTypeOK, CachedAllowList
    <3>2. d \in Call /\ Shaped(d)
      BY <1>3, <1>c, <3>1 DEF LookupCache, Call, Labels, Shaped
    <3>3. QED
      BY <1>3, <2>1, <3>2, <1>u DEF LookupCache
  <2>2. CASE ~Usable(entry, c.before)
    <3> DEFINE d == [c EXCEPT !.pc = "scan"]
    <3>1. d \in Call /\ Shaped(d)
      BY <1>3, <1>c DEF LookupCache, Call, Labels, Shaped
    <3>2. QED
      BY <1>3, <2>2, <3>1, <1>u DEF LookupCache
  <2>3. QED
    BY <2>1, <2>2
<1>4. CASE Scan(r)
  <2> DEFINE d == [c EXCEPT !.pc = "resume", !.snap = store]
  <2>1. d \in Call /\ Shaped(d)
    BY <1>4, <1>c DEF Scan, Call, Labels, Shaped, StoreTypeOK
  <2>2. QED
    BY <1>4, <2>1, <1>u, <1>f DEF Scan
<1>5. CASE Resume(r)
  <2> DEFINE p == partials[c.key]
             taken == FreshPartial(p) /\ p.seq = c.before
             d == IF taken THEN [c EXCEPT !.pc = "decode", !.list = p.list,
                                          !.started = p.started]
                  ELSE [c EXCEPT !.pc = "decode", !.list = NoList, !.started = now]
  <2>1. taken => p.list \in List /\ p.started \in Nat
    BY <1>5, <1>c DEF Resume, Shaped, FreshPartial, QueryTypeOK, PartialAllowList
  <2>2. d \in Call /\ Shaped(d)
    BY <1>5, <1>c, <2>1, ConstantTypes DEF Resume, Call, Labels, Shaped, QueryTypeOK
  <2>3. Local(r, d)
    BY <1>5 DEF Resume
  <2>4. partials' \in [Keys -> PartialAllowList \cup {NoEntry}]
    BY <1>5 DEF Resume, QueryTypeOK
  <2>5. QED
    BY <1>5, <2>2, <2>3, <2>4, LocalType DEF Resume, QueryTypeOK
<1>6. CASE StopBuilding(r)
  BY <1>6, <1>k DEF StopBuilding
<1>7. CASE \E n \in Nodes : Decide(r, n)
  <2> PICK n \in Nodes : Decide(r, n)
    BY <1>7
  <2> DEFINE d == [c EXCEPT !.pc = "decided",
                            !.pending = [node |-> n, at |-> now, whole |-> TRUE]]
  <2>1. c.snap[n] \in Catalogs
    BY <1>c DEF Decide, Remaining, Call, Content
  <2>2. [node |-> n, at |-> now, whole |-> TRUE] \in Pending
    BY DEF Pending, QueryTypeOK
  <2>3. d \in Call /\ Shaped(d)
    BY <1>c, <2>1, <2>2 DEF Decide, Call, Labels, Shaped
  <2>4. QED
    BY <2>3, <1>u DEF Decide
<1>8. CASE TruncateCallback(r)
  <2> DEFINE p == [c.pending EXCEPT !.whole = FALSE]
             d == [c EXCEPT !.pending = p]
  <2>1. p \in Pending /\ p.node = c.pending.node
    BY <1>8, <1>c DEF TruncateCallback, Shaped, Pending
  <2>2. d \in Call /\ Shaped(d)
    BY <1>8, <1>c, <2>1 DEF TruncateCallback, Call, Shaped
  <2>3. QED
    BY <1>8, <2>2, <1>u DEF TruncateCallback
<1>9. CASE Recheck(r)
  <2> DEFINE p == c.pending
             x == [cat |-> c.snap[p.node], at |-> p.at, whole |-> p.whole]
             l == [c.list EXCEPT ![p.node] = x]
             d == [c EXCEPT !.pc = "decode", !.pending = NoPending, !.list = l]
  <2>1. CASE ~c.cancelled
    <3>1. x \in Decision
      BY <1>9, <1>c DEF Recheck, Shaped, Pending, Decision
    <3>2. l \in List
      BY <1>c, <3>1 DEF Call, List
    <3>3. d \in Call /\ Shaped(d)
      BY <1>9, <1>c, <3>2 DEF Recheck, Call, Labels, Shaped
    <3>4. Local(r, d)
      BY <1>9, <1>c, <2>1 DEF Recheck, Local, Call
    <3>5. QED
      BY <1>9, <2>1, <3>3, <3>4, <1>u DEF Recheck
  <2>2. QED
    BY <1>9, <2>1, <1>k DEF Recheck
<1>10. CASE BuildDone(r)
  <2> DEFINE d == [c EXCEPT !.pc = "remember", !.snap = NoSnap, !.started = 0]
  <2>1. d \in Call /\ Shaped(d)
    BY <1>10, <1>c, ConstantTypes DEF BuildDone, Call, Labels, Shaped
  <2>2. QED
    BY <1>10, <2>1, <1>u DEF BuildDone
<1>11. CASE CheckUnchanged(r)
  <2>1. ASSUME NEW l \in {"insert", "query"}
        PROVE  [c EXCEPT !.pc = l] \in Call /\ Shaped([c EXCEPT !.pc = l])
    BY <1>11, <1>c DEF CheckUnchanged, Call, Labels, Shaped
  <2>2. QED
    BY <1>11, <2>1, <1>u DEF CheckUnchanged
<1>12. CASE Remember(r)
  <2> DEFINE d == [c EXCEPT !.pc = "query"]
             e == [seq |-> c.before, built |-> now, list |-> c.list]
  <2>1. d \in Call /\ Shaped(d)
    BY <1>12, <1>c DEF Remember, Call, Labels, Shaped
  <2>2. e \in CachedAllowList
    BY <1>c DEF Call, CachedAllowList, QueryTypeOK
  <2>3. PICK dropped : allow_lists' = Inserted(allow_lists, dropped, c.key, e)
    BY <1>12 DEF Remember, remember_allow_list
  <2>4. allow_lists' \in [Keys -> CachedAllowList \cup {NoEntry}]
    BY <2>2, <2>3, InsertedType DEF QueryTypeOK
  <2>5. QED
    BY <1>12, <2>1, <2>4, LocalType DEF Remember, QueryTypeOK
<1>13. CASE \E n \in Nodes : Lookup(r, n)
  <2> PICK n \in Nodes : Lookup(r, n)
    BY <1>13
  <2> DEFINE d == [c EXCEPT !.reads = [c.reads EXCEPT ![n] = store[n]]]
  <2>1. [c.reads EXCEPT ![n] = store[n]] \in Reads
    BY <1>c DEF Call, Reads, StoreTypeOK
  <2>2. d \in Call /\ Shaped(d)
    BY <1>c, <2>1 DEF Lookup, Call, Shaped
  <2>3. QED
    BY <2>2, <1>u DEF Lookup
<1>14. CASE EvaluationEnds(r)
  <2>1. PICK f \in {"no", "error", "cancelled"} :
            Local(r, [c EXCEPT !.pc = "validate", !.failed = f])
    BY <1>14 DEF EvaluationEnds
  <2> DEFINE d == [c EXCEPT !.pc = "validate", !.failed = f]
  <2>2. d \in Call /\ Shaped(d)
    BY <1>14, <1>c DEF EvaluationEnds, Call, Labels, Shaped
  <2>3. QED
    BY <1>14, <2>1, <2>2, <1>u DEF EvaluationEnds
<1>15. CASE Validate(r)
  <2>1. CASE write_sequence = c.before /\ c.failed = "no"
    <3>1. [kind |-> "ok", reads |-> c.reads, list |-> c.list] \in Answer
      BY <1>c DEF Call, Answer
    <3>2. answer' \in [Readers -> Answer]
      BY <1>15, <2>1, <3>1 DEF Validate, QueryTypeOK
    <3>3. Local(r, IdleCall) /\ Shaped(IdleCall)
      BY <1>15, <2>1 DEF Validate, Shaped, IdleCall
    <3>4. QED
      BY <1>15, <3>2, <3>3, LocalType, ConstantTypes DEF Validate, QueryTypeOK
  <2>2. CASE write_sequence = c.before /\ c.failed # "no"
    <3>1. c.failed \in {"error", "cancelled", "busy"}
      BY <2>2, <1>c DEF Call
    <3>2. QED
      BY <1>15, <2>2, <3>1, <1>f DEF Validate
  <2>3. CASE write_sequence # c.before /\ ~c.cancelled
    <3> DEFINE d == [IdleCall EXCEPT !.pc = "attempt", !.key = c.key,
                                     !.attempt = c.attempt]
    <3>1. d \in Call /\ Shaped(d)
      BY <1>15, <1>c, ConstantTypes DEF Validate, Call, IdleCall, Labels, Shaped
    <3>2. QED
      BY <1>15, <2>3, <3>1, <1>u DEF Validate
  <2>4. QED
    BY <1>15, <2>1, <2>2, <2>3, <1>f DEF Validate
<1>16. QED
  BY <1>1, <1>2, <1>3, <1>4, <1>5, <1>6, <1>7, <1>8, <1>9, <1>10, <1>11,
     <1>12, <1>13, <1>14, <1>15 DEF CallStep

\* The initial state is well typed.
LEMMA TypeInit == Init => TypeOK
<1> SUFFICES ASSUME Init PROVE TypeOK
  OBVIOUS
<1>1. StoreTypeOK
  BY DEF Init, StoreInit, StoreTypeOK, Content, WriterStates
<1>2. \A r \in Readers : Shaped(call[r])
  BY DEF Init, QueryInit, Shaped, IdleCall
<1>3. QueryTypeOK
  BY <1>2, ConstantTypes DEF Init, QueryInit, QueryTypeOK
<1>4. QED
  BY <1>1, <1>3 DEF TypeOK

\* Every step keeps the types.
LEMMA TypeStep == TypeOK /\ [Next]_vars => TypeOK'
<1> SUFFICES ASSUME TypeOK, [Next]_vars PROVE TypeOK'
  OBVIOUS
<1> USE DEF TypeOK
<1>1. ASSUME NEW w \in Writers, WriterStep(w), UNCHANGED queryVars
      PROVE  TypeOK'
  BY <1>1, StoreTypeStep DEF queryVars, QueryTypeOK
<1>2. UNCHANGED storeVars => StoreTypeOK'
  BY DEF storeVars, StoreTypeOK
<1>3. ASSUME NEW r \in Readers, NEW k \in Keys, Begin(r, k)
      PROVE  QueryTypeOK'
  <2> DEFINE d == [IdleCall EXCEPT !.pc = "attempt", !.key = k]
  <2>1. d \in Call /\ Shaped(d)
    BY ConstantTypes DEF Call, IdleCall, Labels, Shaped
  <2>2. QED
    BY <1>3, <2>1, LocalType, ConstantTypes DEF Begin, QueryTypeOK
<1>4. ASSUME NEW r \in Readers, Cancel(r)
      PROVE  QueryTypeOK'
  <2> DEFINE d == [call[r] EXCEPT !.cancelled = TRUE]
  <2>1. d \in Call /\ Shaped(d)
    BY <1>4 DEF QueryTypeOK, Call, Shaped
  <2>2. QED
    BY <1>4, <2>1, LocalType DEF Cancel, QueryTypeOK
<1>5. Tick => QueryTypeOK'
  BY DEF Tick, QueryTypeOK
<1>6. UNCHANGED vars => TypeOK'
  BY DEF vars, storeVars, queryVars, StoreTypeOK, QueryTypeOK
<1>7. QED
  BY <1>1, <1>2, <1>3, <1>4, <1>5, <1>6, CallTypeStep DEF Next

\* Every variable of the store and of its readers keeps its type, and a call
\* being checked its shape, in every reachable state, whatever the writers do.
THEOREM TypeCorrect == Spec => []TypeOK
BY TypeInit, TypeStep, PTL DEF Spec

-----------------------------------------------------------------------------
(* Serial writes: an attempt that sees its sequence again read one state.  *)
(*                                                                         *)
(* The argument: the store changes only while a guard is alive; with one   *)
(* guard at a time the sequence is then odd, and it never returns to an    *)
(* earlier value.  So whatever is stamped with an even number that is still *)
(* the current sequence (a call's `before`, a cached or a partial list)    *)
(* was taken from the store as it is now.                                  *)

WriterInv ==
    /\ OneGuardAtATime
    /\ Even(write_sequence) <=> \A w \in Writers : ~GuardAlive(w)

\* The list decides nothing but catalogs of s, from their content in s.
Sound(list, s) ==
    \A n \in Nodes :
        list[n] # Undecided => s[n] # NoCatalog /\ list[n].cat = s[n]

Stamped == {"cached", "scan", "resume", "decode", "decided", "remember",
            "insert", "query", "validate"}

CallInv(c, seq, s) ==
    /\ c.pc \in {"attempt", "wait"} => c.reads = NoReads
    /\ c.pc \in Stamped => Even(c.before) /\ c.before <= seq
    /\ c.pc \in Stamped /\ c.before = seq =>
          /\ \A n \in Nodes : c.reads[n] \in {Unread, s[n]}
          /\ c.pc \in {"resume", "decode", "decided"} => c.snap = s
          /\ c.pc \in {"decode", "decided"} => Sound(c.list, s)
          /\ c.pc \in {"remember", "insert", "query", "validate"}
                => Covers(c.list, s)

EntryInv(e, seq, s) ==
    e # NoEntry => /\ Even(e.seq)
                   /\ e.seq <= seq
                   /\ e.seq = seq => Covers(e.list, s)

PartialInv(p, seq, s) ==
    p # NoEntry => /\ Even(p.seq)
                   /\ p.seq <= seq
                   /\ p.seq = seq => Sound(p.list, s)

ReaderInv ==
    /\ \A r \in Readers : CallInv(call[r], write_sequence, store)
    /\ \A k \in Keys : EntryInv(allow_lists[k], write_sequence, store)
    /\ \A k \in Keys : PartialInv(partials[k], write_sequence, store)

ConsistencyInv == TypeOK /\ WriterInv /\ ReaderInv

\* Nothing stamped with an even number is disturbed by a writer: either the
\* stamp is out of date, or the store has not changed.
LEMMA StampsSurviveWrites ==
    ASSUME TypeOK, WriterInv, NEW w \in Writers, WriterStep(w),
           NEW stamp \in Nat, Even(stamp), stamp <= write_sequence
    PROVE  /\ stamp <= write_sequence'
           /\ stamp = write_sequence' => stamp = write_sequence /\ store' = store
<1>1. write_sequence \in Nat
  BY DEF TypeOK, StoreTypeOK
<1>2. CASE Commit(w)
  <2>1. ~Even(write_sequence) /\ write_sequence' = write_sequence
    BY <1>2 DEF Commit, WriterInv, GuardAlive
  <2>2. QED
    BY <2>1
<1>3. CASE BeginGuard(w) \/ RemoveFails(w) \/ DropGuard(w)
  BY <1>1, <1>3 DEF BeginGuard, RemoveFails, DropGuard
<1>4. CASE UNCHANGED <<store, write_sequence>>
  BY <1>4
<1>5. QED
  BY <1>2, <1>3, <1>4 DEF WriterStep, StartUpsert, StartDelete, FailBeforeTransaction,
     StartTransaction, DeleteAbsent, LookupFails, CommitFails, Rollback

\* The sequence is odd exactly while a guard is alive.
LEMMA WriterInvStep ==
    ASSUME TypeOK, WriterInv, OneGuardAtATime', NEW w \in Writers, WriterStep(w)
    PROVE  WriterInv'
<1> DEFINE alive == {v \in Writers : GuardAlive(v)}
<1>1. write_sequence \in Nat /\ wpc \in [Writers -> WriterStates]
  BY DEF TypeOK, StoreTypeOK
<1>2. CASE BeginGuard(w)
  <2>1. \A v \in Writers : ~GuardAlive(v)
    BY <1>1, <1>2 DEF BeginGuard, Goto, OneGuardAtATime, GuardAlive
  <2>2. Even(write_sequence)
    BY <2>1 DEF WriterInv
  <2>3. ~Even(write_sequence')
    BY <1>1, <1>2, <2>2 DEF BeginGuard, Even
  <2>4. GuardAlive(w)'
    BY <1>1, <1>2 DEF BeginGuard, Goto, GuardAlive
  <2>5. QED
    BY <2>3, <2>4 DEF WriterInv
<1>3. CASE RemoveFails(w) \/ DropGuard(w)
  <2>1. GuardAlive(w) /\ ~GuardAlive(w)'
    BY <1>1, <1>3 DEF RemoveFails, DropGuard, Goto, Return, GuardAlive
  <2>2. \A v \in Writers : ~GuardAlive(v)'
    BY <1>1, <1>3, <2>1 DEF RemoveFails, DropGuard, Goto, Return, GuardAlive,
       WriterInv, OneGuardAtATime
  <2>3. ~Even(write_sequence)
    BY <2>1 DEF WriterInv
  <2>4. Even(write_sequence')
    BY <1>1, <1>3, <2>3 DEF RemoveFails, DropGuard, Even
  <2>5. QED
    BY <2>2, <2>4 DEF WriterInv
<1>4. ASSUME write_sequence' = write_sequence,
             \A v \in Writers : GuardAlive(v)' <=> GuardAlive(v)
      PROVE  WriterInv'
  BY <1>4 DEF WriterInv, Even
<1>5. CASE Commit(w) \/ CommitFails(w)
  BY <1>1, <1>4, <1>5 DEF Commit, CommitFails, Goto, GuardAlive
<1>6. CASE FailBeforeTransaction(w) \/ StartTransaction(w) \/ DeleteAbsent(w) \/ LookupFails(w) \/ Rollback(w)
  BY <1>1, <1>4, <1>6 DEF FailBeforeTransaction, StartTransaction, DeleteAbsent, LookupFails, Rollback,
     Goto, Return, GuardAlive
<1>7. CASE \/ \E n \in Nodes, c \in Catalogs : StartUpsert(w, n, c)
           \/ \E n \in Nodes : StartDelete(w, n)
  BY <1>1, <1>4, <1>7 DEF StartUpsert, StartDelete, Goto, GuardAlive
<1>8. QED
  BY <1>2, <1>3, <1>5, <1>6, <1>7 DEF WriterStep

\* A writer's step keeps what the readers rely on.
LEMMA WriterKeepsReaderInv ==
    ASSUME ConsistencyInv, NEW w \in Writers, WriterStep(w), UNCHANGED queryVars
    PROVE  ReaderInv'
<1> USE DEF ConsistencyInv
<1>1. call' = call /\ allow_lists' = allow_lists /\ partials' = partials
  BY DEF queryVars
<1>2. ASSUME NEW stamp \in Nat, Even(stamp), stamp <= write_sequence
      PROVE  /\ stamp <= write_sequence'
             /\ stamp = write_sequence' => stamp = write_sequence /\ store' = store
  BY <1>2, StampsSurviveWrites
<1>3. ASSUME NEW r \in Readers
      PROVE  CallInv(call[r], write_sequence', store')
  <2>1. CallInv(call[r], write_sequence, store) /\ call[r].before \in Nat
    BY DEF ReaderInv, TypeOK, QueryTypeOK, Call
  <2>2. QED
    BY <1>2, <2>1 DEF CallInv
<1>4. ASSUME NEW k \in Keys
      PROVE  EntryInv(allow_lists[k], write_sequence', store')
  <2>1. /\ EntryInv(allow_lists[k], write_sequence, store)
        /\ allow_lists[k] # NoEntry => allow_lists[k].seq \in Nat
    BY DEF ReaderInv, TypeOK, QueryTypeOK, CachedAllowList
  <2>2. QED
    BY <1>2, <2>1 DEF EntryInv
<1>5. ASSUME NEW k \in Keys
      PROVE  PartialInv(partials[k], write_sequence', store')
  <2>1. /\ PartialInv(partials[k], write_sequence, store)
        /\ partials[k] # NoEntry => partials[k].seq \in Nat
    BY DEF ReaderInv, TypeOK, QueryTypeOK, PartialAllowList
  <2>2. QED
    BY <1>2, <2>1 DEF PartialInv
<1>6. QED
  BY <1>1, <1>3, <1>4, <1>5 DEF ReaderInv

\* Replacing one call's locals, the maps unchanged.
LEMMA LocalKeepsReaderInv ==
    ASSUME ReaderInv, NEW r \in Readers, NEW d,
           CallInv(d, write_sequence, store), Local(r, d), call \in [Readers -> Call],
           UNCHANGED storeVars
    PROVE  \A q \in Readers : CallInv(call'[q], write_sequence', store')
BY DEF ReaderInv, Local, storeVars

\* An idle call owes nothing.
LEMMA IdleCallInv == CallInv(IdleCall, write_sequence, store)
BY DEF CallInv, IdleCall, Stamped

\* What a cancelled build keeps is sound for the sequence it is stamped with.
LEMMA KeepPartialInv ==
    ASSUME ReaderInv, TypeOK, NEW r \in Readers,
           call[r].pc \in {"decode", "decided"}, keep_partial(call[r]),
           UNCHANGED storeVars
    PROVE  \A k \in Keys : PartialInv(partials'[k], write_sequence', store')
<1> DEFINE c == call[r]
           e == [seq |-> c.before, started |-> c.started, list |-> c.list]
<1>1. PICK dropped : partials' = Inserted(partials, dropped, c.key, e)
  BY DEF keep_partial
<1>2. PartialInv(e, write_sequence, store)
  BY DEF ReaderInv, CallInv, PartialInv, Stamped
<1>3. PartialInv(NoEntry, write_sequence, store)
  BY DEF PartialInv
<1>4. QED
  BY <1>1, <1>2, <1>3 DEF Inserted, ReaderInv, storeVars

\* A step of a call keeps what every reader relies on.
LEMMA CallKeepsReaderInv ==
    ASSUME ConsistencyInv, NEW r \in Readers, CallStep(r), UNCHANGED storeVars
    PROVE  ReaderInv'
<1> DEFINE c == call[r]
<1>c. /\ c \in Call /\ Shaped(c) /\ CallInv(c, write_sequence, store)
      /\ call \in [Readers -> Call] /\ TypeOK /\ ReaderInv
      /\ write_sequence \in Nat /\ store \in [Nodes -> Content]
  BY DEF ConsistencyInv, TypeOK, QueryTypeOK, StoreTypeOK, ReaderInv
<1>s. store' = store /\ write_sequence' = write_sequence
  BY DEF storeVars
<1>u. ASSUME NEW d, CallInv(d, write_sequence, store), Local(r, d),
             UNCHANGED <<allow_lists, partials>>
      PROVE  ReaderInv'
  BY <1>u, <1>c, <1>s, LocalKeepsReaderInv DEF ReaderInv
<1>f. ASSUME NEW kind, Fail(r, kind), UNCHANGED <<allow_lists, partials>>
      PROVE  ReaderInv'
  BY <1>f, <1>u, IdleCallInv DEF Fail
<1>k. ASSUME c.pc \in {"decode", "decided"}, keep_partial(c),
             Fail(r, "cancelled"), UNCHANGED allow_lists
      PROVE  ReaderInv'
  <2>1. \A k \in Keys : PartialInv(partials'[k], write_sequence', store')
    BY <1>k, <1>c, KeepPartialInv
  <2>2. \A q \in Readers : CallInv(call'[q], write_sequence', store')
    BY <1>k, <1>c, IdleCallInv, LocalKeepsReaderInv DEF Fail
  <2>3. QED
    BY <1>k, <1>c, <1>s, <2>1, <2>2 DEF ReaderInv
<1>1. CASE StartAttempt(r)
  <2> DEFINE d == [c EXCEPT !.pc = "wait", !.attempt = c.attempt + 1]
  <2>1. c.pc = "attempt"
    BY <1>1 DEF StartAttempt
  <2>2. d.pc = "wait" /\ d.reads = c.reads
    BY <1>c DEF Call
  <2>3. CallInv(d, write_sequence, store)
    BY <1>c, <2>1, <2>2 DEF CallInv, Stamped
  <2>4. QED
    BY <1>1, <2>3, <1>u, <1>f DEF StartAttempt
<1>2. CASE LoadSequence(r)
  <2>1. c.pc = "wait" /\ c.reads = NoReads
    BY <1>2, <1>c DEF LoadSequence, CallInv
  <2>2. CASE Even(write_sequence)
    <3> DEFINE d == [c EXCEPT !.pc = "cached", !.before = write_sequence]
    <3>1. d.pc = "cached" /\ d.reads = NoReads /\ d.before = write_sequence
      BY <1>c, <2>1 DEF Call
    <3>2. CallInv(d, write_sequence, store)
      BY <1>c, <2>2, <3>1 DEF CallInv, Stamped, NoReads
    <3>3. QED
      BY <1>2, <2>2, <3>2, <1>u DEF LoadSequence
  <2>3. ASSUME NEW t, Local(r, [c EXCEPT !.waited = t])
        PROVE  ReaderInv'
    <3> DEFINE d == [c EXCEPT !.waited = t]
    <3>1. d.pc = "wait" /\ d.reads = NoReads
      BY <1>c, <2>1 DEF Call
    <3>2. CallInv(d, write_sequence, store)
      BY <3>1 DEF CallInv, Stamped
    <3>3. QED
      BY <1>2, <2>3, <3>2, <1>u DEF LoadSequence
  <2>4. QED
    BY <1>2, <2>2, <2>3, <1>f DEF LoadSequence
<1>3. CASE LookupCache(r)
  <2> DEFINE entry == allow_lists[c.key]
  <2>1. c.pc = "cached" /\ c.key \in Keys /\ EntryInv(entry, write_sequence, store)
    BY <1>3, <1>c DEF LookupCache, Shaped, ReaderInv
  <2>2. CASE Usable(entry, c.before)
    <3> DEFINE d == [c EXCEPT !.pc = "query", !.list = entry.list]
    <3>1. /\ d.pc = "query" /\ d.list = entry.list /\ d.before = c.before
          /\ d.reads = c.reads
      BY <1>c DEF Call
    <3>2. CallInv(d, write_sequence, store)
      BY <1>c, <2>1, <2>2, <3>1 DEF CallInv, Stamped, EntryInv, Usable
    <3>3. QED
      BY <1>3, <2>2, <3>2, <1>u DEF LookupCache
  <2>3. CASE ~Usable(entry, c.before)
    <3> DEFINE d == [c EXCEPT !.pc = "scan"]
    <3>1. d.pc = "scan" /\ d.before = c.before /\ d.reads = c.reads
      BY <1>c DEF Call
    <3>2. CallInv(d, write_sequence, store)
      BY <1>c, <2>1, <3>1 DEF CallInv, Stamped
    <3>3. QED
      BY <1>3, <2>3, <3>2, <1>u DEF LookupCache
  <2>4. QED
    BY <2>2, <2>3
<1>4. CASE Scan(r)
  <2> DEFINE d == [c EXCEPT !.pc = "resume", !.snap = store]
  <2>1. /\ c.pc = "scan" /\ d.pc = "resume" /\ d.before = c.before
        /\ d.reads = c.reads /\ d.snap = store
    BY <1>4, <1>c DEF Scan, Call
  <2>2. CallInv(d, write_sequence, store)
    BY <1>c, <2>1 DEF CallInv, Stamped
  <2>3. QED
    BY <1>4, <2>2, <1>u, <1>f DEF Scan
<1>5. CASE Resume(r)
  <2> DEFINE p == partials[c.key]
             taken == FreshPartial(p) /\ p.seq = c.before
             d == IF taken THEN [c EXCEPT !.pc = "decode", !.list = p.list,
                                          !.started = p.started]
                  ELSE [c EXCEPT !.pc = "decode", !.list = NoList, !.started = now]
  <2>1. c.pc = "resume" /\ c.key \in Keys /\ PartialInv(p, write_sequence, store)
    BY <1>5, <1>c DEF Resume, Shaped, ReaderInv
  <2>2. /\ d.pc = "decode" /\ d.before = c.before /\ d.reads = c.reads
        /\ d.snap = c.snap /\ d.list = IF taken THEN p.list ELSE NoList
    BY <1>c DEF Call
  <2>3. c.before = write_sequence => Sound(d.list, store)
    BY <2>1, <2>2 DEF PartialInv, FreshPartial, Sound, NoList
  <2>4. CallInv(d, write_sequence, store)
    BY <1>c, <2>1, <2>2, <2>3 DEF CallInv, Stamped
  <2>5. Local(r, d)
    BY <1>5 DEF Resume
  <2>6. PartialInv(NoEntry, write_sequence, store)
    BY DEF PartialInv
  <2>7. \A k \in Keys : PartialInv(partials'[k], write_sequence, store)
    BY <1>5, <1>c, <2>6 DEF Resume, ReaderInv, TypeOK, QueryTypeOK
  <2>8. QED
    BY <1>5, <1>c, <1>s, <2>4, <2>5, <2>7, LocalKeepsReaderInv DEF Resume, ReaderInv
<1>6. CASE StopBuilding(r)
  BY <1>6, <1>k DEF StopBuilding
<1>7. CASE \E n \in Nodes : Decide(r, n)
  <2> PICK n \in Nodes : Decide(r, n)
    BY <1>7
  <2> DEFINE d == [c EXCEPT !.pc = "decided",
                            !.pending = [node |-> n, at |-> now, whole |-> TRUE]]
  <2>1. /\ c.pc = "decode" /\ d.pc = "decided" /\ d.before = c.before
        /\ d.reads = c.reads /\ d.snap = c.snap /\ d.list = c.list
    BY <1>c DEF Decide, Call
  <2>2. CallInv(d, write_sequence, store)
    BY <1>c, <2>1 DEF CallInv, Stamped
  <2>3. QED
    BY <2>2, <1>u DEF Decide
<1>8. CASE TruncateCallback(r)
  <2> DEFINE d == [c EXCEPT !.pending = [c.pending EXCEPT !.whole = FALSE]]
  <2>1. /\ d.pc = c.pc /\ d.before = c.before
        /\ d.reads = c.reads /\ d.snap = c.snap /\ d.list = c.list
    BY <1>c DEF Call
  <2>2. CallInv(d, write_sequence, store)
    BY <1>c, <2>1 DEF CallInv
  <2>3. QED
    BY <1>8, <2>2, <1>u DEF TruncateCallback
<1>9. CASE Recheck(r)
  <2> DEFINE p == c.pending
             x == [cat |-> c.snap[p.node], at |-> p.at, whole |-> p.whole]
             l == [c.list EXCEPT ![p.node] = x]
             d == [c EXCEPT !.pc = "decode", !.pending = NoPending, !.list = l]
  <2>1. c.pc = "decided" /\ p \in Pending /\ c.snap[p.node] \in Catalogs
    BY <1>9, <1>c DEF Recheck, Shaped
  <2>2. CASE ~c.cancelled
    <3>1. /\ d.pc = "decode" /\ d.before = c.before /\ d.reads = c.reads
          /\ d.snap = c.snap /\ d.list = l
      BY <1>c DEF Call
    <3>2. c.before = write_sequence => Sound(c.list, store) /\ c.snap = store
      BY <1>c, <2>1 DEF CallInv, Stamped
    <3>3. /\ c.list \in List /\ x.cat = c.snap[p.node] /\ p.node \in Nodes
          /\ c.snap[p.node] # NoCatalog
      BY <1>c, <2>1, CatalogStoreAssumption DEF Call, Pending
    <3>4. c.before = write_sequence => Sound(l, store)
      BY <3>2, <3>3 DEF Sound, List
    <3>5. CallInv(d, write_sequence, store)
      BY <1>c, <2>1, <3>1, <3>4 DEF CallInv, Stamped
    <3>6. Local(r, d)
      BY <1>9, <1>c, <2>2 DEF Recheck, Local, Call
    <3>7. QED
      BY <1>9, <2>2, <3>5, <3>6, <1>u DEF Recheck
  <2>3. QED
    BY <1>9, <2>1, <2>2, <1>k DEF Recheck
<1>10. CASE BuildDone(r)
  <2> DEFINE d == [c EXCEPT !.pc = "remember", !.snap = NoSnap, !.started = 0]
  <2>1. c.pc = "decode" /\ Remaining(c) = {}
    BY <1>10 DEF BuildDone
  <2>2. /\ d.pc = "remember" /\ d.before = c.before /\ d.reads = c.reads
        /\ d.list = c.list
    BY <1>c DEF Call
  <2>3. c.before = write_sequence => Sound(c.list, store) /\ c.snap = store
    BY <1>c, <2>1 DEF CallInv, Stamped
  <2>4. c.before = write_sequence => Covers(c.list, store)
    BY <2>1, <2>3 DEF Sound, Covers, Remaining
  <2>5. CallInv(d, write_sequence, store)
    BY <1>c, <2>1, <2>2, <2>4 DEF CallInv, Stamped
  <2>6. QED
    BY <1>10, <2>5, <1>u DEF BuildDone
<1>11. CASE CheckUnchanged(r)
  <2>1. ASSUME NEW l \in {"insert", "query"}
        PROVE  CallInv([c EXCEPT !.pc = l], write_sequence, store)
    <3> DEFINE d == [c EXCEPT !.pc = l]
    <3>1. /\ c.pc = "remember" /\ d.pc = l /\ d.before = c.before
          /\ d.reads = c.reads /\ d.list = c.list
      BY <1>11, <1>c DEF CheckUnchanged, Call
    <3>2. QED
      BY <1>c, <3>1 DEF CallInv, Stamped
  <2>2. QED
    BY <1>11, <2>1, <1>u DEF CheckUnchanged
<1>12. CASE Remember(r)
  <2> DEFINE d == [c EXCEPT !.pc = "query"]
             e == [seq |-> c.before, built |-> now, list |-> c.list]
  <2>1. /\ c.pc = "insert" /\ d.pc = "query" /\ d.before = c.before
        /\ d.reads = c.reads /\ d.list = c.list
    BY <1>12, <1>c DEF Remember, Call
  <2>2. CallInv(d, write_sequence, store)
    BY <1>c, <2>1 DEF CallInv, Stamped
  <2>3. EntryInv(e, write_sequence, store)
    BY <1>c, <2>1 DEF CallInv, Stamped, EntryInv
  <2>4. EntryInv(NoEntry, write_sequence, store)
    BY DEF EntryInv
  <2>5. PICK dropped : allow_lists' = Inserted(allow_lists, dropped, c.key, e)
    BY <1>12 DEF Remember, remember_allow_list
  <2>6. \A k \in Keys : EntryInv(allow_lists'[k], write_sequence, store)
    BY <1>c, <2>3, <2>4, <2>5 DEF Inserted, ReaderInv
  <2>7. QED
    BY <1>12, <1>c, <1>s, <2>2, <2>6, LocalKeepsReaderInv DEF Remember, ReaderInv
<1>13. CASE \E n \in Nodes : Lookup(r, n)
  <2> PICK n \in Nodes : Lookup(r, n)
    BY <1>13
  <2> DEFINE d == [c EXCEPT !.reads = [c.reads EXCEPT ![n] = store[n]]]
  <2>1. /\ c.pc = "query" /\ d.pc = "query" /\ d.before = c.before
        /\ d.reads = [c.reads EXCEPT ![n] = store[n]] /\ d.list = c.list
        /\ c.reads \in Reads
    BY <1>c DEF Lookup, Call
  <2>2. CallInv(d, write_sequence, store)
    BY <1>c, <2>1 DEF CallInv, Stamped, Reads
  <2>3. QED
    BY <2>2, <1>u DEF Lookup
<1>14. CASE EvaluationEnds(r)
  <2>1. PICK f : Local(r, [c EXCEPT !.pc = "validate", !.failed = f])
    BY <1>14 DEF EvaluationEnds
  <2> DEFINE d == [c EXCEPT !.pc = "validate", !.failed = f]
  <2>2. /\ c.pc = "query" /\ d.pc = "validate" /\ d.before = c.before
        /\ d.reads = c.reads /\ d.list = c.list
    BY <1>14, <1>c DEF EvaluationEnds, Call
  <2>3. CallInv(d, write_sequence, store)
    BY <1>c, <2>2 DEF CallInv, Stamped
  <2>4. QED
    BY <1>14, <2>1, <2>3, <1>u DEF EvaluationEnds
<1>15. CASE Validate(r)
  <2> DEFINE d == [IdleCall EXCEPT !.pc = "attempt", !.key = c.key,
                                   !.attempt = c.attempt]
  <2>1. d.pc = "attempt" /\ d.reads = NoReads
    BY DEF IdleCall
  <2>2. CallInv(d, write_sequence, store)
    BY <2>1 DEF CallInv, Stamped
  <2>3. QED
    BY <1>15, <2>2, <1>u, <1>f, IdleCallInv DEF Validate
<1>16. QED
  BY <1>1, <1>2, <1>3, <1>4, <1>5, <1>6, <1>7, <1>8, <1>9, <1>10, <1>11,
     <1>12, <1>13, <1>14, <1>15 DEF CallStep

\* With one guard at a time ConsistencyInv is inductive.
LEMMA ConsistencyStep ==
    ConsistencyInv /\ [Next /\ OneGuardAtATime']_vars => ConsistencyInv'
<1> SUFFICES ASSUME ConsistencyInv, [Next /\ OneGuardAtATime']_vars
             PROVE  ConsistencyInv'
  OBVIOUS
<1>t. TypeOK /\ TypeOK'
  BY TypeStep DEF ConsistencyInv
<1>w. UNCHANGED storeVars => WriterInv'
  BY DEF ConsistencyInv, WriterInv, OneGuardAtATime, GuardAlive, Even, storeVars
<1>1. ASSUME NEW w \in Writers, WriterStep(w), UNCHANGED queryVars, OneGuardAtATime'
      PROVE  ConsistencyInv'
  BY <1>1, <1>t, WriterInvStep, WriterKeepsReaderInv DEF ConsistencyInv
<1>2. ASSUME NEW r \in Readers, NEW k \in Keys, Begin(r, k), UNCHANGED storeVars
      PROVE  ReaderInv'
  <2> DEFINE d == [IdleCall EXCEPT !.pc = "attempt", !.key = k]
  <2>1. d.pc = "attempt" /\ d.reads = NoReads
    BY DEF IdleCall
  <2>2. CallInv(d, write_sequence, store)
    BY <2>1 DEF CallInv, Stamped
  <2>3. \A q \in Readers : CallInv(call'[q], write_sequence', store')
    BY <1>2, <1>t, <2>2, LocalKeepsReaderInv
       DEF Begin, ConsistencyInv, TypeOK, QueryTypeOK
  <2>4. QED
    BY <1>2, <2>3 DEF Begin, ConsistencyInv, ReaderInv, storeVars
<1>3. ASSUME NEW r \in Readers, Cancel(r), UNCHANGED storeVars
      PROVE  ReaderInv'
  <2> DEFINE c == call[r]
             d == [c EXCEPT !.cancelled = TRUE]
  <2>1. c \in Call /\ CallInv(c, write_sequence, store)
    BY <1>t DEF TypeOK, QueryTypeOK, ConsistencyInv, ReaderInv
  <2>2. /\ d.pc = c.pc /\ d.before = c.before /\ d.reads = c.reads
        /\ d.snap = c.snap /\ d.list = c.list
    BY <2>1 DEF Call
  <2>3. CallInv(d, write_sequence, store)
    BY <2>1, <2>2 DEF CallInv
  <2>4. \A q \in Readers : CallInv(call'[q], write_sequence', store')
    BY <1>3, <1>t, <2>3, LocalKeepsReaderInv
       DEF Cancel, ConsistencyInv, TypeOK, QueryTypeOK
  <2>5. QED
    BY <1>3, <2>4 DEF Cancel, ConsistencyInv, ReaderInv, storeVars
<1>4. ASSUME UNCHANGED <<allow_lists, partials, call>>, UNCHANGED storeVars
      PROVE  ReaderInv'
  BY <1>4 DEF ConsistencyInv, ReaderInv, storeVars
<1>5. CASE UNCHANGED vars
  BY <1>5, <1>4, <1>t, <1>w DEF vars, queryVars, ConsistencyInv
<1>6. CASE Tick /\ UNCHANGED storeVars
  BY <1>6, <1>4, <1>t, <1>w DEF Tick, ConsistencyInv
<1>7. QED
  BY <1>1, <1>2, <1>3, <1>5, <1>6, <1>t, <1>w, CallKeepsReaderInv
     DEF Next, ConsistencyInv

\* Nothing is stamped or kept initially.
LEMMA ConsistencyInit == Init => ConsistencyInv
<1> SUFFICES ASSUME Init PROVE ConsistencyInv
  OBVIOUS
<1>1. WriterInv
  BY DEF Init, StoreInit, WriterInv, OneGuardAtATime, GuardAlive, Even
<1>2. ReaderInv
  BY IdleCallInv DEF Init, QueryInit, ReaderInv, EntryInv, PartialInv
<1>3. QED
  BY <1>1, <1>2, TypeInit DEF ConsistencyInv

\* The stamps' invariant holds throughout when writes do not overlap.
THEOREM SerialConsistency == SerialSpec => []ConsistencyInv
BY ConsistencyInit, ConsistencyStep, PTL DEF SerialSpec

\* An attempt whose sequence is unchanged at the end made all its lookups, and
\* took all its decisions, in the one store state that is current.
THEOREM SerialReadsOneState == SerialSpec => []SameSequenceSameState
<1>1. ConsistencyInv => SameSequenceSameState
  <2> SUFFICES ASSUME ConsistencyInv, NEW r \in Readers, call[r].pc = "validate",
                      write_sequence = call[r].before
               PROVE  ReadsOneState(call[r])
    BY DEF SameSequenceSameState
  <2>1. CallInv(call[r], write_sequence, store)
    BY DEF ConsistencyInv, ReaderInv
  <2>2. QED
    BY <2>1 DEF CallInv, Stamped, ReadsOneState
<1>2. QED
  BY <1>1, SerialConsistency, PTL

\* A cached list with the current stamp decides exactly the current catalogs.
THEOREM SerialCachedLists == SerialSpec => []CachedListsMatchStore
<1>1. ConsistencyInv => CachedListsMatchStore
  BY DEF ConsistencyInv, ReaderInv, EntryInv, CachedListsMatchStore
<1>2. QED
  BY <1>1, SerialConsistency, PTL

-----------------------------------------------------------------------------
(* The optimistic query implements the atomic one. *)

\* A failing call is a failed atomic query.
LEMMA FailIsAtomic ==
    ASSUME NEW r \in Readers, NEW kind \in {"none", "error", "cancelled", "busy"},
           Fail(r, kind), UNCHANGED store
    PROVE  Atomic!Next
<1>1. [NoAnswer EXCEPT !.kind = kind]
        = [kind |-> kind, reads |-> NoReads, list |-> NoList]
  BY DEF NoAnswer
<1>2. NoReads = Atomic!NoRead /\ NoList = Atomic!Nothing
  BY DEF NoReads, NoList, Atomic!NoRead, Atomic!Nothing
<1>3. Atomic!Answered(r)
  BY <1>1, <1>2 DEF Fail, Atomic!Answered
<1>4. QED
  BY <1>3 DEF Atomic!Next

\* A commit replaces one catalog; no other writer step shows.
LEMMA WriterIsAtomic ==
    ASSUME TypeOK, NEW w \in Writers, WriterStep(w), UNCHANGED queryVars
    PROVE  Atomic!Next \/ UNCHANGED <<store, answer>>
<1>1. CASE Commit(w)
  <2>1. job[w] \in Job
    BY <1>1 DEF Commit, TypeOK, StoreTypeOK
  <2>2. Atomic!Replace(job[w].node)
    BY <1>1, <2>1 DEF Commit, Job, Content, Atomic!Replace, queryVars
  <2>3. QED
    BY <2>1, <2>2 DEF Job, Atomic!Next
<1>2. CASE UNCHANGED store
  BY <1>2 DEF queryVars
<1>3. QED
  BY <1>1, <1>2 DEF WriterStep, StartUpsert, StartDelete, FailBeforeTransaction,
     StartTransaction, DeleteAbsent, LookupFails, BeginGuard, CommitFails, RemoveFails,
     Rollback, DropGuard

\* A call's step answers atomically or does not show.
LEMMA CallIsAtomic ==
    ASSUME ConsistencyInv, NEW r \in Readers, CallStep(r), UNCHANGED storeVars
    PROVE  Atomic!Next \/ UNCHANGED <<store, answer>>
<1> DEFINE c == call[r]
<1>s. UNCHANGED store /\ c \in Call /\ answer \in [Readers -> Answer]
  BY DEF storeVars, ConsistencyInv, TypeOK, QueryTypeOK
<1>1. CASE Validate(r)
  <2>1. CASE write_sequence = c.before /\ c.failed = "no"
    <3> DEFINE a == [kind |-> "ok", reads |-> c.reads, list |-> c.list]
    <3>1. answer' = [answer EXCEPT ![r] = a] /\ answer'[r] = a
      BY <1>1, <1>s, <2>1 DEF Validate
    <3>2. CallInv(c, write_sequence, store) /\ c.pc = "validate"
      BY <1>1 DEF ConsistencyInv, ReaderInv, Validate
    <3>3. /\ \A n \in Nodes : c.reads[n] \in {Unread, store[n]}
          /\ Covers(c.list, store)
      BY <2>1, <3>2 DEF CallInv, Stamped
    <3>4. Atomic!FromOneState(a)
      BY <3>3 DEF Covers, Atomic!FromOneState
    <3>5. Atomic!Answered(r)
      BY <1>s, <3>1, <3>4 DEF Atomic!Answered
    <3>6. QED
      BY <3>5 DEF Atomic!Next
  <2>2. CASE write_sequence = c.before /\ c.failed # "no"
    <3>1. c.failed \in {"error", "cancelled"}
      BY <1>s, <2>2 DEF Call
    <3>2. QED
      BY <1>1, <1>s, <2>2, <3>1, FailIsAtomic DEF Validate
  <2>3. QED
    BY <1>1, <1>s, <2>1, <2>2, FailIsAtomic DEF Validate
<1>2. CASE UNCHANGED answer
  BY <1>2, <1>s
<1>3. CASE \E kind \in {"error", "cancelled", "busy"} : Fail(r, kind)
  BY <1>3, <1>s, FailIsAtomic
<1>4. QED
  BY <1>1, <1>2, <1>3 DEF CallStep, StartAttempt, LoadSequence, LookupCache, Scan,
     Resume, StopBuilding, Decide, TruncateCallback, Recheck, BuildDone,
     CheckUnchanged, Remember, Lookup, EvaluationEnds

\* When writes do not overlap, the optimistic query (retries, caches, resumed
\* builds and cancellations included) implements a query that reads the store
\* once, atomically, at the moment it returns.
THEOREM SerialAnswersAreAtomic == SerialSpec => AnswersAreAtomic
<1>1. Init => Atomic!Init
  BY DEF Init, StoreInit, QueryInit, NoAnswer, NoReads, NoList, Atomic!Init,
     Atomic!NoRead, Atomic!Nothing
<1>2. ConsistencyInv /\ [Next /\ OneGuardAtATime']_vars => [Atomic!Next]_(Atomic!vars)
  <2> SUFFICES ASSUME ConsistencyInv, [Next]_vars
               PROVE  Atomic!Next \/ UNCHANGED <<store, answer>>
    BY DEF Atomic!vars
  <2>1. ASSUME NEW w \in Writers, WriterStep(w), UNCHANGED queryVars
        PROVE  Atomic!Next \/ UNCHANGED <<store, answer>>
    BY <2>1, WriterIsAtomic DEF ConsistencyInv
  <2>2. ASSUME NEW r \in Readers, NEW k \in Keys, Begin(r, k), UNCHANGED storeVars
        PROVE  Atomic!Next
    <3>1. Atomic!Answered(r)
      BY <2>2 DEF Begin, NoAnswer, NoReads, NoList, Atomic!Answered, Atomic!NoRead,
         Atomic!Nothing, storeVars
    <3>2. QED
      BY <3>1 DEF Atomic!Next
  <2>3. ASSUME NEW r \in Readers, Cancel(r), UNCHANGED storeVars
        PROVE  UNCHANGED <<store, answer>>
    BY <2>3 DEF Cancel, storeVars
  <2>4. CASE Tick /\ UNCHANGED storeVars
    BY <2>4 DEF Tick, storeVars
  <2>5. CASE UNCHANGED vars
    BY <2>5 DEF vars, storeVars, queryVars
  <2>6. QED
    BY <2>1, <2>2, <2>3, <2>4, <2>5, CallIsAtomic DEF Next
<1>3. QED
  BY <1>1, <1>2, SerialConsistency, PTL
     DEF SerialSpec, AnswersAreAtomic, Atomic!Spec

-----------------------------------------------------------------------------
(* What is kept of a build, whether or not writes overlap. *)

\* No decision of the list was taken before t.
Since(list, t) == \A n \in Nodes : list[n] # Undecided => t <= list[n].at

CallKept(c, t) ==
    /\ Complete(c.list)
    /\ c.pc \in {"decode", "decided"} => c.started <= t /\ Since(c.list, c.started)
    /\ c.pc = "decided" => /\ c.started <= c.pending.at
                           /\ c.pending.whole \/ c.cancelled

EntryKept(e) == e # NoEntry => Complete(e.list)

PartialKept(p, t) ==
    p # NoEntry => Complete(p.list) /\ p.started <= t /\ Since(p.list, p.started)

KeptInv ==
    /\ \A r \in Readers : CallKept(call[r], now)
    /\ \A k \in Keys : EntryKept(allow_lists[k])
    /\ \A k \in Keys : PartialKept(partials[k], now)

\* An idle call has decided nothing.
LEMMA IdleCallKept ==
    ASSUME NEW t
    PROVE  CallKept(IdleCall, t) /\ EntryKept(NoEntry) /\ PartialKept(NoEntry, t)
BY DEF CallKept, Complete, IdleCall, NoList, EntryKept, PartialKept

\* One call's step keeps only whole decisions, none older than its build.
LEMMA CallKeepsKept ==
    ASSUME TypeOK, KeptInv, NEW r \in Readers, CallStep(r)
    PROVE  KeptInv'
<1> DEFINE c == call[r]
<1>c. /\ c \in Call /\ Shaped(c) /\ CallKept(c, now) /\ now \in Nat
      /\ call \in [Readers -> Call]
  BY DEF TypeOK, QueryTypeOK, KeptInv
<1>d. ASSUME NEW d, CallKept(d, now), Local(r, d), UNCHANGED now
      PROVE  \A q \in Readers : CallKept(call'[q], now')
  BY <1>d, <1>c DEF Local, KeptInv
<1>u. ASSUME NEW d, CallKept(d, now), Local(r, d),
             UNCHANGED <<now, allow_lists, partials>>
      PROVE  KeptInv'
  BY <1>u, <1>d DEF KeptInv
<1>f. ASSUME NEW kind, Fail(r, kind), UNCHANGED <<now, allow_lists, partials>>
      PROVE  KeptInv'
  BY <1>f, <1>u, IdleCallKept DEF Fail
<1>k. ASSUME c.pc \in {"decode", "decided"}, keep_partial(c),
             Fail(r, "cancelled"), UNCHANGED <<now, allow_lists>>
      PROVE  KeptInv'
  <2> DEFINE e == [seq |-> c.before, started |-> c.started, list |-> c.list]
  <2>1. PICK dropped : partials' = Inserted(partials, dropped, c.key, e)
    BY <1>k DEF keep_partial
  <2>2. PartialKept(e, now)
    BY <1>k, <1>c DEF CallKept, PartialKept
  <2>3. \A k \in Keys : PartialKept(partials'[k], now)
    BY <2>1, <2>2, IdleCallKept DEF Inserted, KeptInv
  <2>4. QED
    BY <1>k, <1>d, <2>3, IdleCallKept DEF Fail, KeptInv
<1>1. CASE StartAttempt(r)
  <2> DEFINE d == [c EXCEPT !.pc = "wait", !.attempt = c.attempt + 1]
  <2>1. d.pc = "wait" /\ d.list = c.list
    BY <1>c DEF Call
  <2>2. CallKept(d, now)
    BY <1>c, <2>1 DEF CallKept
  <2>3. QED
    BY <1>1, <2>2, <1>u, <1>f DEF StartAttempt
<1>2. CASE LoadSequence(r)
  <2>1. c.pc = "wait"
    BY <1>2 DEF LoadSequence
  <2>2. CallKept([c EXCEPT !.pc = "cached", !.before = write_sequence], now)
    <3> DEFINE d == [c EXCEPT !.pc = "cached", !.before = write_sequence]
    <3>1. d.pc = "cached" /\ d.list = c.list
      BY <1>c DEF Call
    <3>2. QED
      BY <1>c, <3>1 DEF CallKept
  <2>3. ASSUME NEW t PROVE CallKept([c EXCEPT !.waited = t], now)
    <3> DEFINE d == [c EXCEPT !.waited = t]
    <3>1. d.pc = "wait" /\ d.list = c.list
      BY <1>c, <2>1 DEF Call
    <3>2. QED
      BY <1>c, <3>1 DEF CallKept
  <2>4. QED
    BY <1>2, <2>2, <2>3, <1>u, <1>f DEF LoadSequence
<1>3. CASE LookupCache(r)
  <2> DEFINE entry == allow_lists[c.key]
  <2>1. c.key \in Keys /\ EntryKept(entry)
    BY <1>3, <1>c DEF LookupCache, Shaped, KeptInv
  <2>2. Usable(entry, c.before)
            => CallKept([c EXCEPT !.pc = "query", !.list = entry.list], now)
    <3> DEFINE d == [c EXCEPT !.pc = "query", !.list = entry.list]
    <3>1. d.pc = "query" /\ d.list = entry.list
      BY <1>c DEF Call
    <3>2. QED
      BY <2>1, <3>1 DEF CallKept, EntryKept, Usable
  <2>3. CallKept([c EXCEPT !.pc = "scan"], now)
    <3> DEFINE d == [c EXCEPT !.pc = "scan"]
    <3>1. d.pc = "scan" /\ d.list = c.list
      BY <1>c DEF Call
    <3>2. QED
      BY <1>c, <3>1 DEF CallKept
  <2>4. QED
    BY <1>3, <2>2, <2>3, <1>u DEF LookupCache
<1>4. CASE Scan(r)
  <2> DEFINE d == [c EXCEPT !.pc = "resume", !.snap = store]
  <2>1. d.pc = "resume" /\ d.list = c.list
    BY <1>c DEF Call
  <2>2. CallKept(d, now)
    BY <1>c, <2>1 DEF CallKept
  <2>3. QED
    BY <1>4, <2>2, <1>u, <1>f DEF Scan
<1>5. CASE Resume(r)
  <2> DEFINE p == partials[c.key]
             taken == FreshPartial(p) /\ p.seq = c.before
             d == IF taken THEN [c EXCEPT !.pc = "decode", !.list = p.list,
                                          !.started = p.started]
                  ELSE [c EXCEPT !.pc = "decode", !.list = NoList, !.started = now]
  <2>1. c.key \in Keys /\ PartialKept(p, now)
    BY <1>5, <1>c DEF Resume, Shaped, KeptInv
  <2>2. /\ d.pc = "decode" /\ d.list = (IF taken THEN p.list ELSE NoList)
        /\ d.started = (IF taken THEN p.started ELSE now)
    BY <1>c DEF Call
  <2>3. CallKept(d, now)
    BY <1>c, <2>1, <2>2
       DEF CallKept, PartialKept, FreshPartial, Complete, Since, NoList
  <2>4. Local(r, d)
    BY <1>5 DEF Resume
  <2>5. \A k \in Keys : PartialKept(partials'[k], now)
    BY <1>5, IdleCallKept DEF Resume, KeptInv, TypeOK, QueryTypeOK
  <2>6. QED
    BY <1>5, <1>d, <2>3, <2>4, <2>5 DEF Resume, KeptInv
<1>6. CASE StopBuilding(r)
  BY <1>6, <1>k DEF StopBuilding
<1>7. CASE \E n \in Nodes : Decide(r, n)
  <2> PICK n \in Nodes : Decide(r, n)
    BY <1>7
  <2> DEFINE x == [node |-> n, at |-> now, whole |-> TRUE]
             d == [c EXCEPT !.pc = "decided", !.pending = x]
  <2>1. /\ c.pc = "decode" /\ d.pc = "decided" /\ d.list = c.list
        /\ d.started = c.started /\ d.pending = x
    BY <1>c DEF Decide, Call
  <2>2. CallKept(d, now)
    BY <1>c, <2>1 DEF CallKept
  <2>3. QED
    BY <2>2, <1>u DEF Decide
<1>8. CASE TruncateCallback(r)
  <2> DEFINE x == [c.pending EXCEPT !.whole = FALSE]
             d == [c EXCEPT !.pending = x]
  <2>1. c.pc = "decided" /\ c.cancelled /\ c.pending \in Pending
    BY <1>8, <1>c DEF TruncateCallback, Shaped
  <2>2. /\ d.pc = "decided" /\ d.list = c.list /\ d.started = c.started
        /\ d.pending = x /\ d.cancelled = c.cancelled /\ x.at = c.pending.at
    BY <1>c, <2>1 DEF Call, Pending
  <2>3. CallKept(d, now)
    BY <1>c, <2>1, <2>2 DEF CallKept
  <2>4. QED
    BY <1>8, <2>3, <1>u DEF TruncateCallback
<1>9. CASE Recheck(r)
  <2> DEFINE p == c.pending
             x == [cat |-> c.snap[p.node], at |-> p.at, whole |-> p.whole]
             l == [c.list EXCEPT ![p.node] = x]
             d == [c EXCEPT !.pc = "decode", !.pending = NoPending, !.list = l]
  <2>1. c.pc = "decided" /\ p \in Pending
    BY <1>9, <1>c DEF Recheck, Shaped
  <2>2. CASE ~c.cancelled
    <3>1. /\ d.pc = "decode" /\ d.list = l /\ d.started = c.started
          /\ c.list \in List /\ p.node \in Nodes
      BY <1>c, <2>1 DEF Call, Pending
    <3>2. x.whole /\ c.started <= x.at
      BY <1>c, <2>1, <2>2 DEF CallKept
    <3>3. Complete(l) /\ Since(l, c.started)
      BY <1>c, <2>1, <3>1, <3>2 DEF CallKept, Complete, Since, List
    <3>4. CallKept(d, now)
      BY <1>c, <2>1, <3>1, <3>3 DEF CallKept
    <3>5. Local(r, d)
      BY <1>9, <1>c, <2>2 DEF Recheck, Local, Call
    <3>6. QED
      BY <1>9, <2>2, <3>4, <3>5, <1>u DEF Recheck
  <2>3. QED
    BY <1>9, <2>1, <2>2, <1>k DEF Recheck
<1>10. CASE BuildDone(r)
  <2> DEFINE d == [c EXCEPT !.pc = "remember", !.snap = NoSnap, !.started = 0]
  <2>1. d.pc = "remember" /\ d.list = c.list
    BY <1>c DEF Call
  <2>2. CallKept(d, now)
    BY <1>c, <2>1 DEF CallKept
  <2>3. QED
    BY <1>10, <2>2, <1>u DEF BuildDone
<1>11. CASE CheckUnchanged(r)
  <2>1. ASSUME NEW l \in {"insert", "query"}
        PROVE  CallKept([c EXCEPT !.pc = l], now)
    <3> DEFINE d == [c EXCEPT !.pc = l]
    <3>1. d.pc = l /\ d.list = c.list
      BY <1>c DEF Call
    <3>2. QED
      BY <1>c, <3>1 DEF CallKept
  <2>2. QED
    BY <1>11, <2>1, <1>u DEF CheckUnchanged
<1>12. CASE Remember(r)
  <2> DEFINE d == [c EXCEPT !.pc = "query"]
             e == [seq |-> c.before, built |-> now, list |-> c.list]
  <2>1. d.pc = "query" /\ d.list = c.list
    BY <1>c DEF Call
  <2>2. CallKept(d, now) /\ EntryKept(e)
    BY <1>c, <2>1 DEF CallKept, EntryKept
  <2>3. PICK dropped : allow_lists' = Inserted(allow_lists, dropped, c.key, e)
    BY <1>12 DEF Remember, remember_allow_list
  <2>4. \A k \in Keys : EntryKept(allow_lists'[k])
    BY <2>2, <2>3, IdleCallKept DEF Inserted, KeptInv
  <2>5. QED
    BY <1>12, <1>d, <2>2, <2>4 DEF Remember, KeptInv
<1>13. CASE \E n \in Nodes : Lookup(r, n)
  <2> PICK n \in Nodes : Lookup(r, n)
    BY <1>13
  <2> DEFINE d == [c EXCEPT !.reads = [c.reads EXCEPT ![n] = store[n]]]
  <2>1. d.pc = "query" /\ d.list = c.list
    BY <1>c DEF Lookup, Call
  <2>2. CallKept(d, now)
    BY <1>c, <2>1 DEF CallKept
  <2>3. QED
    BY <2>2, <1>u DEF Lookup
<1>14. CASE EvaluationEnds(r)
  <2>1. PICK f : Local(r, [c EXCEPT !.pc = "validate", !.failed = f])
    BY <1>14 DEF EvaluationEnds
  <2> DEFINE d == [c EXCEPT !.pc = "validate", !.failed = f]
  <2>2. d.pc = "validate" /\ d.list = c.list
    BY <1>c DEF Call
  <2>3. CallKept(d, now)
    BY <1>c, <2>2 DEF CallKept
  <2>4. QED
    BY <1>14, <2>1, <2>3, <1>u DEF EvaluationEnds
<1>15. CASE Validate(r)
  <2> DEFINE d == [IdleCall EXCEPT !.pc = "attempt", !.key = c.key,
                                   !.attempt = c.attempt]
  <2>1. d.pc = "attempt" /\ d.list = NoList
    BY DEF IdleCall
  <2>2. CallKept(d, now)
    BY <2>1 DEF CallKept, Complete, NoList
  <2>3. QED
    BY <1>15, <2>2, <1>u, <1>f, IdleCallKept DEF Validate
<1>16. QED
  BY <1>1, <1>2, <1>3, <1>4, <1>5, <1>6, <1>7, <1>8, <1>9, <1>10, <1>11,
     <1>12, <1>13, <1>14, <1>15 DEF CallStep

\* Every step keeps only whole decisions.
LEMMA KeptStep == TypeOK /\ KeptInv /\ [Next]_vars => KeptInv'
<1> SUFFICES ASSUME TypeOK, KeptInv, [Next]_vars PROVE KeptInv'
  OBVIOUS
<1>1. ASSUME UNCHANGED queryVars PROVE KeptInv'
  BY <1>1 DEF queryVars, KeptInv
<1>2. ASSUME NEW r \in Readers, NEW k \in Keys, Begin(r, k)
      PROVE  KeptInv'
  <2> DEFINE d == [IdleCall EXCEPT !.pc = "attempt", !.key = k]
  <2>1. d.pc = "attempt" /\ d.list = NoList
    BY DEF IdleCall
  <2>2. CallKept(d, now)
    BY <2>1 DEF CallKept, Complete, NoList
  <2>3. \A q \in Readers : CallKept(call'[q], now)
    BY <1>2, <2>2 DEF Begin, Local, KeptInv, TypeOK, QueryTypeOK
  <2>4. QED
    BY <1>2, <2>3 DEF Begin, KeptInv
<1>3. ASSUME NEW r \in Readers, Cancel(r)
      PROVE  KeptInv'
  <2> DEFINE c == call[r]
             d == [c EXCEPT !.cancelled = TRUE]
  <2>1. c \in Call /\ CallKept(c, now)
    BY DEF TypeOK, QueryTypeOK, KeptInv
  <2>2. /\ d.pc = c.pc /\ d.list = c.list /\ d.started = c.started
        /\ d.pending = c.pending /\ d.cancelled
    BY <2>1 DEF Call
  <2>3. CallKept(d, now)
    BY <2>1, <2>2 DEF CallKept
  <2>4. \A q \in Readers : CallKept(call'[q], now)
    BY <1>3, <2>3 DEF Cancel, Local, KeptInv, TypeOK, QueryTypeOK
  <2>5. QED
    BY <1>3, <2>4 DEF Cancel, KeptInv
<1>4. CASE Tick
  <2>1. now \in Nat /\ now' = now + 1
    BY <1>4 DEF Tick, TypeOK, QueryTypeOK
  <2>2. ASSUME NEW r \in Readers PROVE CallKept(call[r], now')
    <3>1. CallKept(call[r], now) /\ call[r].started \in Nat
      BY DEF KeptInv, TypeOK, QueryTypeOK, Call
    <3>2. QED
      BY <2>1, <3>1 DEF CallKept
  <2>3. ASSUME NEW k \in Keys PROVE PartialKept(partials[k], now')
    <3>1. /\ PartialKept(partials[k], now)
          /\ partials[k] # NoEntry => partials[k].started \in Nat
      BY DEF KeptInv, TypeOK, QueryTypeOK, PartialAllowList
    <3>2. QED
      BY <2>1, <3>1 DEF PartialKept
  <2>4. QED
    BY <1>4, <2>2, <2>3 DEF Tick, KeptInv
<1>5. QED
  BY <1>1, <1>2, <1>3, <1>4, CallKeepsKept DEF Next, vars

\* KeptInv holds in every reachable state.
THEOREM BuildsKeepWholeDecisions == Spec => [](TypeOK /\ KeptInv)
<1>1. Init => KeptInv
  BY IdleCallKept DEF Init, QueryInit, KeptInv
<1>2. QED
  BY <1>1, TypeInit, TypeStep, KeptStep, PTL DEF Spec

\* No decision that a cancelled callback left unfinished reaches a cached list,
\* a kept partial list or a query.
THEOREM NeverTruncated == Spec => []NoTruncatedDecision
<1>1. KeptInv => NoTruncatedDecision
  BY DEF KeptInv, CallKept, EntryKept, PartialKept, NoTruncatedDecision
<1>2. QED
  BY <1>1, BuildsKeepWholeDecisions, PTL

\* A resumed build starts from decisions younger than the partial list's TTL.
THEOREM ResumesAreFresh == Spec => ResumedDecisionsFresh
<1> DEFINE Fresh ==
        \A r \in Readers, n \in Nodes :
          call[r].pc = "resume" /\ call'[r].pc = "decode"
              /\ call'[r].list[n] # Undecided
          => now - call'[r].list[n].at < PartialTTL
<1>1. TypeOK /\ KeptInv /\ [Next]_vars => [Fresh]_vars
  <2> SUFFICES ASSUME TypeOK, KeptInv, Next, NEW r \in Readers, NEW n \in Nodes,
                      call[r].pc = "resume", call'[r].pc = "decode",
                      call'[r].list[n] # Undecided
               PROVE  now - call'[r].list[n].at < PartialTTL
    OBVIOUS
  <2> DEFINE c == call[r]
             p == partials[c.key]
  <2>c. call \in [Readers -> Call] /\ c \in Call /\ c.key \in Keys /\ now \in Nat
    BY DEF TypeOK, QueryTypeOK, Shaped
  <2>1. ASSUME NEW q \in Readers, NEW d, Local(q, d), q # r
        PROVE  FALSE
    BY <2>1, <2>c DEF Local
  <2>2. ASSUME UNCHANGED call
        PROVE  FALSE
    BY <2>2
  <2>3. ASSUME NEW q \in Readers, NEW k \in Keys, Begin(q, k)
        PROVE  FALSE
    BY <2>3, <2>1 DEF Begin
  <2>4. ASSUME NEW q \in Readers, Cancel(q)
        PROVE  FALSE
    <3>1. [c EXCEPT !.cancelled = TRUE].pc = "resume"
      BY <2>c DEF Call
    <3>2. QED
      BY <2>4, <2>1, <2>c, <3>1 DEF Cancel, Local
  <2>5. ASSUME NEW q \in Readers, CallStep(q)
        PROVE  Resume(r)
    <3>1. \E d : Local(q, d)
      BY <2>5 DEF CallStep, StartAttempt, LoadSequence, LookupCache, Scan, Resume,
         StopBuilding, Decide, TruncateCallback, Recheck, BuildDone, CheckUnchanged,
         Remember, Lookup, EvaluationEnds, Validate, Fail
    <3>2. q = r
      BY <3>1, <2>1
    <3>3. QED
      BY <2>5, <3>2 DEF CallStep, StartAttempt, LoadSequence, LookupCache, Scan,
         StopBuilding, Decide, TruncateCallback, Recheck, BuildDone, CheckUnchanged,
         Remember, Lookup, EvaluationEnds, Validate
  <2>6. Resume(r)
    BY <2>2, <2>3, <2>4, <2>5 DEF Next, Tick, queryVars
  <2>7. CASE FreshPartial(p) /\ p.seq = c.before
    <3> DEFINE d == [c EXCEPT !.pc = "decode", !.list = p.list, !.started = p.started]
    <3>1. call'[r].list = p.list
      <4>1. d.list = p.list
        BY <2>c DEF Call
      <4>2. QED
        BY <2>6, <2>7, <2>c, <4>1 DEF Resume, Local
    <3>2. p.list \in List /\ p.started \in Nat /\ p # NoEntry /\ PartialKept(p, now)
      BY <2>7, <2>c DEF FreshPartial, TypeOK, QueryTypeOK, PartialAllowList, KeptInv
    <3>3. p.list[n].at \in Nat /\ p.started <= p.list[n].at
      BY <3>1, <3>2 DEF PartialKept, Since, List, Decision
    <3>4. PartialTTL \in Nat /\ now - p.started < PartialTTL
      BY <2>7, QueryAssumption DEF FreshPartial
    <3>5. QED
      BY <2>c, <3>1, <3>2, <3>3, <3>4
  <2>8. CASE ~(FreshPartial(p) /\ p.seq = c.before)
    <3> DEFINE d == [c EXCEPT !.pc = "decode", !.list = NoList, !.started = now]
    <3>1. d.list = NoList
      BY <2>c DEF Call
    <3>2. call'[r].list = NoList
      BY <2>6, <2>8, <2>c, <3>1 DEF Resume, Local
    <3>3. QED
      BY <3>2 DEF NoList
  <2>9. QED
    BY <2>7, <2>8
<1>2. QED
  BY <1>1, BuildsKeepWholeDecisions, PTL DEF Spec, ResumedDecisionsFresh

-----------------------------------------------------------------------------
(* The maps of complete and of partial allow-lists never outgrow their limit. *)

\* A map that respects ALLOW_LIST_CACHE_ENTRIES.
Bounded(map) ==
    IsFiniteSet(Used(map)) /\ Cardinality(Used(map)) <= Entries

MapsInv == Bounded(allow_lists) /\ Bounded(partials)

\* What is in a finite set already, or fits in below the limit, keeps it there.
LEMMA RoomForOne ==
    ASSUME NEW S, NEW k, IsFiniteSet(S),
           \/ k \in S /\ Cardinality(S) <= Entries
           \/ Cardinality(S) < Entries
    PROVE  IsFiniteSet(S \cup {k}) /\ Cardinality(S \cup {k}) <= Entries
<1>1. /\ Cardinality(S) \in Nat /\ Entries \in Nat
      /\ IsFiniteSet(S \cup {k})
      /\ Cardinality(S \cup {k}) = IF k \in S THEN Cardinality(S)
                                   ELSE Cardinality(S) + 1
  BY FS_CardinalityType, FS_AddElement, QueryAssumption
<1>2. QED
  BY <1>1

\* A set within the limit keeps within it whatever is taken out.
LEMMA SubsetBounded ==
    ASSUME NEW S, NEW R, R \subseteq S, IsFiniteSet(S), Cardinality(S) <= Entries
    PROVE  IsFiniteSet(R) /\ Cardinality(R) <= Entries
<1>1. /\ Cardinality(S) \in Nat /\ Entries \in Nat
      /\ IsFiniteSet(R) /\ Cardinality(R) <= Cardinality(S)
      /\ Cardinality(R) \in Nat
  BY FS_CardinalityType, FS_Subset, QueryAssumption
<1>2. QED
  BY <1>1

\* Dropping one of the sets Evictions offers makes room for the new key.
LEMMA EvictionsMakeRoom ==
    ASSUME NEW used, NEW k, NEW fresh, NEW time,
           IsFiniteSet(used), Cardinality(used) <= Entries,
           NEW dropped \in Evictions(used, k, fresh, time)
    PROVE  /\ IsFiniteSet((used \ dropped) \cup {k})
           /\ Cardinality((used \ dropped) \cup {k}) <= Entries
<1> DEFINE kept == used \cap fresh
<1>1. CASE k \in used \/ Cardinality(used) < Entries
  <2>1. used \ dropped = used
    BY <1>1 DEF Evictions
  <2>2. QED
    BY <1>1, <2>1, RoomForOne
<1>2. CASE /\ ~(k \in used \/ Cardinality(used) < Entries)
           /\ Cardinality(kept) < Entries
  <2>1. used \ dropped = kept
    BY <1>2 DEF Evictions
  <2>2. IsFiniteSet(kept)
    BY FS_Subset
  <2>3. QED
    BY <1>2, <2>1, <2>2, RoomForOne
<1>3. CASE /\ ~(k \in used \/ Cardinality(used) < Entries)
           /\ ~(Cardinality(kept) < Entries)
  <2>1. PICK x \in kept : dropped = (used \ kept) \cup {x}
    BY <1>3 DEF Evictions
  <2>2. used \ dropped = kept \ {x}
    BY <2>1
  <2>3. IsFiniteSet(kept) /\ Cardinality(kept) <= Entries
    BY SubsetBounded
  <2>4. /\ IsFiniteSet(kept \ {x})
        /\ Cardinality(kept \ {x}) = Cardinality(kept) - 1
    BY <2>1, <2>3, FS_RemoveElement
  <2>5. Cardinality(kept) \in Nat /\ Entries \in Nat
    BY <2>3, FS_CardinalityType, QueryAssumption
  <2>6. Cardinality(kept \ {x}) < Entries
    BY <2>3, <2>4, <2>5
  <2>7. QED
    BY <2>2, <2>4, <2>6, RoomForOne
<1>4. QED
  BY <1>1, <1>2, <1>3

\* The map after an insertion holds at most what was kept and the new key.
LEMMA InsertedBounded ==
    ASSUME NEW map, Bounded(map), NEW k, NEW fresh, NEW time, NEW entry,
           NEW dropped \in Evictions(Used(map), k, fresh, time)
    PROVE  Bounded(Inserted(map, dropped, k, entry))
<1> DEFINE after == (Used(map) \ dropped) \cup {k}
<1>1. IsFiniteSet(after) /\ Cardinality(after) <= Entries
  BY EvictionsMakeRoom DEF Bounded
<1>2. Used(Inserted(map, dropped, k, entry)) \subseteq after
  BY DEF Used, Inserted
<1>3. QED
  BY <1>1, <1>2, SubsetBounded DEF Bounded

\* Only remember_allow_list adds to the cached lists, only keep_partial to the
\* partial ones, and both make room first.
LEMMA MapsStep == TypeOK /\ MapsInv /\ [Next]_vars => MapsInv'
<1> SUFFICES ASSUME TypeOK, MapsInv, [Next]_vars PROVE MapsInv'
  OBVIOUS
<1>u. ASSUME UNCHANGED <<allow_lists, partials>> PROVE MapsInv'
  BY <1>u DEF MapsInv, Bounded, Used
<1>k. ASSUME NEW c, keep_partial(c), UNCHANGED allow_lists PROVE MapsInv'
  <2> DEFINE e == [seq |-> c.before, started |-> c.started, list |-> c.list]
             fresh == {x \in Keys : FreshPartial(partials[x])}
             time == [x \in Used(partials) |-> partials[x].started]
  <2>1. PICK dropped \in Evictions(Used(partials), c.key, fresh, time) :
            partials' = Inserted(partials, dropped, c.key, e)
    BY <1>k DEF keep_partial
  <2>2. Bounded(Inserted(partials, dropped, c.key, e))
    BY InsertedBounded DEF MapsInv
  <2>3. QED
    BY <1>k, <2>1, <2>2 DEF MapsInv, Bounded, Used
<1>1. ASSUME NEW r \in Readers, Resume(r) PROVE MapsInv'
  <2>1. Used(partials') \subseteq Used(partials)
    BY <1>1 DEF Resume, Used, TypeOK, QueryTypeOK
  <2>2. Bounded(partials')
    BY <2>1, SubsetBounded DEF MapsInv, Bounded
  <2>3. QED
    BY <1>1, <2>2 DEF Resume, MapsInv, Bounded, Used
<1>2. ASSUME NEW r \in Readers, Remember(r) PROVE MapsInv'
  <2> DEFINE c == call[r]
             e == [seq |-> c.before, built |-> now, list |-> c.list]
             fresh == {x \in Keys : Usable(allow_lists[x], c.before)}
             time == [x \in Used(allow_lists) |-> allow_lists[x].built]
  <2>1. PICK dropped \in Evictions(Used(allow_lists), c.key, fresh, time) :
            allow_lists' = Inserted(allow_lists, dropped, c.key, e)
    BY <1>2 DEF Remember, remember_allow_list
  <2>2. Bounded(Inserted(allow_lists, dropped, c.key, e))
    BY InsertedBounded DEF MapsInv
  <2>3. QED
    BY <1>2, <2>1, <2>2 DEF Remember, MapsInv, Bounded, Used
<1>3. ASSUME NEW r \in Readers, CallStep(r) PROVE MapsInv'
  BY <1>3, <1>u, <1>k, <1>1, <1>2
     DEF CallStep, StartAttempt, LoadSequence, LookupCache, Scan, StopBuilding,
         Decide, TruncateCallback, Recheck, BuildDone, CheckUnchanged, Lookup,
         EvaluationEnds, Validate
<1>4. QED
  BY <1>u, <1>3 DEF Next, vars, queryVars, Begin, Cancel, Tick

\* Neither map of allow-lists ever holds more than ALLOW_LIST_CACHE_ENTRIES,
\* whatever the callers, the keys and the order of cancellations.
THEOREM MapsStayBounded == Spec => []MapsBounded
<1>1. Init => MapsInv
  <2>1. ASSUME Init PROVE Used(allow_lists) = {} /\ Used(partials) = {}
    BY <2>1 DEF Init, QueryInit, Used
  <2>2. IsFiniteSet({}) /\ Cardinality({}) = 0 /\ 0 <= Entries
    BY FS_EmptySet, QueryAssumption
  <2>3. QED
    BY <2>1, <2>2 DEF MapsInv, Bounded
<1>2. MapsInv => MapsBounded
  BY DEF MapsInv, Bounded, MapsBounded
<1>3. QED
  BY <1>1, <1>2, TypeInit, TypeStep, MapsStep, PTL DEF Spec

-----------------------------------------------------------------------------
(* A call repeats an attempt only because a write overlapped it. *)

\* What the attempts made so far say about the sequence.
RetryInv(c, seq) ==
    /\ c.pc = "attempt" /\ c.attempt > 0 => seq >= 2 * c.attempt - 1
    /\ c.pc = "wait" => c.attempt > 0 /\ seq + 3 >= 2 * c.attempt
    /\ c.pc \in Stamped => /\ c.attempt > 0
                           /\ c.before + 2 >= 2 * c.attempt
                           /\ c.before <= seq

RetriesInv == \A r \in Readers : RetryInv(call[r], write_sequence)

\* What a step of a call does to its label, attempt and stamp.
CallMoves(c, d, seq) ==
    \/ d = IdleCall
    \/ c.pc = "attempt" /\ d.pc = "wait" /\ d.attempt = c.attempt + 1
    \/ c.pc = "wait" /\ d.pc = "wait" /\ d.attempt = c.attempt
    \/ /\ c.pc = "wait" /\ Even(seq)
       /\ d.pc = "cached" /\ d.attempt = c.attempt /\ d.before = seq
    \/ /\ {c.pc, d.pc} \subseteq Stamped
       /\ d.attempt = c.attempt /\ d.before = c.before
    \/ /\ c.pc = "validate" /\ seq # c.before
       /\ d.pc = "attempt" /\ d.attempt = c.attempt

\* Every step of a call is one of those moves.
LEMMA CallStepMoves ==
    ASSUME TypeOK, NEW r \in Readers, CallStep(r)
    PROVE  \E d : Local(r, d) /\ CallMoves(call[r], d, write_sequence)
<1> DEFINE c == call[r]
           Goal == \E d : Local(r, d) /\ CallMoves(c, d, write_sequence)
<1> SUFFICES Goal
  OBVIOUS
<1>c. c \in Call
  BY DEF TypeOK, QueryTypeOK
<1>d. ASSUME NEW d, Local(r, d), CallMoves(c, d, write_sequence) PROVE Goal
  BY <1>d
<1>i. Local(r, IdleCall) => Goal
  BY DEF CallMoves
<1>f. ASSUME NEW kind, Fail(r, kind) PROVE Goal
  BY <1>f, <1>i DEF Fail
<1>s. ASSUME NEW d, Local(r, d), c.pc \in Stamped, d.pc \in Stamped,
             d.attempt = c.attempt, d.before = c.before
      PROVE  Goal
  BY <1>s DEF CallMoves
<1> HIDE DEF Goal
<1>1. CASE StartAttempt(r)
  <2> DEFINE d == [c EXCEPT !.pc = "wait", !.attempt = c.attempt + 1]
  <2>1. d.pc = "wait" /\ d.attempt = c.attempt + 1
    BY <1>c DEF Call
  <2>2. c.pc = "attempt" => CallMoves(c, d, write_sequence)
    BY <2>1 DEF CallMoves
  <2>3. QED
    BY <1>1, <2>2, <1>d, <1>f DEF StartAttempt
<1>2. CASE LoadSequence(r)
  <2> DEFINE d == [c EXCEPT !.pc = "cached", !.before = write_sequence]
  <2>1. d.pc = "cached" /\ d.attempt = c.attempt /\ d.before = write_sequence
    BY <1>c DEF Call
  <2>2. c.pc = "wait" /\ Even(write_sequence) => CallMoves(c, d, write_sequence)
    BY <2>1 DEF CallMoves
  <2>3. ASSUME NEW t, c.pc = "wait"
        PROVE  CallMoves(c, [c EXCEPT !.waited = t], write_sequence)
    BY <2>3, <1>c DEF Call, CallMoves
  <2>4. QED
    BY <1>2, <2>2, <2>3, <1>d, <1>f DEF LoadSequence
<1>3. CASE LookupCache(r)
  BY <1>3, <1>c, <1>s DEF LookupCache, Call, Stamped
<1>4. CASE Scan(r)
  BY <1>4, <1>c, <1>s, <1>f DEF Scan, Call, Stamped
<1>5. CASE Resume(r)
  BY <1>5, <1>c, <1>s DEF Resume, Call, Stamped
<1>6. CASE StopBuilding(r)
  BY <1>6, <1>f DEF StopBuilding
<1>7. CASE \E n \in Nodes : Decide(r, n)
  BY <1>7, <1>c, <1>s DEF Decide, Call, Stamped
<1>8. CASE TruncateCallback(r)
  BY <1>8, <1>c, <1>s DEF TruncateCallback, Call, Stamped
<1>9. CASE Recheck(r)
  BY <1>9, <1>c, <1>s, <1>f DEF Recheck, Call, Stamped
<1>10. CASE BuildDone(r)
  BY <1>10, <1>c, <1>s DEF BuildDone, Call, Stamped
<1>11. CASE CheckUnchanged(r)
  BY <1>11, <1>c, <1>s DEF CheckUnchanged, Call, Stamped
<1>12. CASE Remember(r)
  BY <1>12, <1>c, <1>s DEF Remember, Call, Stamped
<1>13. CASE \E n \in Nodes : Lookup(r, n)
  BY <1>13, <1>c, <1>s DEF Lookup, Call, Stamped
<1>14. CASE EvaluationEnds(r)
  BY <1>14, <1>c, <1>s DEF EvaluationEnds, Call, Stamped
<1>15. CASE Validate(r)
  <2> DEFINE d == [IdleCall EXCEPT !.pc = "attempt", !.key = c.key,
                                   !.attempt = c.attempt]
  <2>1. d.pc = "attempt" /\ d.attempt = c.attempt
    BY DEF IdleCall
  <2>2. c.pc = "validate" /\ write_sequence # c.before
            => CallMoves(c, d, write_sequence)
    BY <2>1 DEF CallMoves
  <2>3. QED
    BY <1>15, <2>2, <1>d, <1>f, <1>i DEF Validate
<1>16. QED
  BY <1>1, <1>2, <1>3, <1>4, <1>5, <1>6, <1>7, <1>8, <1>9, <1>10, <1>11,
     <1>12, <1>13, <1>14, <1>15 DEF CallStep

\* A writer never moves the sequence back.
LEMMA SequenceGrows ==
    ASSUME StoreTypeOK, NEW w \in Writers, WriterStep(w)
    PROVE  write_sequence \in Nat /\ write_sequence' \in Nat
           /\ write_sequence' >= write_sequence
<1>1. write_sequence \in Nat
  BY DEF StoreTypeOK
<1>2. write_sequence' = write_sequence \/ write_sequence' = write_sequence + 1
  BY DEF WriterStep, StartUpsert, StartDelete, FailBeforeTransaction,
     StartTransaction, DeleteAbsent, LookupFails, BeginGuard, Commit, CommitFails,
     RemoveFails, Rollback, DropGuard
<1>3. QED
  BY <1>1, <1>2

\* A larger sequence says no less about the attempts.
LEMMA RetryInvGrows ==
    ASSUME NEW c \in Call, NEW seq \in Nat, NEW later \in Nat, later >= seq,
           RetryInv(c, seq)
    PROVE  RetryInv(c, later)
<1>1. c.attempt \in Nat /\ c.before \in Nat
  BY DEF Call
<1>2. QED
  BY <1>1 DEF RetryInv

\* Each of the moves keeps RetryInv: the sequence was even when it was
\* stamped, so it has passed one more even value when the stamp is out of date.
LEMMA MovesKeepRetryInv ==
    ASSUME NEW c \in Call, NEW d, NEW seq \in Nat, RetryInv(c, seq),
           CallMoves(c, d, seq)
    PROVE  RetryInv(d, seq)
<1>1. c.attempt \in Nat /\ c.before \in Nat
  BY DEF Call
<1>2. CASE d = IdleCall
  BY <1>2 DEF RetryInv, IdleCall, Stamped
<1>3. CASE c.pc = "attempt" /\ d.pc = "wait" /\ d.attempt = c.attempt + 1
  BY <1>1, <1>3 DEF RetryInv, Stamped
<1>4. CASE c.pc = "wait" /\ d.pc = "wait" /\ d.attempt = c.attempt
  BY <1>4 DEF RetryInv, Stamped
<1>5. CASE /\ c.pc = "wait" /\ Even(seq)
           /\ d.pc = "cached" /\ d.attempt = c.attempt /\ d.before = seq
  <2>1. c.attempt > 0 /\ seq + 3 >= 2 * c.attempt /\ seq % 2 = 0
    BY <1>5 DEF RetryInv, Even
  <2>2. seq + 2 >= 2 * c.attempt
    BY <1>1, <2>1
  <2>3. QED
    BY <1>5, <2>1, <2>2 DEF RetryInv
<1>6. CASE /\ {c.pc, d.pc} \subseteq Stamped
           /\ d.attempt = c.attempt /\ d.before = c.before
  BY <1>6 DEF RetryInv, Stamped
<1>7. CASE /\ c.pc = "validate" /\ seq # c.before
           /\ d.pc = "attempt" /\ d.attempt = c.attempt
  <2>1. c.before + 2 >= 2 * c.attempt /\ c.before <= seq
    BY <1>7 DEF RetryInv, Stamped
  <2>2. seq >= 2 * c.attempt - 1
    BY <1>1, <1>7, <2>1
  <2>3. QED
    BY <1>7, <2>2 DEF RetryInv, Stamped
<1>8. QED
  BY <1>2, <1>3, <1>4, <1>5, <1>6, <1>7 DEF CallMoves

\* Every step keeps the count of attempts behind the sequence.
LEMMA RetriesStep == TypeOK /\ RetriesInv /\ [Next]_vars => RetriesInv'
<1> SUFFICES ASSUME TypeOK, RetriesInv, [Next]_vars PROVE RetriesInv'
  OBVIOUS
<1>t. write_sequence \in Nat /\ call \in [Readers -> Call]
  BY DEF TypeOK, StoreTypeOK, QueryTypeOK
<1>l. ASSUME NEW r \in Readers, NEW d, Local(r, d),
             RetryInv(d, write_sequence), UNCHANGED storeVars
      PROVE  RetriesInv'
  BY <1>l, <1>t DEF Local, RetriesInv, storeVars
<1>1. ASSUME NEW w \in Writers, WriterStep(w), UNCHANGED queryVars
      PROVE  RetriesInv'
  <2>1. /\ write_sequence' \in Nat /\ write_sequence' >= write_sequence
        /\ call' = call
    BY <1>1, SequenceGrows DEF TypeOK, queryVars
  <2>2. QED
    BY <1>t, <2>1, RetryInvGrows DEF RetriesInv
<1>2. ASSUME NEW r \in Readers, NEW k \in Keys, Begin(r, k), UNCHANGED storeVars
      PROVE  RetriesInv'
  <2> DEFINE d == [IdleCall EXCEPT !.pc = "attempt", !.key = k]
  <2>1. RetryInv(d, write_sequence)
    BY DEF RetryInv, IdleCall, Stamped
  <2>2. QED
    BY <1>2, <1>l, <2>1 DEF Begin
<1>3. ASSUME NEW r \in Readers, Cancel(r), UNCHANGED storeVars
      PROVE  RetriesInv'
  <2> DEFINE d == [call[r] EXCEPT !.cancelled = TRUE]
  <2>1. /\ d.pc = call[r].pc /\ d.attempt = call[r].attempt
        /\ d.before = call[r].before
    BY <1>t DEF Call
  <2>2. RetryInv(d, write_sequence)
    BY <2>1 DEF RetriesInv, RetryInv
  <2>3. QED
    BY <1>3, <1>l, <2>2 DEF Cancel
<1>4. ASSUME NEW r \in Readers, CallStep(r), UNCHANGED storeVars
      PROVE  RetriesInv'
  <2>1. PICK d : Local(r, d) /\ CallMoves(call[r], d, write_sequence)
    BY <1>4, CallStepMoves
  <2>2. RetryInv(d, write_sequence)
    BY <1>t, <2>1, MovesKeepRetryInv DEF RetriesInv
  <2>3. QED
    BY <1>4, <1>l, <2>1, <2>2
<1>5. CASE UNCHANGED <<call, write_sequence>>
  BY <1>5 DEF RetriesInv
<1>6. QED
  BY <1>1, <1>2, <1>3, <1>4, <1>5 DEF Next, vars, queryVars, storeVars, Tick

\* An attempt is repeated only because a write overlapped it: a query that no
\* write overlaps is never evaluated twice, whatever it costs and however it
\* fails.
THEOREM RetriesAreWrites == Spec => []RetriesNeedWrites
<1>1. Init => RetriesInv
  BY DEF Init, QueryInit, RetriesInv, RetryInv, IdleCall, Stamped
<1>2. RetriesInv => RetriesNeedWrites
  BY DEF RetriesInv, RetryInv, RetriesNeedWrites
<1>3. QED
  BY <1>1, <1>2, TypeInit, TypeStep, RetriesStep, PTL DEF Spec
=============================================================================
