---------------------------- MODULE CatalogStore ----------------------------
(***************************************************************************)
(* The RDF catalog cache as its writers see it: one named graph per        *)
(* participant node, replaced or removed in one store transaction, and the *)
(* write sequence that readers use to detect an overlapping write          *)
(* (crates/rdf-store/src/oxigraph_backend/mod.rs).                         *)
(*                                                                         *)
(* A catalog is an opaque value; NoCatalog is the absence of the graph.    *)
(* The store's transaction is external (oxigraph): it holds the in-memory  *)
(* backend's single writer lock from start_transaction until the           *)
(* transaction value is consumed by commit(self) or dropped.  The          *)
(* WriteSequenceGuard is a separate local value, declared after the        *)
(* transaction, and is dropped when the function returns.                  *)
(***************************************************************************)
EXTENDS Naturals, FiniteSets

CONSTANTS
    Nodes,      \* participants, each with its own named graph
    Catalogs,   \* catalog values a crawl can deliver
    NoCatalog,  \* the node has no graph in the store
    Writers,    \* threads running an upsert or a delete
    NoWriter,   \* the writer lock is free
    NoJob,      \* a writer with nothing to write
    MaxWrites   \* bound: no write starts once the sequence reached 2*MaxWrites

ASSUME CatalogStoreAssumption ==
    /\ NoCatalog \notin Catalogs
    /\ NoWriter \notin Writers
    /\ MaxWrites \in Nat

VARIABLES
    store,           \* the committed graphs: node -> catalog or NoCatalog
    write_sequence,  \* OxigraphCatalogCache::write_sequence
    lock,            \* holder of the writer lock: the open transaction
    wpc,             \* where each writer thread is
    job              \* what each writer writes: a node and its new content

storeVars == <<store, write_sequence, lock, wpc, job>>

Content == Catalogs \cup {NoCatalog}

\* A job whose cat is NoCatalog is a delete, any other an upsert.
Job == [node : Nodes, cat : Content]

WriterStates ==
    {"idle",       \* not writing
     "encode",     \* store_catalog: quads being collected, no transaction yet
     "call",       \* remove_catalog: about to open its transaction
     "open",       \* transaction open, guard not created yet
     "begun",      \* transaction open, guard alive
     "committed",  \* transaction consumed by commit, guard still alive
     "rollback"}   \* guard dropped by an early return, transaction still open

StoreTypeOK ==
    /\ store \in [Nodes -> Content]
    /\ write_sequence \in Nat
    /\ lock \in Writers \cup {NoWriter}
    /\ wpc \in [Writers -> WriterStates]
    /\ job \in [Writers -> Job \cup {NoJob}]
    /\ \A w \in Writers : wpc[w] # "idle" => job[w] \in Job

StoreInit ==
    /\ store = [n \in Nodes |-> NoCatalog]
    /\ write_sequence = 0
    /\ lock = NoWriter
    /\ wpc = [w \in Writers |-> "idle"]
    /\ job = [w \in Writers |-> NoJob]

Even(n) == n % 2 = 0

GuardAlive(w) == wpc[w] \in {"begun", "committed"}

Goto(w, label) == wpc' = [wpc EXCEPT ![w] = label]

\* The writing function has returned.
Return(w) ==
    /\ Goto(w, "idle")
    /\ job' = [job EXCEPT ![w] = NoJob]

\* CatalogCache::upsert hands store_catalog to the blocking pool: the write
\* goes on even when the caller is dropped, so nothing ever removes the job.
StartUpsert(w, n, c) ==
    /\ wpc[w] = "idle"
    /\ write_sequence < 2 * MaxWrites
    /\ Goto(w, "encode")
    /\ job' = [job EXCEPT ![w] = [node |-> n, cat |-> c]]
    /\ UNCHANGED <<store, write_sequence, lock>>

\* The function returns before it touches the store: write_catalog refuses a
\* catalog it cannot encode (a constraint group nested too deep),
\* start_transaction fails, or the runtime shuts down before the blocking pool
\* has started the write.
FailBeforeTransaction(w) ==
    /\ wpc[w] \in {"encode", "call"}
    /\ Return(w)
    /\ UNCHANGED <<store, write_sequence, lock>>

StartDelete(w, n) ==
    /\ wpc[w] = "idle"
    /\ write_sequence < 2 * MaxWrites
    /\ Goto(w, "call")
    /\ job' = [job EXCEPT ![w] = [node |-> n, cat |-> NoCatalog]]
    /\ UNCHANGED <<store, write_sequence, lock>>

\* start_transaction waits for the single writer lock.
StartTransaction(w) ==
    /\ wpc[w] \in {"encode", "call"}
    /\ lock = NoWriter
    /\ lock' = w
    /\ Goto(w, "open")
    /\ UNCHANGED <<store, write_sequence, job>>

\* remove_catalog only counts as a write when the graph exists; otherwise its
\* transaction is dropped unused.
DeleteAbsent(w) ==
    /\ wpc[w] = "open"
    /\ job[w].cat = NoCatalog
    /\ store[job[w].node] = NoCatalog
    /\ lock' = NoWriter
    /\ Return(w)
    /\ UNCHANGED <<store, write_sequence>>

\* Looking for the graph's quads returns an error.
LookupFails(w) ==
    /\ wpc[w] = "open"
    /\ job[w].cat = NoCatalog
    /\ lock' = NoWriter
    /\ Return(w)
    /\ UNCHANGED <<store, write_sequence>>

\* Mutant: the write starts without moving the sequence.
BeginGuardUncounted(w) ==
    /\ wpc[w] = "open"
    /\ job[w].cat = NoCatalog => store[job[w].node] # NoCatalog
    /\ Goto(w, "begun")
    /\ UNCHANGED <<store, write_sequence, lock, job>>

\* WriteSequenceGuard::begin.
BeginGuard(w) ==
    /\ wpc[w] = "open"
    /\ job[w].cat = NoCatalog => store[job[w].node] # NoCatalog
    /\ write_sequence' = write_sequence + 1
    /\ Goto(w, "begun")
    /\ UNCHANGED <<store, lock, job>>

\* remove_named_graph, extend and commit become visible at once.  commit takes
\* the transaction by value, so the lock is free when it returns, before the
\* guard is dropped.
Commit(w) ==
    /\ wpc[w] = "begun"
    /\ store' = [store EXCEPT ![job[w].node] = job[w].cat]
    /\ lock' = NoWriter
    /\ Goto(w, "committed")
    /\ UNCHANGED <<write_sequence, job>>

\* commit returns an error: the transaction is consumed and rolled back.
CommitFails(w) ==
    /\ wpc[w] = "begun"
    /\ lock' = NoWriter
    /\ Goto(w, "committed")
    /\ UNCHANGED <<store, write_sequence, job>>

\* remove_named_graph returns an error: locals are dropped in reverse order of
\* declaration, the guard first and then the transaction.
RemoveFails(w) ==
    /\ wpc[w] = "begun"
    /\ write_sequence' = write_sequence + 1
    /\ Goto(w, "rollback")
    /\ UNCHANGED <<store, lock, job>>

Rollback(w) ==
    /\ wpc[w] = "rollback"
    /\ lock' = NoWriter
    /\ Return(w)
    /\ UNCHANGED <<store, write_sequence>>

\* WriteSequenceGuard::drop at the end of the function.
DropGuard(w) ==
    /\ wpc[w] = "committed"
    /\ write_sequence' = write_sequence + 1
    /\ Return(w)
    /\ UNCHANGED <<store, lock>>

WriterStep(w) ==
    \/ \E n \in Nodes, c \in Catalogs : StartUpsert(w, n, c)
    \/ \E n \in Nodes : StartDelete(w, n)
    \/ FailBeforeTransaction(w)
    \/ StartTransaction(w)
    \/ DeleteAbsent(w)
    \/ LookupFails(w)
    \/ BeginGuard(w)
    \/ Commit(w)
    \/ CommitFails(w)
    \/ RemoveFails(w)
    \/ Rollback(w)
    \/ DropGuard(w)

\* At most one write is between its guard's creation and its guard's drop.
\* The writer lock alone does not give this: it is free again in "committed".
OneGuardAtATime ==
    \A v, w \in Writers : GuardAlive(v) /\ GuardAlive(w) => v = w

\* The store as its writers drive it, and with writes that never overlap.
WritersNext == \E w \in Writers : WriterStep(w)

StoreSpec == StoreInit /\ [][WritersNext]_storeVars

SerialStoreSpec == StoreInit /\ [][WritersNext /\ OneGuardAtATime']_storeVars
=============================================================================
