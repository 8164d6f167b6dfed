------------------------- MODULE AtomicCatalogQuery -------------------------
(***************************************************************************)
(* What the catalog cache promises its readers: a participant's catalog is *)
(* replaced or removed as a whole, and a policy-filtered query that        *)
(* succeeds is answered from one store state, the one current when it      *)
(* returns, through an allow-list decided from exactly the catalogs of     *)
(* that state.  A query may always fail instead.                           *)
(***************************************************************************)
CONSTANTS Nodes, Catalogs, NoCatalog, Readers, Undecided, Unread

VARIABLES
    store,   \* node -> catalog or NoCatalog
    answer   \* reader -> what its last query returned

vars == <<store, answer>>

Nothing == [n \in Nodes |-> Undecided]
NoRead == [n \in Nodes |-> Unread]

Init ==
    /\ store = [n \in Nodes |-> NoCatalog]
    /\ answer = [r \in Readers |->
                    [kind |-> "none", reads |-> NoRead, list |-> Nothing]]

\* Every value read, and every decision, is of the current state, and no
\* catalog of that state is left undecided.
FromOneState(a) ==
    \A n \in Nodes :
        /\ a.reads[n] \in {Unread, store[n]}
        /\ IF store[n] = NoCatalog THEN a.list[n] = Undecided
           ELSE a.list[n] # Undecided /\ a.list[n].cat = store[n]

Replace(n) ==
    /\ \E c \in Catalogs \cup {NoCatalog} : store' = [store EXCEPT ![n] = c]
    /\ UNCHANGED answer

\* A query starts (its last answer is forgotten), fails or succeeds.
Answered(r) ==
    /\ \/ \E kind \in {"none", "error", "cancelled", "busy"} :
             answer' = [answer EXCEPT ![r] = [kind |-> kind, reads |-> NoRead,
                                              list |-> Nothing]]
       \/ /\ answer' = [answer EXCEPT ![r] = answer'[r]]
          /\ answer'[r].kind = "ok"
          /\ FromOneState(answer'[r])
    /\ UNCHANGED store

Next ==
    \/ \E n \in Nodes : Replace(n)
    \/ \E r \in Readers : Answered(r)

Spec == Init /\ [][Next]_vars
=============================================================================
