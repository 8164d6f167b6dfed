--------------------------- MODULE CatalogRequests ---------------------------
(* The routes of CatalogRoutes with the broker's own parser, RDF form and    *)
(* policy filter, which a run gives for the CONSTANTS of that module, and    *)
(* with the JSON in which the management API serves a policy.  What is       *)
(* answered is compared with what the responses say, read as ODRL.           *)
EXTENDS HiddenDatasets, CatalogGraph, PolicyFilter, TLC

CONSTANT MAX_SERVED_GROUP_DEPTH   \* 56 in routes/management.rs

-----------------------------------------------------------------------------
(* Policies as JSON *)

ObjectOf(required, optional) ==
    LET present == {k \in DOMAIN optional : optional[k] # None}
    IN Obj([k \in DOMAIN required \cup present |->
               IF k \in DOMAIN required THEN required[k] ELSE optional[k][1]])

StrOption(option) == IF option = None THEN None ELSE Some(Str(option[1]))
ArrOption(items) == IF items = <<>> THEN None ELSE Some(Arr(items))

\* Mutant: a group past the served depth loses its constraints.
RECURSIVE ConstraintToJsonCut(_, _)
ConstraintToJsonCut(c, group_depth) ==
    IF c.c = "atomic"
    THEN Obj(Key("leftOperand") :> Str(c.left) @@ Key("operator") :> Str(c.op)
             @@ Key("rightOperand") :> Str(c.right))
    ELSE Obj(Key(IF c.c = "andSequence" THEN "and" ELSE c.c) :>
             Arr(IF group_depth >= MAX_SERVED_GROUP_DEPTH THEN <<>>
                 ELSE MapSeq(c.kids, LAMBDA k : ConstraintToJsonCut(k, group_depth + 1))))

RECURSIVE constraint_to_json(_, _)
constraint_to_json(c, group_depth) ==
    IF c.c = "atomic"
    THEN Obj(Key("leftOperand") :> Str(c.left) @@ Key("operator") :> Str(c.op)
             @@ Key("rightOperand") :> Str(c.right))
    ELSE IF group_depth >= MAX_SERVED_GROUP_DEPTH
    THEN constraint_to_json(Unmappable, group_depth)
    ELSE Obj(Key(IF c.c = "andSequence" THEN "and" ELSE c.c) :>
             Arr(MapSeq(c.kids, LAMBDA k : constraint_to_json(k, group_depth + 1))))

rule_to_json(rule) ==
    ObjectOf(Key("action") :> Str(rule.action),
             Key("constraint") :> ArrOption(MapSeq(rule.constraints,
                                       LAMBDA c : constraint_to_json(c, 0))))

policy_to_json(p) ==
    ObjectOf(Key("@type") :> Str(Bare(p.kind)),
             Key("@id") :> StrOption(p.id)
             @@ <<"odrl", "assigner">> :> StrOption(p.assigner)
             @@ <<"odrl", "assignee">> :> StrOption(p.assignee)
             @@ Key("permission") :> ArrOption(MapSeq(p.permissions, rule_to_json))
             @@ Key("prohibition") :> ArrOption(MapSeq(p.prohibitions, rule_to_json))
             @@ Key("obligation") :> ArrOption(MapSeq(p.obligations, rule_to_json)))

-----------------------------------------------------------------------------
(* What the responses say *)

\* What a response says, read as ODRL and not through the parser: every value
\* under a term, in whatever spelling, counts.
RECURSIVE Members(_)
Members(v) ==
    CASE v.j = "arr" -> ToSet(v.arr)
      [] v.j = "obj" /\ Fields(v) \in {{Key("@list")}, {Key("@set")}} ->
            Members(v.obj[CHOOSE k \in Fields(v) : TRUE])
      [] OTHER -> {v}
KeysFor(v, term) == {k \in Fields(v) : k[2] = term}
Said(v, term) == UNION {Members(v.obj[k]) : k \in KeysFor(v, term)}
\* One readable value under one key.
Single(v, term) ==
    /\ Cardinality(KeysFor(v, term)) = 1
    /\ \A k \in KeysFor(v, term) : json_ld_scalar(v.obj[k]) # None
The(v, term) == json_ld_scalar(v.obj[CHOOSE k \in KeysFor(v, term) : TRUE])[1]

AtomicTerms == {"leftOperand", "operator", "rightOperand"}
LogicalTerms == {"and", "or", "xone", "andSequence"}
TermsIn(v, terms) == {t \in terms : KeysFor(v, t) # {}}

\* The broker understands all of a constraint, and it holds for the claims.
RECURSIVE Understood(_, _)
Understood(v, depth) ==
    \/ /\ TermsIn(v, LogicalTerms) = {}
       /\ \A t \in AtomicTerms : Single(v, t)
       /\ The(v, "operator").sp \in {"bare", "odrl"} /\ The(v, "operator").n \in {"eq", "neq"}
    \/ /\ TermsIn(v, AtomicTerms) = {} /\ depth < MAX_CONSTRAINT_DEPTH
       /\ \E t \in LogicalTerms :
              /\ TermsIn(v, LogicalTerms) = {t}
              /\ \A kid \in Said(v, t) : Understood(kid, depth + 1)

RECURSIVE HoldsFor(_, _)
HoldsFor(v, claims) ==
    LET t == CHOOSE t \in LogicalTerms : t \in TermsIn(v, LogicalTerms)
        holding == {kid \in Said(v, t) : HoldsFor(kid, claims)}
    IN CASE TermsIn(v, LogicalTerms) = {} ->
              /\ The(v, "leftOperand").n \in DOMAIN claims
              /\ The(v, "operator").n = "eq" <=>
                    <<The(v, "rightOperand").n>> \in claims[The(v, "leftOperand").n]
         [] t = "or" -> holding # {}
         [] t = "xone" -> Cardinality(holding) = 1
         [] OTHER -> holding = Said(v, t)

UnderstoodRule(v) ==
    /\ Single(v, "action")
    /\ TermsIn(v, {"assignee", "target", "duty"}) = {}
    /\ \A c \in Said(v, "constraint") : Understood(c, 0)

RuleTerms == {"permission", "prohibition", "obligation"}

\* One policy of the response, understood to the last constraint, lets a
\* caller with these claims use the dataset.
Grants(v, claims) ==
    LET applies(term) == \E r \in Said(v, term) :
            /\ The(r, "action").n = "use" /\ The(r, "action").sp # "urn"
            /\ \A c \in Said(r, "constraint") : HoldsFor(c, claims)
    IN /\ TermsIn(v, RuleTerms) # {}
       /\ \A t \in RuleTerms : \A r \in Said(v, t) : UnderstoodRule(r)
       /\ KeysFor(v, "assignee") # {} =>
             /\ Single(v, "assignee") /\ "sub" \in DOMAIN claims
             /\ <<The(v, "assignee").n>> \in claims["sub"]
       /\ ~ applies("prohibition")
       /\ \/ applies("permission")
          \/ Said(v, "permission") = {} /\ config.no_policy = "open"

\* Every dataset of a response, those of nested catalogs after its own.
RECURSIVE DatasetsIn(_)
DatasetsIn(v) == GetArr(v, "dataset") \o Flatten(MapSeq(GetArr(v, "catalog"), DatasetsIn))
\* The first with an id is the one that counts.
Offered(n, id) ==
    LET ds == SelectSeq(DatasetsIn(body[n]), LAMBDA d : GetId(d) = Some(id)) IN ds[1]
OfferedIds(n) == {GetId(d)[1] : d \in {d \in ToSet(DatasetsIn(body[n])) : GetId(d) # None}}

GrantedTo(n, id, claims) ==
    LET policies == Said(Offered(n, id), "hasPolicy")
    IN IF policies = {} THEN config.no_policy = "open"
       ELSE \E p \in policies : Grants(p, claims)

\* The (node, dataset id) pairs the answer shows.
Shown ==
    CASE answer.route = "catalog" ->
            UNION {{<<c.origin_node, d.id>> : d \in ToSet(c.datasets)} :
                       c \in ToSet(answer.catalogs)}
      [] answer.route = "offers" ->
            UNION {{<<n, d.id>> : n \in {n \in Nodes : catalog[n][1].id = o.id},
                                  d \in ToSet(o.dataset)} : o \in ToSet(answer.offers)}
      [] OTHER ->
            {<<t[1][1], t[1][3]>> : t \in {t \in answer.quads :
                                              t[2] = "type" /\ t[3] = "Dataset"}}

-----------------------------------------------------------------------------
(* Properties *)

\* With policies filtered and none skipped, every route shows a dataset only if
\* some policy of its response, read in full and understood in full, grants it
\* (or it has none and that is open); /catalog and /sparql show each such
\* dataset when an unmappable policy is merely dropped.
ShownOnlyIfGranted ==
    (/\ should_filter_by_policy(config) /\ config.unmappable # "skip"
     /\ answer # Nothing /\ answer.status = 200) =>
        LET granted == UNION {{<<n, id>> : id \in {id \in OfferedIds(n) :
                                              GrantedTo(n, id, CallerClaims)}} :
                                 n \in answer.nodes}
        IN /\ Shown \subseteq granted
           /\ (config.unmappable = "drop_policy" /\ answer.route # "offers") =>
                 granted \subseteq Shown

\* What /sparql lets a caller match is the RDF form of what GET /catalog answers
\* the same caller, also when the allow-list was made for another token: nothing
\* of a hidden dataset or service, everything of a visible one, but for the
\* store's own order and links to services that are not listed.
SparqlShowsWhatCatalogShows ==
    Answered("sparql") =>
        LET visible == filter_catalogs_by_policy(catalogs(Nodes, store),
                                                 Claims(answer.header, config), TRUE, config)
            listed(c) == {service_iri(c.origin_node, id) : id \in Ids(c.data_services)}
            rdf(c) == {t \in write_catalog(c)[1] :
                          /\ t[2] # "sequenceIndex"
                          /\ t[2] = "accessService" => t[3].v \in listed(c)}
        IN should_filter_by_policy(config) =>
               answer.quads = UNION {rdf(c) : c \in ToSet(visible)}

\* A policy served in an offer, read back by this crawler, lets nobody in that
\* the stored one keeps out: the cut at the served depth, and the values that
\* stand for what was not understood, only ever deny.
OffersNeverLooser ==
    (Answered("offers") /\ config.unmappable # "skip") =>
        \A o \in ToSet(answer.offers) : \A d \in ToSet(o.dataset) :
            \A c \in {catalog[n][1] : n \in Nodes} :
                (c.id = o.id /\ d.id \in Ids(c.datasets)) =>
                    LET stored == SelectSeq(c.datasets, LAMBDA e : e.id = d.id)[1]
                        one(p) == [id |-> d.id, policies |-> <<p>>]
                    IN \A i \in DOMAIN stored.policies :
                       \A claims \in {engine_claims_from_bearer(t.claims) : t \in Tokens} :
                           dataset_is_visible(one(parse_policy(d.hasPolicy[i])), claims, config)
                           => dataset_is_visible(one(stored.policies[i]), claims, config)

\* odrl_filter.rs:768: a policy that cannot be mapped "hides the *whole* dataset
\* immediately, regardless of what any other alternative offer would otherwise
\* have granted".
UnmappableHidesDataset ==
    (answer.status = 200 /\ should_filter_by_policy(config) /\ config.unmappable = "hide_dataset") =>
        \A n \in Nodes : \A d \in ToSet(catalog[n][1].datasets) :
            (\E p \in ToSet(d.policies) : catalog_policy_to_wire_policy(p, config) = None)
                => <<n, d.id>> \notin Shown

\* odrl_filter.rs:314: "two tokens with the same key get the same decision for
\* every policy, apart from the clock-dependent dateTime".
SameKeySameDecision ==
    (Answered("sparql") /\ should_filter_by_policy(config)) =>
        LET now == visible_iris_for(Claims(answer.header, config), config, store)
        IN \A e \in cached : e.key = allow_list_key(Claims(answer.header, config)) => e.list = now
=============================================================================
