---------------------------- MODULE CatalogGraph ----------------------------
(* The RDF form of a catalog: write_catalog decomposes it into the quads of  *)
(* its node's named graph, load_catalog rebuilds it.                         *)
EXTENDS CrawledCatalogs, CatalogQuads

(* Terms *)
\* A name without a scheme is no IRI.
iri_or_literal_term(w) == [o |-> IF w.sp = "bare" THEN "lit" ELSE "iri", v |-> w]
LiteralTerm(w) == [o |-> "lit", v |-> w]
Resource(path) == [o |-> "node", v |-> path]
term_as_string(term) == term.v

distribution_iri(node, id, i) == dataset_iri(node, id) \o <<"distributions", i>>
policy_iri(node, id, i) == dataset_iri(node, id) \o <<"policies", i>>
rule_iri(policy, segment, i) == policy \o <<segment, i>>
constraint_iri(rule, i) == rule \o <<"constraints", i>>

Triple(s, p, o) == <<s, p, o>>
Optional(s, p, option, Term(_)) ==
    IF option = None THEN {} ELSE {Triple(s, p, Term(option[1]))}
Index(s, i) == {Triple(s, "sequenceIndex", i)}
\* The quads of the i-th entry of a list (from 0), for every entry.
Each(s, Quads(_, _)) == UNION {Quads(s[i], i - 1) : i \in DOMAIN s}

(* Writing.  Whole results only: a write that fails reaches no store. *)

\* A constraint to be written, its resource and its place in its list.
At(c, node, index) == [c |-> c, node |-> node, index |-> index]
KidsAt(at) ==
    {At(at.c.kids[i], constraint_iri(at.node, i - 1), i - 1) : i \in DOMAIN at.c.kids}

\* Mutant: a group is recognisable by its links alone.
ConstraintQuadsUnmarked(at, depth, below) ==
    Index(at.node, at.index) \cup
    (IF at.c.c = "atomic"
     THEN {Triple(at.node, "leftOperand", iri_or_literal_term(at.c.left)),
           Triple(at.node, "operator", iri_or_literal_term(at.c.op)),
           Triple(at.node, "rightOperand", LiteralTerm(at.c.right))}
     ELSE UNION {{Triple(at.node, at.c.c, Resource(kid.node))} \cup below[kid] :
                     kid \in KidsAt(at)})

\* The quads of one constraint and of the ones below it.
ConstraintQuads(at, depth, below) ==
    Index(at.node, at.index) \cup
    (IF at.c.c = "atomic"
     THEN {Triple(at.node, "leftOperand", iri_or_literal_term(at.c.left)),
           Triple(at.node, "operator", iri_or_literal_term(at.c.op)),
           Triple(at.node, "rightOperand", LiteralTerm(at.c.right))}
     ELSE {Triple(at.node, "logicalOperator", at.c.c)} \cup
          UNION {{Triple(at.node, at.c.c, Resource(kid.node))} \cup below[kid] :
                     kid \in KidsAt(at)})

write_constraint(c, node, index) ==
    Nested(At(c, node, index), MAX_CONSTRAINT_DEPTH, KidsAt, ConstraintQuads)

\* Whether write_constraint meets a constraint past the bound, which fails it.
TooDeep(c) == Levels(c, Kids)[MAX_CONSTRAINT_DEPTH + 1] # {}

write_rule(rule, node, index) ==
    Index(node, index)
    \cup {Triple(node, "action", iri_or_literal_term(rule.action))}
    \cup Each(rule.constraints,
              LAMBDA c, i :
                  {Triple(node, "constraint", Resource(constraint_iri(node, i)))}
                      \cup write_constraint(c, constraint_iri(node, i), i))

write_rules(rules, policy, predicate, segment) ==
    Each(rules,
         LAMBDA rule, i :
             {Triple(policy, predicate, Resource(rule_iri(policy, segment, i)))}
                 \cup write_rule(rule, rule_iri(policy, segment, i), i))

write_policy(policy, node, index) ==
    {Triple(node, "type", policy.kind)} \cup Index(node, index)
    \cup Optional(node, "policyId", policy.id, LiteralTerm)
    \cup Optional(node, "assigner", policy.assigner, iri_or_literal_term)
    \cup Optional(node, "assignee", policy.assignee, iri_or_literal_term)
    \cup write_rules(policy.permissions, node, "permission", "permissions")
    \cup write_rules(policy.prohibitions, node, "prohibition", "prohibitions")
    \cup write_rules(policy.obligations, node, "obligation", "obligations")

write_distribution(node, dataset, d, i) ==
    LET iri == distribution_iri(node, dataset.id, i)
    IN {Triple(dataset_iri(node, dataset.id), "distribution", Resource(iri)),
        Triple(iri, "type", "Distribution"),
        Triple(iri, "format", LiteralTerm(d.format)),
        Triple(iri, "accessService", Resource(service_iri(node, d.access_service)))}
       \cup Index(iri, i)

write_dataset(node, catalog, dataset, index) ==
    LET iri == dataset_iri(node, dataset.id)
    IN {Triple(catalog, "dataset", Resource(iri)), Triple(iri, "type", "Dataset")}
       \cup Index(iri, index)
       \cup {Triple(iri, k, LiteralTerm(dataset.properties[k])) :
                k \in DOMAIN dataset.properties}
       \cup Each(dataset.distributions,
                 LAMBDA d, i : write_distribution(node, dataset, d, i))
       \cup Each(dataset.policies,
                 LAMBDA p, i :
                     {Triple(iri, "hasPolicy", Resource(policy_iri(node, dataset.id, i)))}
                         \cup write_policy(p, policy_iri(node, dataset.id, i), i))

write_service(node, catalog, service, index) ==
    LET iri == service_iri(node, service.id)
    IN {Triple(catalog, "service", Resource(iri)), Triple(iri, "type", "DataService"),
        Triple(iri, "endpointURL", iri_or_literal_term(service.endpoint_url))}
       \cup Index(iri, index)
       \cup Optional(iri, "endpointDescription", service.endpoint_description,
                     LiteralTerm)

\* Some(quads), or None when a constraint is nested too deep.
write_catalog(catalog) ==
    LET node == catalog.origin_node
        iri == catalog_iri(node, catalog.id)
        policies == UNION {ToSet(d.policies) : d \in ToSet(catalog.datasets)}
        rules == UNION {ToSet(p.permissions) \cup ToSet(p.prohibitions)
                            \cup ToSet(p.obligations) : p \in policies}
        constraints == UNION {ToSet(r.constraints) : r \in rules}
    IN IF \E c \in constraints : TooDeep(c) THEN None
       ELSE Some({Triple(iri, "type", "Catalog")}
                 \cup Optional(iri, "participantId", catalog.participant_id, LiteralTerm)
                 \cup Each(catalog.datasets,
                           LAMBDA d, i : write_dataset(node, iri, d, i))
                 \cup Each(catalog.data_services,
                           LAMBDA s, i : write_service(node, iri, s, i)))

(* Reading *)

Objects(g, s, p) == {t[3] : t \in {u \in g : u[1] = s /\ u[2] = p}}
first_object(g, s, p) ==
    LET found == Objects(g, s, p) IN IF found = {} THEN None ELSE Some(CHOOSE o \in found : TRUE)
OptionalString(g, s, p) ==
    LET found == first_object(g, s, p)
    IN IF found = None THEN None ELSE Some(term_as_string(found[1]))
sequence_index(g, s) == first_object(g, s, "sequenceIndex")

InOrder(entries) == SortedBy(entries, LAMBDA a, b : a.index < b.index)

\* Fields that are all there, or None; an optional field is wrapped in Some.
Unwrap(fields) ==
    IF \E k \in DOMAIN fields : fields[k] = None THEN None
    ELSE Some([k \in DOMAIN fields |-> fields[k][1]])
Entry(index, value) == Unwrap([index |-> index, value |-> value])

\* Load every resource linked from s by p, sorted by index; None if one fails.
AllLoaded(loaded) ==
    IF None \in loaded THEN None
    ELSE Some(MapSeq(InOrder({l[1] : l \in loaded}), LAMBDA e : e.value))
LoadAll(g, s, p, Load(_)) == AllLoaded({Load(o.v) : o \in Objects(g, s, p)})

\* The kind of a group: its marker, or else the first kind it has links of.
linked(g, s) ==
    LET kind(k) == IF Objects(g, s, k) = {} THEN None ELSE Some(k)
    IN Flatten(MapSeq(LOGICAL_CONSTRAINT_BUILDERS, kind))
logical_operator(g, s) ==
    Head((first_object(g, s, "logicalOperator") \o linked(g, s)) \o <<"">>)
KidNodes(g, s) == {o.v : o \in Objects(g, s, logical_operator(g, s))}

\* A group needs its marker, or else a link, and no link of another kind.
LoadedConstraint(g, s, depth, kids) ==
    LET left == OptionalString(g, s, "leftOperand")
        marker == first_object(g, s, "logicalOperator")
        chosen == logical_operator(g, s)
    IN IF depth > MAX_CONSTRAINT_DEPTH THEN None
       ELSE IF left # None
       THEN Entry(sequence_index(g, s),
                  Unwrap([c |-> Some("atomic"), left |-> left,
                          op |-> OptionalString(g, s, "operator"),
                          right |-> OptionalString(g, s, "rightOperand"),
                          kids |-> Some(<<>>)]))
       ELSE IF \/ marker # None /\ ~ ToSet(linked(g, s)) \subseteq ToSet(marker)
               \/ chosen \notin ToSet(LOGICAL_CONSTRAINT_BUILDERS)
       THEN None
       ELSE Entry(sequence_index(g, s),
                  Unwrap([c |-> Some(chosen), left |-> Some(EmptyString),
                          op |-> Some(EmptyString), right |-> Some(EmptyString),
                          kids |-> AllLoaded({kids[kid] : kid \in KidNodes(g, s)})]))

load_constraint(g, s) ==
    Nested(s, MAX_CONSTRAINT_DEPTH + 1, LAMBDA t : KidNodes(g, t),
           LAMBDA t, depth, kids : LoadedConstraint(g, t, depth, kids))

load_rule(g, s) ==
    Entry(sequence_index(g, s),
          Unwrap([action |-> OptionalString(g, s, "action"),
                  constraints |-> LoadAll(g, s, "constraint",
                                          LAMBDA c : load_constraint(g, c))]))

load_rules(g, policy, predicate) ==
    LoadAll(g, policy, predicate, LAMBDA r : load_rule(g, r))

load_policy(g, s) ==
    LET kind == first_object(g, s, "type")
        rules == Unwrap([p \in {"permission", "prohibition", "obligation"} |->
                            load_rules(g, s, p)])
        policy(r) == Policy(OptionalString(g, s, "policyId"), kind[1],
                            OptionalString(g, s, "assigner"), OptionalString(g, s, "assignee"),
                            r["permission"], r["prohibition"], r["obligation"])
    IN IF kind = None \/ kind[1] \notin {"Set", "Offer", "Agreement"} THEN None
       ELSE Entry(sequence_index(g, s), MapSeq(rules, policy))

load_distribution(g, s) ==
    LET access(o) == o.v[3]
    IN Entry(sequence_index(g, s),
             Unwrap([format |-> OptionalString(g, s, "format"),
                     access_service |-> MapSeq(first_object(g, s, "accessService"), access)]))

load_dataset(g, s) ==
    LET keys == {t[2] : t \in {u \in g : u[1] = s}}
                    \ {"type", "sequenceIndex", "distribution", "hasPolicy"}
    IN Entry(sequence_index(g, s),
             Unwrap([id |-> Some(s[3]),
                     properties |-> Some([k \in keys |-> OptionalString(g, s, k)[1]]),
                     distributions |-> LoadAll(g, s, "distribution",
                                               LAMBDA d : load_distribution(g, d)),
                     policies |-> LoadAll(g, s, "hasPolicy", LAMBDA p : load_policy(g, p))]))

load_data_service(g, s) ==
    Entry(sequence_index(g, s),
          Unwrap([id |-> Some(s[3]), endpoint_url |-> OptionalString(g, s, "endpointURL"),
                  endpoint_description |->
                      Some(OptionalString(g, s, "endpointDescription"))]))

\* The catalog in a node's graph: None when it fails to decode.  Only called
\* on a graph that holds a catalog.
load_catalog(g, node) ==
    LET subject == CHOOSE s \in {t[1] : t \in g} : Triple(s, "type", "Catalog") \in g
    IN Unwrap([id |-> Some(subject[3]), origin_node |-> Some(node),
               participant_id |-> Some(OptionalString(g, subject, "participantId")),
               datasets |-> LoadAll(g, subject, "dataset", LAMBDA d : load_dataset(g, d)),
               data_services |-> LoadAll(g, subject, "service",
                                         LAMBDA s : load_data_service(g, s))])
=============================================================================
