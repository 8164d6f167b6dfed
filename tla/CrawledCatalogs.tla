--------------------------- MODULE CrawledCatalogs ---------------------------
(* The crawler's parser: a DSP catalog response, as JSON, becomes a          *)
(* catalog_core::Catalog.  JSON keeps its shape: which keys are there, under *)
(* which spelling, one value or many.                                        *)
EXTENDS CatalogValues

CONSTANTS
    MAX_CONSTRAINT_DEPTH,   \* 64 in catalog_core
    JSON_DEPTH              \* how deep a body may nest, 128 in serde_json

ASSUME DepthAssumption == {MAX_CONSTRAINT_DEPTH, JSON_DEPTH} \subseteq Nat

(* JSON *)
Null == [j |-> "null", str |-> EmptyString, arr |-> <<>>, obj |-> <<>>]
Str(t) == [Null EXCEPT !.j = "str", !.str = t]
Num(t) == [Null EXCEPT !.j = "num", !.str = t]     \* a number or a boolean, as rendered
Arr(items) == [Null EXCEPT !.j = "arr", !.arr = items]
\* Keys are <<spelling, name>>; JSON-LD and DCAT keys are only read bare.
Obj(fields) == [Null EXCEPT !.j = "obj", !.obj = fields]
Key(name) == <<"bare", name>>

Fields(v) == IF v.j = "obj" THEN DOMAIN v.obj ELSE {}
GetKey(v, key) == IF key \in Fields(v) THEN Some(v.obj[key]) ELSE None
GetStr(v, name) ==
    LET got == GetKey(v, Key(name))
    IN IF got # None /\ got[1].j = "str" THEN Some(got[1].str) ELSE None
GetArr(v, name) ==
    LET got == GetKey(v, Key(name))
    IN IF got # None /\ got[1].j = "arr" THEN got[1].arr ELSE <<>>
\* value.get("@id").or_else(|| value.get("id")).and_then(as_str)
GetId(v) == IF Key("@id") \in Fields(v) THEN GetStr(v, "@id") ELSE GetStr(v, "id")

(* Reading JSON-LD *)

\* The value in a list or set object, which has no other key.
Wrapped(v) ==
    {v.obj[k] : k \in {k \in {Key("@list"), Key("@set")} : v.j = "obj" /\ Fields(v) = {k}}}

\* The value inside of all list and set objects.
Unwrapped(v) ==
    CHOOSE w \in UNION {Levels(v, Wrapped)[k] : k \in 0..JSON_DEPTH} : Wrapped(w) = {}

one_or_many(v) ==
    LET inner == Unwrapped(v) IN IF inner.j = "arr" THEN inner.arr ELSE <<inner>>

\* Mutant: only the first spelling found is read.
AliasedFirst(v, name) ==
    LET bare == GetKey(v, <<"bare", name>>)
        odrl == GetKey(v, <<"odrl", name>>)
    IN IF bare # None THEN bare ELSE IF odrl # None THEN odrl ELSE GetKey(v, <<"iri", name>>)

aliased_all(v, name) ==
    GetKey(v, <<"bare", name>>) \o GetKey(v, <<"odrl", name>>) \o GetKey(v, <<"iri", name>>)

one_or_many_aliased(v, name) == Flatten(MapSeq(aliased_all(v, name), one_or_many))

\* The value in an array of one.
SingleMember(v) == IF v.j = "arr" /\ Len(v.arr) = 1 THEN {v.arr[1]} ELSE {}

ScalarAt(v, depth, read) ==
    CASE v.j \in {"str", "num"} -> Some(v.str)
      [] v.j = "obj" /\ Key("@value") \in Fields(v) ->
            LET inner == v.obj[Key("@value")]
            IN IF inner.j \in {"str", "num"} THEN Some(inner.str) ELSE None
      [] v.j = "obj" /\ Fields(v) \subseteq {Key("@id"), Key("@type")} -> GetStr(v, "@id")
      [] v.j = "arr" /\ Len(v.arr) = 1 -> read[v.arr[1]]
      [] OTHER -> None

json_ld_scalar(v) == Nested(v, JSON_DEPTH, SingleMember, ScalarAt)

\* A scalar field: "absent", "unreadable", or "value" with its string.
get_field(v, name) ==
    LET raws == aliased_all(v, name)
        read == IF Len(raws) = 1 THEN json_ld_scalar(raws[1]) ELSE None
    IN [is |-> IF raws = <<>> THEN "absent" ELSE IF read = None THEN "unreadable" ELSE "value",
        value |-> read]

(* catalog_core's policy model *)

normalize_action(a) ==
    IF a # EmptyString /\ a.sp \in {"bare", "iri"} THEN Word("odrl", a.n) ELSE a

UNMAPPABLE_OPERATOR == Word("urn", "unmappable")
UNMAPPABLE_ACTION == Word("urn", "unmappable-action")

Atomic(l, o, r) == [c |-> "atomic", left |-> l, op |-> o, right |-> r, kids |-> <<>>]
Group(name, kids) ==
    [c |-> name, left |-> EmptyString, op |-> EmptyString, right |-> EmptyString,
     kids |-> kids]
Kids(c) == ToSet(c.kids)
\* The truncated excerpt of the raw JSON is one and the same string here.
Unmappable == Atomic(EmptyString, UNMAPPABLE_OPERATOR, Bare("excerpt"))

Policy(id, kind, assigner, assignee, permissions, prohibitions, obligations) ==
    [id |-> id, kind |-> kind, assigner |-> assigner, assignee |-> assignee,
     permissions |-> permissions, prohibitions |-> prohibitions,
     obligations |-> obligations]
Rule(action, constraints) == [action |-> action, constraints |-> constraints]

(* Policies *)

unmappable_rule == Rule(UNMAPPABLE_ACTION, <<Unmappable>>)

atomicKeys == {"leftOperand", "operator", "rightOperand"}

logical_present(v) ==
    LET present(k) == IF aliased_all(v, k) = <<>> THEN None ELSE Some(k)
    IN Flatten(MapSeq(LOGICAL_CONSTRAINT_BUILDERS, present))

\* The entries of the first group in a constraint.
GroupEntries(v) ==
    IF logical_present(v) = <<>> THEN <<>> ELSE one_or_many_aliased(v, logical_present(v)[1])
EntriesOf(v) == ToSet(GroupEntries(v))

\* Mutant: the group at the last depth is built and its children marked.
ConstraintOneTooDeep(v, depth, children) ==
    LET field(name) == get_field(v, name)
    IN IF depth > MAX_CONSTRAINT_DEPTH THEN Unmappable
       ELSE IF \A k \in atomicKeys : field(k).is = "value"
       THEN Atomic(field("leftOperand").value[1], field("operator").value[1],
                   field("rightOperand").value[1])
       ELSE IF logical_present(v) # <<>>
       THEN Group(logical_present(v)[1],
                  MapSeq(GroupEntries(v), LAMBDA entry : children[entry]))
       ELSE Unmappable

\* One constraint, from what its group's entries were parsed to.
ConstraintAt(v, depth, children) ==
    LET has_atomic_key == \E k \in atomicKeys : aliased_all(v, k) # <<>>
        field(name) == get_field(v, name)
    IN IF \/ depth > MAX_CONSTRAINT_DEPTH
          \/ Len(logical_present(v)) > 1
          \/ has_atomic_key /\ logical_present(v) # <<>>
       THEN Unmappable
       ELSE IF \A k \in atomicKeys : field(k).is = "value"
       THEN Atomic(field("leftOperand").value[1], field("operator").value[1],
                   field("rightOperand").value[1])
       ELSE IF logical_present(v) # <<>> /\ depth < MAX_CONSTRAINT_DEPTH
       THEN Group(logical_present(v)[1],
                  MapSeq(GroupEntries(v), LAMBDA entry : children[entry]))
       ELSE Unmappable

parse_constraint(v) ==
    Nested(v, MAX_CONSTRAINT_DEPTH + 1, EntriesOf, ConstraintAt)

\* Null stands for content that cannot be read: as a constraint it becomes
\* Unmappable, as a rule unmappable_rule.
Unreadable == Null

parse_constraints(entries) == MapSeq(entries, parse_constraint)

parse_rule(v) ==
    LET action == get_field(v, "action")
        beyond(k) == IF aliased_all(v, k) = <<>> THEN <<>> ELSE <<Unreadable>>
    IN IF v.j # "obj" THEN unmappable_rule
       ELSE Rule(IF action.is = "value" THEN normalize_action(action.value[1])
                 ELSE UNMAPPABLE_ACTION,
                 parse_constraints((IF action.is = "value" THEN <<>> ELSE <<Unreadable>>)
                                       \o one_or_many_aliased(v, "constraint")
                                       \o beyond("assignee") \o beyond("target")
                                       \o beyond("duty")))

parse_rules(entries) == MapSeq(entries, parse_rule)

parse_policy(v) ==
    LET type == GetStr(v, "@type")
        noRuleKey == \A k \in {"permission", "prohibition", "obligation"} :
                         aliased_all(v, k) = <<>>
        assignee == get_field(v, "assignee")
    IN Policy(GetStr(v, "@id"),
              IF type # None /\ type[1].sp = "bare" /\ type[1].n \in {"Offer", "Agreement"}
              THEN type[1].n ELSE "Set",
              get_field(v, "assigner").value,
              assignee.value,
              parse_rules(one_or_many_aliased(v, "permission")),
              parse_rules(one_or_many_aliased(v, "prohibition")),
              parse_rules(one_or_many_aliased(v, "obligation")
                              \o (IF noRuleKey THEN <<Unreadable>> ELSE <<>>)
                              \o (IF assignee.is = "unreadable" THEN <<Unreadable>> ELSE <<>>)))

parse_policies(dataset) ==
    MapSeq(one_or_many_aliased(dataset, "hasPolicy"),
           LAMBDA entry :
               IF entry.j = "obj" THEN parse_policy(entry)
               ELSE Policy(None, "Set", None, None, <<>>, <<>>, <<unmappable_rule>>))

(* Datasets, services and nested catalogs *)

Descriptive == {"title", "description", "version", "creatorName", "thumbnail", "keywords"}

parse_data_service(v) ==
    LET id == GetId(v)
    IN IF id = None THEN None
       ELSE Some([id |-> id[1],
                  endpoint_url |-> OrElse(GetStr(v, "endpointURL"), EmptyString),
                  endpoint_description |-> GetStr(v, "endpointDescription")])

parse_distribution(v) ==
    LET access == GetKey(v, Key("accessService"))
    IN [format |-> OrElse(GetStr(v, "format"), EmptyString),
        access_service |->
            IF access # None /\ access[1].j = "str" THEN access[1].str
            ELSE IF access # None /\ access[1].j = "obj"
            THEN OrElse(GetId(access[1]), EmptyString)
            ELSE EmptyString]

parse_dataset(v) ==
    [id |-> GetId(v)[1],
     properties |-> [k \in {d \in Descriptive : GetStr(v, d) # None} |-> GetStr(v, k)[1]],
     distributions |-> MapSeq(GetArr(v, "distribution"), parse_distribution),
     policies |-> parse_policies(v)]

\* The services nested in a dataset's distributions.
NestedServices(v) ==
    LET service(d) ==
            LET access == GetKey(d, Key("accessService"))
            IN IF access # None /\ access[1].j = "obj" THEN parse_data_service(access[1])
               ELSE None
    IN Flatten(MapSeq(GetArr(v, "distribution"), service))

\* Append each entry whose id has not been seen: the first one wins.
AddNew(seen, entry) == IF entry.id \in Ids(seen) THEN seen ELSE Append(seen, entry)
AddUnseen(seen, entries) ==
    LET kept[i \in 0..Len(entries)] ==
            IF i = 0 THEN seen ELSE AddNew(kept[i - 1], entries[i])
    IN kept[Len(entries)]

\* The entries of a catalog in the order they are collected: its services and
\* datasets, then those of the catalogs in it.
EntriesAt(v, depth, below) ==
    MapSeq(GetArr(v, "service"), LAMBDA s : [is |-> "service", json |-> s])
        \o MapSeq(GetArr(v, "dataset"), LAMBDA d : [is |-> "dataset", json |-> d])
        \o Flatten(MapSeq(GetArr(v, "catalog"), LAMBDA c : below[c]))
CatalogsIn(v) == ToSet(GetArr(v, "catalog"))
CatalogEntries(v) == Nested(v, JSON_DEPTH, CatalogsIn, EntriesAt)

\* A service is kept if its id is new; a dataset too, and then its services.
Collect(found, entry) ==
    LET v == entry.json
    IN IF entry.is = "service"
       THEN [found EXCEPT !.services = AddUnseen(@, parse_data_service(v))]
       ELSE IF GetId(v) = None \/ GetId(v) \in {GetId(d) : d \in ToSet(found.datasets)}
       THEN found
       ELSE [datasets |-> Append(found.datasets, v),
             services |-> AddUnseen(found.services, NestedServices(v))]

collect_datasets_and_services(v) ==
    LET entries == CatalogEntries(v)
        found[i \in 0..Len(entries)] ==
            IF i = 0 THEN [datasets |-> <<>>, services |-> <<>>]
            ELSE Collect(found[i - 1], entries[i])
    IN found[Len(entries)]

\* A response without @id gets a fresh one.  Its participantId is not read into
\* the catalog: the identity is the configured providerDid.
FreshId == Word("urn", "uuid")

parse_catalog_response(v, participant) ==
    LET found == collect_datasets_and_services(v)
    IN [id |-> OrElse(GetStr(v, "@id"), FreshId), origin_node |-> participant.id,
        participant_id |-> participant.provider_did,
        datasets |-> MapSeq(found.datasets, parse_dataset),
        data_services |-> found.services]
=============================================================================
