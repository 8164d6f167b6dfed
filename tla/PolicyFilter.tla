---------------------------- MODULE PolicyFilter ----------------------------
(* The broker's policy filter: what a caller's claims and a dataset's        *)
(* harvested policies decide.  ds-odrl-engine, a library, is modelled by the *)
(* decisions the broker's code and tests rely on, for the operators eq and   *)
(* neq.                                                                      *)
EXTENDS CrawledCatalogs

(* Mapping a stored policy to the engine's form *)

\* The operator without its odrl: prefix, when the engine knows it.
parse_operator(op) ==
    IF op.sp \in {"bare", "odrl"} /\ op.n \in
           {"eq", "neq", "isAnyOf", "isAllOf", "isNoneOf", "isPartOf",
            "lt", "lteq", "gt", "gteq"}
    THEN Some(Bare(op.n)) ELSE None

normalize_left_operand(left) == IF left.sp \in {"iri", "odrl"} THEN Bare(left.n) ELSE left

\* One constraint, its children aside, that the engine cannot be given.
Unevaluable(c, depth) ==
    \/ depth > MAX_CONSTRAINT_DEPTH
    \/ c.c = "atomic" /\ parse_operator(c.op) = None

HasUnmappable(c) ==
    \E depth \in 0..(MAX_CONSTRAINT_DEPTH + 1) :
        \E d \in Levels(c, Kids)[depth] : Unevaluable(d, depth)

\* One constraint for the engine, if it can be given, from its children that can;
\* only the skip setting gets to see one with children left out.
ConstraintForEngine(c, depth, mapped) ==
    IF Unevaluable(c, depth) THEN None
    ELSE IF c.c = "atomic"
    THEN Some(Atomic(normalize_left_operand(c.left), parse_operator(c.op)[1], c.right))
    ELSE Some(Group(c.c, Flatten(MapSeq(c.kids, LAMBDA kid : mapped[kid]))))

catalog_constraint_to_engine_constraint(c) ==
    Nested(c, MAX_CONSTRAINT_DEPTH + 1, Kids, ConstraintForEngine)

catalog_rule_to_engine_rule(rule) ==
    Rule(normalize_action(rule.action),
         Flatten(MapSeq(rule.constraints, catalog_constraint_to_engine_constraint)))

Rules(p) == ToSet(p.permissions) \cup ToSet(p.prohibitions) \cup ToSet(p.obligations)

\* Some(policy), or None when the configured action for a policy that cannot
\* be mapped applies: drop_policy or hide_dataset.
catalog_policy_to_wire_policy(p, config) ==
    LET unmappable == \E r \in Rules(p) : \E c \in ToSet(r.constraints) : HasUnmappable(c)
        map(rules) == MapSeq(rules, catalog_rule_to_engine_rule)
    IN IF unmappable /\ config.unmappable # "skip" THEN None
       ELSE Some([p EXCEPT !.permissions = map(@), !.prohibitions = map(@),
                           !.obligations = map(@)])

(* The engine *)

\* One constraint, from which of its children hold.
HoldsAt(c, claims, holds) ==
    LET holding == {i \in DOMAIN c.kids : holds[c.kids[i]]}
        values == claims[c.left.n]
    IN CASE c.c = "atomic" ->
              /\ c.left.sp = "bare" /\ c.left.n \in DOMAIN claims
              /\ (<<c.right.n>> \in values) <=> (c.op.n = "eq")
         [] c.c \in {"and", "andSequence"} -> holding = DOMAIN c.kids
         [] c.c = "or" -> holding # {}
         [] c.c = "xone" -> Cardinality(holding) = 1

\* The engine's own depth limit is the same.
Satisfied(c, claims) ==
    Nested(c, MAX_CONSTRAINT_DEPTH + 1, Kids,
           LAMBDA d, depth, holds : HoldsAt(d, claims, holds))

\* The decision for one policy on the action odrl:use: an assignee limits it to
\* the caller with that sub, a prohibition that applies denies, a policy without
\* permissions is open or closed as configured.
evaluate_request(p, claims, config) ==
    LET applies(rules) == \E r \in ToSet(rules) :
                              /\ r.action = Word("odrl", "use")
                              /\ \A c \in ToSet(r.constraints) : Satisfied(c, claims)
        forCaller == \/ p.assignee = None
                     \/ "sub" \in DOMAIN claims /\ <<p.assignee[1].n>> \in claims["sub"]
    IN /\ forCaller
       /\ ~ applies(p.prohibitions)
       /\ IF p.permissions = <<>> THEN config.no_policy = "open"
          ELSE applies(p.permissions)

(* The decision *)

\* The policies are looked at in order until one allows or hides.
dataset_is_visible(dataset, claims, config) ==
    LET policies == dataset.policies
        wire(i) == catalog_policy_to_wire_policy(policies[i], config)
        allows(i) == wire(i) # None /\ evaluate_request(wire(i)[1], claims, config)
        hides(i) == wire(i) = None /\ config.unmappable = "hide_dataset"
    IN IF policies = <<>> THEN config.no_policy = "open"
       ELSE \E i \in DOMAIN policies :
                allows(i) /\ \A k \in 1..(i - 1) : ~ hides(k)
=============================================================================
