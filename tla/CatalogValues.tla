---------------------------- MODULE CatalogValues ----------------------------
(* What catalogs, tokens and answers are made of.  A string is a term [sp, n]: *)
(* a name n written bare, with the odrl: prefix, as a full ODRL IRI, or in     *)
(* another namespace ("urn").                                                  *)
EXTENDS Naturals, Sequences, FiniteSets, SequencesExt

Word(sp, n) == [sp |-> sp, n |-> n]
Bare(n) == Word("bare", n)
EmptyString == Bare("")

\* An Option: <<>> is None, <<x>> is Some(x).  A failed Result is None too.
None == <<>>
Some(x) == <<x>>
OrElse(option, default) == IF option = None THEN default ELSE option[1]

MapSeq(s, Op(_)) == [i \in DOMAIN s |-> Op(s[i])]
Flatten(seqs) == FlattenSeq(seqs)
\* Vec::retain: the members of s that are in T, in their order.
Retained(s, T) == Flatten([i \in DOMAIN s |-> IF s[i] \in T THEN Some(s[i]) ELSE None])
Ids(s) == {s[i].id : i \in DOMAIN s}

\* A set as a sequence, in the order Before gives its members.
SortedBy(set, Before(_, _)) ==
    [i \in 1..Cardinality(set) |->
        CHOOSE e \in set : Cardinality({f \in set : Before(f, e)}) = i - 1]

\* What nests in x: level k holds the parts of the values of level k - 1.
Levels(x, Parts(_)) ==
    LET level[k \in Nat] == IF k = 0 THEN {x} ELSE UNION {Parts(y) : y \in level[k - 1]}
    IN level

\* A recursion over nested values, to a depth of at most bound: what Step makes
\* of x, at its depth, from what it made of each part of x.
Nested(x, bound, Parts(_), Step(_, _, _)) ==
    LET level == Levels(x, Parts)
        \* what is made of the values that are rest levels above the bound
        made[rest \in Nat] ==
            [y \in level[bound - rest] |->
                Step(y, bound - rest,
                     IF rest = 0 THEN <<>> ELSE [z \in Parts(y) |-> made[rest - 1][z]])]
    IN made[bound][x]

\* The kinds of constraint groups, in the order the parser tries them.
LOGICAL_CONSTRAINT_BUILDERS == <<"xone", "or", "and", "andSequence">>
==============================================================================
