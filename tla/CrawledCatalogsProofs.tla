------------------------ MODULE CrawledCatalogsProofs ------------------------
(***************************************************************************)
(* From a participant's response to a caller's answer.  First the gate and *)
(* the routes, for every parser, RDF form, policy filter and JSON of a     *)
(* policy.  Then the broker's own: whatever a participant answers, its     *)
(* catalog is stored and read back as it was parsed; whatever in it is not *)
(* understood lets nobody see anything; and the offers a caller gets are   *)
(* as if what it may not see had never been sent, services aside.  Proved  *)
(* for every response and every MAX_CONSTRAINT_DEPTH.                      *)
(***************************************************************************)
EXTENDS HiddenDatasets, CatalogGraphProofs, PolicyFilter, WellFoundedInduction

-----------------------------------------------------------------------------
(* The gate *)

\* A set of naturals has a least member.
LEMMA Least ==
    ASSUME NEW T, T \subseteq Nat, T # {}
    PROVE  \E x \in T : \A y \in T : x <= y
<1>1. \E x \in T : \A y \in T : ~ (<<y, x>> \in OpToRel(<, Nat))
  BY NatLessThanWellFounded, WFMin
<1>2. \A x, y \in T : <<y, x>> \in OpToRel(<, Nat) <=> y < x
  BY DEF OpToRel
<1>3. \E x \in T : \A y \in T : ~(y < x)
  BY <1>1, <1>2, Zenon
<1>4. QED
  BY <1>3

\* So positions in a list have a last one.
LEMMA LastPosition ==
    ASSUME NEW n \in Nat, NEW S, S \subseteq 1..n, S # {}
    PROVE  \E x \in S : \A y \in S : y <= x
<1> DEFINE T == {k \in Nat : n - k \in S}
<1>1. PICK i : i \in S
  OBVIOUS
<1>2. n - i \in T
  BY <1>1
<1>3. PICK k \in T : \A j \in T : k <= j
  BY <1>2, Least
<1>4. ASSUME NEW y \in S PROVE y <= n - k
  <2>1. n - y \in T
    OBVIOUS
  <2>2. k <= n - y /\ k \in Nat /\ y \in Nat
    BY <2>1, <1>3
  <2>3. QED
    BY <2>2
<1>5. QED
  BY <1>4

\* The algorithm of a key that is used is never an HMAC one.
LEMMA AlgorithmIsAsymmetric ==
    ASSUME NEW jwk, determine_algorithm(jwk) # None
    PROVE  determine_algorithm(jwk)[1] # "HS256"
<1>1. CASE jwk.alg # None
  BY <1>1 DEF determine_algorithm
<1>2. CASE jwk.alg = None
  <2>1. determine_algorithm(jwk) \in {Some("RS256"), Some("ES256"), Some("ES384")}
    BY <1>2 DEF determine_algorithm
  <2>2. QED
    BY <2>1 DEF Some
<1>3. QED
  BY <1>1, <1>2

\* What the gate keeps for a kid comes from a usable key of the JWKS.
LEMMA FetchedKeyIsUsable ==
    ASSUME NEW jwks, jwks \in Seq(ToSet(jwks)), NEW kid \in DOMAIN fetch(jwks)
    PROVE  \E i \in Usable(jwks) :
               /\ fetch(jwks)[kid].key = jwks[i].key
               /\ fetch(jwks)[kid].algorithm = determine_algorithm(jwks[i])[1]
<1> DEFINE same == {i \in Usable(jwks) : jwks[i].kid[1] = kid}
           last == CHOOSE i \in Usable(jwks) :
                       /\ jwks[i].kid[1] = kid
                       /\ \A j \in Usable(jwks) : jwks[j].kid[1] = kid => j <= i
<1>1. Len(jwks) \in Nat /\ DOMAIN jwks = 1..Len(jwks)
  OBVIOUS
<1>2. same \subseteq 1..Len(jwks) /\ same # {}
  BY <1>1 DEF Usable, fetch
<1>3. \E i \in same : \A j \in same : j <= i
  BY <1>1, <1>2, LastPosition
<1>4. last \in Usable(jwks)
  BY <1>3
<1>5. fetch(jwks)[kid] = [key |-> jwks[last].key,
                          algorithm |-> determine_algorithm(jwks[last])[1]]
  BY DEF fetch
<1> HIDE DEF last
<1>6. QED
  BY <1>4, <1>5

\* The header's token comes from one who holds a private key of the JWKS, and
\* is in its time, for this issuer, audience and scope.
IssuersToken(gate, header) ==
    /\ \E k \in ToSet(gate.jwks) : k.kty # "oct" /\ header.secret = Private(k.key)
    /\ header.exp = "future" /\ header.nbf # "future"
    /\ gate.issuer # None => header.iss = gate.issuer
    /\ gate.audience # None => header.aud = gate.audience
    /\ gate.scope # None => HasScope(header.claims, gate.scope[1])

\* check_oauth2_bearer answers 200 to the issuers' tokens only.
LEMMA GateAdmitsIssuers ==
    ASSUME NEW gate, gate # None, gate[1].jwks \in Seq(ToSet(gate[1].jwks)),
           NEW header, check_oauth2_bearer(gate, header) = 200
    PROVE  IssuersToken(gate[1], header)
<1> DEFINE g == gate[1]
           keys == fetch(g.jwks)
           jwk == keys[header.kid[1]]
<1>1. verify(g, header) = "verified"
  <2>1. bearer_token(header) # None /\ verify(g, bearer_token(header)[1]) = "verified"
    BY DEF check_oauth2_bearer
  <2>2. bearer_token(header)[1] = header
    BY <2>1 DEF bearer_token, Some
  <2>3. QED
    BY <2>1, <2>2
<1>2. /\ header.kid[1] \in DOMAIN keys
      /\ SignatureValid(header, jwk.algorithm, jwk.key)
      /\ ClaimsAccepted(header, g)
      /\ gate[1].scope # None => HasScope(header.claims, g.scope[1])
  BY <1>1 DEF verify
<1>3. PICK i \in Usable(g.jwks) :
          jwk.key = g.jwks[i].key /\ jwk.algorithm = determine_algorithm(g.jwks[i])[1]
  BY <1>2, FetchedKeyIsUsable
<1>4. /\ i \in DOMAIN g.jwks /\ g.jwks[i].kty # "oct"
      /\ determine_algorithm(g.jwks[i]) # None
  BY DEF Usable
<1>5. jwk.algorithm # "HS256"
  BY <1>3, <1>4, AlgorithmIsAsymmetric
<1>6. header.secret = Private(g.jwks[i].key)
  BY <1>2, <1>3, <1>5 DEF SignatureValid
<1>7. g.jwks[i] \in ToSet(g.jwks)
  BY <1>4 DEF ToSet
<1>8. QED
  BY <1>2, <1>4, <1>6, <1>7 DEF IssuersToken, ClaimsAccepted

-----------------------------------------------------------------------------
(* The answers.  A request is answered once every participant is crawled, so *)
(* no write comes between an answer, or an allow-list kept, and the store it *)
(* was made from.                                                            *)

AllCrawled == \A n \in Nodes : catalog[n] # None

\* Only a token the gate admits is answered with 200.
AnswerAdmitted ==
    answer.status = 200 => check_oauth2_bearer(config.oauth2, answer.header) = 200

OffersCurrent ==
    Answered("offers") =>
        answer.offers = Offers(answer.header, answer.filter, config, store)

\* list is what some admitted caller with this key may see of the store.
ListForKey(key, list) ==
    \E t \in Tokens :
        /\ check_oauth2_bearer(config.oauth2, t) = 200
        /\ key = allow_list_key(Claims(t, config))
        /\ list = visible_iris_for(Claims(t, config), config, store)

ListsCurrent == \A e \in cached : ListForKey(e.key, e.list)

\* With policies filtered, /sparql answers with the quads that an admitted
\* caller with the same key may see: a caller shares decisions with its key and
\* with nobody else, and those of the store as it is.
SparqlAnswersByKey ==
    (Answered("sparql") /\ should_filter_by_policy(config)) =>
        \E list : /\ ListForKey(allow_list_key(Claims(answer.header, config)), list)
                  /\ answer.quads = VisibleDataset(Quads(store), list)

\* The dataset or service with this IRI is in the catalog, and its policies, or
\* those of the datasets it serves, let the claims see it.
ShownIn(c, iri, claims) ==
    LET ds == ToSet(c.datasets)
        uses(d, s) == \E i \in DOMAIN d.distributions : d.distributions[i].access_service = s.id
    IN \/ \E d \in ds : /\ iri = dataset_iri(c.origin_node, d.id)
                        /\ DatasetVisible(d, claims, config)
       \/ \E s \in ToSet(c.data_services) :
              /\ iri = service_iri(c.origin_node, s.id)
              /\ (\E d \in ds : uses(d, s)) =>
                    \E d \in ds : uses(d, s) /\ DatasetVisible(d, claims, config)

\* The resources a quad is about: that of its subject, and of the object of a link.
About(t) ==
    LET paths == {t[1]} \cup (IF t[2] \in Links THEN {t[3].v} ELSE {})
    IN {owning_resource_iri(p) : p \in paths} \ {None}

\* Whatever is stored, a filtered query matches no quad about a dataset or service,
\* at any depth below it or linking to it, that the policies hide from every
\* admitted caller with the allow-list key of this one.
SparqlHidesHidden ==
    (Answered("sparql") /\ should_filter_by_policy(config)) =>
        \E t \in Tokens :
            /\ check_oauth2_bearer(config.oauth2, t) = 200
            /\ allow_list_key(Claims(t, config)) = allow_list_key(Claims(answer.header, config))
            /\ \A q \in answer.quads : \A owner \in About(q) :
                  \E c \in DecodedCatalogs(Nodes, store) :
                      ShownIn(c, owner[1], engine_claims_from_bearer(Claims(t, config)))

RoutesInv ==
    /\ config \in Configs
    /\ answer = Nothing \/ AllCrawled
    /\ cached = {} \/ AllCrawled
    /\ AnswerAdmitted
    /\ OffersCurrent
    /\ ListsCurrent
    /\ SparqlAnswersByKey

\* Before the first request nothing has been answered.
LEMMA NothingAnswered ==
    ASSUME answer = Nothing
    PROVE  AnswerAdmitted /\ OffersCurrent /\ SparqlAnswersByKey
<1>1. Nothing.status = 0
  BY DEF Nothing
<1>2. QED
  BY <1>1 DEF AnswerAdmitted, OffersCurrent, SparqlAnswersByKey, Answered

\* A crawl comes before any answer.
LEMMA CrawlKeepsRoutes ==
    ASSUME RoutesInv, NEW n \in Nodes, Crawl(n)
    PROVE  RoutesInv'
<1>1. catalog[n] = None /\ UNCHANGED <<config, cached, answer>>
  BY DEF Crawl
<1>2. answer' = Nothing /\ cached' = {}
  BY <1>1 DEF RoutesInv, AllCrawled
<1>3. AnswerAdmitted' /\ OffersCurrent' /\ SparqlAnswersByKey'
  <2>1. answer'.status # 200
    BY <1>2 DEF Nothing
  <2>2. QED
    BY <2>1 DEF AnswerAdmitted, OffersCurrent, SparqlAnswersByKey, Answered
<1>4. QED
  BY <1>1, <1>2, <1>3 DEF RoutesInv, ListsCurrent

\* GET /catalog and the management API leave the allow-lists alone.
LEMMA CatalogRoutesKeepRoutes ==
    ASSUME RoutesInv, NEW t \in Tokens,
           (\E nodes : GetCatalog(t, nodes)) \/ (\E f : CatalogRequest(t, f))
    PROVE  RoutesInv'
<1>1. AllCrawled /\ UNCHANGED <<config, catalog, store, cached>>
  BY DEF GetCatalog, CatalogRequest, Asking, AllCrawled
<1>2. AllCrawled' /\ ListsCurrent'
  BY <1>1 DEF RoutesInv, AllCrawled, ListsCurrent, ListForKey
<1>3. ASSUME NEW nodes, GetCatalog(t, nodes)
      PROVE  AnswerAdmitted' /\ OffersCurrent' /\ SparqlAnswersByKey'
  <2>1. /\ answer'.route = "catalog" /\ answer'.header = t
        /\ answer'.status = 200 => check_oauth2_bearer(config.oauth2, t) = 200
    BY <1>3 DEF GetCatalog, Nothing
  <2>2. QED
    BY <1>1, <2>1 DEF AnswerAdmitted, OffersCurrent, SparqlAnswersByKey, Answered
<1>4. ASSUME NEW f, CatalogRequest(t, f)
      PROVE  AnswerAdmitted' /\ OffersCurrent' /\ SparqlAnswersByKey'
  <2>1. /\ answer'.route = "offers" /\ answer'.header = t /\ answer'.filter = f
        /\ answer'.status = check_oauth2_bearer(config.oauth2, t)
        /\ answer'.status = 200 => answer'.offers = Offers(t, f, config, store)
    BY <1>4 DEF CatalogRequest, Nothing
  <2>2. QED
    BY <1>1, <2>1 DEF AnswerAdmitted, OffersCurrent, SparqlAnswersByKey, Answered
<1>5. QED
  BY <1>1, <1>2, <1>3, <1>4 DEF RoutesInv

\* /sparql uses a list kept for the key or makes one.
LEMMA SparqlKeepsRoutes ==
    ASSUME RoutesInv, NEW t \in Tokens, Sparql(t)
    PROVE  RoutesInv'
<1> DEFINE gate == check_oauth2_bearer(config.oauth2, t)
           claims == Claims(t, config)
           list == AllowList(claims)
           filtered == gate = 200 /\ should_filter_by_policy(config)
<1>1. AllCrawled /\ UNCHANGED <<config, catalog, store>>
  BY DEF Sparql, Asking, AllCrawled
<1>2. /\ answer'.route = "sparql" /\ answer'.header = t /\ answer'.status = gate
      /\ filtered => answer'.quads = VisibleDataset(Quads(store), list)
  BY DEF Sparql, Nothing
<1>3. cached' \subseteq cached \cup
          {e \in {[key |-> allow_list_key(claims), list |-> list]} : filtered}
  BY DEF Sparql
<1>4. ASSUME gate = 200 PROVE ListForKey(allow_list_key(claims), list)
  <2> DEFINE known == {e \in cached : e.key = allow_list_key(claims)}
  <2>1. CASE known # {}
    <3>1. list = (CHOOSE e \in known : TRUE).list
      BY <2>1 DEF AllowList
    <3>2. \E e \in known : list = e.list
      BY <2>1, <3>1
    <3>3. QED
      BY <3>2 DEF RoutesInv, ListsCurrent
  <2>2. CASE known = {}
    <3>1. list = visible_iris_for(claims, config, store)
      BY <2>2 DEF AllowList
    <3>2. QED
      BY <1>4, <3>1 DEF ListForKey
  <2>3. QED
    BY <2>1, <2>2
<1> HIDE DEF list, claims
<1>5. \A key, l : ListForKey(key, l)' <=> ListForKey(key, l)
  BY <1>1 DEF ListForKey
<1>6. ListsCurrent'
  <2> SUFFICES ASSUME NEW e \in cached' PROVE ListForKey(e.key, e.list)
    BY <1>5 DEF ListsCurrent
  <2>1. CASE e \in cached
    BY <2>1 DEF RoutesInv, ListsCurrent
  <2>2. CASE e = [key |-> allow_list_key(claims), list |-> list] /\ filtered
    BY <2>2, <1>4
  <2>3. QED
    BY <1>3, <2>1, <2>2
<1>7. AnswerAdmitted' /\ OffersCurrent'
  BY <1>1, <1>2 DEF AnswerAdmitted, OffersCurrent, Answered
<1>8. SparqlAnswersByKey'
  <2> SUFFICES ASSUME gate = 200, should_filter_by_policy(config)
               PROVE  SparqlAnswersByKey'
    BY <1>1, <1>2 DEF SparqlAnswersByKey, Answered
  <2>1. ListForKey(allow_list_key(claims), list)
    BY <1>4
  <2>2. /\ answer'.quads = VisibleDataset(Quads(store'), list)
        /\ claims = Claims(answer'.header, config')
    BY <1>1, <1>2 DEF claims
  <2>3. QED
    BY <1>1, <1>2, <2>1, <2>2 DEF SparqlAnswersByKey, ListForKey, claims
<1>9. AllCrawled'
  BY <1>1 DEF AllCrawled
<1>10. QED
  BY <1>1, <1>6, <1>7, <1>8, <1>9 DEF RoutesInv

\* RoutesInv holds in every reachable state.
THEOREM AnswersAreCurrent == Spec => []RoutesInv
<1>1. Init => RoutesInv
  BY NothingAnswered DEF Init, RoutesInv, ListsCurrent
<1>2. RoutesInv /\ [Next]_vars => RoutesInv'
  <2> SUFFICES ASSUME RoutesInv, [Next]_vars PROVE RoutesInv'
    OBVIOUS
  <2>1. CASE Sent
    <3>1. answer' = Nothing /\ UNCHANGED <<config, catalog, store, cached>>
      BY <2>1 DEF Sent
    <3>2. answer'.status # 200
      BY <3>1 DEF Nothing
    <3>3. AnswerAdmitted' /\ OffersCurrent' /\ SparqlAnswersByKey'
      BY <3>2 DEF AnswerAdmitted, OffersCurrent, SparqlAnswersByKey, Answered
    <3>4. ListsCurrent'
      BY <3>1 DEF RoutesInv, ListsCurrent, ListForKey
    <3>5. QED
      BY <3>1, <3>3, <3>4 DEF RoutesInv, AllCrawled
  <2>2. CASE UNCHANGED vars
    BY <2>2 DEF vars, RoutesInv, AllCrawled, AnswerAdmitted, OffersCurrent,
       ListsCurrent, ListForKey, SparqlAnswersByKey, Answered
  <2>3. QED
    BY <2>1, <2>2, CrawlKeepsRoutes, CatalogRoutesKeepRoutes, SparqlKeepsRoutes DEF Next
<1>3. QED
  BY <1>1, <1>2, PTL DEF Spec

\* With the gate on, only a token signed with the private key of an asymmetric
\* JWK, in its time, for this issuer, audience and scope, gets an answer from
\* any route, for every JWKS and every token.
THEOREM IssuersTokensOnly == Spec => []OnlyIssuerTokens
<1>1. RoutesInv => OnlyIssuerTokens
  <2> SUFFICES ASSUME RoutesInv, config.oauth2 # None, answer.status = 200
               PROVE  IssuersToken(config.oauth2[1], answer.header)
    BY DEF OnlyIssuerTokens, IssuersToken
  <2>1. config.oauth2[1].jwks \in Seq(ToSet(config.oauth2[1].jwks))
    BY RoutesAssumption DEF RoutesInv
  <2>2. QED
    BY <2>1, GateAdmitsIssuers DEF RoutesInv, AnswerAdmitted
<1>2. QED
  BY <1>1, AnswersAreCurrent, PTL

\* A filtered answer of /sparql is what an admitted caller with the same key may
\* see of the store as it is.
THEOREM SparqlSharesByKey == Spec => []SparqlAnswersByKey
<1>1. RoutesInv => SparqlAnswersByKey
  BY DEF RoutesInv
<1>2. QED
  BY <1>1, AnswersAreCurrent, PTL

\* What an allow-list holds is visible in some catalog.
LEMMA ListedIsShown ==
    ASSUME NEW c, NEW claims, NEW iri \in visible_resource_iris(c, claims, config)
    PROVE  ShownIn(c, iri, claims)
<1> DEFINE ds == ToSet(c.datasets)
           seen == {d \in ds : DatasetVisible(d, claims, config)}
<1>1. CASE \E d \in seen : iri = dataset_iri(c.origin_node, d.id)
  BY <1>1 DEF ShownIn
<1>2. CASE \E s \in ToSet(c.data_services) :
              /\ service_is_visible(s.id, services_used_by(ds), services_used_by(seen))
              /\ iri = service_iri(c.origin_node, s.id)
  <2>1. PICK s \in ToSet(c.data_services) :
            /\ service_is_visible(s.id, services_used_by(ds), services_used_by(seen))
            /\ iri = service_iri(c.origin_node, s.id)
    BY <1>2
  <2>2. \A set : s.id \in services_used_by(set) <=>
            \E d \in set : \E i \in DOMAIN d.distributions :
                d.distributions[i].access_service = s.id
    BY DEF services_used_by, ToSet
  <2>3. QED
    BY <2>1, <2>2 DEF ShownIn, service_is_visible
<1>3. QED
  BY <1>1, <1>2 DEF visible_resource_iris

\* A filtered query matches nothing about a dataset or service that the policies
\* hide, whatever graphs, parser and policies the store was filled with.
THEOREM SparqlHides == Spec => []SparqlHidesHidden
<1>1. SparqlAnswersByKey => SparqlHidesHidden
  <2> SUFFICES ASSUME SparqlAnswersByKey, Answered("sparql"), should_filter_by_policy(config)
               PROVE  SparqlHidesHidden
    BY DEF SparqlHidesHidden
  <2>1. PICK list : /\ ListForKey(allow_list_key(Claims(answer.header, config)), list)
                    /\ answer.quads = VisibleDataset(Quads(store), list)
    BY DEF SparqlAnswersByKey
  <2>2. PICK t \in Tokens :
            /\ check_oauth2_bearer(config.oauth2, t) = 200
            /\ allow_list_key(Claims(t, config)) = allow_list_key(Claims(answer.header, config))
            /\ list = visible_iris_for(Claims(t, config), config, store)
    BY <2>1 DEF ListForKey
  <2>3. ASSUME NEW q \in answer.quads, NEW owner \in About(q)
        PROVE  owner[1] \in list
    <3>1. quad_is_visible(q, list)
      BY <2>1 DEF VisibleDataset
    <3>2. QED
      BY <3>1 DEF About, quad_is_visible, iri_is_visible
  <2>4. ASSUME NEW q \in answer.quads, NEW owner \in About(q)
        PROVE  \E c \in DecodedCatalogs(Nodes, store) :
                   ShownIn(c, owner[1], engine_claims_from_bearer(Claims(t, config)))
    BY <2>2, <2>3, ListedIsShown DEF visible_iris_for
  <2>5. QED
    BY <2>2, <2>4 DEF SparqlHidesHidden
<1>2. QED
  BY <1>1, SparqlSharesByKey, PTL

-----------------------------------------------------------------------------
(* The recursions of parser and writer *)

\* The entries nested in a constraint, as JSON.
EntryLevels(v) == Levels(v, EntriesOf)
NextEntries(x, n, level) == UNION {EntriesOf(y) : y \in level}
EntryRecursion == INSTANCE NatRecursion WITH First <- Itself, Then <- NextEntries

\* What is parsed of the entries rest levels above the bound.
DeepestParsed(v) ==
    [y \in EntryLevels(v)[Bound] |-> ConstraintAt(y, Bound, <<>>)]
NextParsed(v, rest, below) ==
    [y \in EntryLevels(v)[Bound - rest] |->
        ConstraintAt(y, Bound - rest, [z \in EntriesOf(y) |-> below[z]])]
ParseRecursion == INSTANCE NatRecursion WITH First <- DeepestParsed, Then <- NextParsed

\* The entries of a constraint, level by level.
LEMMA EntryLevelsRecurse ==
    ASSUME NEW v
    PROVE  /\ EntryLevels(v)[0] = {v}
           /\ \A k \in Nat : EntryLevels(v)[k + 1] = UNION {EntriesOf(y) : y \in EntryLevels(v)[k]}
<1> DEFINE Is(f) == f = [k \in Nat |-> IF k = 0 THEN {v}
                                       ELSE UNION {EntriesOf(y) : y \in f[k - 1]}]
<1>1. \E f : Is(f)
  BY EntryRecursion!RecursionExists DEF Itself, NextEntries
<1>2. EntryLevels(v) = CHOOSE f : Is(f)
  BY DEF EntryLevels, Levels
<1>3. Is(EntryLevels(v))
  BY <1>1, <1>2
<1>4. QED
  BY <1>3

\* made gives, for each level but the last, what its entries are parsed to.
ParsedBy(v, made) ==
    /\ parse_constraint(v) = made[Bound][v]
    /\ \A k \in 0..MAX_CONSTRAINT_DEPTH : \A y \in EntryLevels(v)[k] :
          made[Bound - k][y]
              = ConstraintAt(y, k, [z \in EntriesOf(y) |-> made[Bound - k - 1][z]])

\* parse_constraint is its recursion, level by level.
LEMMA ParseRecurses == ASSUME NEW v PROVE \E made : ParsedBy(v, made)
<1> DEFINE Row(f, rest) ==
        [y \in EntryLevels(v)[Bound - rest] |->
            ConstraintAt(y, Bound - rest,
                         IF rest = 0 THEN <<>> ELSE [z \in EntriesOf(y) |-> f[rest - 1][z]])]
           Is(f) == f = [rest \in Nat |-> Row(f, rest)]
<1>1. Bound \in Nat /\ MAX_CONSTRAINT_DEPTH \in Nat
  BY DepthAssumption DEF Bound
<1>2. PICK g : g = [n \in Nat |-> IF n = 0 THEN DeepestParsed(v) ELSE NextParsed(v, n, g[n - 1])]
  BY ParseRecursion!RecursionExists
<1>3. ASSUME NEW n \in Nat PROVE g[n] = Row(g, n)
  <2>1. CASE n = 0
    BY <1>1, <1>2, <2>1 DEF DeepestParsed
  <2>2. CASE n # 0
    BY <1>1, <1>2, <2>2 DEF NextParsed
  <2>3. QED
    BY <2>1, <2>2
<1>4. Is(g)
  BY <1>2, <1>3
<1> DEFINE made == CHOOSE f : Is(f)
<1>5. Is(made)
  BY <1>4
<1>6. parse_constraint(v) = made[Bound][v]
  BY DEF parse_constraint, Nested, EntryLevels, Bound
<1>7. ASSUME NEW k \in 0..MAX_CONSTRAINT_DEPTH, NEW y \in EntryLevels(v)[k]
      PROVE  made[Bound - k][y]
                = ConstraintAt(y, k, [z \in EntriesOf(y) |-> made[Bound - k - 1][z]])
  <2>1. Bound - k \in Nat /\ Bound - k # 0 /\ Bound - (Bound - k) = k
    BY <1>1 DEF Bound
  <2>2. made[Bound - k] = Row(made, Bound - k)
    BY <1>5, <2>1
  <2>3. QED
    BY <2>1, <2>2
<1> HIDE DEF made
<1>8. QED
  BY <1>6, <1>7 DEF ParsedBy

\* What a constraint is made of: nothing, or what its entries were parsed to, and
\* that only above the last depth.
LEMMA ConstraintKids ==
    ASSUME NEW v, NEW depth \in Nat, NEW children,
           NEW i \in DOMAIN ConstraintAt(v, depth, children).kids
    PROVE  /\ depth < MAX_CONSTRAINT_DEPTH
           /\ \E entry \in EntriesOf(v) :
                 ConstraintAt(v, depth, children).kids[i] = children[entry]
<1> DEFINE c == ConstraintAt(v, depth, children)
           entries == GroupEntries(v)
<1>1. Unmappable.kids = <<>>
  BY DEF Unmappable, Atomic
<1>2. \A l, o, r : Atomic(l, o, r).kids = <<>>
  BY DEF Atomic
<1>3. \A name, kids : Group(name, kids).kids = kids
  BY DEF Group
<1>4. c.kids # <<>>
  OBVIOUS
<1>5. /\ depth < MAX_CONSTRAINT_DEPTH
      /\ c.kids = [j \in DOMAIN entries |-> children[entries[j]]]
  BY <1>1, <1>2, <1>3, <1>4 DEF ConstraintAt, MapSeq
<1>6. i \in DOMAIN entries /\ c.kids[i] = children[entries[i]]
  BY <1>5
<1>7. entries[i] \in EntriesOf(v)
  BY <1>6 DEF EntriesOf, ToSet
<1>8. QED
  BY <1>5, <1>6, <1>7

-----------------------------------------------------------------------------
(* Parser and writer *)

\* Each constraint at a depth was parsed from an entry at that depth.
KidsParsedBy(v, made) ==
    /\ ParsedBy(v, made)
    /\ \A k \in 0..Bound : \A d \in KidLevels(parse_constraint(v))[k] :
          \E y \in EntryLevels(v)[k] : d = made[Bound - k][y]

\* What is nested in a parsed constraint was parsed, and past the last depth there
\* is nothing.
LEMMA KidsAreParsed ==
    ASSUME NEW v
    PROVE  /\ \E made : KidsParsedBy(v, made)
           /\ KidLevels(parse_constraint(v))[Bound] = {}
<1> DEFINE c == parse_constraint(v)
<1>1. MAX_CONSTRAINT_DEPTH \in Nat /\ Bound \in Nat /\ Bound = MAX_CONSTRAINT_DEPTH + 1
  BY DepthAssumption DEF Bound
<1>2. PICK made : ParsedBy(v, made)
  BY ParseRecurses
<1> DEFINE Parsed(k) == \A d \in KidLevels(c)[k] :
                            \E y \in EntryLevels(v)[k] : d = made[Bound - k][y]
           T == {k \in Nat : k <= Bound => Parsed(k) /\ (k = Bound => KidLevels(c)[k] = {})}
<1> HIDE DEF c
<1>3. ASSUME NEW k \in 0..MAX_CONSTRAINT_DEPTH, Parsed(k), NEW e \in KidLevels(c)[k + 1]
      PROVE  /\ k < MAX_CONSTRAINT_DEPTH
             /\ \E z \in EntryLevels(v)[k + 1] : e = made[Bound - (k + 1)][z]
  <2>1. PICK d \in KidLevels(c)[k] : e \in Kids(d)
    BY KidLevelsRecurse
  <2>2. PICK y \in EntryLevels(v)[k] : d = made[Bound - k][y]
    BY <1>3, <2>1
  <2> DEFINE children == [z \in EntriesOf(y) |-> made[Bound - k - 1][z]]
  <2>3. d = ConstraintAt(y, k, children)
    BY <1>2, <2>2 DEF ParsedBy
  <2>4. PICK i \in DOMAIN d.kids : e = d.kids[i]
    BY <2>1 DEF Kids, ToSet
  <2>5. k < MAX_CONSTRAINT_DEPTH /\ \E z \in EntriesOf(y) : e = children[z]
    <3> HIDE DEF children
    <3>1. i \in DOMAIN ConstraintAt(y, k, children).kids /\ k \in Nat
      BY <2>3, <2>4
    <3>2. /\ k < MAX_CONSTRAINT_DEPTH
          /\ \E z \in EntriesOf(y) : ConstraintAt(y, k, children).kids[i] = children[z]
      BY <3>1, ConstraintKids
    <3>3. QED
      BY <2>3, <2>4, <3>2
  <2>6. EntriesOf(y) \subseteq EntryLevels(v)[k + 1]
    BY <2>2, EntryLevelsRecurse
  <2>7. Bound - (k + 1) = Bound - k - 1
    BY <1>1
  <2>8. QED
    BY <2>5, <2>6, <2>7
<1>4. Parsed(0)
  BY <1>1, <1>2, KidLevelsRecurse, EntryLevelsRecurse DEF ParsedBy, c
<1>5. 0 \in T
  BY <1>1, <1>4
<1>6. ASSUME NEW k \in T PROVE k + 1 \in T
  <2> SUFFICES ASSUME k + 1 <= Bound
               PROVE  Parsed(k + 1) /\ (k + 1 = Bound => KidLevels(c)[k + 1] = {})
    OBVIOUS
  <2>1. k \in 0..MAX_CONSTRAINT_DEPTH /\ Parsed(k)
    BY <1>1
  <2>2. Parsed(k + 1)
    BY <1>3, <2>1
  <2>3. ASSUME k + 1 = Bound, NEW e \in KidLevels(c)[k + 1] PROVE FALSE
    BY <1>1, <1>3, <2>1, <2>3
  <2>4. QED
    BY <2>2, <2>3
<1>7. T = Nat
  <2> HIDE DEF T
  <2>1. T \subseteq Nat
    BY DEF T
  <2>2. QED
    BY <1>5, <1>6, <2>1, KidRecursion!Induction
<1>8. KidLevels(c)[Bound] = {} /\ \A k \in 0..Bound : Parsed(k)
  BY <1>1, <1>7
<1>9. QED
  BY <1>2, <1>8 DEF c, KidsParsedBy

\* What parse_constraint builds is nested no deeper than write_constraint writes.
LEMMA ParsedIsNotTooDeep == ASSUME NEW v PROVE ~ TooDeep(parse_constraint(v))
BY KidsAreParsed DEF TooDeep, KidLevels, Bound

\* Every constraint of a parsed rule is a parsed constraint, or the marker.
LEMMA RulesAreNotTooDeep ==
    ASSUME NEW v, NEW c \in ToSet(parse_rule(v).constraints)
    PROVE  ~ TooDeep(c)
<1>1. ~ TooDeep(Unmappable)
  <2>1. Unmappable.kids = <<>>
    BY DEF Unmappable, Atomic
  <2>2. KidLevels(Unmappable)[0] = {Unmappable} /\ KidLevels(Unmappable)[1] = {}
    BY <2>1, KidLevelsRecurse DEF Kids, ToSet
  <2>3. \A k \in Nat : KidLevels(Unmappable)[k + 1] = {}
    <3> DEFINE T == {k \in Nat : KidLevels(Unmappable)[k + 1] = {}}
    <3>1. 0 \in T
      BY <2>2
    <3>2. ASSUME NEW k \in T PROVE k + 1 \in T
      BY KidLevelsRecurse
    <3>3. T = Nat
      <4> HIDE DEF T
      <4>1. T \subseteq Nat
        BY DEF T
      <4>2. QED
        BY <3>1, <3>2, <4>1, KidRecursion!Induction
    <3>4. QED
      BY <3>3
  <2>4. QED
    BY <2>3, DepthAssumption DEF TooDeep, KidLevels
<1>2. CASE v.j # "obj"
  BY <1>1, <1>2 DEF parse_rule, unmappable_rule, Rule, ToSet
<1>3. CASE v.j = "obj"
  <2>1. PICK entries : parse_rule(v).constraints = parse_constraints(entries)
    BY <1>3 DEF parse_rule, Rule
  <2>2. QED
    BY <2>1, ParsedIsNotTooDeep DEF parse_constraints, MapSeq, ToSet
<1>4. QED
  BY <1>2, <1>3

\* The store writes whatever the crawler parses.
LEMMA ParsedIsWritten ==
    ASSUME NEW v, NEW participant
    PROVE  write_catalog(parse_catalog_response(v, participant)) # None
<1> DEFINE catalog_ == parse_catalog_response(v, participant)
<1>1. ASSUME NEW entries, NEW r \in ToSet(parse_rules(entries)), NEW c \in ToSet(r.constraints)
      PROVE  ~ TooDeep(c)
  BY <1>1, RulesAreNotTooDeep DEF parse_rules, MapSeq, ToSet
<1>2. ASSUME NEW d \in ToSet(catalog_.datasets), NEW p \in ToSet(d.policies),
             NEW r \in ToSet(p.permissions) \cup ToSet(p.prohibitions) \cup ToSet(p.obligations),
             NEW c \in ToSet(r.constraints)
      PROVE  ~ TooDeep(c)
  <2>1. PICK w : d = parse_dataset(w)
    BY <1>2 DEF parse_catalog_response, MapSeq, ToSet
  <2>2. PICK entry : p = IF entry.j = "obj" THEN parse_policy(entry)
                         ELSE Policy(None, "Set", None, None, <<>>, <<>>, <<unmappable_rule>>)
    BY <1>2, <2>1 DEF parse_dataset, parse_policies, MapSeq, ToSet
  <2>3. CASE entry.j = "obj"
    <3>1. \E entries : r \in ToSet(parse_rules(entries))
      BY <1>2, <2>2, <2>3 DEF parse_policy, Policy
    <3>2. QED
      BY <1>1, <1>2, <3>1
  <2>4. CASE entry.j # "obj"
    <3>1. r = unmappable_rule
      BY <1>2, <2>2, <2>4 DEF Policy, ToSet
    <3>2. parse_rule(Null) = unmappable_rule
      BY DEF parse_rule, Null
    <3>3. QED
      BY <1>2, <3>1, <3>2, RulesAreNotTooDeep
  <2>5. QED
    BY <2>3, <2>4
<1>3. QED
  BY <1>2 DEF write_catalog, Some, None

-----------------------------------------------------------------------------
(* JSON *)

\* JSON values, with everything in them: an array is a list of them, and neither
\* list and set objects, nor arrays of one, nor catalogs nest deeper than a body can.
Json(S) ==
    \A v \in S :
        /\ v.arr \in Seq(S)
        /\ \A key \in Fields(v) : v.obj[key] \in S
        /\ \E k \in 0..JSON_DEPTH : \E w \in Levels(v, Wrapped)[k] : Wrapped(w) = {}
        /\ Levels(v, SingleMember)[JSON_DEPTH + 1] = {}
        /\ Levels(v, CatalogsIn)[JSON_DEPTH + 1] = {}

NextWrapped(x, n, level) == UNION {Wrapped(y) : y \in level}
WrappedRecursion == INSTANCE NatRecursion WITH First <- Itself, Then <- NextWrapped

\* What is inside a JSON value's list and set objects is JSON.
LEMMA WrappedIsJson ==
    ASSUME NEW S, Json(S), NEW v \in S
    PROVE  \A k \in Nat : Levels(v, Wrapped)[k] \subseteq S
<1> DEFINE levels == Levels(v, Wrapped)
           Is(f) == f = [k \in Nat |-> IF k = 0 THEN {v}
                                       ELSE UNION {Wrapped(y) : y \in f[k - 1]}]
<1>1. \E f : Is(f)
  BY WrappedRecursion!RecursionExists DEF Itself, NextWrapped
<1>2. levels = CHOOSE f : Is(f)
  BY DEF Levels
<1>3. Is(levels)
  BY <1>1, <1>2
<1> HIDE DEF levels
<1>4. ASSUME NEW y \in S PROVE Wrapped(y) \subseteq S
  BY <1>4 DEF Wrapped, Json
<1> DEFINE T == {k \in Nat : levels[k] \subseteq S}
<1>5. 0 \in T
  BY <1>3
<1>6. ASSUME NEW k \in T PROVE k + 1 \in T
  <2>1. levels[k + 1] = UNION {Wrapped(y) : y \in levels[k]}
    BY <1>3
  <2>2. QED
    BY <1>4, <2>1
<1>7. T = Nat
  <2> HIDE DEF T
  <2>1. T \subseteq Nat
    BY DEF T
  <2>2. QED
    BY <1>5, <1>6, <2>1, KidRecursion!Induction
<1>8. QED
  BY <1>7 DEF levels

\* The values under a name are a list of JSON values.
LEMMA AliasedIsJson ==
    ASSUME NEW S, Json(S), NEW v \in S, NEW name
    PROVE  aliased_all(v, name) \in Seq(S) /\ one_or_many_aliased(v, name) \in Seq(S)
<1>1. ASSUME NEW key PROVE GetKey(v, key) \in Seq(S)
  BY OptionIsList DEF GetKey, Json
<1>2. aliased_all(v, name) \in Seq(S)
  BY <1>1 DEF aliased_all
<1>3. ASSUME NEW w \in S PROVE one_or_many(w) \in Seq(S)
  <2> DEFINE found == UNION {Levels(w, Wrapped)[k] : k \in 0..JSON_DEPTH}
  <2>1. found \subseteq S
    BY WrappedIsJson, DepthAssumption
  <2>2. \E u \in found : Wrapped(u) = {}
    BY DEF Json
  <2> HIDE DEF found
  <2>3. (CHOOSE u \in found : Wrapped(u) = {}) \in S
    BY <2>1, <2>2
  <2>4. Unwrapped(w) \in S
    BY <2>3 DEF Unwrapped, found
  <2>5. QED
    BY <2>4, OptionIsList DEF one_or_many, Json, Some
<1>4. MapSeq(aliased_all(v, name), one_or_many) \in Seq(Seq(S))
  <2> DEFINE all == aliased_all(v, name)
             lists == MapSeq(all, one_or_many)
  <2>1. ASSUME NEW i \in DOMAIN all PROVE lists[i] \in Seq(S)
    BY <1>2, <1>3 DEF MapSeq
  <2>2. lists = [i \in DOMAIN all |-> lists[i]]
    BY DEF MapSeq
  <2> HIDE DEF lists
  <2>3. QED
    BY <1>2, <2>1, <2>2, MappedIsList DEF lists
<1>5. QED
  BY <1>2, <1>4, FlattenMembers DEF one_or_many_aliased

-----------------------------------------------------------------------------
(* What is collected from a response *)

CatalogLevels(v) == Levels(v, CatalogsIn)
NextCatalogs(x, n, level) == UNION {CatalogsIn(y) : y \in level}
CatalogRecursion == INSTANCE NatRecursion WITH First <- Itself, Then <- NextCatalogs

\* The entries of the catalogs rest levels above the bound.
DeepestEntries(v) ==
    [y \in CatalogLevels(v)[JSON_DEPTH] |-> EntriesAt(y, JSON_DEPTH, <<>>)]
NextEntriesAt(v, rest, below) ==
    [y \in CatalogLevels(v)[JSON_DEPTH - rest] |->
        EntriesAt(y, JSON_DEPTH - rest, [z \in CatalogsIn(y) |-> below[z]])]
EntriesRecursion ==
    INSTANCE NatRecursion WITH First <- DeepestEntries, Then <- NextEntriesAt

\* What has been found after so many of the entries.
NothingFound(entries) == [datasets |-> <<>>, services |-> <<>>]
NextFound(entries, n, before) == Collect(before, entries[n])
FoundRecursion == INSTANCE NatRecursion WITH First <- NothingFound, Then <- NextFound

CollectedEntry(S) == [is : {"service", "dataset"}, json : S]

\* The catalogs in a catalog, level by level.
LEMMA CatalogLevelsRecurse ==
    ASSUME NEW v
    PROVE  /\ CatalogLevels(v)[0] = {v}
           /\ \A k \in Nat : CatalogLevels(v)[k + 1]
                                = UNION {CatalogsIn(y) : y \in CatalogLevels(v)[k]}
<1> DEFINE Is(f) == f = [k \in Nat |-> IF k = 0 THEN {v}
                                       ELSE UNION {CatalogsIn(y) : y \in f[k - 1]}]
<1>1. \E f : Is(f)
  BY CatalogRecursion!RecursionExists DEF Itself, NextCatalogs
<1>2. CatalogLevels(v) = CHOOSE f : Is(f)
  BY DEF CatalogLevels, Levels
<1>3. Is(CatalogLevels(v))
  BY <1>1, <1>2
<1>4. QED
  BY <1>3

\* The array under a key is a list of JSON values.
LEMMA ArrayIsJson ==
    ASSUME NEW S, Json(S), NEW v \in S, NEW name
    PROVE  GetArr(v, name) \in Seq(S)
<1>1. CASE GetKey(v, Key(name)) = None
  BY <1>1, OptionIsList DEF GetArr, None
<1>2. CASE GetKey(v, Key(name)) # None
  <2>1. GetKey(v, Key(name)) = Some(v.obj[Key(name)]) /\ v.obj[Key(name)] \in S
    BY <1>2 DEF GetKey, Json
  <2>2. GetKey(v, Key(name))[1] \in S
    BY <2>1 DEF Some
  <2>3. GetKey(v, Key(name))[1].arr \in Seq(S) /\ <<>> \in Seq(S)
    BY <2>2, OptionIsList DEF Json, None
  <2>4. QED
    BY <2>3 DEF GetArr
<1>3. QED
  BY <1>1, <1>2

\* The entries of one catalog are JSON values of its own and of those in it.
LEMMA EntriesAreJson ==
    ASSUME NEW S, Json(S), NEW v \in S, NEW depth, NEW below,
           \A c \in CatalogsIn(v) : below[c] \in Seq(CollectedEntry(S))
    PROVE  EntriesAt(v, depth, below) \in Seq(CollectedEntry(S))
<1> DEFINE E == CollectedEntry(S)
           services == MapSeq(GetArr(v, "service"), LAMBDA s : [is |-> "service", json |-> s])
           datasets == MapSeq(GetArr(v, "dataset"), LAMBDA d : [is |-> "dataset", json |-> d])
           lists == MapSeq(GetArr(v, "catalog"), LAMBDA c : below[c])
<1>1. \A name : GetArr(v, name) \in Seq(S)
  BY ArrayIsJson
<1>2. services \in Seq(E)
  <2> DEFINE arr == GetArr(v, "service")
  <2>1. ASSUME NEW i \in DOMAIN arr PROVE services[i] \in E
    BY <1>1 DEF MapSeq, CollectedEntry
  <2>2. services = [i \in DOMAIN arr |-> services[i]]
    BY DEF MapSeq
  <2> HIDE DEF services, arr, E
  <2>3. arr \in Seq(S)
    BY <1>1 DEF arr
  <2>4. QED
    BY <2>1, <2>2, <2>3, MappedIsList
<1>3. datasets \in Seq(E)
  <2> DEFINE arr == GetArr(v, "dataset")
  <2>1. ASSUME NEW i \in DOMAIN arr PROVE datasets[i] \in E
    BY <1>1 DEF MapSeq, CollectedEntry
  <2>2. datasets = [i \in DOMAIN arr |-> datasets[i]]
    BY DEF MapSeq
  <2> HIDE DEF datasets, arr, E
  <2>3. arr \in Seq(S)
    BY <1>1 DEF arr
  <2>4. QED
    BY <2>1, <2>2, <2>3, MappedIsList
<1>4. lists \in Seq(Seq(E))
  <2> DEFINE arr == GetArr(v, "catalog")
  <2>1. ASSUME NEW i \in DOMAIN arr PROVE lists[i] \in Seq(E)
    <3>1. arr[i] \in CatalogsIn(v)
      BY DEF CatalogsIn, ToSet
    <3>2. QED
      BY <3>1 DEF MapSeq
  <2>2. lists = [i \in DOMAIN arr |-> lists[i]]
    BY DEF MapSeq
  <2> HIDE DEF lists, arr, E
  <2>3. arr \in Seq(S)
    BY <1>1 DEF arr
  <2>4. QED
    BY <2>1, <2>2, <2>3, MappedIsList
<1>5. EntriesAt(v, depth, below) = services \o datasets \o Flatten(lists)
  BY DEF EntriesAt
<1> HIDE DEF services, datasets, lists, E
<1>6. Flatten(lists) \in Seq(E)
  BY <1>4, FlattenMembers
<1>7. services \o datasets \o Flatten(lists) \in Seq(E)
  BY <1>2, <1>3, <1>6
<1>8. QED
  BY <1>5, <1>7 DEF E

\* What was made of the catalogs in y.
MadeBelow(made, rest, y) ==
    IF rest = 0 THEN <<>> ELSE [z \in CatalogsIn(y) |-> made[rest - 1][z]]

\* made gives, for each level, the entries of its catalogs.
EntriesBy(v, made) ==
    /\ CatalogEntries(v) = made[JSON_DEPTH][v]
    /\ \A rest \in 0..JSON_DEPTH : \A y \in CatalogLevels(v)[JSON_DEPTH - rest] :
          made[rest][y] = EntriesAt(y, JSON_DEPTH - rest, MadeBelow(made, rest, y))

\* CatalogEntries is its recursion, level by level.
LEMMA EntriesRecurse == ASSUME NEW v PROVE \E made : EntriesBy(v, made)
<1> DEFINE Row(f, rest) ==
               [y \in CatalogLevels(v)[JSON_DEPTH - rest] |->
                   EntriesAt(y, JSON_DEPTH - rest,
                             IF rest = 0 THEN <<>> ELSE [z \in CatalogsIn(y) |-> f[rest - 1][z]])]
           Is(f) == f = [rest \in Nat |-> Row(f, rest)]
<1>1. JSON_DEPTH \in Nat
  BY DepthAssumption
<1>2. PICK g : g = [n \in Nat |-> IF n = 0 THEN DeepestEntries(v) ELSE NextEntriesAt(v, n, g[n - 1])]
  BY EntriesRecursion!RecursionExists
<1>3. ASSUME NEW n \in Nat PROVE g[n] = Row(g, n)
  <2>1. CASE n = 0
    BY <1>1, <1>2, <2>1 DEF DeepestEntries
  <2>2. CASE n # 0
    BY <1>1, <1>2, <2>2 DEF NextEntriesAt
  <2>3. QED
    BY <2>1, <2>2
<1>4. Is(g)
  BY <1>2, <1>3
<1> DEFINE made == CHOOSE f : Is(f)
<1>5. Is(made)
  BY <1>4
<1>6. CatalogEntries(v) = made[JSON_DEPTH][v]
  BY DEF CatalogEntries, Nested, CatalogLevels
<1> HIDE DEF made
<1>7. ASSUME NEW rest \in 0..JSON_DEPTH, NEW y \in CatalogLevels(v)[JSON_DEPTH - rest]
      PROVE  made[rest][y] = EntriesAt(y, JSON_DEPTH - rest, MadeBelow(made, rest, y))
  <2>1. rest \in Nat
    BY <1>1
  <2>2. made[rest] = Row(made, rest)
    <3> HIDE DEF Row
    <3>1. QED
      BY <1>5, <2>1
  <2>3. Row(made, rest)[y] = EntriesAt(y, JSON_DEPTH - rest, MadeBelow(made, rest, y))
    BY <1>7 DEF MadeBelow
  <2>4. QED
    BY <2>2, <2>3
<1>8. QED
  BY <1>6, <1>7 DEF EntriesBy

\* The catalogs nested in a JSON value, all levels of them, are JSON, and those of
\* the last level have none in them.
LEMMA NestedAreJson ==
    ASSUME NEW S, Json(S), NEW v \in S
    PROVE  /\ \A k \in Nat : CatalogLevels(v)[k] \subseteq S
           /\ \A y \in CatalogLevels(v)[JSON_DEPTH] : CatalogsIn(y) = {}
<1> DEFINE levels == CatalogLevels(v)
<1>1. levels[0] = {v} /\ \A k \in Nat : levels[k + 1] = UNION {CatalogsIn(y) : y \in levels[k]}
  BY CatalogLevelsRecurse
<1>2. levels[JSON_DEPTH + 1] = {} /\ JSON_DEPTH \in Nat
  BY DepthAssumption DEF Json, CatalogLevels
<1> HIDE DEF levels
<1> DEFINE T == {j \in Nat : levels[j] \subseteq S}
<1>3. 0 \in T
  BY <1>1
<1>4. ASSUME NEW j \in T PROVE j + 1 \in T
  <2>1. ASSUME NEW y \in S PROVE CatalogsIn(y) \subseteq S
    BY <2>1, ArrayIsJson DEF CatalogsIn, ToSet
  <2>2. QED
    BY <1>1, <2>1
<1>5. T = Nat
  <2> HIDE DEF T
  <2>1. T \subseteq Nat
    BY DEF T
  <2>2. QED
    BY <1>3, <1>4, <2>1, KidRecursion!Induction
<1>6. \A k \in Nat : levels[k] \subseteq S
  BY <1>5
<1>7. \A y \in levels[JSON_DEPTH] : CatalogsIn(y) = {}
  BY <1>1, <1>2
<1>8. QED
  BY <1>6, <1>7 DEF levels

\* The entries made at every level are JSON values of the catalogs there.
LEMMA EntriesByAreJson ==
    ASSUME NEW S, Json(S), NEW v \in S, NEW made, EntriesBy(v, made)
    PROVE  \A rest \in 0..JSON_DEPTH : \A y \in CatalogLevels(v)[JSON_DEPTH - rest] :
               made[rest][y] \in Seq(CollectedEntry(S))
<1> DEFINE levels == CatalogLevels(v)
           E == CollectedEntry(S)
           Good(rest) == \A y \in levels[JSON_DEPTH - rest] : made[rest][y] \in Seq(E)
           T == {rest \in Nat : rest <= JSON_DEPTH => Good(rest)}
<1>1. JSON_DEPTH \in Nat
  BY DepthAssumption
<1>2. levels[0] = {v} /\ \A k \in Nat : levels[k + 1] = UNION {CatalogsIn(y) : y \in levels[k]}
  BY CatalogLevelsRecurse
<1>3. (\A k \in Nat : levels[k] \subseteq S) /\ \A y \in levels[JSON_DEPTH] : CatalogsIn(y) = {}
  BY NestedAreJson
<1> HIDE DEF levels, E
<1>4. ASSUME NEW rest \in 0..JSON_DEPTH, NEW y \in levels[JSON_DEPTH - rest],
             \A c \in CatalogsIn(y) : MadeBelow(made, rest, y)[c] \in Seq(E)
      PROVE  made[rest][y] \in Seq(E)
  <2>1. made[rest][y] = EntriesAt(y, JSON_DEPTH - rest, MadeBelow(made, rest, y))
    BY DEF EntriesBy, levels
  <2>2. y \in S
    BY <1>1, <1>3
  <2>3. QED
    BY <1>4, <2>1, <2>2, EntriesAreJson DEF E
<1>5. 0 \in T
  <2> SUFFICES ASSUME NEW y \in levels[JSON_DEPTH] PROVE made[0][y] \in Seq(E)
    BY <1>1
  <2>1. CatalogsIn(y) = {}
    BY <1>3
  <2>2. QED
    BY <1>1, <1>4, <2>1
<1>6. ASSUME NEW rest \in T PROVE rest + 1 \in T
  <2> SUFFICES ASSUME rest + 1 <= JSON_DEPTH, NEW y \in levels[JSON_DEPTH - (rest + 1)]
               PROVE  made[rest + 1][y] \in Seq(E)
    OBVIOUS
  <2> DEFINE k == JSON_DEPTH - (rest + 1)
  <2>1. k \in Nat /\ k + 1 = JSON_DEPTH - rest /\ rest + 1 \in 0..JSON_DEPTH
        /\ rest + 1 # 0 /\ (rest + 1) - 1 = rest /\ rest <= JSON_DEPTH
    BY <1>1
  <2>2. CatalogsIn(y) \subseteq levels[JSON_DEPTH - rest]
    BY <1>2, <2>1
  <2>3. \A c \in CatalogsIn(y) : MadeBelow(made, rest + 1, y)[c] \in Seq(E)
    BY <2>1, <2>2 DEF MadeBelow
  <2>4. QED
    BY <1>4, <2>1, <2>3
<1>7. T = Nat
  <2> HIDE DEF T
  <2>1. T \subseteq Nat
    BY DEF T
  <2>2. QED
    BY <1>5, <1>6, <2>1, KidRecursion!Induction
<1>8. QED
  BY <1>1, <1>7 DEF levels, E

\* The entries collected from a response are parts of it.
LEMMA ResponseEntriesAreJson ==
    ASSUME NEW S, Json(S), NEW v \in S
    PROVE  CatalogEntries(v) \in Seq(CollectedEntry(S))
<1>1. PICK made : EntriesBy(v, made)
  BY EntriesRecurse
<1>2. v \in CatalogLevels(v)[JSON_DEPTH - JSON_DEPTH] /\ JSON_DEPTH \in Nat
  BY CatalogLevelsRecurse, DepthAssumption
<1>3. made[JSON_DEPTH][v] \in Seq(CollectedEntry(S))
  BY <1>1, <1>2, EntriesByAreJson
<1>4. QED
  BY <1>1, <1>3 DEF EntriesBy

-----------------------------------------------------------------------------
(* What is not understood is denied *)

\* An entry that parser and filter both take for what it says: an operator and
\* operands, once each and known to the engine, or one group and no operand,
\* above the last depth.
UnderstoodEntry(v, depth) ==
    \/ /\ logical_present(v) = <<>>
       /\ \A k \in atomicKeys : get_field(v, k).is = "value"
       /\ parse_operator(get_field(v, "operator").value[1]) # None
    \/ /\ Len(logical_present(v)) = 1
       /\ \A k \in atomicKeys : aliased_all(v, k) = <<>>
       /\ depth < MAX_CONSTRAINT_DEPTH

UnderstoodConstraint(v) ==
    \A k \in 0..MAX_CONSTRAINT_DEPTH : \A y \in EntryLevels(v)[k] : UnderstoodEntry(y, k)

\* The rule has an action, nothing the catalog model has no place for, and
\* constraints that are understood to the last one.
UnderstoodRule(v) ==
    /\ v.j = "obj"
    /\ get_field(v, "action").is = "value"
    /\ \A k \in {"assignee", "target", "duty"} : aliased_all(v, k) = <<>>
    /\ \A c \in ToSet(one_or_many_aliased(v, "constraint")) : UnderstoodConstraint(c)

ruleKeys == {"permission", "prohibition", "obligation"}

UnderstoodPolicy(v) ==
    /\ v.j = "obj"
    /\ \E k \in ruleKeys : aliased_all(v, k) # <<>>
    /\ get_field(v, "assignee").is # "unreadable"
    /\ \A k \in ruleKeys : \A r \in ToSet(one_or_many_aliased(v, k)) : UnderstoodRule(r)

\* Which groups a constraint has.
LEMMA LogicalPresent ==
    ASSUME NEW v
    PROVE  /\ logical_present(v) \in Seq({"xone", "or", "and", "andSequence"})
           /\ \A k \in ToSet(logical_present(v)) : aliased_all(v, k) # <<>>
<1> DEFINE present(k) == IF aliased_all(v, k) = <<>> THEN None ELSE Some(k)
           names == {"xone", "or", "and", "andSequence"}
           lists == MapSeq(LOGICAL_CONSTRAINT_BUILDERS, present)
<1>1. LOGICAL_CONSTRAINT_BUILDERS \in Seq(names)
  BY DEF LOGICAL_CONSTRAINT_BUILDERS
<1>2. ASSUME NEW k \in names PROVE present(k) \in Seq(names)
  BY <1>2, OptionIsList
<1>3. /\ lists = [i \in DOMAIN LOGICAL_CONSTRAINT_BUILDERS |-> lists[i]]
      /\ \A i \in DOMAIN LOGICAL_CONSTRAINT_BUILDERS :
            \E k \in names : lists[i] = present(k)
  <2> HIDE DEF present, names
  <2>1. QED
    BY <1>1 DEF MapSeq
<1>4. lists \in Seq(Seq(names))
  <2> HIDE DEF present, names, lists
  <2>1. QED
    BY <1>1, <1>2, <1>3, MappedIsList
<1>5. \A k : \A e \in ToSet(present(k)) : aliased_all(v, e) # <<>>
  BY DEF ToSet, Some, None
<1>6. logical_present(v) = Flatten(lists)
  BY DEF logical_present
<1> HIDE DEF present, names, lists
<1>7. /\ logical_present(v) \in Seq(names)
      /\ ToSet(logical_present(v)) = UNION {ToSet(lists[i]) : i \in DOMAIN lists}
  BY <1>4, <1>6, FlattenMembers
<1>8. QED
  BY <1>3, <1>5, <1>7 DEF names

\* A field that was read is there.
LEMMA ValueIsPresent ==
    ASSUME NEW v, NEW name, get_field(v, name).is = "value"
    PROVE  aliased_all(v, name) # <<>>
BY DEF get_field

\* The marker is nothing the engine can be given.
LEMMA MarkerIsUnevaluable == ASSUME NEW depth PROVE Unevaluable(Unmappable, depth)
<1>1. Unmappable.c = "atomic" /\ Unmappable.op.sp = "urn"
  BY DEF Unmappable, Atomic, UNMAPPABLE_OPERATOR, Word
<1>2. QED
  BY <1>1 DEF Unevaluable, parse_operator

\* A constraint that the engine can be given was understood, and so it is built
\* from all of its group's entries.
LEMMA EvaluableIsUnderstood ==
    ASSUME NEW v, NEW depth \in 0..MAX_CONSTRAINT_DEPTH, NEW children,
           ~ Unevaluable(ConstraintAt(v, depth, children), depth)
    PROVE  /\ UnderstoodEntry(v, depth)
           /\ logical_present(v) # <<>> =>
                 ConstraintAt(v, depth, children).kids
                     = [i \in DOMAIN GroupEntries(v) |-> children[GroupEntries(v)[i]]]
<1> DEFINE c == ConstraintAt(v, depth, children)
           some == \E k \in atomicKeys : aliased_all(v, k) # <<>>
           all == \A k \in atomicKeys : get_field(v, k).is = "value"
<1>1. c # Unmappable
  BY MarkerIsUnevaluable
<1>2. /\ ~ (Len(logical_present(v)) > 1)
      /\ ~ (some /\ logical_present(v) # <<>>)
  BY <1>1 DEF ConstraintAt
<1>3. CASE all
  <2>1. some
    BY <1>3, ValueIsPresent DEF atomicKeys
  <2>2. logical_present(v) = <<>>
    BY <1>2, <2>1
  <2>3. c = Atomic(get_field(v, "leftOperand").value[1], get_field(v, "operator").value[1],
                   get_field(v, "rightOperand").value[1])
    BY <1>1, <1>3 DEF ConstraintAt
  <2>4. c.c = "atomic" /\ c.op = get_field(v, "operator").value[1]
    BY <2>3 DEF Atomic
  <2>5. parse_operator(get_field(v, "operator").value[1]) # None
    BY <2>4 DEF Unevaluable
  <2>6. QED
    BY <1>3, <2>2, <2>5 DEF UnderstoodEntry
<1>4. CASE ~ all
  <2>1. /\ logical_present(v) # <<>> /\ depth < MAX_CONSTRAINT_DEPTH
        /\ c = Group(logical_present(v)[1],
                     MapSeq(GroupEntries(v), LAMBDA entry : children[entry]))
    BY <1>1, <1>4 DEF ConstraintAt
  <2>2. Len(logical_present(v)) = 1
    <3>1. logical_present(v) \in Seq({"xone", "or", "and", "andSequence"})
      BY LogicalPresent
    <3>2. \A S : \A s \in Seq(S) : s # <<>> => Len(s) \in Nat /\ Len(s) # 0
      OBVIOUS
    <3>3. Len(logical_present(v)) \in Nat /\ Len(logical_present(v)) # 0
      BY <2>1, <3>1, <3>2
    <3>4. ~ (Len(logical_present(v)) > 1)
      BY <1>2
    <3>5. \A n \in Nat : n = 0 \/ n = 1 \/ n > 1
      OBVIOUS
    <3>6. QED
      BY <3>3, <3>4, <3>5, Zenon
  <2>3. UnderstoodEntry(v, depth)
    BY <1>2, <2>1, <2>2 DEF UnderstoodEntry
  <2>4. c.kids = [i \in DOMAIN GroupEntries(v) |-> children[GroupEntries(v)[i]]]
    BY <2>1 DEF Group, MapSeq
  <2>5. QED
    BY <2>3, <2>4
<1>5. QED
  BY <1>3, <1>4

\* A constraint that is mapped for the engine was understood to its last entry:
\* no entry is lost on the way to where it would be noticed.
LEMMA MappedIsUnderstood ==
    ASSUME NEW v, ~ HasUnmappable(parse_constraint(v))
    PROVE  UnderstoodConstraint(v)
<1> DEFINE c == parse_constraint(v)
<1>1. MAX_CONSTRAINT_DEPTH \in Nat /\ Bound \in Nat /\ Bound = MAX_CONSTRAINT_DEPTH + 1
  BY DepthAssumption DEF Bound
<1>2. PICK made : ParsedBy(v, made)
  BY ParseRecurses
<1>3. \A k \in 0..MAX_CONSTRAINT_DEPTH : \A d \in KidLevels(c)[k] : ~ Unevaluable(d, k)
  BY <1>1 DEF HasUnmappable, KidLevels
<1> DEFINE Kept(k) == \A y \in EntryLevels(v)[k] : made[Bound - k][y] \in KidLevels(c)[k]
           T == {k \in Nat : k <= MAX_CONSTRAINT_DEPTH => Kept(k)}
<1>4. Kept(0)
  BY <1>1, <1>2, KidLevelsRecurse, EntryLevelsRecurse DEF ParsedBy
<1> HIDE DEF c
<1>5. ASSUME NEW k \in 0..MAX_CONSTRAINT_DEPTH, Kept(k), NEW y \in EntryLevels(v)[k]
      PROVE  /\ UnderstoodEntry(y, k)
             /\ \A z \in EntriesOf(y) : made[Bound - k - 1][z] \in KidLevels(c)[k + 1]
  <2> DEFINE d == made[Bound - k][y]
             children == [z \in EntriesOf(y) |-> made[Bound - k - 1][z]]
             entries == GroupEntries(y)
  <2>1. d \in KidLevels(c)[k] /\ d = ConstraintAt(y, k, children)
    BY <1>2, <1>5 DEF ParsedBy
  <2>2. ~ Unevaluable(ConstraintAt(y, k, children), k)
    BY <1>3, <2>1
  <2> HIDE DEF children, d
  <2>3. /\ UnderstoodEntry(y, k)
        /\ logical_present(y) # <<>> =>
               d.kids = [i \in DOMAIN entries |-> children[entries[i]]]
    BY <2>1, <2>2, EvaluableIsUnderstood
  <2>4. ASSUME NEW z \in EntriesOf(y) PROVE made[Bound - k - 1][z] \in KidLevels(c)[k + 1]
    <3>1. PICK i \in DOMAIN entries : z = entries[i]
      BY <2>4 DEF EntriesOf, ToSet
    <3>2. logical_present(y) # <<>>
      BY <3>1 DEF GroupEntries
    <3>3. i \in DOMAIN d.kids /\ d.kids[i] = children[z]
      BY <2>3, <3>1, <3>2
    <3>4. children[z] \in Kids(d)
      BY <3>3 DEF Kids, ToSet
    <3>5. children[z] \in KidLevels(c)[k + 1]
      BY <2>1, <3>4, KidLevelsRecurse
    <3>6. QED
      BY <2>4, <3>5 DEF children
  <2>5. QED
    BY <2>3, <2>4
<1>6. 0 \in T
  BY <1>4
<1>7. ASSUME NEW k \in T PROVE k + 1 \in T
  <2> SUFFICES ASSUME k + 1 <= MAX_CONSTRAINT_DEPTH PROVE Kept(k + 1)
    OBVIOUS
  <2>1. k \in 0..MAX_CONSTRAINT_DEPTH /\ Kept(k) /\ Bound - (k + 1) = Bound - k - 1
    BY <1>1
  <2>2. EntryLevels(v)[k + 1] = UNION {EntriesOf(y) : y \in EntryLevels(v)[k]}
    BY EntryLevelsRecurse
  <2>3. QED
    BY <1>5, <2>1, <2>2
<1>8. T = Nat
  <2> HIDE DEF T
  <2>1. T \subseteq Nat
    BY DEF T
  <2>2. QED
    BY <1>6, <1>7, <2>1, KidRecursion!Induction
<1>9. ASSUME NEW k \in 0..MAX_CONSTRAINT_DEPTH PROVE Kept(k)
  BY <1>8
<1>10. QED
  BY <1>5, <1>9 DEF UnderstoodConstraint

\* What stands for unreadable content has no fields.
LEMMA NothingPresent ==
    /\ logical_present(Unreadable) = <<>>
    /\ \A name : aliased_all(Unreadable, name) = <<>>
<1>1. Fields(Unreadable) = {}
  BY DEF Fields, Unreadable, Null
<1>2. ASSUME NEW name PROVE aliased_all(Unreadable, name) = <<>>
  BY <1>1 DEF aliased_all, GetKey, None
<1>3. logical_present(Unreadable) \in Seq({"xone", "or", "and", "andSequence"})
  BY LogicalPresent
<1>4. ToSet(logical_present(Unreadable)) = {}
  BY <1>2, LogicalPresent
<1>5. logical_present(Unreadable) = <<>>
  <2>1. DOMAIN logical_present(Unreadable) = {}
    BY <1>4 DEF ToSet
  <2>2. QED
    BY <1>3, <2>1
<1>6. QED
  BY <1>2, <1>5

\* What stands for unreadable content is not understood.
LEMMA UnreadableIsUnmappable == HasUnmappable(parse_constraint(Unreadable))
<1>1. get_field(Unreadable, "operator").is = "absent"
  BY NothingPresent DEF get_field
<1>2. ~ UnderstoodEntry(Unreadable, 0)
  BY <1>1, NothingPresent DEF UnderstoodEntry, atomicKeys
<1>3. ~ UnderstoodConstraint(Unreadable)
  BY <1>2, EntryLevelsRecurse, DepthAssumption DEF UnderstoodConstraint
<1>4. QED
  BY <1>3, MappedIsUnderstood

\* A rule none of whose constraints is unmappable was understood.
LEMMA MappedRuleIsUnderstood ==
    ASSUME NEW S, Json(S), NEW v \in S,
           \A c \in ToSet(parse_rule(v).constraints) : ~ HasUnmappable(c)
    PROVE  UnderstoodRule(v)
<1> DEFINE action == get_field(v, "action")
           marker == IF action.is = "value" THEN <<>> ELSE <<Unreadable>>
           said == one_or_many_aliased(v, "constraint")
           beyond(k) == IF aliased_all(v, k) = <<>> THEN <<>> ELSE <<Unreadable>>
           entries == marker \o said \o beyond("assignee") \o beyond("target") \o beyond("duty")
           Body == S \cup {Unreadable}
<1>1. v.j = "obj"
  <2> SUFFICES ASSUME v.j # "obj" PROVE FALSE
    OBVIOUS
  <2>1. parse_rule(v).constraints = <<Unmappable>>
    BY DEF parse_rule, unmappable_rule, Rule
  <2>2. ~ HasUnmappable(Unmappable)
    BY <2>1 DEF ToSet
  <2>3. Unmappable \in Levels(Unmappable, Kids)[0]
    BY KidLevelsRecurse DEF KidLevels
  <2>4. QED
    BY <2>2, <2>3, MarkerIsUnevaluable, DepthAssumption DEF HasUnmappable
<1>2. parse_rule(v).constraints = parse_constraints(entries)
  BY <1>1 DEF parse_rule, Rule
<1>3. ASSUME NEW e \in ToSet(entries) PROVE ~ HasUnmappable(parse_constraint(e))
  <2> HIDE DEF entries
  <2>1. parse_constraint(e) \in ToSet(parse_constraints(entries))
    BY <1>3 DEF parse_constraints, MapSeq, ToSet
  <2>2. QED
    BY <1>2, <2>1
<1>4. /\ said \in Seq(Body) /\ marker \in Seq(Body)
      /\ \A k : beyond(k) \in Seq(Body)
  <2>1. said \in Seq(Body)
    BY AliasedIsJson
  <2>2. <<>> \in Seq(Body) /\ <<Unreadable>> \in Seq(Body)
    BY OptionIsList DEF Some, None
  <2>3. QED
    BY <2>1, <2>2
<1>5. /\ ToSet(marker) \cup ToSet(said) \subseteq ToSet(entries)
      /\ \A k \in {"assignee", "target", "duty"} : ToSet(beyond(k)) \subseteq ToSet(entries)
  <2> HIDE DEF marker, said, beyond, Body
  <2> DEFINE two == marker \o said
             three == two \o beyond("assignee")
             four == three \o beyond("target")
  <2>1. two \in Seq(Body) /\ ToSet(two) = ToSet(marker) \cup ToSet(said)
    BY <1>4, ConcatMembers
  <2> HIDE DEF two
  <2>2. three \in Seq(Body) /\ ToSet(three) = ToSet(two) \cup ToSet(beyond("assignee"))
    BY <1>4, <2>1, ConcatMembers
  <2> HIDE DEF three
  <2>3. four \in Seq(Body) /\ ToSet(four) = ToSet(three) \cup ToSet(beyond("target"))
    BY <1>4, <2>2, ConcatMembers
  <2> HIDE DEF four
  <2>4. ToSet(four \o beyond("duty")) = ToSet(four) \cup ToSet(beyond("duty"))
    BY <1>4, <2>3, ConcatMembers
  <2>5. entries = four \o beyond("duty")
    BY DEF two, three, four
  <2>6. QED
    BY <2>1, <2>2, <2>3, <2>4, <2>5
<1>6. Unreadable \notin ToSet(entries)
  BY <1>3, UnreadableIsUnmappable
<1>7. action.is = "value" /\ \A k \in {"assignee", "target", "duty"} : aliased_all(v, k) = <<>>
  <2>1. Unreadable \in ToSet(<<Unreadable>>)
    BY DEF ToSet
  <2> HIDE DEF entries
  <2>2. QED
    BY <1>5, <1>6, <2>1
<1>8. \A c \in ToSet(said) : UnderstoodConstraint(c)
  BY <1>3, <1>5, MappedIsUnderstood
<1>9. QED
  BY <1>1, <1>7, <1>8 DEF UnderstoodRule

\* A policy that is mapped for the engine was understood.
LEMMA MappedPolicyIsUnderstood ==
    ASSUME NEW S, Json(S), NEW v \in S, v.j = "obj",
           \A r \in Rules(parse_policy(v)) : \A c \in ToSet(r.constraints) : ~ HasUnmappable(c)
    PROVE  UnderstoodPolicy(v)
<1> DEFINE p == parse_policy(v)
           duties == one_or_many_aliased(v, "obligation")
           noRuleKey == \A k \in ruleKeys : aliased_all(v, k) = <<>>
           unread == get_field(v, "assignee").is = "unreadable"
           mark(b) == IF b THEN <<Unreadable>> ELSE <<>>
           entries == duties \o mark(noRuleKey) \o mark(unread)
           Body == S \cup {Unreadable}
<1>1. /\ p.permissions = parse_rules(one_or_many_aliased(v, "permission"))
      /\ p.prohibitions = parse_rules(one_or_many_aliased(v, "prohibition"))
      /\ p.obligations = parse_rules(entries)
  BY DEF parse_policy, Policy, ruleKeys
<1>2. ASSUME NEW list, NEW e \in ToSet(list), ToSet(parse_rules(list)) \subseteq Rules(p)
      PROVE  \A c \in ToSet(parse_rule(e).constraints) : ~ HasUnmappable(c)
  <2>1. parse_rule(e) \in ToSet(parse_rules(list))
    BY <1>2 DEF parse_rules, MapSeq, ToSet
  <2>2. QED
    BY <1>2, <2>1
<1>3. /\ ToSet(parse_rules(one_or_many_aliased(v, "permission"))) \subseteq Rules(p)
      /\ ToSet(parse_rules(one_or_many_aliased(v, "prohibition"))) \subseteq Rules(p)
      /\ ToSet(parse_rules(entries)) \subseteq Rules(p)
  BY <1>1 DEF Rules
<1>4. duties \in Seq(Body) /\ \A b : mark(b) \in Seq(Body)
  <2>1. duties \in Seq(Body)
    BY AliasedIsJson
  <2>2. <<>> \in Seq(Body) /\ <<Unreadable>> \in Seq(Body)
    BY OptionIsList DEF Some, None
  <2>3. QED
    BY <2>1, <2>2
<1>5. /\ ToSet(duties) \subseteq ToSet(entries)
      /\ ToSet(mark(noRuleKey)) \cup ToSet(mark(unread)) \subseteq ToSet(entries)
  <2> HIDE DEF duties, mark, Body, noRuleKey, unread
  <2> DEFINE two == duties \o mark(noRuleKey)
  <2>1. two \in Seq(Body) /\ ToSet(two) = ToSet(duties) \cup ToSet(mark(noRuleKey))
    BY <1>4, ConcatMembers
  <2> HIDE DEF two
  <2>2. ToSet(two \o mark(unread)) = ToSet(two) \cup ToSet(mark(unread))
    BY <1>4, <2>1, ConcatMembers
  <2>3. entries = two \o mark(unread)
    BY DEF two
  <2>4. QED
    BY <2>1, <2>2, <2>3
<1> HIDE DEF p, entries, noRuleKey, unread
<1>6. Unreadable \notin ToSet(entries)
  <2> SUFFICES ASSUME Unreadable \in ToSet(entries) PROVE FALSE
    OBVIOUS
  <2>1. \A c \in ToSet(parse_rule(Unreadable).constraints) : ~ HasUnmappable(c)
    BY <1>2, <1>3
  <2>2. ToSet(parse_rule(Unreadable).constraints) = {Unmappable}
    BY DEF parse_rule, unmappable_rule, Rule, Unreadable, Null, ToSet
  <2>3. Unmappable \in Levels(Unmappable, Kids)[0]
    BY KidLevelsRecurse DEF KidLevels
  <2>4. QED
    BY <2>1, <2>2, <2>3, MarkerIsUnevaluable, DepthAssumption DEF HasUnmappable
<1>7. ~ noRuleKey /\ ~ unread
  <2>1. Unreadable \in ToSet(<<Unreadable>>)
    BY DEF ToSet
  <2>2. QED
    BY <1>5, <1>6, <2>1
<1>8. ASSUME NEW k \in ruleKeys, NEW r \in ToSet(one_or_many_aliased(v, k))
      PROVE  UnderstoodRule(r)
  <2>1. r \in S
    <3>1. one_or_many_aliased(v, k) \in Seq(S)
      BY AliasedIsJson
    <3>2. QED
      BY <1>8, <3>1 DEF ToSet
  <2>2. \A c \in ToSet(parse_rule(r).constraints) : ~ HasUnmappable(c)
    BY <1>2, <1>3, <1>5, <1>8 DEF ruleKeys
  <2>3. QED
    BY <2>1, <2>2, MappedRuleIsUnderstood
<1>9. QED
  BY <1>7, <1>8 DEF UnderstoodPolicy, noRuleKey, unread

\* The filter maps the policy for the engine, and the engine lets the claims in.
Allows(p, claims, settings) ==
    LET wire == catalog_policy_to_wire_policy(p, settings)
    IN wire # None /\ evaluate_request(wire[1], claims, settings)

\* A dataset is shown only because a policy lets the caller in that the crawler
\* and the filter understood in full, or because it has none and that is open:
\* whatever in a response is not understood, at any depth and in any spelling,
\* denies unless the broker is told to skip it.  For every JSON and every depth
\* limit.
THEOREM NotUnderstoodIsDenied ==
    ASSUME NEW S, Json(S), NEW v \in S, NEW claims, NEW settings,
           settings.unmappable # "skip",
           dataset_is_visible(parse_dataset(v), claims, settings)
    PROVE  LET entries == one_or_many_aliased(v, "hasPolicy")
           IN \/ entries = <<>> /\ settings.no_policy = "open"
              \/ \E i \in DOMAIN entries :
                    /\ UnderstoodPolicy(entries[i])
                    /\ Allows(parse_dataset(v).policies[i], claims, settings)
<1> DEFINE entries == one_or_many_aliased(v, "hasPolicy")
           policies == parse_dataset(v).policies
           parsed(e) == IF e.j = "obj" THEN parse_policy(e)
                        ELSE Policy(None, "Set", None, None, <<>>, <<>>, <<unmappable_rule>>)
<1>1. entries \in Seq(S)
  BY AliasedIsJson
<1>2. policies = [i \in DOMAIN entries |-> parsed(entries[i])]
  BY DEF parse_dataset, parse_policies, MapSeq
<1> HIDE DEF entries, policies
<1>3. CASE policies = <<>>
  <2>1. DOMAIN entries = {}
    BY <1>2, <1>3
  <2>2. entries = <<>>
    BY <1>1, <2>1
  <2>3. QED
    BY <1>3, <2>2 DEF dataset_is_visible, policies, entries
<1>4. CASE policies # <<>>
  <2>1. PICK i \in DOMAIN entries : Allows(policies[i], claims, settings)
    BY <1>2, <1>4 DEF dataset_is_visible, policies, Allows
  <2> DEFINE e == entries[i]
  <2>2. e \in S /\ policies[i] = parsed(e)
    BY <1>1, <1>2
  <2>3. \A r \in Rules(policies[i]) : \A c \in ToSet(r.constraints) : ~ HasUnmappable(c)
    BY <2>1 DEF Allows, catalog_policy_to_wire_policy
  <2> HIDE DEF e
  <2>4. e.j = "obj"
    <3> SUFFICES ASSUME e.j # "obj" PROVE FALSE
      OBVIOUS
    <3>1. unmappable_rule \in Rules(policies[i])
      BY <2>2 DEF Rules, Policy, ToSet
    <3>2. Unmappable \in ToSet(unmappable_rule.constraints)
      BY DEF unmappable_rule, Rule, ToSet
    <3>3. Unmappable \in Levels(Unmappable, Kids)[0]
      BY KidLevelsRecurse DEF KidLevels
    <3>4. QED
      BY <2>3, <3>1, <3>2, <3>3, MarkerIsUnevaluable, DepthAssumption DEF HasUnmappable
  <2>5. UnderstoodPolicy(e)
    BY <2>2, <2>3, <2>4, MappedPolicyIsUnderstood
  <2>6. QED
    BY <2>1, <2>5 DEF e, entries, policies
<1>5. QED
  BY <1>3, <1>4

-----------------------------------------------------------------------------
(* What is parsed has the form that is written *)

\* A field that is read as a string is there once or not at all.
LEMMA StringIsOption ==
    ASSUME NEW v
    PROVE  IsOption(GetId(v)) /\ \A name : IsOption(GetStr(v, name))
<1>1. \A name : IsOption(GetStr(v, name))
  BY DEF IsOption, GetStr
<1>2. QED
  BY <1>1 DEF GetId

\* A list of services, each with an id of its own.
ServiceList(x) ==
    /\ IsList(x) /\ DistinctIds(x)
    /\ \A i \in DOMAIN x : ServiceForm(x[i])

\* A service that is parsed is one that can be written.
LEMMA ServiceIsParsed ==
    ASSUME NEW v
    PROVE  /\ IsOption(parse_data_service(v))
           /\ \A s \in ToSet(parse_data_service(v)) : ServiceForm(s)
<1> DEFINE s == [id |-> GetId(v)[1],
                 endpoint_url |-> OrElse(GetStr(v, "endpointURL"), EmptyString),
                 endpoint_description |-> GetStr(v, "endpointDescription")]
<1>1. parse_data_service(v) \in {None, Some(s)}
  BY DEF parse_data_service
<1>2. ServiceForm(s)
  BY StringIsOption DEF ServiceForm
<1> HIDE DEF s
<1>3. QED
  BY <1>1, <1>2 DEF IsOption, ToSet, Some, None

\* The services nested in a dataset are services that can be written.
LEMMA NestedAreParsed ==
    ASSUME NEW S, Json(S), NEW v \in S
    PROVE  IsList(NestedServices(v)) /\ \A s \in ToSet(NestedServices(v)) : ServiceForm(s)
<1> DEFINE access(d) == GetKey(d, Key("accessService"))
           service(d) == IF access(d) # None /\ access(d)[1].j = "obj"
                         THEN parse_data_service(access(d)[1]) ELSE None
           arr == GetArr(v, "distribution")
           lists == MapSeq(arr, service)
           R == UNION {ToSet(service(arr[i])) : i \in DOMAIN arr}
<1>1. ASSUME NEW d PROVE IsOption(service(d)) /\ \A s \in ToSet(service(d)) : ServiceForm(s)
  <2>1. IsOption(None) /\ ToSet(None) = {}
    BY DEF IsOption, ToSet, None
  <2>2. QED
    BY <2>1, ServiceIsParsed
<1>2. NestedServices(v) = Flatten(lists)
  BY DEF NestedServices
<1>3. /\ lists = [i \in DOMAIN arr |-> lists[i]]
      /\ \A i \in DOMAIN arr : lists[i] = service(arr[i])
  <2> HIDE DEF service
  <2>1. QED
    BY DEF MapSeq
<1>4. arr \in Seq(S)
  BY ArrayIsJson
<1> HIDE DEF service, arr, lists
<1>5. ASSUME NEW i \in DOMAIN arr PROVE lists[i] \in Seq(R)
  <2>1. service(arr[i]) = None \/ \E x : service(arr[i]) = Some(x)
    BY <1>1 DEF IsOption
  <2>2. CASE service(arr[i]) = None
    BY <1>3, <2>2, OptionIsList
  <2>3. ASSUME NEW x, service(arr[i]) = Some(x) PROVE lists[i] \in Seq(R)
    <3>1. x \in ToSet(service(arr[i]))
      BY <2>3 DEF ToSet, Some
    <3>2. x \in R
      BY <3>1
    <3> HIDE DEF R
    <3>3. QED
      BY <1>3, <2>3, <3>2, OptionIsList
  <2>4. QED
    BY <2>1, <2>2, <2>3
<1>6. \A s \in R : ServiceForm(s)
  BY <1>1
<1> HIDE DEF R
<1>7. lists \in Seq(Seq(R))
  BY <1>3, <1>4, <1>5, MappedIsList
<1>8. Flatten(lists) \in Seq(R)
  BY <1>7, FlattenMembers
<1>9. QED
  BY <1>2, <1>6, <1>8, ListOver

\* What is kept of the services after so many.
SeenBefore(x) == x[1]
KeptNext(x, n, kept) == AddNew(kept, x[2][n])
KeptRecursion == INSTANCE NatRecursion WITH First <- SeenBefore, Then <- KeptNext

\* Keeping one more service keeps the ids apart.
LEMMA NewIsApart ==
    ASSUME NEW x, ServiceList(x), NEW s, ServiceForm(s)
    PROVE  ServiceList(AddNew(x, s))
<1>1. CASE s.id \in Ids(x)
  BY <1>1 DEF AddNew
<1>2. CASE s.id \notin Ids(x)
  <2> DEFINE R == ToSet(x) \cup {s}
             y == Append(x, s)
  <2>1. x \in Seq(R) /\ Len(x) \in Nat /\ DOMAIN x = 1..Len(x)
    BY DEF ServiceList, IsList
  <2>2. /\ y \in Seq(R) /\ DOMAIN y = 1..(Len(x) + 1)
        /\ y[Len(x) + 1] = s /\ \A i \in 1..Len(x) : y[i] = x[i]
    <3> HIDE DEF R
    <3>1. s \in R
      BY DEF R
    <3>2. QED
      BY <2>1, <3>1
  <2> HIDE DEF y, R
  <2>3. IsList(y)
    BY <2>2, ListOver
  <2>4. \A i \in DOMAIN y : i \in DOMAIN x \/ i = Len(x) + 1
    BY <2>1, <2>2
  <2>5. \A i \in DOMAIN y : ServiceForm(y[i])
    BY <2>1, <2>2, <2>4 DEF ServiceList
  <2>6. \A i \in DOMAIN x : x[i].id # s.id
    BY <1>2 DEF Ids
  <2>7. DistinctIds(y)
    BY <2>1, <2>2, <2>4, <2>6 DEF DistinctIds, ServiceList
  <2>8. QED
    BY <1>2, <2>3, <2>5, <2>7 DEF AddNew, ServiceList, y
<1>3. QED
  BY <1>1, <1>2

\* Services added to a list of them keep their ids apart: the first one wins.
LEMMA UnseenAreApart ==
    ASSUME NEW x, ServiceList(x), NEW entries, IsList(entries),
           \A s \in ToSet(entries) : ServiceForm(s)
    PROVE  ServiceList(AddUnseen(x, entries))
<1> DEFINE n == Len(entries)
           Is(f) == f = [i \in 0..n |-> IF i = 0 THEN x ELSE AddNew(f[i - 1], entries[i])]
           kept == CHOOSE f : Is(f)
           c == <<x, entries>>
<1>1. PICK g : g = [i \in Nat |-> IF i = 0 THEN SeenBefore(c) ELSE KeptNext(c, i, g[i - 1])]
  BY KeptRecursion!RecursionExists
<1>2. n \in Nat /\ DOMAIN entries = 1..n
  BY DEF IsList
<1>3. Is(kept)
  <2> DEFINE f == [i \in 0..n |-> g[i]]
  <2>1. ASSUME NEW i \in 0..n
        PROVE  f[i] = IF i = 0 THEN x ELSE AddNew(f[i - 1], entries[i])
    BY <1>1, <1>2 DEF SeenBefore, KeptNext
  <2>2. Is(f)
    BY <2>1
  <2>3. QED
    BY <2>2
<1>4. AddUnseen(x, entries) = kept[n]
  BY DEF AddUnseen
<1> HIDE DEF kept
<1> DEFINE T == {i \in Nat : i <= n => ServiceList(kept[i])}
<1>5. 0 \in T
  BY <1>2, <1>3
<1>6. ASSUME NEW i \in T PROVE i + 1 \in T
  <2> SUFFICES ASSUME i + 1 <= n PROVE ServiceList(kept[i + 1])
    OBVIOUS
  <2>1. ServiceList(kept[i]) /\ i + 1 \in 1..n
    BY <1>2
  <2>2. kept[i + 1] = AddNew(kept[i], entries[i + 1])
    BY <1>2, <1>3
  <2>3. ServiceForm(entries[i + 1])
    BY <1>2, <2>1 DEF ToSet
  <2>4. QED
    BY <2>1, <2>2, <2>3, NewIsApart
<1>7. T = Nat
  <2> HIDE DEF T
  <2>1. T \subseteq Nat
    BY DEF T
  <2>2. QED
    BY <1>5, <1>6, <2>1, KidRecursion!Induction
<1>8. QED
  BY <1>2, <1>4, <1>7

\* Datasets as JSON, each with an id of its own.
DatasetList(S, x) ==
    /\ x \in Seq(S)
    /\ \A i \in DOMAIN x : GetId(x[i]) # None
    /\ \A i, j \in DOMAIN x : GetId(x[i]) = GetId(x[j]) => i = j

\* What is collected from a response.
CollectedForm(S, found) ==
    /\ found = [datasets |-> found.datasets, services |-> found.services]
    /\ DatasetList(S, found.datasets)
    /\ ServiceList(found.services)

\* Collecting one more entry keeps the ids apart.
LEMMA CollectKeepsForm ==
    ASSUME NEW S, Json(S), NEW found, CollectedForm(S, found), NEW entry, entry.json \in S
    PROVE  CollectedForm(S, Collect(found, entry))
<1> DEFINE v == entry.json
           ds == found.datasets
           sv == found.services
           known == {GetId(d) : d \in ToSet(ds)}
<1>1. found = [datasets |-> ds, services |-> sv] /\ DatasetList(S, ds) /\ ServiceList(sv)
  BY DEF CollectedForm
<1>2. ASSUME NEW x, NEW y, DatasetList(S, x), ServiceList(y)
      PROVE  CollectedForm(S, [datasets |-> x, services |-> y])
  BY <1>2 DEF CollectedForm
<1>3. CASE entry.is = "service"
  <2> DEFINE more == AddUnseen(sv, parse_data_service(v))
  <2>1. Collect(found, entry) = [datasets |-> ds, services |-> more]
    <3>1. Collect(found, entry) = [found EXCEPT !.services = more]
      BY <1>3 DEF Collect
    <3>2. \A s : [found EXCEPT !.services = s] = [datasets |-> ds, services |-> s]
      BY <1>1
    <3> HIDE DEF more, ds
    <3>3. QED
      BY <3>1, <3>2
  <2>2. /\ IsList(parse_data_service(v))
        /\ \A s \in ToSet(parse_data_service(v)) : ServiceForm(s)
    <3> DEFINE o == parse_data_service(v)
    <3>1. IsOption(o) /\ \A s \in ToSet(o) : ServiceForm(s)
      BY ServiceIsParsed
    <3> HIDE DEF o
    <3>2. o = None => IsList(o)
      BY OptionIsList, ListOver
    <3>3. ASSUME NEW x, o = Some(x) PROVE IsList(o)
      BY <3>3, OptionIsList, ListOver
    <3>4. QED
      BY <3>1, <3>2, <3>3 DEF IsOption, o
  <2>3. ServiceList(more)
    BY <1>1, <2>2, UnseenAreApart
  <2> HIDE DEF more, ds
  <2>4. QED
    BY <1>1, <1>2, <2>1, <2>3
<1>4. CASE entry.is # "service" /\ (GetId(v) = None \/ GetId(v) \in known)
  BY <1>4 DEF Collect
<1>5. CASE entry.is # "service" /\ GetId(v) # None /\ GetId(v) \notin known
  <2> DEFINE more == AddUnseen(sv, NestedServices(v))
             all == Append(ds, v)
  <2>1. Collect(found, entry) = [datasets |-> all, services |-> more]
    BY <1>5 DEF Collect
  <2>2. ServiceList(more)
    BY <1>1, NestedAreParsed, UnseenAreApart
  <2>3. ds \in Seq(S) /\ Len(ds) \in Nat /\ DOMAIN ds = 1..Len(ds)
    BY <1>1 DEF DatasetList
  <2>4. /\ all \in Seq(S) /\ DOMAIN all = 1..(Len(ds) + 1)
        /\ all[Len(ds) + 1] = v /\ \A i \in 1..Len(ds) : all[i] = ds[i]
    <3> HIDE DEF ds
    <3>1. QED
      BY <2>3
  <2>5. \A i \in DOMAIN ds : GetId(ds[i]) # GetId(v)
    BY <1>5 DEF ToSet
  <2> HIDE DEF all, more, ds, v, known
  <2>6. \A i \in DOMAIN all : i \in DOMAIN ds \/ i = Len(ds) + 1
    BY <2>3, <2>4
  <2>7. \A i \in DOMAIN all : GetId(all[i]) # None
    BY <1>1, <1>5, <2>3, <2>4, <2>6 DEF DatasetList
  <2>8. ASSUME NEW i \in DOMAIN all, NEW j \in DOMAIN all, GetId(all[i]) = GetId(all[j])
        PROVE  i = j
    BY <1>1, <2>3, <2>4, <2>5, <2>6, <2>8 DEF DatasetList
  <2>9. DatasetList(S, all)
    BY <2>4, <2>7, <2>8 DEF DatasetList
  <2>10. QED
    BY <1>2, <2>1, <2>2, <2>9
<1>6. QED
  BY <1>3, <1>4, <1>5

\* What is found in a list of entries.
CollectedFrom(entries) ==
    LET found[i \in 0..Len(entries)] ==
            IF i = 0 THEN [datasets |-> <<>>, services |-> <<>>]
            ELSE Collect(found[i - 1], entries[i])
    IN found[Len(entries)]

\* CollectedFrom is its recursion.
LEMMA CollectedRecurses ==
    ASSUME NEW E, NEW s \in Seq(E)
    PROVE  \E f : FoundRecursion!Upto(s, f, Len(s)) /\ CollectedFrom(s) = f[Len(s)]
<1> DEFINE n == Len(s)
           empty == [datasets |-> <<>>, services |-> <<>>]
           Is(f) == f = [i \in 0..n |-> IF i = 0 THEN empty ELSE Collect(f[i - 1], s[i])]
           found == CHOOSE f : Is(f)
<1>1. PICK g : g = [i \in Nat |-> IF i = 0 THEN NothingFound(s) ELSE NextFound(s, i, g[i - 1])]
  BY FoundRecursion!RecursionExists
<1>2. n \in Nat
  OBVIOUS
<1>3. Is(found)
  <2> DEFINE f == [i \in 0..n |-> g[i]]
  <2>1. ASSUME NEW i \in 0..n PROVE f[i] = IF i = 0 THEN empty ELSE Collect(f[i - 1], s[i])
    BY <1>1, <1>2 DEF NothingFound, NextFound
  <2>2. Is(f)
    BY <2>1
  <2>3. QED
    BY <2>2
<1>4. CollectedFrom(s) = found[n]
  BY DEF CollectedFrom
<1> HIDE DEF found
<1>5. FoundRecursion!Upto(s, found, n)
  BY <1>2, <1>3 DEF FoundRecursion!Upto, NothingFound, NextFound
<1>6. QED
  BY <1>4, <1>5

\* One more entry is collected last.
LEMMA CollectOneMore ==
    ASSUME NEW E, NEW s \in Seq(E), NEW e \in E
    PROVE  /\ CollectedFrom(<<>>) = [datasets |-> <<>>, services |-> <<>>]
           /\ CollectedFrom(Append(s, e)) = Collect(CollectedFrom(s), e)
<1> DEFINE all == Append(s, e)
           n == Len(s)
<1>1. CollectedFrom(<<>>) = [datasets |-> <<>>, services |-> <<>>]
  <2>1. <<>> \in Seq(E) /\ Len(<<>>) = 0
    OBVIOUS
  <2>2. PICK f : FoundRecursion!Upto(<<>>, f, 0) /\ CollectedFrom(<<>>) = f[0]
    BY <2>1, CollectedRecurses
  <2>3. QED
    BY <2>2 DEF FoundRecursion!Upto, NothingFound
<1>2. /\ all \in Seq(E) /\ Len(all) = n + 1 /\ n \in Nat /\ all[n + 1] = e
      /\ \A i \in 1..n : all[i] = s[i]
  BY OneMore
<1> HIDE DEF all
<1>3. PICK f : FoundRecursion!Upto(all, f, n + 1) /\ CollectedFrom(all) = f[n + 1]
  BY <1>2, CollectedRecurses
<1>4. PICK g : FoundRecursion!Upto(s, g, n) /\ CollectedFrom(s) = g[n]
  BY CollectedRecurses
<1>5. FoundRecursion!Upto(s, f, n)
  <2>1. f[0] = NothingFound(s)
    BY <1>3 DEF FoundRecursion!Upto, NothingFound
  <2>2. ASSUME NEW i \in 1..n PROVE f[i] = NextFound(s, i, f[i - 1])
    <3>1. i \in 1..(n + 1)
      BY <1>2
    <3>2. f[i] = NextFound(all, i, f[i - 1])
      BY <1>3, <3>1 DEF FoundRecursion!Upto
    <3>3. QED
      BY <1>2, <3>2 DEF NextFound
  <2>3. QED
    BY <2>1, <2>2 DEF FoundRecursion!Upto
<1>6. f[n] = g[n]
  <2> HIDE DEF n
  <2>1. \A i \in 0..n : f[i] = g[i]
    <3>1. n \in Nat /\ FoundRecursion!Upto(s, f, n) /\ FoundRecursion!Upto(s, g, n)
      BY <1>2, <1>4, <1>5
    <3>2. QED
      BY <3>1, FoundRecursion!UptoUnique
  <2>2. QED
    BY <1>2, <2>1
<1>7. f[n + 1] = Collect(f[n], e)
  <2>1. n + 1 \in 1..(n + 1) /\ (n + 1) - 1 = n
    BY <1>2
  <2>2. f[n + 1] = NextFound(all, n + 1, f[(n + 1) - 1])
    BY <1>3, <2>1 DEF FoundRecursion!Upto
  <2>3. QED
    BY <1>2, <2>1, <2>2 DEF NextFound
<1>8. QED
  BY <1>1, <1>3, <1>4, <1>6, <1>7 DEF all

\* The datasets collected from a response are parts of it, and each dataset and
\* each service has an id of its own.
LEMMA CollectedHasForm ==
    ASSUME NEW S, Json(S), NEW v \in S
    PROVE  CollectedForm(S, collect_datasets_and_services(v))
<1> DEFINE E == CollectedEntry(S)
           P == {s \in Seq(E) : CollectedForm(S, CollectedFrom(s))}
           none == [datasets |-> <<>>, services |-> <<>>]
<1>1. <<>> \in P
  <2>1. <<>> \in Seq(S) /\ IsList(<<>>) /\ DOMAIN <<>> = {}
    <3>1. <<>> \in Seq(S) /\ DOMAIN <<>> = {}
      BY OptionIsList DEF None
    <3>2. QED
      BY <3>1, ListOver
  <2>2. CollectedForm(S, none)
    BY <2>1 DEF CollectedForm, DatasetList, ServiceList, DistinctIds
  <2>3. CollectedFrom(<<>>) = none
    <3> DEFINE seq == <<>>
    <3>1. seq \in Seq({0}) /\ 0 \in {0}
      OBVIOUS
    <3>2. QED
      BY <3>1, CollectOneMore
  <2>4. QED
    BY <2>2, <2>3
<1>2. ASSUME NEW s \in Seq(E), NEW e \in E, s \in P PROVE Append(s, e) \in P
  <2>1. CollectedFrom(Append(s, e)) = Collect(CollectedFrom(s), e)
    BY CollectOneMore
  <2>2. CollectedForm(S, CollectedFrom(s)) /\ e.json \in S
    BY <1>2 DEF CollectedEntry
  <2>3. CollectedForm(S, Collect(CollectedFrom(s), e))
    BY <2>2, CollectKeepsForm
  <2>4. QED
    BY <2>1, <2>3
<1>3. \A s \in Seq(E) : s \in P
  <2> HIDE DEF P
  <2>1. QED
    BY <1>1, <1>2, ListInduction
<1>4. CatalogEntries(v) \in Seq(E)
  BY ResponseEntriesAreJson
<1>5. collect_datasets_and_services(v) = CollectedFrom(CatalogEntries(v))
  BY DEF collect_datasets_and_services, CollectedFrom
<1>6. QED
  BY <1>3, <1>4, <1>5

\* The values nested in arrays of one.
MemberLevels(v) == Levels(v, SingleMember)
NextMembers(x, n, level) == UNION {SingleMember(y) : y \in level}
MemberRecursion == INSTANCE NatRecursion WITH First <- Itself, Then <- NextMembers

\* What is read of the values rest levels above the bound.
DeepestScalars(v) ==
    [y \in MemberLevels(v)[JSON_DEPTH] |-> ScalarAt(y, JSON_DEPTH, <<>>)]
NextScalars(v, rest, below) ==
    [y \in MemberLevels(v)[JSON_DEPTH - rest] |->
        ScalarAt(y, JSON_DEPTH - rest, [z \in SingleMember(y) |-> below[z]])]
ScalarRecursion == INSTANCE NatRecursion WITH First <- DeepestScalars, Then <- NextScalars

\* The values in arrays of one, level by level.
LEMMA MemberLevelsRecurse ==
    ASSUME NEW v
    PROVE  /\ MemberLevels(v)[0] = {v}
           /\ \A k \in Nat : MemberLevels(v)[k + 1]
                                = UNION {SingleMember(y) : y \in MemberLevels(v)[k]}
<1> DEFINE Is(f) == f = [k \in Nat |-> IF k = 0 THEN {v}
                                       ELSE UNION {SingleMember(y) : y \in f[k - 1]}]
<1>1. \E f : Is(f)
  BY MemberRecursion!RecursionExists DEF Itself, NextMembers
<1>2. MemberLevels(v) = CHOOSE f : Is(f)
  BY DEF MemberLevels, Levels
<1>3. Is(MemberLevels(v))
  BY <1>1, <1>2
<1>4. QED
  BY <1>3

\* A value is read as one string or none, if what it holds is.
LEMMA ScalarAtIsOption ==
    ASSUME NEW v, NEW depth, NEW read, \A w \in SingleMember(v) : IsOption(read[w])
    PROVE  IsOption(ScalarAt(v, depth, read))
<1>1. IsOption(None) /\ \A x : IsOption(Some(x))
  BY DEF IsOption
<1>2. IsOption(GetStr(v, "@id"))
  BY StringIsOption
<1>3. v.j = "arr" /\ Len(v.arr) = 1 => IsOption(read[v.arr[1]])
  BY DEF SingleMember
<1>4. v.j \in {"str", "num"} => IsOption(ScalarAt(v, depth, read))
  BY <1>1 DEF ScalarAt
<1>5. v.j = "obj" => IsOption(ScalarAt(v, depth, read))
  BY <1>1, <1>2 DEF ScalarAt
<1>6. v.j = "arr" => IsOption(ScalarAt(v, depth, read))
  BY <1>1, <1>3 DEF ScalarAt
<1>7. v.j \notin {"str", "num", "obj", "arr"} => IsOption(ScalarAt(v, depth, read))
  BY <1>1 DEF ScalarAt
<1>8. QED
  BY <1>4, <1>5, <1>6, <1>7

\* A field has one string or none.
LEMMA ScalarIsOption ==
    ASSUME NEW S, Json(S), NEW v \in S
    PROVE  IsOption(json_ld_scalar(v))
<1> DEFINE levels == MemberLevels(v)
           Row(f, rest) ==
               [y \in levels[JSON_DEPTH - rest] |->
                   ScalarAt(y, JSON_DEPTH - rest,
                            IF rest = 0 THEN <<>> ELSE [z \in SingleMember(y) |-> f[rest - 1][z]])]
           Is(f) == f = [rest \in Nat |-> Row(f, rest)]
<1>1. JSON_DEPTH \in Nat
  BY DepthAssumption
<1>2. PICK g : g = [n \in Nat |-> IF n = 0 THEN DeepestScalars(v) ELSE NextScalars(v, n, g[n - 1])]
  BY ScalarRecursion!RecursionExists
<1>3. ASSUME NEW n \in Nat PROVE g[n] = Row(g, n)
  <2>1. CASE n = 0
    BY <1>1, <1>2, <2>1 DEF DeepestScalars
  <2>2. CASE n # 0
    BY <1>1, <1>2, <2>2 DEF NextScalars
  <2>3. QED
    BY <2>1, <2>2
<1>4. Is(g)
  BY <1>2, <1>3
<1> DEFINE made == CHOOSE f : Is(f)
<1>5. Is(made)
  BY <1>4
<1>6. json_ld_scalar(v) = made[JSON_DEPTH][v]
  BY DEF json_ld_scalar, Nested, MemberLevels
<1>7. levels[0] = {v} /\ \A k \in Nat : levels[k + 1] = UNION {SingleMember(y) : y \in levels[k]}
  BY MemberLevelsRecurse
<1>8. levels[JSON_DEPTH + 1] = {}
  BY DEF Json, MemberLevels
<1> HIDE DEF made, levels
<1> DEFINE Good(rest) == \A y \in levels[JSON_DEPTH - rest] : IsOption(made[rest][y])
           T == {rest \in Nat : rest <= JSON_DEPTH => Good(rest)}
<1>9. ASSUME NEW rest \in 0..JSON_DEPTH, NEW y \in levels[JSON_DEPTH - rest], NEW below,
             below = IF rest = 0 THEN <<>> ELSE [z \in SingleMember(y) |-> made[rest - 1][z]],
             \A w \in SingleMember(y) : IsOption(below[w])
      PROVE  IsOption(made[rest][y])
  <2>1. made[rest][y] = ScalarAt(y, JSON_DEPTH - rest, below)
    <3>1. rest \in Nat
      BY <1>1
    <3>2. made[rest] = Row(made, rest)
      <4> HIDE DEF Row
      <4>1. QED
        BY <1>5, <3>1
    <3>3. Row(made, rest)[y] = ScalarAt(y, JSON_DEPTH - rest, below)
      BY <1>9
    <3>4. QED
      BY <3>2, <3>3
  <2>2. QED
    BY <1>9, <2>1, ScalarAtIsOption
<1>10. 0 \in T
  <2> SUFFICES ASSUME NEW y \in levels[JSON_DEPTH] PROVE IsOption(made[0][y])
    BY <1>1
  <2>1. SingleMember(y) = {}
    BY <1>1, <1>7, <1>8
  <2>2. QED
    BY <1>1, <1>9, <2>1
<1>11. ASSUME NEW rest \in T PROVE rest + 1 \in T
  <2> SUFFICES ASSUME rest + 1 <= JSON_DEPTH, NEW y \in levels[JSON_DEPTH - (rest + 1)]
               PROVE  IsOption(made[rest + 1][y])
    OBVIOUS
  <2> DEFINE below == [z \in SingleMember(y) |-> made[rest][z]]
             k == JSON_DEPTH - (rest + 1)
  <2>1. k \in Nat /\ k + 1 = JSON_DEPTH - rest /\ rest + 1 \in 0..JSON_DEPTH
        /\ rest + 1 # 0 /\ (rest + 1) - 1 = rest /\ rest <= JSON_DEPTH
    BY <1>1
  <2>2. SingleMember(y) \subseteq levels[JSON_DEPTH - rest]
    BY <1>7, <2>1
  <2>3. \A w \in SingleMember(y) : IsOption(below[w])
    BY <2>1, <2>2
  <2>4. below = IF rest + 1 = 0 THEN <<>>
                ELSE [z \in SingleMember(y) |-> made[(rest + 1) - 1][z]]
    BY <2>1
  <2> HIDE DEF below
  <2>5. QED
    BY <1>9, <2>1, <2>3, <2>4
<1>12. T = Nat
  <2> HIDE DEF T
  <2>1. T \subseteq Nat
    BY DEF T
  <2>2. QED
    BY <1>10, <1>11, <2>1, KidRecursion!Induction
<1>13. QED
  BY <1>1, <1>6, <1>7, <1>12

\* So has a field under any of its names.
LEMMA FieldIsOption ==
    ASSUME NEW S, Json(S), NEW v \in S, NEW name
    PROVE  IsOption(get_field(v, name).value)
<1> DEFINE raws == aliased_all(v, name)
<1>1. raws \in Seq(S)
  BY AliasedIsJson
<1> HIDE DEF raws
<1>2. raws # <<>> => raws[1] \in S
  BY <1>1
<1>3. Len(raws) = 1 => raws # <<>>
  BY <1>1
<1>4. Len(raws) = 1 => IsOption(json_ld_scalar(raws[1]))
  BY <1>2, <1>3, ScalarIsOption
<1>5. IsOption(None)
  BY DEF IsOption
<1>6. get_field(v, name).value = IF Len(raws) = 1 THEN json_ld_scalar(raws[1]) ELSE None
  BY DEF get_field, raws
<1>7. QED
  BY <1>4, <1>5, <1>6

\* The entries of a group are a list of JSON values.
LEMMA EntriesAreList ==
    ASSUME NEW S, Json(S), NEW v \in S \cup {Unreadable}
    PROVE  GroupEntries(v) \in Seq(S)
<1>1. <<>> \in Seq(S)
  BY OptionIsList DEF None
<1>2. CASE v = Unreadable
  BY <1>1, <1>2, NothingPresent DEF GroupEntries
<1>3. CASE v \in S
  BY <1>1, <1>3, AliasedIsJson DEF GroupEntries
<1>4. QED
  BY <1>2, <1>3

\* What is made of a constraint has the fields of one.
LEMMA ConstraintIsShaped ==
    ASSUME NEW S, NEW v, GroupEntries(v) \in Seq(S), NEW depth, NEW children
    PROVE  Shaped(ConstraintAt(v, depth, children))
<1> DEFINE entries == GroupEntries(v)
           kids == [i \in DOMAIN entries |-> children[entries[i]]]
           c == ConstraintAt(v, depth, children)
           name == logical_present(v)[1]
<1>1. \/ \E l, o, r : c = Atomic(l, o, r)
      \/ logical_present(v) # <<>> /\ c = Group(name, kids)
  <2>1. \A s : MapSeq(s, LAMBDA entry : children[entry])
                   = [i \in DOMAIN s |-> children[s[i]]]
    BY DEF MapSeq
  <2> HIDE DEF name
  <2>2. QED
    BY <2>1 DEF ConstraintAt, Unmappable, name
<1>2. ASSUME NEW l, NEW o, NEW r PROVE Shaped(Atomic(l, o, r))
  BY DEF Shaped, Atomic
<1>3. ASSUME logical_present(v) # <<>> PROVE Shaped(Group(name, kids))
  <2>1. name \in ToSet(LOGICAL_CONSTRAINT_BUILDERS)
    <3>1. logical_present(v) \in Seq(groupKinds)
      BY LogicalPresent DEF groupKinds
    <3>2. \A s \in Seq(groupKinds) : s # <<>> => s[1] \in groupKinds
      OBVIOUS
    <3>3. QED
      BY <1>3, <3>1, <3>2, Kinds
  <2>2. kids \in Seq(ToSet(kids))
    <3>1. kids = [i \in DOMAIN entries |-> kids[i]]
      OBVIOUS
    <3>2. \A i \in DOMAIN entries : kids[i] \in ToSet(kids)
      BY DEF ToSet
    <3>3. entries \in Seq(S)
      OBVIOUS
    <3> HIDE DEF kids, entries
    <3>4. QED
      BY <3>1, <3>2, <3>3, MappedIsList
  <2> HIDE DEF name, kids
  <2>3. /\ Group(name, kids).c = name /\ Group(name, kids).kids = kids
    BY DEF Group
  <2>4. QED
    BY <2>1, <2>2, <2>3 DEF Shaped
<1> HIDE DEF c, name, kids
<1>4. Shaped(c)
  BY <1>1, <1>2, <1>3
<1>5. QED
  BY <1>4 DEF c

\* The entries nested in a constraint are JSON values.
LEMMA NestedEntriesAreJson ==
    ASSUME NEW S, Json(S), NEW v \in S \cup {Unreadable}
    PROVE  \A k \in Nat : EntryLevels(v)[k] \subseteq S \cup {Unreadable}
<1> DEFINE Body == S \cup {Unreadable}
           T == {k \in Nat : EntryLevels(v)[k] \subseteq Body}
<1>1. ASSUME NEW y \in Body PROVE EntriesOf(y) \subseteq Body
  <2>1. GroupEntries(y) \in Seq(S)
    BY EntriesAreList
  <2>2. QED
    BY <2>1 DEF EntriesOf, ToSet
<1>2. 0 \in T
  BY EntryLevelsRecurse
<1>3. ASSUME NEW k \in T PROVE k + 1 \in T
  <2>1. EntryLevels(v)[k + 1] = UNION {EntriesOf(y) : y \in EntryLevels(v)[k]}
    BY EntryLevelsRecurse
  <2> HIDE DEF Body
  <2>2. QED
    BY <1>1, <2>1
<1>4. T = Nat
  <2> HIDE DEF T
  <2>1. T \subseteq Nat
    BY DEF T
  <2>2. QED
    BY <1>2, <1>3, <2>1, KidRecursion!Induction
<1>5. QED
  BY <1>4

\* Whatever is parsed as a constraint is one that can be written and read back.
LEMMA ParsedIsStorable ==
    ASSUME NEW S, Json(S), NEW v \in S \cup {Unreadable}
    PROVE  Storable(parse_constraint(v))
<1> DEFINE c == parse_constraint(v)
           D == MAX_CONSTRAINT_DEPTH
<1>1. D \in Nat /\ Bound = D + 1
  BY DepthAssumption DEF Bound
<1>2. PICK made : KidsParsedBy(v, made)
  BY KidsAreParsed
<1> HIDE DEF c
<1>3. ASSUME NEW k \in 0..D, NEW d \in KidLevels(c)[k] PROVE Shaped(d)
  <2>1. k \in 0..Bound
    BY <1>1
  <2>2. PICK y \in EntryLevels(v)[k] : d = made[Bound - k][y]
    BY <1>2, <2>1 DEF KidsParsedBy, c
  <2> DEFINE children == [z \in EntriesOf(y) |-> made[Bound - k - 1][z]]
  <2>3. d = ConstraintAt(y, k, children)
    BY <1>2, <2>2 DEF KidsParsedBy, ParsedBy
  <2>4. y \in S \cup {Unreadable}
    BY <1>1, <2>2, NestedEntriesAreJson
  <2>5. GroupEntries(y) \in Seq(S)
    BY <2>4, EntriesAreList
  <2> HIDE DEF children
  <2>6. QED
    BY <2>3, <2>5, ConstraintIsShaped
<1>4. AllShaped(c)
  BY <1>3 DEF AllShaped
<1>5. QED
  BY <1>4, ParsedIsNotTooDeep DEF Storable, c

\* Constraints parsed from a list of JSON values.
LEMMA ConstraintsAreStorable ==
    ASSUME NEW S, Json(S), NEW entries \in Seq(S \cup {Unreadable})
    PROVE  /\ IsList(parse_constraints(entries))
           /\ \A i \in DOMAIN parse_constraints(entries) : Storable(parse_constraints(entries)[i])
<1> DEFINE x == parse_constraints(entries)
<1>1. x = [i \in DOMAIN entries |-> x[i]] /\ \A i \in DOMAIN entries : x[i] = parse_constraint(entries[i])
  BY DEF parse_constraints, MapSeq
<1> HIDE DEF x
<1>2. IsList(x) /\ DOMAIN x = DOMAIN entries
  BY <1>1, MadeIsList
<1>3. \A i \in DOMAIN entries : entries[i] \in S \cup {Unreadable}
  OBVIOUS
<1>4. QED
  BY <1>1, <1>2, <1>3, ParsedIsStorable DEF x

\* The marker for what is not a constraint can be written.
LEMMA MarkerIsStorable == Storable(Unmappable)
<1>1. parse_constraint(Unreadable) = Unmappable
  <2>1. PICK made : ParsedBy(Unreadable, made)
    BY ParseRecurses
  <2> DEFINE children == [z \in EntriesOf(Unreadable) |-> made[Bound - 0 - 1][z]]
  <2>2. MAX_CONSTRAINT_DEPTH \in Nat /\ Bound - 0 = Bound /\ 0 \in 0..MAX_CONSTRAINT_DEPTH
    BY DepthAssumption DEF Bound
  <2>3. Unreadable \in EntryLevels(Unreadable)[0]
    BY EntryLevelsRecurse
  <2>4. parse_constraint(Unreadable) = ConstraintAt(Unreadable, 0, children)
    BY <2>1, <2>2, <2>3 DEF ParsedBy
  <2> HIDE DEF children
  <2>5. get_field(Unreadable, "operator").is = "absent"
    BY NothingPresent DEF get_field
  <2>6. ConstraintAt(Unreadable, 0, children) = Unmappable
    BY <2>5, NothingPresent DEF ConstraintAt, atomicKeys
  <2>7. QED
    BY <2>4, <2>6
<1>2. Json({})
  BY DEF Json
<1>3. QED
  BY <1>1, <1>2, ParsedIsStorable

\* A rule that stands for what is none can be written and read back.
LEMMA MarkerRuleHasForm == RuleForm(unmappable_rule)
<1>1. unmappable_rule.constraints = <<Unmappable>>
  BY DEF unmappable_rule, Rule
<1>2. unmappable_rule = Rule(unmappable_rule.action, unmappable_rule.constraints)
  BY DEF unmappable_rule, Rule
<1>3. IsList(<<Unmappable>>)
  <2>1. Some(Unmappable) \in Seq({Unmappable})
    BY OptionIsList
  <2>2. QED
    BY <2>1, ListOver DEF Some
<1>4. \A i \in DOMAIN <<Unmappable>> : Storable(<<Unmappable>>[i])
  BY MarkerIsStorable
<1>5. QED
  BY <1>1, <1>2, <1>3, <1>4 DEF RuleForm

\* Whatever is parsed as a rule can be written and read back.
LEMMA RuleHasForm ==
    ASSUME NEW S, Json(S), NEW v \in S \cup {Unreadable}
    PROVE  RuleForm(parse_rule(v))
<1> DEFINE Body == S \cup {Unreadable}
           action == get_field(v, "action")
           marker == IF action.is = "value" THEN <<>> ELSE <<Unreadable>>
           said == one_or_many_aliased(v, "constraint")
           beyond(k) == IF aliased_all(v, k) = <<>> THEN <<>> ELSE <<Unreadable>>
           entries == marker \o said \o beyond("assignee") \o beyond("target") \o beyond("duty")
           done == IF action.is = "value" THEN normalize_action(action.value[1])
                   ELSE UNMAPPABLE_ACTION
<1>1. CASE v.j # "obj"
  BY <1>1, MarkerRuleHasForm DEF parse_rule
<1>2. CASE v.j = "obj"
  <2>1. v \in S
    BY <1>2 DEF Unreadable, Null
  <2>2. <<>> \in Seq(Body) /\ <<Unreadable>> \in Seq(Body)
    BY OptionIsList DEF Some, None
  <2>3. said \in Seq(Body)
    BY <2>1, AliasedIsJson
  <2>4. marker \in Seq(Body) /\ \A k : beyond(k) \in Seq(Body)
    BY <2>2
  <2>5. entries \in Seq(Body)
    <3> HIDE DEF marker, said, beyond, Body
    <3>1. QED
      BY <2>3, <2>4
  <2>6. parse_rule(v) = Rule(done, parse_constraints(entries))
    BY <1>2 DEF parse_rule
  <2> HIDE DEF entries, done
  <2>7. /\ IsList(parse_constraints(entries))
        /\ \A i \in DOMAIN parse_constraints(entries) : Storable(parse_constraints(entries)[i])
    BY <2>5, ConstraintsAreStorable
  <2>8. \A a, x : Rule(a, x).action = a /\ Rule(a, x).constraints = x
    BY DEF Rule
  <2>9. QED
    BY <2>6, <2>7, <2>8 DEF RuleForm
<1>3. QED
  BY <1>1, <1>2

\* A list of rules, each of which can be written and read back.
RuleList(x) == IsList(x) /\ \A i \in DOMAIN x : RuleForm(x[i])

\* What parse_rules returns is a list of rules that can be written.
LEMMA RulesHaveForm ==
    ASSUME NEW S, Json(S), NEW entries \in Seq(S \cup {Unreadable})
    PROVE  RuleList(parse_rules(entries))
<1> DEFINE x == parse_rules(entries)
<1>1. x = [i \in DOMAIN entries |-> x[i]] /\ \A i \in DOMAIN entries : x[i] = parse_rule(entries[i])
  BY DEF parse_rules, MapSeq
<1> HIDE DEF x
<1>2. IsList(x) /\ DOMAIN x = DOMAIN entries
  BY <1>1, MadeIsList
<1>3. \A i \in DOMAIN entries : entries[i] \in S \cup {Unreadable}
  OBVIOUS
<1>4. QED
  BY <1>1, <1>2, <1>3, RuleHasForm DEF x, RuleList

\* A policy made of such lists.
LEMMA PolicyMade ==
    ASSUME NEW id, NEW kind \in {"Set", "Offer", "Agreement"}, NEW assigner, NEW assignee,
           NEW x, NEW y, NEW z, IsOption(id), IsOption(assigner), IsOption(assignee),
           RuleList(x), RuleList(y), RuleList(z)
    PROVE  PolicyForm(Policy(id, kind, assigner, assignee, x, y, z))
<1> DEFINE p == Policy(id, kind, assigner, assignee, x, y, z)
<1>1. /\ p.id = id /\ p.kind = kind /\ p.assigner = assigner /\ p.assignee = assignee
      /\ p.permissions = x /\ p.prohibitions = y /\ p.obligations = z
  BY DEF Policy
<1>2. /\ p["permissions"] = x /\ p["prohibitions"] = y /\ p["obligations"] = z
  BY DEF Policy
<1> HIDE DEF p
<1>3. \A a \in ruleLists : RuleList(p[a])
  BY <1>2 DEF ruleLists
<1>4. p = Policy(p.id, p.kind, p.assigner, p.assignee, p.permissions, p.prohibitions, p.obligations)
  BY <1>1 DEF p
<1>5. PolicyForm(p)
  BY <1>1, <1>3, <1>4 DEF PolicyForm, RuleList
<1>6. QED
  BY <1>5 DEF p

\* Whatever is parsed as a policy can be written and read back.
LEMMA PolicyHasForm ==
    ASSUME NEW S, Json(S), NEW v \in S
    PROVE  PolicyForm(parse_policy(v))
<1> DEFINE Body == S \cup {Unreadable}
           type == GetStr(v, "@type")
           kind == IF type # None /\ type[1].sp = "bare" /\ type[1].n \in {"Offer", "Agreement"}
                   THEN type[1].n ELSE "Set"
           noRuleKey == \A k \in {"permission", "prohibition", "obligation"} :
                            aliased_all(v, k) = <<>>
           assignee == get_field(v, "assignee")
           said(k) == one_or_many_aliased(v, k)
           one == IF noRuleKey THEN <<Unreadable>> ELSE <<>>
           two == IF assignee.is = "unreadable" THEN <<Unreadable>> ELSE <<>>
           duties == said("obligation") \o one \o two
<1>1. <<>> \in Seq(Body) /\ <<Unreadable>> \in Seq(Body)
  BY OptionIsList DEF Some, None
<1>2. ASSUME NEW k PROVE said(k) \in Seq(Body)
  BY AliasedIsJson
<1>3. one \in Seq(Body) /\ two \in Seq(Body)
  BY <1>1
<1>4. duties \in Seq(Body)
  <2> HIDE DEF one, two, said, Body
  <2>1. QED
    BY <1>2, <1>3
<1>5. parse_policy(v)
          = Policy(GetStr(v, "@id"), kind, get_field(v, "assigner").value, assignee.value,
                   parse_rules(said("permission")), parse_rules(said("prohibition")),
                   parse_rules(duties))
  BY DEF parse_policy
<1>6. /\ RuleList(parse_rules(said("permission"))) /\ RuleList(parse_rules(said("prohibition")))
      /\ RuleList(parse_rules(duties))
  <2> HIDE DEF said, duties
  <2>1. QED
    BY <1>2, <1>4, RulesHaveForm
<1>7. kind \in {"Set", "Offer", "Agreement"}
  OBVIOUS
<1>8. IsOption(GetStr(v, "@id"))
  BY StringIsOption
<1>9. IsOption(get_field(v, "assigner").value) /\ IsOption(assignee.value)
  BY FieldIsOption
<1> HIDE DEF kind, assignee, said, duties
<1>10. QED
  BY <1>5, <1>6, <1>7, <1>8, <1>9, PolicyMade

\* Whatever is parsed as a dataset can be written and read back.
LEMMA DatasetHasForm ==
    ASSUME NEW S, Json(S), NEW v \in S
    PROVE  DatasetForm(parse_dataset(v)) /\ parse_dataset(v).id = GetId(v)[1]
<1> DEFINE arr == GetArr(v, "distribution")
           distributions == MapSeq(arr, parse_distribution)
           entries == one_or_many_aliased(v, "hasPolicy")
           policies == parse_policies(v)
           none == Policy(None, "Set", None, None, <<>>, <<>>, <<unmappable_rule>>)
           policy(e) == IF e.j = "obj" THEN parse_policy(e) ELSE none
           said == {d \in Descriptive : GetStr(v, d) # None}
           properties == [k \in said |-> GetStr(v, k)[1]]
<1>1. parse_dataset(v) = [id |-> GetId(v)[1], properties |-> properties,
                          distributions |-> distributions, policies |-> policies]
  BY DEF parse_dataset
<1>2. arr \in Seq(S) /\ entries \in Seq(S)
  BY ArrayIsJson, AliasedIsJson
<1>3. /\ distributions = [i \in DOMAIN arr |-> distributions[i]]
      /\ \A i \in DOMAIN arr : distributions[i] = parse_distribution(arr[i])
  BY DEF MapSeq
<1>4. /\ policies = [i \in DOMAIN entries |-> policies[i]]
      /\ \A i \in DOMAIN entries : policies[i] = policy(entries[i])
  BY DEF parse_policies, MapSeq
<1>5. \A w : DistributionForm(parse_distribution(w))
  BY DEF DistributionForm, parse_distribution
<1>6. PolicyForm(none)
  <2>1. RuleList(<<>>) /\ RuleList(<<unmappable_rule>>)
    <3>1. None \in Seq({}) /\ Some(unmappable_rule) \in Seq({unmappable_rule})
      BY OptionIsList
    <3>2. IsList(<<>>) /\ IsList(<<unmappable_rule>>)
      BY <3>1, ListOver DEF Some, None
    <3>3. \A i \in DOMAIN <<unmappable_rule>> : <<unmappable_rule>>[i] = unmappable_rule
      OBVIOUS
    <3>4. QED
      BY <3>2, <3>3, MarkerRuleHasForm DEF RuleList
  <2>2. IsOption(None)
    BY DEF IsOption
  <2>3. QED
    BY <2>1, <2>2, PolicyMade
<1>7. \A e \in S : PolicyForm(policy(e))
  <2> HIDE DEF none
  <2>1. QED
    BY <1>6, PolicyHasForm
<1>8. properties = [k \in DOMAIN properties |-> properties[k]] /\ DOMAIN properties \subseteq Descriptive
  OBVIOUS
<1> HIDE DEF arr, entries, policies, distributions, properties, policy
<1>9. IsList(distributions) /\ \A i \in DOMAIN distributions : DistributionForm(distributions[i])
  BY <1>2, <1>3, <1>5, MadeIsList
<1>10. IsList(policies) /\ DOMAIN policies = DOMAIN entries
  BY <1>2, <1>4, MadeIsList
<1>11. \A i \in DOMAIN policies : PolicyForm(policies[i])
  <2>1. \A i \in DOMAIN entries : entries[i] \in S
    BY <1>2
  <2>2. QED
    BY <1>4, <1>7, <1>10, <2>1
<1> DEFINE d == parse_dataset(v)
<1>12. /\ d.id = GetId(v)[1] /\ d.properties = properties
       /\ d.distributions = distributions /\ d.policies = policies
  BY <1>1
<1> HIDE DEF d
<1>13. DatasetForm(d)
  BY <1>1, <1>8, <1>9, <1>10, <1>11, <1>12 DEF DatasetForm, d
<1>14. QED
  BY <1>12, <1>13 DEF d

\* Whatever a participant answers is parsed into a catalog that can be written and
\* read back: its lists are lists, and no two of its datasets, or of its services,
\* have the same id.
LEMMA ParsedHasForm ==
    ASSUME NEW S, Json(S), NEW v \in S, NEW participant, IsOption(participant.provider_did)
    PROVE  CatalogForm(parse_catalog_response(v, participant))
<1> DEFINE found == collect_datasets_and_services(v)
           ds == found.datasets
           datasets == MapSeq(ds, parse_dataset)
           c == parse_catalog_response(v, participant)
           id == OrElse(GetStr(v, "@id"), FreshId)
<1>1. CollectedForm(S, found)
  BY CollectedHasForm
<1>2. c = [id |-> id, origin_node |-> participant.id, participant_id |-> participant.provider_did,
           datasets |-> datasets, data_services |-> found.services]
  BY DEF parse_catalog_response
<1>3. /\ datasets = [i \in DOMAIN ds |-> datasets[i]]
      /\ \A i \in DOMAIN ds : datasets[i] = parse_dataset(ds[i])
  BY DEF MapSeq
<1>4. DatasetList(S, ds) /\ ServiceList(found.services)
  BY <1>1 DEF CollectedForm
<1> HIDE DEF datasets, ds, id
<1>5. IsList(datasets) /\ DOMAIN datasets = DOMAIN ds
  BY <1>3, <1>4, MadeIsList DEF DatasetList
<1>6. \A i \in DOMAIN ds : ds[i] \in S
  BY <1>4 DEF DatasetList
<1>7. \A i \in DOMAIN datasets : DatasetForm(datasets[i]) /\ datasets[i].id = GetId(ds[i])[1]
  BY <1>3, <1>5, <1>6, DatasetHasForm
<1>8. DistinctIds(datasets)
  <2> SUFFICES ASSUME NEW i \in DOMAIN datasets, NEW j \in DOMAIN datasets,
                      datasets[i].id = datasets[j].id
               PROVE  i = j
    BY DEF DistinctIds
  <2>1. GetId(ds[i])[1] = GetId(ds[j])[1] /\ GetId(ds[i]) # None /\ GetId(ds[j]) # None
    BY <1>4, <1>5, <1>7 DEF DatasetList
  <2>2. \A o : IsOption(o) /\ o # None => o = Some(o[1])
    BY DEF IsOption, Some, None
  <2>3. GetId(ds[i]) = Some(GetId(ds[i])[1]) /\ GetId(ds[j]) = Some(GetId(ds[j])[1])
    BY <2>1, <2>2, StringIsOption
  <2>4. GetId(ds[i]) = GetId(ds[j])
    BY <2>1, <2>3
  <2>5. QED
    BY <1>4, <1>5, <2>4 DEF DatasetList
<1>9. /\ c.id = id /\ c.origin_node = participant.id /\ c.participant_id = participant.provider_did
      /\ c.datasets = datasets /\ c.data_services = found.services
  BY <1>2
<1> HIDE DEF c, found
<1>10. CatalogForm(c)
  BY <1>2, <1>4, <1>5, <1>7, <1>8, <1>9 DEF CatalogForm, ServiceList
<1>11. QED
  BY <1>10 DEF c

-----------------------------------------------------------------------------
(* A response without some of its datasets *)

\* What is made of the catalogs rest levels above the bound, without the datasets
\* of the ids x[2].
DeepestRedacted(x) ==
    [y \in CatalogLevels(x[1])[JSON_DEPTH] |-> RedactedAt(y, x[2], <<>>)]
NextRedacted(x, rest, below) ==
    [y \in CatalogLevels(x[1])[JSON_DEPTH - rest] |->
        RedactedAt(y, x[2], [z \in CatalogsIn(y) |-> below[z]])]
RedactRecursion ==
    INSTANCE NatRecursion WITH First <- DeepestRedacted, Then <- NextRedacted

\* made gives, for each level, what its catalogs are without those datasets.
RedactedBy(v, ids, made) ==
    /\ Redacted(v, ids) = made[JSON_DEPTH][v]
    /\ \A rest \in 0..JSON_DEPTH : \A y \in CatalogLevels(v)[JSON_DEPTH - rest] :
          made[rest][y] = RedactedAt(y, ids, MadeBelow(made, rest, y))

\* Redacted is its recursion, level by level.
LEMMA RedactRecurses == ASSUME NEW v, NEW ids PROVE \E made : RedactedBy(v, ids, made)
<1> DEFINE x == <<v, ids>>
           Row(f, rest) ==
               [y \in CatalogLevels(v)[JSON_DEPTH - rest] |->
                   RedactedAt(y, ids, IF rest = 0 THEN <<>>
                                      ELSE [z \in CatalogsIn(y) |-> f[rest - 1][z]])]
           Is(f) == f = [rest \in Nat |-> Row(f, rest)]
<1>1. JSON_DEPTH \in Nat
  BY DepthAssumption
<1>2. PICK g : g = [n \in Nat |-> IF n = 0 THEN DeepestRedacted(x) ELSE NextRedacted(x, n, g[n - 1])]
  BY RedactRecursion!RecursionExists
<1>3. ASSUME NEW n \in Nat PROVE g[n] = Row(g, n)
  <2>1. CASE n = 0
    BY <1>1, <1>2, <2>1 DEF DeepestRedacted
  <2>2. CASE n # 0
    BY <1>1, <1>2, <2>2 DEF NextRedacted
  <2>3. QED
    BY <2>1, <2>2
<1>4. Is(g)
  BY <1>2, <1>3
<1> DEFINE made == CHOOSE f : Is(f)
<1>5. Is(made)
  BY <1>4
<1>6. Redacted(v, ids) = made[JSON_DEPTH][v]
  BY DEF Redacted, Nested, CatalogLevels
<1> HIDE DEF made
<1>7. ASSUME NEW rest \in 0..JSON_DEPTH, NEW y \in CatalogLevels(v)[JSON_DEPTH - rest]
      PROVE  made[rest][y] = RedactedAt(y, ids, MadeBelow(made, rest, y))
  <2>1. rest \in Nat
    BY <1>1
  <2>2. made[rest] = Row(made, rest)
    <3> HIDE DEF Row
    <3>1. QED
      BY <1>5, <2>1
  <2>3. Row(made, rest)[y] = RedactedAt(y, ids, MadeBelow(made, rest, y))
    BY <1>7 DEF MadeBelow
  <2>4. QED
    BY <2>2, <2>3
<1>8. QED
  BY <1>6, <1>7 DEF RedactedBy

\* What the parser reads of a catalog without those datasets.
LEMMA RedactedFields ==
    ASSUME NEW v, NEW ids, NEW below
    PROVE  LET w == RedactedAt(v, ids, below)
               cs == GetArr(v, "catalog")
           IN /\ GetArr(w, "service") = GetArr(v, "service")
              /\ GetArr(w, "dataset") = Retained(GetArr(v, "dataset"), OtherDatasets(v, ids))
              /\ DOMAIN GetArr(w, "catalog") = DOMAIN cs
              /\ \A i \in DOMAIN cs : GetArr(w, "catalog")[i] = below[cs[i]]
              /\ GetStr(w, "@id") = GetStr(v, "@id")
<1> DEFINE w == RedactedAt(v, ids, below)
           datasets == GetArr(v, "dataset")
           shown == Retained(datasets, OtherDatasets(v, ids))
           nested == [i \in DOMAIN GetArr(v, "catalog") |-> below[GetArr(v, "catalog")[i]]]
<1>1. CASE v.j # "obj"
  <2>1. w = v /\ \A name : GetArr(v, name) = <<>>
    BY <1>1 DEF RedactedAt, GetArr, GetKey, Fields, None
  <2>2. shown = <<>>
    BY <2>1, RetainNone
  <2>3. nested = <<>>
    BY <2>1
  <2>4. QED
    BY <2>1, <2>2, <2>3
<1>2. CASE v.j = "obj"
  <2> DEFINE field(k) == CASE v.obj[k].j = "arr" /\ k = Key("dataset") -> Arr(shown)
                           [] v.obj[k].j = "arr" /\ k = Key("catalog") -> Arr(nested)
                           [] OTHER -> v.obj[k]
             obj == [k \in DOMAIN v.obj |-> field(k)]
  <2>1. w = Obj(obj)
    BY <1>2 DEF RedactedAt, MapSeq
  <2>2. /\ \A x : Arr(x).j = "arr" /\ Arr(x).arr = x
        /\ \A x : Obj(x).j = "obj" /\ Obj(x).obj = x
    BY DEF Arr, Obj, Null
  <2>3. /\ Key("dataset") # Key("catalog") /\ Key("service") # Key("dataset")
        /\ Key("service") # Key("catalog") /\ Key("@id") # Key("dataset")
        /\ Key("@id") # Key("catalog")
    BY DEF Key
  <2> HIDE DEF w, shown, nested
  <2>4. Fields(w) = Fields(v) /\ Fields(v) = DOMAIN v.obj /\ \A k \in Fields(v) : w.obj[k] = field(k)
    BY <1>2, <2>1, <2>2 DEF Fields
  <2>5. \A k : k # Key("dataset") /\ k # Key("catalog") => GetKey(w, k) = GetKey(v, k)
    BY <2>4 DEF GetKey
  <2>6. GetArr(w, "service") = GetArr(v, "service") /\ GetStr(w, "@id") = GetStr(v, "@id")
    BY <2>3, <2>5 DEF GetArr, GetStr
  <2>7. ASSUME NEW name, NEW made,
               \A k \in Fields(v) : k = Key(name) =>
                   w.obj[k] = IF v.obj[k].j = "arr" THEN Arr(made) ELSE v.obj[k],
               GetArr(v, name) = <<>> => made = <<>>
        PROVE  GetArr(w, name) = made
    <3>1. CASE Key(name) \notin Fields(v)
      BY <2>4, <2>7, <3>1 DEF GetArr, GetKey, None
    <3>2. CASE Key(name) \in Fields(v) /\ v.obj[Key(name)].j # "arr"
      BY <2>4, <2>7, <3>2 DEF GetArr, GetKey, None, Some
    <3>3. CASE Key(name) \in Fields(v) /\ v.obj[Key(name)].j = "arr"
      BY <2>2, <2>4, <2>7, <3>3 DEF GetArr, GetKey, None, Some
    <3>4. QED
      BY <3>1, <3>2, <3>3
  <2>8. GetArr(w, "dataset") = shown
    <3>1. datasets = <<>> => shown = <<>>
      BY RetainNone DEF shown
    <3>2. QED
      BY <2>3, <2>4, <2>7, <3>1
  <2>9. GetArr(w, "catalog") = nested
    <3>1. GetArr(v, "catalog") = <<>> => nested = <<>>
      BY DEF nested
    <3>2. QED
      BY <2>3, <2>4, <2>7, <3>1
  <2>10. QED
    BY <2>6, <2>8, <2>9 DEF w, shown, nested
<1>3. QED
  BY <1>1, <1>2

\* The entries that are not datasets of these ids.
EntriesWithout(S, ids) ==
    {e \in CollectedEntry(S) : e.is = "service" \/ GetId(e.json) \notin ids}

\* The entries of one catalog without those datasets are what is left of its
\* entries, when that is so of the catalogs in it.
LEMMA EntriesLeft ==
    ASSUME NEW S, Json(S), NEW v \in S, NEW ids, NEW depth,
           NEW below, NEW red, NEW left,
           \A c \in CatalogsIn(v) :
               /\ below[c] \in Seq(CollectedEntry(S))
               /\ left[red[c]] = Retained(below[c], EntriesWithout(S, ids))
    PROVE  EntriesAt(RedactedAt(v, ids, red), depth, left)
             = Retained(EntriesAt(v, depth, below), EntriesWithout(S, ids))
<1> DEFINE E == CollectedEntry(S)
           U == EntriesWithout(S, ids)
           w == RedactedAt(v, ids, red)
           sv == GetArr(v, "service")
           ds == GetArr(v, "dataset")
           cs == GetArr(v, "catalog")
           kept == OtherDatasets(v, ids)
           shown == Retained(ds, kept)
           services == [i \in DOMAIN sv |-> [is |-> "service", json |-> sv[i]]]
           datasets == [i \in DOMAIN ds |-> [is |-> "dataset", json |-> ds[i]]]
           fewer == [i \in DOMAIN shown |-> [is |-> "dataset", json |-> shown[i]]]
           lists == [i \in DOMAIN cs |-> below[cs[i]]]
           short == [i \in DOMAIN lists |-> Retained(lists[i], U)]
<1>1. sv \in Seq(S) /\ ds \in Seq(S) /\ cs \in Seq(S)
  BY ArrayIsJson
<1>2. EntriesAt(v, depth, below) = services \o datasets \o Flatten(lists)
  BY DEF EntriesAt, MapSeq
<1>3. EntriesAt(w, depth, left) = services \o fewer \o Flatten(short)
  <2> DEFINE ws == GetArr(w, "service")
             wd == GetArr(w, "dataset")
             wc == GetArr(w, "catalog")
             wl == [i \in DOMAIN wc |-> left[wc[i]]]
  <2>1. /\ ws = sv /\ wd = shown
        /\ DOMAIN wc = DOMAIN cs /\ \A i \in DOMAIN cs : wc[i] = red[cs[i]]
    BY RedactedFields
  <2>2. EntriesAt(w, depth, left)
          = [i \in DOMAIN ws |-> [is |-> "service", json |-> ws[i]]]
            \o [i \in DOMAIN wd |-> [is |-> "dataset", json |-> wd[i]]]
            \o Flatten(wl)
    BY DEF EntriesAt, MapSeq
  <2> HIDE DEF ws, wd, wc, w, sv, shown
  <2>3. DOMAIN wc = DOMAIN cs /\ DOMAIN lists = DOMAIN cs
    BY <2>1
  <2>4. \A i \in DOMAIN cs : left[wc[i]] = Retained(lists[i], U)
    <3> SUFFICES ASSUME NEW i \in DOMAIN cs PROVE left[wc[i]] = Retained(lists[i], U)
      OBVIOUS
    <3>1. cs[i] \in CatalogsIn(v)
      BY DEF CatalogsIn, ToSet
    <3>2. left[red[cs[i]]] = Retained(below[cs[i]], U)
      BY <3>1
    <3>3. wc[i] = red[cs[i]] /\ lists[i] = below[cs[i]]
      BY <2>1
    <3> HIDE DEF cs, lists, U
    <3>4. QED
      BY <3>2, <3>3
  <2> HIDE DEF cs, lists, U
  <2>5. wl = short
    BY <2>3, <2>4
  <2> HIDE DEF wl, short
  <2>6. QED
    BY <2>1, <2>2, <2>5
<1>4. services \in Seq({e \in U : e.is = "service"}) /\ datasets \in Seq(E) /\ lists \in Seq(Seq(E))
  <2>1. \A i \in DOMAIN sv : services[i] \in {e \in U : e.is = "service"}
    BY <1>1 DEF CollectedEntry, EntriesWithout
  <2>2. \A i \in DOMAIN ds : datasets[i] \in E
    BY <1>1 DEF CollectedEntry
  <2>3. \A i \in DOMAIN cs : lists[i] \in Seq(E)
    BY DEF CatalogsIn, ToSet
  <2>4. /\ services = [i \in DOMAIN sv |-> services[i]]
        /\ datasets = [i \in DOMAIN ds |-> datasets[i]]
        /\ lists = [i \in DOMAIN cs |-> lists[i]]
    OBVIOUS
  <2> DEFINE V == {e \in U : e.is = "service"}
             X == Seq(E)
  <2> HIDE DEF services, datasets, lists, sv, ds, cs, V, X, E
  <2>5. services \in Seq(V)
    BY <1>1, <2>1, <2>4, MappedIsList DEF V
  <2>6. datasets \in Seq(E)
    BY <1>1, <2>2, <2>4, MappedIsList
  <2>7. lists \in Seq(X)
    BY <1>1, <2>3, <2>4, MappedIsList DEF X
  <2>8. QED
    BY <2>5, <2>6, <2>7 DEF V, X
<1>5. Retained(services, U) = services
  <2> DEFINE V == {e \in U : e.is = "service"}
  <2>1. V \subseteq U /\ services \in Seq(V)
    BY <1>4
  <2> HIDE DEF V, U, services
  <2>2. QED
    BY <2>1, RetainAll
<1>6. Retained(datasets, U) = fewer
  <2> DEFINE A == ToSet(ds)
             f == [d \in A |-> [is |-> "dataset", json |-> d]]
  <2>1. ds \in Seq(A) /\ A \subseteq S
    BY <1>1, ListOver DEF IsList
  <2>2. \A d \in A : f[d] \in U <=> d \in kept
    BY <2>1 DEF CollectedEntry, EntriesWithout, OtherDatasets
  <2>3. shown \in Seq(A)
    BY <2>1, RetainedMembers
  <2>4. datasets = [i \in DOMAIN ds |-> f[ds[i]]]
    <3>1. \A i \in DOMAIN ds : ds[i] \in A
      BY DEF ToSet
    <3> HIDE DEF ds, A
    <3>2. QED
      BY <3>1
  <2>5. fewer = [i \in DOMAIN shown |-> f[shown[i]]]
    <3>1. \A i \in DOMAIN shown : shown[i] \in A
      BY <2>3
    <3> HIDE DEF ds, A, shown
    <3>2. QED
      BY <3>1
  <2> HIDE DEF f, ds, A, U, kept, datasets, fewer
  <2>6. Retained([i \in DOMAIN ds |-> f[ds[i]]], U) = [i \in DOMAIN shown |-> f[shown[i]]]
    BY <2>1, <2>2, RetainMade
  <2>7. QED
    BY <2>4, <2>5, <2>6
<1>7. Retained(Flatten(lists), U) = Flatten(short)
  <2> HIDE DEF lists, E, U
  <2>1. QED
    BY <1>4, RetainFlattened
<1> HIDE DEF services, datasets, fewer, lists, short, U, w, E
<1>8. services \in Seq(E) /\ Flatten(lists) \in Seq(E) /\ services \o datasets \in Seq(E)
  <2>1. services \in Seq(E)
    <3> DEFINE V == {e \in U : e.is = "service"}
    <3>1. V \subseteq E /\ services \in Seq(V)
      BY <1>4 DEF U, EntriesWithout, E
    <3> HIDE DEF V
    <3>2. QED
      BY <3>1
  <2>2. QED
    BY <1>4, <2>1, FlattenMembers
<1>9. Retained(services \o datasets, U) = services \o fewer
  <2>1. services \in Seq(E) /\ datasets \in Seq(E)
    BY <1>4, <1>8
  <2>2. Retained(services \o datasets, U) = Retained(services, U) \o Retained(datasets, U)
    BY <2>1, RetainJoined
  <2>3. QED
    BY <1>5, <1>6, <2>2
<1> DEFINE head == services \o datasets
           tail == Flatten(lists)
<1>10. head \in Seq(E) /\ tail \in Seq(E)
  BY <1>8
<1>11. EntriesAt(v, depth, below) = head \o tail /\ Retained(head, U) = services \o fewer
       /\ Retained(tail, U) = Flatten(short)
  BY <1>2, <1>7, <1>9
<1> HIDE DEF head, tail
<1>12. Retained(head \o tail, U) = Retained(head, U) \o Retained(tail, U)
  BY <1>10, RetainJoined
<1>13. EntriesAt(w, depth, left) = Retained(EntriesAt(v, depth, below), U)
  BY <1>3, <1>11, <1>12
<1>14. QED
  BY <1>13 DEF w, U

\* The entries of a response without those datasets are what is left of its entries.
LEMMA ResponseEntriesLeft ==
    ASSUME NEW S, Json(S), NEW v \in S, NEW ids
    PROVE  CatalogEntries(Redacted(v, ids))
             = Retained(CatalogEntries(v), EntriesWithout(S, ids))
<1> DEFINE levels == CatalogLevels(v)
           r == Redacted(v, ids)
           lower == CatalogLevels(r)
           U == EntriesWithout(S, ids)
<1>1. PICK red : RedactedBy(v, ids, red)
  BY RedactRecurses
<1>2. PICK made : EntriesBy(v, made)
  BY EntriesRecurse
<1>3. PICK left : EntriesBy(r, left)
  BY EntriesRecurse
<1>4. JSON_DEPTH \in Nat
  BY DepthAssumption
<1>5. /\ levels[0] = {v} /\ \A k \in Nat : levels[k + 1] = UNION {CatalogsIn(y) : y \in levels[k]}
      /\ lower[0] = {r} /\ \A k \in Nat : lower[k + 1] = UNION {CatalogsIn(y) : y \in lower[k]}
  BY CatalogLevelsRecurse
<1>6. (\A k \in Nat : levels[k] \subseteq S) /\ \A y \in levels[JSON_DEPTH] : CatalogsIn(y) = {}
  BY NestedAreJson
<1>7. \A rest \in 0..JSON_DEPTH : \A y \in levels[JSON_DEPTH - rest] :
          /\ made[rest][y] \in Seq(CollectedEntry(S))
          /\ made[rest][y] = EntriesAt(y, JSON_DEPTH - rest, MadeBelow(made, rest, y))
          /\ red[rest][y] = RedactedAt(y, ids, MadeBelow(red, rest, y))
  BY <1>1, <1>2, EntriesByAreJson DEF EntriesBy, RedactedBy
<1>8. \A rest \in 0..JSON_DEPTH : \A y \in lower[JSON_DEPTH - rest] :
          left[rest][y] = EntriesAt(y, JSON_DEPTH - rest, MadeBelow(left, rest, y))
  BY <1>3 DEF EntriesBy
<1>9. ASSUME NEW rest \in 0..JSON_DEPTH, NEW y \in levels[JSON_DEPTH - rest], rest # 0
      PROVE  CatalogsIn(red[rest][y]) = {red[rest - 1][c] : c \in CatalogsIn(y)}
  <2> DEFINE cs == GetArr(y, "catalog")
             b == MadeBelow(red, rest, y)
             ws == GetArr(red[rest][y], "catalog")
  <2>1. DOMAIN ws = DOMAIN cs /\ \A i \in DOMAIN cs : ws[i] = b[cs[i]]
    BY <1>7, RedactedFields
  <2>2. \A i \in DOMAIN cs : cs[i] \in CatalogsIn(y)
    BY DEF CatalogsIn, ToSet
  <2>3. \A c \in CatalogsIn(y) : b[c] = red[rest - 1][c]
    BY <1>9 DEF MadeBelow
  <2> HIDE DEF b
  <2>4. CatalogsIn(red[rest][y]) = {b[cs[i]] : i \in DOMAIN cs}
    BY <2>1 DEF CatalogsIn, ToSet
  <2>5. CatalogsIn(y) = {cs[i] : i \in DOMAIN cs}
    BY DEF CatalogsIn, ToSet
  <2> HIDE DEF cs
  <2>6. QED
    BY <2>2, <2>3, <2>4, <2>5
<1>10. \A k \in 0..JSON_DEPTH : \A y \in levels[k] : red[JSON_DEPTH - k][y] \in lower[k]
  <2> DEFINE There(k) == \A y \in levels[k] : red[JSON_DEPTH - k][y] \in lower[k]
             T == {k \in Nat : k <= JSON_DEPTH => There(k)}
  <2> HIDE DEF levels, lower
  <2>1. 0 \in T
    <3>1. red[JSON_DEPTH][v] = r /\ JSON_DEPTH - 0 = JSON_DEPTH
      BY <1>1, <1>4 DEF RedactedBy
    <3>2. QED
      BY <1>5, <3>1
  <2>2. ASSUME NEW k \in T PROVE k + 1 \in T
    <3> SUFFICES ASSUME k + 1 <= JSON_DEPTH, NEW c \in levels[k + 1]
                 PROVE  red[JSON_DEPTH - (k + 1)][c] \in lower[k + 1]
      OBVIOUS
    <3>1. PICK y \in levels[k] : c \in CatalogsIn(y)
      BY <1>5
    <3> DEFINE rest == JSON_DEPTH - k
    <3>2. rest \in 0..JSON_DEPTH /\ rest # 0 /\ k = JSON_DEPTH - rest
          /\ JSON_DEPTH - (k + 1) = rest - 1 /\ k \in Nat /\ k <= JSON_DEPTH
      BY <1>4
    <3>3. red[rest][y] \in lower[k]
      BY <3>2
    <3> HIDE DEF rest
    <3>4. red[rest - 1][c] \in CatalogsIn(red[rest][y])
      BY <1>9, <3>1, <3>2
    <3>5. QED
      BY <1>5, <3>2, <3>3, <3>4
  <2>3. T = Nat
    <3> HIDE DEF T
    <3>1. T \subseteq Nat
      BY DEF T
    <3>2. QED
      BY <2>1, <2>2, <3>1, KidRecursion!Induction
  <2>4. QED
    BY <1>4, <2>3
<1> DEFINE Left(rest) == \A y \in levels[JSON_DEPTH - rest] :
                             left[rest][red[rest][y]] = Retained(made[rest][y], U)
           T == {rest \in Nat : rest <= JSON_DEPTH => Left(rest)}
<1> HIDE DEF levels, lower, U, r
<1>11. ASSUME NEW rest \in 0..JSON_DEPTH, NEW y \in levels[JSON_DEPTH - rest],
              \A c \in CatalogsIn(y) :
                  /\ MadeBelow(made, rest, y)[c] \in Seq(CollectedEntry(S))
                  /\ MadeBelow(left, rest, red[rest][y])[MadeBelow(red, rest, y)[c]]
                       = Retained(MadeBelow(made, rest, y)[c], U)
       PROVE  left[rest][red[rest][y]] = Retained(made[rest][y], U)
  <2> DEFINE d == JSON_DEPTH - rest
             w == red[rest][y]
             b == MadeBelow(made, rest, y)
             m == MadeBelow(red, rest, y)
             l == MadeBelow(left, rest, w)
  <2>1. y \in S /\ d \in 0..JSON_DEPTH /\ JSON_DEPTH - d = rest
    BY <1>4, <1>6
  <2>2. w \in lower[d]
    BY <1>10, <2>1
  <2>3. /\ w = RedactedAt(y, ids, m) /\ made[rest][y] = EntriesAt(y, d, b)
        /\ left[rest][w] = EntriesAt(w, d, l)
    BY <1>7, <1>8, <2>2
  <2>4. \A c \in CatalogsIn(y) : /\ b[c] \in Seq(CollectedEntry(S))
                                 /\ l[m[c]] = Retained(b[c], U)
    BY <1>11
  <2> HIDE DEF d, w, b, m, l
  <2>5. EntriesAt(RedactedAt(y, ids, m), d, l) = Retained(EntriesAt(y, d, b), U)
    BY <2>1, <2>4, EntriesLeft DEF U
  <2>6. QED
    BY <2>3, <2>5 DEF w
<1>12. 0 \in T
  <2> SUFFICES ASSUME NEW y \in levels[JSON_DEPTH]
               PROVE  left[0][red[0][y]] = Retained(made[0][y], U)
    BY <1>4
  <2>1. CatalogsIn(y) = {} /\ JSON_DEPTH - 0 = JSON_DEPTH /\ 0 \in 0..JSON_DEPTH
    BY <1>4, <1>6
  <2>2. QED
    BY <1>11, <2>1
<1>13. ASSUME NEW rest \in T PROVE rest + 1 \in T
  <2> DEFINE next == rest + 1
  <2> SUFFICES ASSUME next <= JSON_DEPTH, NEW y \in levels[JSON_DEPTH - next]
               PROVE  left[next][red[next][y]] = Retained(made[next][y], U)
    OBVIOUS
  <2> DEFINE k == JSON_DEPTH - next
             w == red[next][y]
  <2>1. k \in Nat /\ k + 1 = JSON_DEPTH - rest /\ next \in 0..JSON_DEPTH /\ rest \in 0..JSON_DEPTH
        /\ next # 0 /\ next - 1 = rest /\ rest <= JSON_DEPTH
    BY <1>4
  <2>2. CatalogsIn(y) \subseteq levels[JSON_DEPTH - rest]
    BY <1>5, <2>1
  <2>3. CatalogsIn(w) = {red[rest][c] : c \in CatalogsIn(y)}
    BY <1>9, <2>1
  <2> HIDE DEF w, k, next
  <2>4. ASSUME NEW c \in CatalogsIn(y)
        PROVE  /\ MadeBelow(made, next, y)[c] \in Seq(CollectedEntry(S))
               /\ MadeBelow(left, next, w)[MadeBelow(red, next, y)[c]]
                    = Retained(MadeBelow(made, next, y)[c], U)
    <3>1. MadeBelow(made, next, y)[c] = made[rest][c] /\ MadeBelow(red, next, y)[c] = red[rest][c]
      BY <2>1 DEF MadeBelow
    <3>2. MadeBelow(left, next, w)[red[rest][c]] = left[rest][red[rest][c]]
      BY <2>1, <2>3 DEF MadeBelow
    <3>3. c \in levels[JSON_DEPTH - rest]
      BY <2>2
    <3>4. left[rest][red[rest][c]] = Retained(made[rest][c], U)
      BY <2>1, <3>3
    <3>5. made[rest][c] \in Seq(CollectedEntry(S))
      BY <1>7, <2>1, <3>3
    <3>6. QED
      BY <3>1, <3>2, <3>4, <3>5
  <2>5. QED
    BY <1>11, <2>1, <2>4 DEF w, k
<1>14. T = Nat
  <2> HIDE DEF T
  <2>1. T \subseteq Nat
    BY DEF T
  <2>2. QED
    BY <1>12, <1>13, <2>1, KidRecursion!Induction
<1>15. left[JSON_DEPTH][red[JSON_DEPTH][v]] = Retained(made[JSON_DEPTH][v], U)
  <2>1. JSON_DEPTH - JSON_DEPTH = 0 /\ v \in levels[0]
    BY <1>4, <1>5
  <2>2. QED
    BY <1>4, <1>14, <2>1
<1>16. QED
  BY <1>1, <1>2, <1>3, <1>15 DEF RedactedBy, EntriesBy, r, U

\* How an entry adds to the datasets.
AddsDataset(found, entry) ==
    /\ entry.is # "service" /\ GetId(entry.json) # None
    /\ GetId(entry.json) \notin {GetId(d) : d \in ToSet(found.datasets)}

LEMMA CollectedDatasets ==
    ASSUME NEW found, found = [datasets |-> found.datasets, services |-> found.services],
           NEW entry
    PROVE  LET more == Collect(found, entry)
           IN /\ more = [datasets |-> more.datasets, services |-> more.services]
              /\ more.datasets = IF AddsDataset(found, entry)
                                 THEN Append(found.datasets, entry.json) ELSE found.datasets
<1> DEFINE v == entry.json
           ds == found.datasets
           sv == found.services
           more == Collect(found, entry)
<1>1. CASE entry.is = "service"
  <2> DEFINE x == AddUnseen(sv, parse_data_service(v))
  <2>1. more = [found EXCEPT !.services = x]
    BY <1>1 DEF Collect
  <2>2. \A s : [found EXCEPT !.services = s] = [datasets |-> ds, services |-> s]
    OBVIOUS
  <2> HIDE DEF x, ds
  <2>3. more = [datasets |-> ds, services |-> x]
    BY <2>1, <2>2
  <2> HIDE DEF more
  <2>4. QED
    BY <1>1, <2>3 DEF AddsDataset, more, ds
<1>2. CASE entry.is # "service" /\ ~ AddsDataset(found, entry)
  <2>1. more = found
    BY <1>2 DEF Collect, AddsDataset
  <2> HIDE DEF more
  <2>2. QED
    BY <1>2, <2>1 DEF more
<1>3. CASE AddsDataset(found, entry)
  <2> DEFINE x == AddUnseen(sv, NestedServices(v))
             all == Append(ds, v)
  <2>1. more = [datasets |-> all, services |-> x]
    BY <1>3 DEF Collect, AddsDataset
  <2> HIDE DEF x, all, more
  <2>2. QED
    BY <1>3, <2>1 DEF more, all
<1>4. QED
  BY <1>1, <1>2, <1>3

\* What is collected from the entries that are left is what is left of the datasets
\* that were collected.
LEMMA CollectedLeft ==
    ASSUME NEW S, NEW ids, NEW s \in Seq(CollectedEntry(S))
    PROVE  LET all == CollectedFrom(s)
           IN /\ all = [datasets |-> all.datasets, services |-> all.services]
              /\ all.datasets \in Seq(S)
              /\ CollectedFrom(Retained(s, EntriesWithout(S, ids))).datasets
                   = Retained(all.datasets, {d \in S : GetId(d) \notin ids})
<1> DEFINE E == CollectedEntry(S)
           U == EntriesWithout(S, ids)
           T == {d \in S : GetId(d) \notin ids}
           Record(found) == found = [datasets |-> found.datasets, services |-> found.services]
           Left(u) == /\ Record(CollectedFrom(u)) /\ Record(CollectedFrom(Retained(u, U)))
                      /\ CollectedFrom(u).datasets \in Seq(S)
                      /\ CollectedFrom(Retained(u, U)).datasets
                           = Retained(CollectedFrom(u).datasets, T)
           P == {u \in Seq(E) : Left(u)}
<1>1. <<>> \in P
  <2>1. CollectedFrom(<<>>) = [datasets |-> <<>>, services |-> <<>>]
    <3> DEFINE seq == <<>>
    <3>1. seq \in Seq({0}) /\ 0 \in {0}
      OBVIOUS
    <3>2. QED
      BY <3>1, CollectOneMore
  <2>2. Retained(<<>>, U) = <<>> /\ Retained(<<>>, T) = <<>> /\ <<>> \in Seq(S) /\ <<>> \in Seq(E)
    BY RetainNone
  <2>3. LET none == CollectedFrom(<<>>)
        IN none.datasets = <<>> /\ none = [datasets |-> none.datasets, services |-> none.services]
    BY <2>1
  <2> HIDE DEF U, T, E
  <2>4. Left(<<>>)
    BY <2>2, <2>3
  <2>5. QED
    BY <2>2, <2>4
<1>2. ASSUME NEW u \in Seq(E), NEW e \in E, u \in P PROVE Append(u, e) \in P
  <2> DEFINE all == CollectedFrom(u)
             left == CollectedFrom(Retained(u, U))
             ds == all.datasets
             more == Collect(all, e)
             also == Collect(left, e)
  <2>1. /\ Record(all) /\ Record(left) /\ ds \in Seq(S) /\ left.datasets = Retained(ds, T)
        /\ Retained(u, U) \in Seq(E) /\ Append(u, e) \in Seq(E) /\ e.json \in S
        /\ e.is \in {"service", "dataset"}
    <3>1. Left(u)
      BY <1>2
    <3>2. Retained(u, U) \in Seq(E) /\ Append(u, e) \in Seq(E)
      BY RetainedMembers
    <3>3. e.json \in S /\ e.is \in {"service", "dataset"}
      BY DEF CollectedEntry
    <3> HIDE DEF U, T, E
    <3>4. QED
      BY <3>1, <3>2, <3>3
  <2>2. CollectedFrom(Append(u, e)) = more
    BY CollectOneMore
  <2>3. /\ e \in U => CollectedFrom(Retained(Append(u, e), U)) = also
        /\ e \notin U => CollectedFrom(Retained(Append(u, e), U)) = left
    <3>1. /\ e \in U => Retained(Append(u, e), U) = Append(Retained(u, U), e)
          /\ e \notin U => Retained(Append(u, e), U) = Retained(u, U)
      BY RetainOneMore
    <3>2. CollectedFrom(Append(Retained(u, U), e)) = also
      BY <2>1, CollectOneMore
    <3> HIDE DEF U, also
    <3>3. QED
      BY <3>1, <3>2
  <2>4. /\ Record(more) /\ Record(also)
        /\ more.datasets = IF AddsDataset(all, e) THEN Append(ds, e.json) ELSE ds
        /\ also.datasets = IF AddsDataset(left, e) THEN Append(left.datasets, e.json)
                           ELSE left.datasets
    <3> HIDE DEF all, left
    <3>1. Record(all) /\ Record(left)
      BY <2>1
    <3>2. QED
      BY <3>1, CollectedDatasets
  <2>5. ToSet(left.datasets) = ToSet(ds) \cap T /\ \A d \in ToSet(ds) : d \in S
    <3>1. ToSet(Retained(ds, T)) = ToSet(ds) \cap T
      BY <2>1, RetainedMembers
    <3>2. \A d \in ToSet(ds) : d \in S
      BY <2>1 DEF ToSet
    <3> HIDE DEF ds, T, left
    <3>3. QED
      BY <2>1, <3>1, <3>2
  <2>6. /\ e.json \in T => Retained(Append(ds, e.json), T) = Append(Retained(ds, T), e.json)
        /\ e.json \notin T => Retained(Append(ds, e.json), T) = Retained(ds, T)
    BY <2>1, RetainOneMore
  <2>7. AddsDataset(all, e) => Append(ds, e.json) \in Seq(S)
    BY <2>1
  <2>8. CASE e \in U
    <3>1. e.is # "service" => e.json \in T
      BY <2>1, <2>8 DEF EntriesWithout
    <3>2. AddsDataset(all, e) <=> AddsDataset(left, e)
      BY <2>1, <2>5, <2>8 DEF AddsDataset, EntriesWithout
    <3>3. AddsDataset(all, e) => e.is # "service"
      BY DEF AddsDataset
    <3> HIDE DEF U, T, E, all, left, ds, more, also
    <3>4. also.datasets = Retained(more.datasets, T) /\ more.datasets \in Seq(S)
      BY <2>1, <2>4, <2>6, <2>7, <3>1, <3>2, <3>3
    <3>5. QED
      BY <2>1, <2>2, <2>3, <2>4, <2>8, <3>4 DEF all, left, ds, more, also
  <2>9. CASE e \notin U
    <3>1. e.json \notin T
      BY <2>9 DEF EntriesWithout
    <3> HIDE DEF U, T, E, all, left, ds, more, also
    <3>2. left.datasets = Retained(more.datasets, T) /\ more.datasets \in Seq(S)
      BY <2>1, <2>4, <2>6, <2>7, <3>1
    <3>3. QED
      BY <2>1, <2>2, <2>3, <2>4, <2>9, <3>2
  <2>10. QED
    BY <2>8, <2>9
<1>3. \A u \in Seq(E) : u \in P
  <2> HIDE DEF P
  <2>1. QED
    BY <1>1, <1>2, ListInduction
<1>4. QED
  BY <1>3

\* Parsed anew without those datasets, a response gives the same catalog without
\* them, but for its services.
LEMMA ParsedLeft ==
    ASSUME NEW S, Json(S), NEW v \in S, NEW participant, IsOption(participant.provider_did),
           NEW ids
    PROVE  LET c == parse_catalog_response(v, participant)
               w == parse_catalog_response(Redacted(v, ids), participant)
           IN /\ w = [id |-> c.id, origin_node |-> c.origin_node,
                      participant_id |-> c.participant_id,
                      datasets |-> Retained(c.datasets,
                                            {d \in ToSet(c.datasets) : Some(d.id) \notin ids}),
                      data_services |-> w.data_services]
<1> DEFINE r == Redacted(v, ids)
           c == parse_catalog_response(v, participant)
           w == parse_catalog_response(r, participant)
           ds == collect_datasets_and_services(v).datasets
           rs == collect_datasets_and_services(r).datasets
           T == {d \in S : GetId(d) \notin ids}
           U == {d \in ToSet(c.datasets) : Some(d.id) \notin ids}
           A == ToSet(ds)
           f == [d \in A |-> parse_dataset(d)]
<1>1. GetStr(r, "@id") = GetStr(v, "@id")
  <2>1. PICK made : RedactedBy(v, ids, made)
    BY RedactRecurses
  <2>2. v \in CatalogLevels(v)[JSON_DEPTH - JSON_DEPTH] /\ JSON_DEPTH \in 0..JSON_DEPTH
    BY CatalogLevelsRecurse, DepthAssumption
  <2>3. r = RedactedAt(v, ids, MadeBelow(made, JSON_DEPTH, v))
    BY <2>1, <2>2 DEF RedactedBy
  <2> HIDE DEF r
  <2>4. QED
    BY <2>3, RedactedFields
<1>2. rs = Retained(ds, T)
  <2>1. CatalogEntries(v) \in Seq(CollectedEntry(S))
    BY ResponseEntriesAreJson
  <2>2. CatalogEntries(r) = Retained(CatalogEntries(v), EntriesWithout(S, ids))
    BY ResponseEntriesLeft
  <2>3. \A x : collect_datasets_and_services(x) = CollectedFrom(CatalogEntries(x))
    BY DEF collect_datasets_and_services, CollectedFrom
  <2>4. CollectedFrom(CatalogEntries(r)).datasets = Retained(CollectedFrom(CatalogEntries(v)).datasets, T)
    <3>1. CollectedFrom(Retained(CatalogEntries(v), EntriesWithout(S, ids))).datasets
            = Retained(CollectedFrom(CatalogEntries(v)).datasets, T)
      BY <2>1, CollectedLeft
    <3> HIDE DEF r, T
    <3>2. QED
      BY <2>2, <3>1
  <2> HIDE DEF r, T
  <2>5. QED
    BY <2>3, <2>4
<1>3. DatasetList(S, ds)
  BY CollectedHasForm DEF CollectedForm
<1>4. ds \in Seq(A) /\ A \subseteq S /\ \A d \in A : GetId(d) = Some(GetId(d)[1])
  <2>1. ds \in Seq(A) /\ A \subseteq S
    BY <1>3, ListOver DEF IsList, DatasetList
  <2>2. \A o : IsOption(o) /\ o # None => o = Some(o[1])
    BY DEF IsOption, Some, None
  <2>3. \A d \in A : GetId(d) # None
    BY <1>3 DEF DatasetList, ToSet
  <2> HIDE DEF A, ds
  <2>4. \A d \in A : GetId(d) = Some(GetId(d)[1])
    BY <2>2, <2>3, StringIsOption
  <2>5. QED
    BY <2>1, <2>4
<1>5. c.datasets = [i \in DOMAIN ds |-> f[ds[i]]]
  <2>1. c.datasets = [i \in DOMAIN ds |-> parse_dataset(ds[i])]
    BY DEF parse_catalog_response, MapSeq
  <2>2. \A i \in DOMAIN ds : ds[i] \in A
    BY DEF ToSet
  <2> HIDE DEF ds, A, c
  <2>3. QED
    BY <2>1, <2>2
<1>6. w.datasets = [i \in DOMAIN Retained(ds, T) |-> f[Retained(ds, T)[i]]]
  <2>1. w.datasets = [i \in DOMAIN rs |-> parse_dataset(rs[i])]
    BY DEF parse_catalog_response, MapSeq
  <2>2. Retained(ds, T) \in Seq(A)
    BY <1>4, RetainedMembers
  <2>3. \A i \in DOMAIN Retained(ds, T) : Retained(ds, T)[i] \in A
    BY <2>2
  <2> HIDE DEF ds, rs, A, w, T
  <2>4. QED
    BY <1>2, <2>1, <2>3
<1>7. \A d \in A : f[d] \in U <=> d \in T
  <2> SUFFICES ASSUME NEW d \in A PROVE f[d] \in U <=> d \in T
    OBVIOUS
  <2>1. f[d] \in ToSet(c.datasets)
    <3>1. PICK i \in DOMAIN ds : d = ds[i]
      BY DEF ToSet
    <3> HIDE DEF ds, A, f, c
    <3>2. QED
      BY <1>5, <3>1 DEF ToSet
  <2>2. Some(f[d].id) = GetId(d)
    <3>1. f[d].id = GetId(d)[1]
      BY DEF parse_dataset
    <3> HIDE DEF f
    <3>2. QED
      BY <1>4, <3>1
  <2>3. d \in S
    BY <1>4
  <2> HIDE DEF f, c, A, ds
  <2>4. QED
    BY <2>1, <2>2, <2>3
<1>8. w.datasets = Retained(c.datasets, U)
  <2> HIDE DEF w, c, U, T, A, f, ds
  <2>1. Retained([i \in DOMAIN ds |-> f[ds[i]]], U) = [i \in DOMAIN Retained(ds, T) |-> f[Retained(ds, T)[i]]]
    BY <1>4, <1>7, RetainMade
  <2>2. QED
    BY <1>5, <1>6, <2>1
<1>9. /\ w = [id |-> w.id, origin_node |-> w.origin_node, participant_id |-> w.participant_id,
              datasets |-> w.datasets, data_services |-> w.data_services]
      /\ w.id = c.id /\ w.origin_node = c.origin_node /\ w.participant_id = c.participant_id
  <2>1. /\ w.id = OrElse(GetStr(r, "@id"), FreshId) /\ c.id = OrElse(GetStr(v, "@id"), FreshId)
        /\ w.origin_node = participant.id /\ c.origin_node = participant.id
        /\ w.participant_id = participant.provider_did
        /\ c.participant_id = participant.provider_did
    BY DEF parse_catalog_response
  <2>2. w = [id |-> w.id, origin_node |-> w.origin_node, participant_id |-> w.participant_id,
             datasets |-> w.datasets, data_services |-> w.data_services]
    BY DEF parse_catalog_response
  <2> HIDE DEF w, c, r
  <2>3. QED
    BY <1>1, <2>1, <2>2
<1> HIDE DEF w, c, U
<1>10. w = [id |-> c.id, origin_node |-> c.origin_node, participant_id |-> c.participant_id,
            datasets |-> Retained(c.datasets, U), data_services |-> w.data_services]
  BY <1>8, <1>9
<1>11. QED
  BY <1>10 DEF w, c, U, r

\* What the policies leave of a catalog is what is parsed without what they hide.
LEMMA FilteredIsParsed ==
    ASSUME NEW S, Json(S), NEW v \in S, NEW participant, IsOption(participant.provider_did),
           NEW claims, NEW settings
    PROVE  LET c == parse_catalog_response(v, participant)
               ids == HiddenIds(c, claims, settings)
           IN FilterCatalog(c, claims, FALSE, settings)
                = [parse_catalog_response(Redacted(v, ids), participant)
                      EXCEPT !.data_services = c.data_services]
<1> DEFINE c == parse_catalog_response(v, participant)
           ids == HiddenIds(c, claims, settings)
           w == parse_catalog_response(Redacted(v, ids), participant)
           visible == {d \in ToSet(c.datasets) : DatasetVisible(d, claims, settings)}
           others == {d \in ToSet(c.datasets) : Some(d.id) \notin ids}
           x == Retained(c.datasets, visible)
<1>1. CatalogForm(c)
  BY ParsedHasForm
<1>2. w = [id |-> c.id, origin_node |-> c.origin_node, participant_id |-> c.participant_id,
           datasets |-> Retained(c.datasets, others), data_services |-> w.data_services]
  <2> HIDE DEF ids
  <2>1. QED
    BY ParsedLeft
<1>3. FilterCatalog(c, claims, FALSE, settings) = [c EXCEPT !.datasets = x]
  BY DEF FilterCatalog, VisibleDatasets
<1> HIDE DEF c, w
<1>4. others = visible
  <2> SUFFICES ASSUME NEW d \in ToSet(c.datasets)
               PROVE  Some(d.id) \notin ids <=> DatasetVisible(d, claims, settings)
    OBVIOUS
  <2>1. \A e \in ToSet(c.datasets) : Some(e.id) = Some(d.id) => e = d
    BY <1>1 DEF CatalogForm, DistinctIds, ToSet, Some
  <2>2. Some(d.id) \in ids <=> \E e \in ToSet(c.datasets) :
            ~ DatasetVisible(e, claims, settings) /\ Some(e.id) = Some(d.id)
    BY DEF HiddenIds
  <2> HIDE DEF ids
  <2>3. QED
    BY <2>1, <2>2
<1> HIDE DEF others, visible, ids
<1>5. [c EXCEPT !.datasets = x] = [w EXCEPT !.data_services = c.data_services]
  <2>1. c = [id |-> c.id, origin_node |-> c.origin_node, participant_id |-> c.participant_id,
             datasets |-> c.datasets, data_services |-> c.data_services]
    BY <1>1 DEF CatalogForm
  <2>2. w = [id |-> c.id, origin_node |-> c.origin_node, participant_id |-> c.participant_id,
             datasets |-> x, data_services |-> w.data_services]
    BY <1>2, <1>4
  <2> HIDE DEF x
  <2>3. QED
    BY <2>1, <2>2
<1>6. QED
  BY <1>3, <1>5 DEF c, w, ids

-----------------------------------------------------------------------------
(* The broker *)

\* The broker's own parser and RDF form are what the routes are run with.
OwnParserAndWriter ==
    /\ \A v, participant : ParseResponse(v, participant) = parse_catalog_response(v, participant)
    /\ \A c : WriteCatalog(c) = write_catalog(c)

StoredInv == DOMAIN catalog = Nodes /\ DOMAIN store = Nodes /\ EveryCrawlIsStored

\* Every response is stored, whatever its shape, for every depth limit and every
\* set of participants and responses.
THEOREM CrawlsAreStored ==
    ASSUME OwnParserAndWriter
    PROVE  Spec => []EveryCrawlIsStored
<1>1. Init => StoredInv
  BY DEF Init, StoredInv, EveryCrawlIsStored
<1>2. StoredInv /\ [Next]_vars => StoredInv'
  <2> SUFFICES ASSUME StoredInv, [Next]_vars PROVE StoredInv'
    OBVIOUS
  <2>1. ASSUME NEW n \in Nodes, Crawl(n) PROVE StoredInv'
    <3> DEFINE parsed == ParseResponse(body[n], [id |-> n, provider_did |-> provider_did[n]])
    <3>1. WriteCatalog(parsed) # None
      BY OwnParserAndWriter, ParsedIsWritten DEF OwnParserAndWriter
    <3> HIDE DEF parsed
    <3>2. /\ catalog' = [catalog EXCEPT ![n] = Some(parsed)]
          /\ store' = [store EXCEPT ![n] = WriteCatalog(parsed)]
      BY <2>1, <3>1 DEF Crawl, parsed
    <3>3. QED
      BY <3>1, <3>2 DEF StoredInv, EveryCrawlIsStored
  <2>2. CASE UNCHANGED <<catalog, store>>
    BY <2>2 DEF StoredInv, EveryCrawlIsStored
  <2>3. QED
    BY <2>1, <2>2 DEF Next, GetCatalog, CatalogRequest, Sparql, Sent, vars
<1>3. StoredInv => EveryCrawlIsStored
  BY DEF StoredInv
<1>4. QED
  BY <1>1, <1>2, <1>3, PTL DEF Spec

\* So are its reader of the RDF form, and its decision on a dataset.
OwnReader == \A g, n : LoadCatalog(g, n) = load_catalog(g, n)
OwnDecision ==
    \A d, claims, settings :
        DatasetVisible(d, claims, settings) = dataset_is_visible(d, claims, settings)

\* Participants answer with JSON, and have an identity or none.
AnswersIn(S) ==
    /\ \A r \in Responses, n \in Nodes : r[n] \in S
    /\ \A n \in Nodes : IsOption(provider_did[n])

\* What is in the catalogs was parsed from the participants' responses.
ParsedInv ==
    /\ body \in Responses
    /\ DOMAIN catalog = Nodes
    /\ \A n \in Nodes : catalog[n] # None =>
          catalog[n] = Some(parse_catalog_response(body[n],
                                [id |-> n, provider_did |-> provider_did[n]]))

\* The dataset has no policy and that is open, or a policy of it is understood in
\* full.
Readable(v) ==
    LET entries == one_or_many_aliased(v, "hasPolicy")
    IN \/ entries = <<>> /\ config.no_policy = "open"
       \/ \E i \in DOMAIN entries : UnderstoodPolicy(entries[i])

\* A participant's response has a readable dataset with this IRI.
ReadableAs(iri) ==
    \E n \in Nodes : \E v \in ToSet(collect_datasets_and_services(body[n]).datasets) :
        iri = dataset_iri(n, GetId(v)[1]) /\ Readable(v)

\* A filtered query matches a quad about a dataset, at any depth below it or
\* linking to it, only if the participant's response has a dataset of that id
\* that the crawler and the filter could read.
MatchedIsReadable ==
    (Answered("sparql") /\ should_filter_by_policy(config) /\ config.unmappable # "skip") =>
        \A q \in answer.quads : \A owner \in About(q) :
            owner[1][2] = "datasets" => ReadableAs(owner[1])

\* Every catalog is what the crawler parsed from a response.
LEMMA CatalogsAreParsed ==
    ASSUME OwnParserAndWriter
    PROVE  Spec => []ParsedInv
<1>1. Init => ParsedInv
  BY DEF Init, ParsedInv
<1>2. ParsedInv /\ [Next]_vars => ParsedInv'
  <2> SUFFICES ASSUME ParsedInv, [Next]_vars PROVE ParsedInv'
    OBVIOUS
  <2>1. ASSUME NEW n \in Nodes, Crawl(n) PROVE ParsedInv'
    <3> DEFINE parsed == parse_catalog_response(body[n],
                             [id |-> n, provider_did |-> provider_did[n]])
    <3>1. ParseResponse(body[n], [id |-> n, provider_did |-> provider_did[n]]) = parsed
      BY OwnParserAndWriter DEF OwnParserAndWriter
    <3>2. catalog' = [catalog EXCEPT ![n] = Some(parsed)] /\ body' = body
      BY <2>1, <3>1 DEF Crawl
    <3>3. QED
      BY <3>2 DEF ParsedInv
  <2>2. CASE UNCHANGED <<catalog, body>>
    BY <2>2 DEF ParsedInv
  <2>3. QED
    BY <2>1, <2>2 DEF Next, GetCatalog, CatalogRequest, Sparql, Sent, vars
<1>3. QED
  BY <1>1, <1>2, PTL DEF Spec

\* The store holds, of each catalog, what was written of it.
WrittenInv ==
    /\ DOMAIN catalog = Nodes /\ DOMAIN store = Nodes
    /\ \A n \in Nodes :
          store[n] = IF catalog[n] = None THEN None ELSE write_catalog(catalog[n][1])

\* Every catalog is written when it is parsed.
LEMMA CatalogsAreWritten ==
    ASSUME OwnParserAndWriter
    PROVE  Spec => []WrittenInv
<1>1. Init => WrittenInv
  BY DEF Init, WrittenInv
<1>2. WrittenInv /\ [Next]_vars => WrittenInv'
  <2> SUFFICES ASSUME WrittenInv, [Next]_vars PROVE WrittenInv'
    OBVIOUS
  <2>1. ASSUME NEW n \in Nodes, Crawl(n) PROVE WrittenInv'
    <3> DEFINE parsed == parse_catalog_response(body[n],
                             [id |-> n, provider_did |-> provider_did[n]])
    <3>1. /\ ParseResponse(body[n], [id |-> n, provider_did |-> provider_did[n]]) = parsed
          /\ WriteCatalog(parsed) = write_catalog(parsed)
      BY OwnParserAndWriter DEF OwnParserAndWriter
    <3>2. write_catalog(parsed) # None
      BY ParsedIsWritten
    <3> HIDE DEF parsed
    <3>3. /\ catalog' = [catalog EXCEPT ![n] = Some(parsed)]
          /\ store' = [store EXCEPT ![n] = write_catalog(parsed)]
      BY <2>1, <3>1, <3>2 DEF Crawl
    <3>4. Some(parsed) # None /\ Some(parsed)[1] = parsed
      BY DEF Some, None
    <3>5. QED
      BY <3>3, <3>4 DEF WrittenInv
  <2>2. CASE UNCHANGED <<catalog, store>>
    BY <2>2 DEF WrittenInv
  <2>3. QED
    BY <2>1, <2>2 DEF Next, GetCatalog, CatalogRequest, Sparql, Sent, vars
<1>3. QED
  BY <1>1, <1>2, PTL DEF Spec

\* The store gives back every catalog that the crawler parsed, exactly as it was
\* parsed, whatever the participants answer: with every constraint group, its kind
\* and every list in its order, for every depth limit.
THEOREM StoreIsFaithful ==
    ASSUME OwnParserAndWriter, OwnReader, NEW S, Json(S), AnswersIn(S)
    PROVE  Spec => []StoredFaithfully
<1>1. ParsedInv /\ WrittenInv => StoredFaithfully
  <2> SUFFICES ASSUME ParsedInv, WrittenInv, NEW n \in Nodes, store[n] # None
               PROVE  Decoded(n, store) = catalog[n]
    BY DEF StoredFaithfully
  <2> DEFINE participant == [id |-> n, provider_did |-> provider_did[n]]
             c == parse_catalog_response(body[n], participant)
  <2>1. catalog[n] # None /\ store[n] = write_catalog(catalog[n][1])
    BY DEF WrittenInv
  <2>2. catalog[n] = Some(c)
    BY <2>1 DEF ParsedInv
  <2>3. body[n] \in S /\ IsOption(participant.provider_did)
    BY DEF ParsedInv, AnswersIn
  <2>4. CatalogForm(c)
    BY <2>3, ParsedHasForm
  <2>5. c.origin_node = n
    BY DEF parse_catalog_response
  <2> HIDE DEF c
  <2>6. store[n] = write_catalog(c)
    BY <2>1, <2>2 DEF Some
  <2>7. load_catalog(write_catalog(c)[1], n) = Some(c)
    BY <2>4, <2>5, <2>6, LoadInvertsWrite
  <2>8. QED
    BY <2>2, <2>6, <2>7, OwnReader DEF OwnReader, Decoded
<1>2. QED
  BY <1>1, CatalogsAreParsed, CatalogsAreWritten, PTL

\* A dataset shown in a stored catalog could be read.
LEMMA ShownIsReadable ==
    ASSUME NEW S, Json(S), AnswersIn(S), OwnDecision, ParsedInv, StoredFaithfully,
           config.unmappable # "skip",
           NEW c \in DecodedCatalogs(Nodes, store), NEW claims, NEW iri,
           ShownIn(c, iri, claims), iri[2] = "datasets"
    PROVE  ReadableAs(iri)
<1>1. PICK m \in Nodes : store[m] # None /\ Decoded(m, store) # None /\ c = Decoded(m, store)[1]
  BY DEF DecodedCatalogs, Stored
<1> DEFINE found == collect_datasets_and_services(body[m])
           parsed == parse_catalog_response(body[m], [id |-> m, provider_did |-> provider_did[m]])
<1>2. c = parsed
  <2>1. catalog[m] # None /\ c = catalog[m][1]
    BY <1>1 DEF StoredFaithfully
  <2> HIDE DEF parsed
  <2>2. catalog[m] = Some(parsed)
    BY <2>1 DEF ParsedInv, parsed
  <2>3. QED
    BY <2>1, <2>2 DEF Some
<1>3. c.origin_node = m /\ c.datasets = MapSeq(found.datasets, parse_dataset)
  BY <1>2 DEF parse_catalog_response
<1>4. PICK d \in ToSet(c.datasets) :
          iri = dataset_iri(m, d.id) /\ DatasetVisible(d, claims, config)
  BY <1>3 DEF ShownIn, dataset_iri, service_iri
<1>5. found.datasets \in Seq(S)
  BY CollectedHasForm DEF ParsedInv, AnswersIn, CollectedForm, DatasetList
<1> HIDE DEF found
<1>6. PICK i \in DOMAIN found.datasets : d = parse_dataset(found.datasets[i])
  BY <1>3, <1>4 DEF MapSeq, ToSet
<1> DEFINE v == found.datasets[i]
<1>7. v \in S /\ v \in ToSet(found.datasets)
  BY <1>5 DEF ToSet
<1> HIDE DEF v
<1>8. d = parse_dataset(v)
  BY <1>6 DEF v
<1>9. dataset_is_visible(parse_dataset(v), claims, config)
  BY <1>4, <1>8, OwnDecision DEF OwnDecision
<1>10. Readable(v)
  BY <1>7, <1>9, NotUnderstoodIsDenied DEF Readable
<1>11. GetId(v)[1] = d.id
  BY <1>8 DEF parse_dataset
<1>12. QED
  BY <1>4, <1>7, <1>10, <1>11 DEF found, ReadableAs

\* From a participant's response to a caller's answer: a /sparql query of a caller
\* the policies are applied to matches no quad about a dataset whose policies the
\* broker did not understand in full, unless it is told to skip them.
THEOREM MatchedWasUnderstood ==
    ASSUME OwnParserAndWriter, OwnReader, OwnDecision, NEW S, Json(S), AnswersIn(S)
    PROVE  Spec => []MatchedIsReadable
<1>1. SparqlHidesHidden /\ ParsedInv /\ StoredFaithfully => MatchedIsReadable
  <2> SUFFICES ASSUME SparqlHidesHidden, ParsedInv, StoredFaithfully,
                      Answered("sparql"), should_filter_by_policy(config),
                      config.unmappable # "skip",
                      NEW q \in answer.quads, NEW owner \in About(q),
                      owner[1][2] = "datasets"
               PROVE  ReadableAs(owner[1])
    BY DEF MatchedIsReadable
  <2>1. PICK t \in Tokens : \E c \in DecodedCatalogs(Nodes, store) :
            ShownIn(c, owner[1], engine_claims_from_bearer(Claims(t, config)))
    BY DEF SparqlHidesHidden
  <2>2. QED
    BY <2>1, ShownIsReadable
<1>2. QED
  BY <1>1, SparqlHides, CatalogsAreParsed, StoreIsFaithful, PTL

\* In a finite set with a strict order, each place is a member's.
LEMMA PlacesAreTaken ==
    ASSUME NEW X, IsFiniteSet(X), NEW R,
           \A e \in X : <<e, e>> \notin R,
           \A e, f, g \in X : <<e, f>> \in R /\ <<f, g>> \in R => <<e, g>> \in R,
           \A e, f \in X : e = f \/ <<e, f>> \in R \/ <<f, e>> \in R,
           NEW i \in 1..Cardinality(X)
    PROVE  \E e \in X : Cardinality({f \in X : <<f, e>> \in R}) = i - 1
<1> DEFINE n == Cardinality(X)
           below(e) == {f \in X : <<f, e>> \in R}
           place == [e \in X |-> Cardinality(below(e))]
<1>1. n \in Nat /\ n # 0
  BY FS_CardinalityType
<1>2. ASSUME NEW e \in X
      PROVE  IsFiniteSet(below(e)) /\ Cardinality(below(e)) \in 0..(n - 1)
  <2>1. below(e) \in SUBSET (X \ {e})
    OBVIOUS
  <2>2. IsFiniteSet(X \ {e}) /\ Cardinality(X \ {e}) = n - 1
    BY FS_RemoveElement
  <2> HIDE DEF below, n
  <2>3. IsFiniteSet(below(e)) /\ Cardinality(below(e)) <= n - 1
    BY <2>1, <2>2, FS_Subset
  <2>4. Cardinality(below(e)) \in Nat
    BY <2>3, FS_CardinalityType
  <2>5. QED
    BY <1>1, <2>3, <2>4
<1>3. ASSUME NEW e \in X, NEW f \in X, <<e, f>> \in R
      PROVE  Cardinality(below(e)) # Cardinality(below(f))
  <2>1. below(e) \in SUBSET below(f) /\ e \in below(f) /\ e \notin below(e)
    BY <1>3
  <2> HIDE DEF below
  <2>2. QED
    BY <1>2, <2>1, FS_Subset
<1>4. place \in [X -> 0..(n - 1)] /\ \A e, f \in X : place[e] = place[f] => e = f
  <2>1. \A e \in X : place[e] = Cardinality(below(e)) /\ place[e] \in 0..(n - 1)
    BY <1>2
  <2>2. \A e, f \in X : <<e, f>> \in R => place[e] # place[f]
    BY <1>3, <2>1
  <2> HIDE DEF n, below
  <2>3. place \in [X -> 0..(n - 1)]
    BY <2>1
  <2> HIDE DEF place
  <2>4. QED
    BY <2>2, <2>3
<1>5. place \in Injection(X, 0..(n - 1))
  <2> HIDE DEF place, n
  <2>1. QED
    BY <1>4 DEF Injection, IsInjective
<1>6. IsFiniteSet(0..(n - 1)) /\ Cardinality(0..(n - 1)) = n
  <2> HIDE DEF n
  <2>1. 0 \in Int /\ n - 1 \in Int /\ ~ (0 > n - 1) /\ (n - 1) - 0 + 1 = n
    BY <1>1
  <2>2. QED
    BY <2>1, FS_Interval
<1>7. place \in Surjection(X, 0..(n - 1))
  <2> HIDE DEF place
  <2>1. QED
    BY <1>5, <1>6, FS_Injection
<1>8. i - 1 \in 0..(n - 1)
  BY <1>1
<1>9. \E e \in X : place[e] = i - 1
  <2> HIDE DEF place
  <2>1. QED
    BY <1>7, <1>8 DEF Surjection
<1>10. QED
  BY <1>9

\* Every string that can be the id of a catalog or of a participant has its place.
StringsOrdered(S) ==
    {Bare(n) : n \in Nodes} \cup {FreshId} \cup {v.str : v \in S} \subseteq DOMAIN Rank

\* The catalogs that are listed are those the crawler parsed.
LEMMA ListedAreParsed ==
    ASSUME NEW S, Json(S), AnswersIn(S), StringsOrdered(S), ParsedInv, StoredFaithfully,
           NEW i \in DOMAIN catalogs(Nodes, store)
    PROVE  \E n \in Nodes :
               LET c == parse_catalog_response(body[n],
                            [id |-> n, provider_did |-> provider_did[n]])
               IN catalogs(Nodes, store)[i] = c /\ c.origin_node = n /\ catalog[n] = Some(c)
<1> DEFINE parsed(n) == parse_catalog_response(body[n],
                            [id |-> n, provider_did |-> provider_did[n]])
           X == DecodedCatalogs(Nodes, store)
           Before(a, b) == \/ Rank[a.id] < Rank[b.id]
                           \/ /\ a.id = b.id
                              /\ Rank[Bare(a.origin_node)] < Rank[Bare(b.origin_node)]
           R == {p \in X \X X : Before(p[1], p[2])}
<1>1. ASSUME NEW c \in X PROVE \E n \in Nodes : c = parsed(n) /\ catalog[n] = Some(c)
  <2>1. PICK m \in Nodes : store[m] # None /\ Decoded(m, store) # None /\ c = Decoded(m, store)[1]
    BY DEF DecodedCatalogs, Stored
  <2>2. catalog[m] # None /\ c = catalog[m][1]
    BY <2>1 DEF StoredFaithfully
  <2> HIDE DEF parsed
  <2>3. catalog[m] = Some(parsed(m))
    BY <2>2 DEF ParsedInv, parsed
  <2>4. QED
    BY <2>2, <2>3 DEF Some
<1>2. ASSUME NEW n \in Nodes PROVE parsed(n).origin_node = n /\ parsed(n).id \in DOMAIN Rank
  <2>1. parsed(n).origin_node = n /\ parsed(n).id = OrElse(GetStr(body[n], "@id"), FreshId)
    BY DEF parse_catalog_response
  <2>2. body[n] \in S
    BY DEF ParsedInv, AnswersIn
  <2>3. GetStr(body[n], "@id") = None \/ \E v \in S : GetStr(body[n], "@id") = Some(v.str)
    BY <2>2 DEF Json, GetStr, GetKey, Some
  <2>4. OrElse(GetStr(body[n], "@id"), FreshId) \in DOMAIN Rank
    BY <2>3 DEF OrElse, StringsOrdered, Some, None
  <2>5. QED
    BY <2>1, <2>4
<1>3. IsFiniteSet(X)
  <2> DEFINE all == {parsed(n) : n \in Nodes}
             f == [n \in Nodes |-> parsed(n)]
  <2> HIDE DEF parsed, X
  <2>1. f \in [Nodes -> all] /\ \A c \in all : \E n \in Nodes : f[n] = c
    OBVIOUS
  <2> HIDE DEF f
  <2>2. f \in Surjection(Nodes, all)
    BY <2>1 DEF Surjection
  <2>3. IsFiniteSet(all)
    BY <2>2, FS_Surjection, OrderAssumption
  <2>4. X \in SUBSET all
    BY <1>1
  <2>5. QED
    BY <2>3, <2>4, FS_Subset
<1>4. /\ \A n \in Nodes : Bare(n) \in DOMAIN Rank
      /\ \A m, n \in Nodes : Bare(m) = Bare(n) => m = n
      /\ \A a \in DOMAIN Rank : Rank[a] \in Nat
      /\ \A a, b \in DOMAIN Rank : Rank[a] = Rank[b] => a = b
  BY OrderAssumption DEF StringsOrdered, Bare, Word
<1>5. \A c \in X : /\ c.origin_node \in Nodes /\ c = parsed(c.origin_node)
                   /\ c.id \in DOMAIN Rank
  <2> HIDE DEF X, parsed
  <2>1. QED
    BY <1>1, <1>2
<1>6. /\ \A a \in X : ~ Before(a, a)
      /\ \A a, b, c \in X : Before(a, b) /\ Before(b, c) => Before(a, c)
      /\ \A a, b \in X : a = b \/ Before(a, b) \/ Before(b, a)
  <2> HIDE DEF X, parsed
  <2>1. \A a \in X : Rank[a.id] \in Nat /\ Rank[Bare(a.origin_node)] \in Nat
    BY <1>4, <1>5
  <2>2. \A a, b \in X : Rank[a.id] = Rank[b.id] => a.id = b.id
    BY <1>4, <1>5
  <2>3. \A a, b \in X : Rank[Bare(a.origin_node)] = Rank[Bare(b.origin_node)] => a = b
    BY <1>4, <1>5
  <2>4. QED
    BY <2>1, <2>2, <2>3
<1>7. \A a, b \in X : <<a, b>> \in R <=> Before(a, b)
  OBVIOUS
<1> HIDE DEF Before
<1>8. catalogs(Nodes, store)
        = [k \in 1..Cardinality(X) |->
              CHOOSE e \in X : Cardinality({f \in X : Before(f, e)}) = k - 1]
  BY DEF catalogs, SortedBy, Before
<1> HIDE DEF X, R, parsed
<1>9. i \in 1..Cardinality(X)
  BY <1>8
<1>10. \E e \in X : Cardinality({f \in X : <<f, e>> \in R}) = i - 1
  BY <1>3, <1>6, <1>7, <1>9, PlacesAreTaken
<1>11. \A e \in X : {f \in X : <<f, e>> \in R} = {f \in X : Before(f, e)}
  BY <1>7
<1>12. catalogs(Nodes, store)[i] \in X
  <2>1. \E e \in X : Cardinality({f \in X : Before(f, e)}) = i - 1
    BY <1>10, <1>11
  <2>2. QED
    BY <1>8, <1>9, <2>1
<1>13. PICK n \in Nodes : /\ catalogs(Nodes, store)[i] = parsed(n)
                          /\ catalog[n] = Some(catalogs(Nodes, store)[i])
  BY <1>1, <1>12
<1>14. parsed(n).origin_node = n
  BY <1>2
<1>15. QED
  BY <1>13, <1>14 DEF parsed

\* Whatever the participants answer and the policies are, the offers a caller gets are
\* those of a broker that never got the datasets it may not see, services aside.
THEOREM OffersRevealNothing ==
    ASSUME OwnParserAndWriter, OwnReader, NEW S, Json(S), AnswersIn(S), StringsOrdered(S)
    PROVE  Spec => []OffersBlindToHidden
<1>1. RoutesInv /\ ParsedInv /\ StoredFaithfully => OffersBlindToHidden
  <2> DEFINE cs == catalogs(Nodes, store)
             ids(c) == HiddenIds(catalog[c.origin_node][1], CallerClaims, config)
             shown == [i \in DOMAIN cs |-> FilterCatalog(cs[i], CallerClaims, FALSE, config)]
             without == [i \in DOMAIN cs |-> HarvestedWithout(cs[i].origin_node, ids(cs[i]))]
  <2> SUFFICES ASSUME RoutesInv, ParsedInv, StoredFaithfully,
                      Answered("offers"), should_filter_by_policy(config)
               PROVE  answer.offers = render_offers(without, answer.filter)
    BY DEF OffersBlindToHidden
  <2>1. answer.offers = render_offers(shown, answer.filter)
    BY DEF RoutesInv, OffersCurrent, Offers, filter_catalogs_by_policy, CallerClaims
  <2>2. ASSUME NEW i \in DOMAIN cs
        PROVE  FilterCatalog(cs[i], CallerClaims, FALSE, config)
                 = HarvestedWithout(cs[i].origin_node, ids(cs[i]))
    <3>1. PICK n \in Nodes :
              LET c == parse_catalog_response(body[n],
                           [id |-> n, provider_did |-> provider_did[n]])
              IN cs[i] = c /\ c.origin_node = n /\ catalog[n] = Some(c)
      BY ListedAreParsed
    <3> DEFINE participant == [id |-> n, provider_did |-> provider_did[n]]
               c == parse_catalog_response(body[n], participant)
               hidden == HiddenIds(c, CallerClaims, config)
    <3>2. body[n] \in S /\ IsOption(participant.provider_did)
      BY DEF ParsedInv, AnswersIn
    <3>3. FilterCatalog(c, CallerClaims, FALSE, config)
            = [parse_catalog_response(Redacted(body[n], hidden), participant)
                  EXCEPT !.data_services = c.data_services]
      BY <3>2, FilteredIsParsed
    <3>4. cs[i] = c /\ cs[i].origin_node = n /\ catalog[n][1] = c /\ ids(cs[i]) = hidden
      <4>1. cs[i] = c /\ c.origin_node = n /\ catalog[n] = Some(c)
        BY <3>1
      <4> HIDE DEF c, cs
      <4>2. QED
        BY <4>1 DEF Some
    <3>5. HarvestedWithout(n, hidden)
            = [parse_catalog_response(Redacted(body[n], hidden), participant)
                  EXCEPT !.data_services = catalog[n][1].data_services]
      BY OwnParserAndWriter DEF OwnParserAndWriter, HarvestedWithout
    <3> HIDE DEF c, cs, hidden, ids
    <3>6. QED
      BY <3>3, <3>4, <3>5
  <2>3. shown = without
    <3> HIDE DEF cs, ids
    <3>1. QED
      BY <2>2
  <2> HIDE DEF shown, without
  <2>4. QED
    BY <2>1, <2>3
<1>2. QED
  BY <1>1, AnswersAreCurrent, CatalogsAreParsed, StoreIsFaithful, PTL
=============================================================================
