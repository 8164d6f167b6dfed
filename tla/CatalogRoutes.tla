---------------------------- MODULE CatalogRoutes ----------------------------
(* From a participant's response to a caller's answer: the crawler parses    *)
(* the response, the store keeps it as quads, and GET /catalog, the          *)
(* management API and /sparql each answer from the quads what the caller's   *)
(* token and the harvested policies let it see.  Crawls and requests after   *)
(* the store has changed are PolicyFilteredQuery's and Harvester's; here     *)
(* every participant is crawled once and then requests come.  The routes do  *)
(* not look into the parser, the RDF form, the decision on a dataset or the  *)
(* JSON of a policy, which are CONSTANTS here and the broker's own in        *)
(* CatalogRequests.                                                          *)
EXTENDS CatalogQuads, BearerTokens

CONSTANTS
    Nodes,              \* participants
    Rank,               \* string -> its place in string order
    provider_did,       \* node -> the configured identity, an Option
    Responses,          \* what the participants may answer: node -> JSON
    Configs,            \* broker settings
    Tokens,             \* Authorization headers, parsed
    Filters,            \* filterExpressions
    ParseResponse(_, _),        \* parse_catalog_response
    WriteCatalog(_),            \* write_catalog
    LoadCatalog(_, _),          \* load_catalog
    DatasetVisible(_, _, _),    \* dataset_is_visible
    PolicyToJson(_)             \* policy_to_json

\* A JWKS is a list of keys.
ASSUME RoutesAssumption ==
    \A c \in Configs : c.oauth2 # None =>
        c.oauth2[1].jwks \in Seq(ToSet(c.oauth2[1].jwks))

\* Two strings never have the same place, and the participants are a finite list.
ASSUME OrderAssumption ==
    /\ IsFiniteSet(Nodes)
    /\ \A a \in DOMAIN Rank : Rank[a] \in Nat
    /\ \A a, b \in DOMAIN Rank : Rank[a] = Rank[b] => a = b

VARIABLES
    body,       \* node -> its response
    config,     \* the settings, with the JWKS the token gate was built from
    catalog,    \* node -> the parsed catalog, an Option
    store,      \* node -> its graph, an Option
    cached,     \* allow-lists by key
    answer      \* the request being answered and its answer, or Nothing

vars == <<body, config, catalog, store, cached, answer>>

-----------------------------------------------------------------------------
(* What a caller may see *)

\* The verified claims; none when the gate is off.
Claims(header, settings) ==
    IF settings.oauth2 = None THEN [n \in {} |-> ClaimOther] ELSE header.claims

should_filter_by_policy(settings) ==
    settings.oauth2 # None \/ settings.filter_when_oauth2_disabled

services_used_by(datasets) ==
    {d.access_service : d \in UNION {ToSet(ds.distributions) : ds \in datasets}}

service_is_visible(id, used_by_any, used_by_visible) ==
    id \in used_by_visible \/ id \notin used_by_any

VisibleDatasets(c, claims, settings) ==
    Retained(c.datasets, {d \in ToSet(c.datasets) : DatasetVisible(d, claims, settings)})

\* One catalog, filtered; the management API keeps every service.
FilterCatalog(c, claims, hideGated, settings) ==
    LET datasets == VisibleDatasets(c, claims, settings)
        any == services_used_by(ToSet(c.datasets))
        visible == services_used_by(ToSet(datasets))
    IN IF hideGated
       THEN [c EXCEPT !.datasets = datasets,
                      !.data_services =
                          SelectSeq(@, LAMBDA s : service_is_visible(s.id, any, visible))]
       ELSE [c EXCEPT !.datasets = datasets]

filter_catalogs_by_policy(cs, claims, hideGated, settings) ==
    IF should_filter_by_policy(settings)
    THEN [i \in DOMAIN cs |->
             FilterCatalog(cs[i], engine_claims_from_bearer(claims), hideGated, settings)]
    ELSE cs

visible_resource_iris(c, claims, settings) ==
    LET datasets == {d \in ToSet(c.datasets) : DatasetVisible(d, claims, settings)}
        any == services_used_by(ToSet(c.datasets))
        visible == services_used_by(datasets)
    IN {dataset_iri(c.origin_node, d.id) : d \in datasets}
       \cup {service_iri(c.origin_node, s.id) :
                s \in {s \in ToSet(c.data_services) :
                          service_is_visible(s.id, any, visible)}}

\* The stored catalogs in (id, node) order.  Asked for everything, a graph that
\* does not decode is skipped.
Stored(nodes, graphs) == {n \in nodes : graphs[n] # None}
Decoded(n, graphs) == LoadCatalog(graphs[n][1], n)

DecodedCatalogs(nodes, graphs) ==
    {c[1] : c \in {Decoded(n, graphs) : n \in Stored(nodes, graphs)} \ {None}}

catalogs(nodes, graphs) ==
    SortedBy(DecodedCatalogs(nodes, graphs),
        LAMBDA a, b : \/ Rank[a.id] < Rank[b.id]
                      \/ /\ a.id = b.id
                         /\ Rank[Bare(a.origin_node)] < Rank[Bare(b.origin_node)])

Quads(graphs) == UNION {graphs[n][1] : n \in Stored(Nodes, graphs)}

\* The resources a caller may see, over all catalogs.
visible_iris_for(claims, settings, graphs) ==
    UNION {visible_resource_iris(c, engine_claims_from_bearer(claims), settings) :
              c \in DecodedCatalogs(Nodes, graphs)}

-----------------------------------------------------------------------------
(* Offers of the management API *)

\* The descriptive fields are left out of the offer.
dataset_to_offer(d) ==
    [id |-> d.id, hasPolicy |-> MapSeq(d.policies, PolicyToJson),
     contenttype |-> IF d.distributions = <<>> THEN EmptyString
                     ELSE d.distributions[1].format]

catalog_to_offer(c) ==
    IF c.data_services = <<>> THEN None
    ELSE Some([id |-> c.id, service |-> c.data_services[1],
               participantId |-> OrElse(c.participant_id, Bare(c.origin_node)),
               dataset |-> MapSeq(c.datasets, dataset_to_offer)])

dataset_id_filter(filter) ==
    LET known == SelectSeq(filter, LAMBDA f : f.operandLeft = "datasets.id"
                                              /\ f.operator = "=")
    IN IF known = <<>> THEN None ELSE Some(known[1].operandRight)

render_offers(cs, filter) ==
    LET offers == Flatten(MapSeq(cs, catalog_to_offer))
        wanted == dataset_id_filter(filter)
    IN IF wanted = None THEN offers
       ELSE SelectSeq(offers, LAMBDA o : wanted[1] \in Ids(o.dataset))

-----------------------------------------------------------------------------
(* Crawling, and the three routes *)

Nothing == [route |-> "none", header |-> CHOOSE t \in Tokens : TRUE, nodes |-> Nodes,
            filter |-> <<>>, status |-> 0, catalogs |-> <<>>, offers |-> <<>>,
            quads |-> {}]

Init ==
    /\ body \in Responses
    /\ config \in Configs
    \* Without a usable key the broker does not start.
    /\ config.oauth2 # None => DOMAIN fetch(config.oauth2[1].jwks) # {}
    /\ catalog = [n \in Nodes |-> None]
    /\ store = [n \in Nodes |-> None]
    /\ cached = {} /\ answer = Nothing

\* A crawl fetches and parses a response, and upserts the catalog whole; a
\* catalog that cannot be written leaves the store as it was.
Crawl(n) ==
    /\ catalog[n] = None
    /\ LET parsed == ParseResponse(body[n],
                         [id |-> n, provider_did |-> provider_did[n]])
           quads == WriteCatalog(parsed)
       IN /\ catalog' = [catalog EXCEPT ![n] = Some(parsed)]
          /\ store' = IF quads = None THEN store ELSE [store EXCEPT ![n] = quads]
    /\ UNCHANGED <<body, config, cached, answer>>

Asking == answer = Nothing /\ \A n \in Nodes : catalog[n] # None

\* GET /catalog, for every node or one.  A graph asked for by its own node that
\* does not decode is an error.
GetCatalog(header, nodes) ==
    LET gate == check_oauth2_bearer(config.oauth2, header)
        broken == nodes # Nodes /\ \E n \in Stored(nodes, store) : Decoded(n, store) = None
    IN /\ Asking
       /\ answer' = [Nothing EXCEPT
              !.route = "catalog", !.header = header, !.nodes = nodes,
              !.status = IF gate = 200 /\ broken THEN 500 ELSE gate,
              !.catalogs = IF gate # 200 \/ broken THEN <<>>
                           ELSE filter_catalogs_by_policy(catalogs(nodes, store),
                                    Claims(header, config), TRUE, config)]
       /\ UNCHANGED <<body, config, catalog, store, cached>>

\* Mutant: the filter picks offers before the policies hide datasets.
OffersFilteredFirst(header, filter, settings, graphs) ==
    LET wanted == dataset_id_filter(filter)
        all == catalogs(Nodes, graphs)
        chosen == IF wanted = None THEN all
                  ELSE SelectSeq(all, LAMBDA c : wanted[1] \in Ids(c.datasets))
    IN render_offers(
           filter_catalogs_by_policy(chosen, Claims(header, settings), FALSE, settings), <<>>)

Offers(header, filter, settings, graphs) ==
    render_offers(filter_catalogs_by_policy(catalogs(Nodes, graphs),
                                            Claims(header, settings), FALSE, settings),
                  filter)

\* POST /api/management/v4/catalogs/request.
CatalogRequest(header, filter) ==
    LET gate == check_oauth2_bearer(config.oauth2, header)
    IN /\ Asking
       /\ answer' = [Nothing EXCEPT
              !.route = "offers", !.header = header, !.filter = filter, !.status = gate,
              !.offers = IF gate = 200 THEN Offers(header, filter, config, store) ELSE <<>>]
       /\ UNCHANGED <<body, config, catalog, store, cached>>

\* The allow-list of a caller, kept for every caller with the same key.
AllowList(claims) ==
    LET known == {e \in cached : e.key = allow_list_key(claims)}
    IN IF known # {} THEN (CHOOSE e \in known : TRUE).list
       ELSE visible_iris_for(claims, config, store)

\* /sparql, with a query for everything.
Sparql(header) ==
    LET gate == check_oauth2_bearer(config.oauth2, header)
        list == AllowList(Claims(header, config))
        filtered == gate = 200 /\ should_filter_by_policy(config)
    IN /\ Asking
       /\ answer' = [Nothing EXCEPT
              !.route = "sparql", !.header = header, !.status = gate,
              !.quads = CASE gate # 200 -> {}
                          [] filtered -> VisibleDataset(Quads(store), list)
                          [] OTHER -> Quads(store)]
       /\ cached' = IF filtered
                    THEN cached \cup {[key |-> allow_list_key(Claims(header, config)),
                                       list |-> list]}
                    ELSE cached
       /\ UNCHANGED <<body, config, catalog, store>>

\* The response has been sent; another request may come.
Sent == answer # Nothing /\ answer' = Nothing
        /\ UNCHANGED <<body, config, catalog, store, cached>>

Next ==
    \/ \E n \in Nodes : Crawl(n)
    \/ \E t \in Tokens :
           \/ \E nodes \in {Nodes} \cup {{n} : n \in Nodes} : GetCatalog(t, nodes)
           \/ \E f \in Filters : CatalogRequest(t, f)
           \/ Sparql(t)
    \/ Sent

Spec == Init /\ [][Next]_vars

-----------------------------------------------------------------------------
(* Properties *)

Answered(route) == answer.route = route /\ answer.status = 200
CallerClaims == engine_claims_from_bearer(Claims(answer.header, config))

\* Whatever its shape, a response the crawler accepted is stored: parse_constraint
\* never builds what write_constraint refuses, at the depth limit included.
EveryCrawlIsStored == \A n \in Nodes : catalog[n] # None => store[n] # None

\* load_catalog rebuilds from the quads exactly what write_catalog was given:
\* groups, their kind and every list's order included.
StoredFaithfully ==
    \A n \in Nodes : store[n] # None => Decoded(n, store) = catalog[n]

\* With the gate on, only a token signed with the private key of an asymmetric
\* JWK, in its time, for this issuer, audience and scope, gets an answer.
OnlyIssuerTokens ==
    (config.oauth2 # None /\ answer # Nothing /\ answer.status = 200) =>
        LET gate == config.oauth2[1]
            header == answer.header
        IN /\ \E k \in ToSet(gate.jwks) : k.kty # "oct" /\ header.secret = Private(k.key)
           /\ header.exp = "future" /\ header.nbf # "future"
           /\ gate.issuer # None => header.iss = gate.issuer
           /\ gate.audience # None => header.aud = gate.audience
           /\ gate.scope # None => HasScope(header.claims, gate.scope[1])
==============================================================================
