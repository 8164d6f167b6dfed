--------------------------- MODULE HiddenDatasets ---------------------------
(* The management API as if the participants had never offered what the      *)
(* policies hide: the responses without those datasets, parsed anew.         *)
EXTENDS CatalogRoutes, CrawledCatalogs

\* The datasets of a catalog that have none of these ids.
OtherDatasets(v, ids) == {d \in ToSet(GetArr(v, "dataset")) : GetId(d) \notin ids}

\* A catalog's JSON without the datasets of these ids, from what was made of
\* the catalogs in it.
RedactedAt(v, ids, below) ==
    LET shown == Retained(GetArr(v, "dataset"), OtherDatasets(v, ids))
        nested == MapSeq(GetArr(v, "catalog"), LAMBDA c : below[c])
        field(k) ==
            CASE v.obj[k].j = "arr" /\ k = Key("dataset") -> Arr(shown)
              [] v.obj[k].j = "arr" /\ k = Key("catalog") -> Arr(nested)
              [] OTHER -> v.obj[k]
    IN IF v.j = "obj" THEN Obj([k \in DOMAIN v.obj |-> field(k)]) ELSE v

\* A response without the datasets of these ids, those of nested catalogs and
\* later ones of the same id included.
Redacted(v, ids) ==
    Nested(v, JSON_DEPTH, CatalogsIn, LAMBDA c, depth, below : RedactedAt(c, ids, below))

\* The ids that a caller's policies hide in a catalog, as GetId reads them.
HiddenIds(c, claims, settings) ==
    {Some(d.id) : d \in {d \in ToSet(c.datasets) : ~ DatasetVisible(d, claims, settings)}}

\* What a crawl would have made of a response without them, its services aside.
HarvestedWithout(n, ids) ==
    [ParseResponse(Redacted(body[n], ids), [id |-> n, provider_did |-> provider_did[n]])
        EXCEPT !.data_services = catalog[n][1].data_services]

\* The offers, with a filter or not, are those of a broker whose participants
\* never sent the datasets the caller may not see, at any depth of the response: a
\* filter by id does not reveal one, nor does its place among the others.  This is
\* not said of services: the management API keeps every one of them
\* (ServiceFiltering::KeepAll), one that only a hidden dataset describes included.
OffersBlindToHidden ==
    (Answered("offers") /\ should_filter_by_policy(config)) =>
        LET cs == catalogs(Nodes, store)
            hidden(c) == HiddenIds(catalog[c.origin_node][1], CallerClaims, config)
        IN answer.offers =
               render_offers([i \in DOMAIN cs |->
                                 HarvestedWithout(cs[i].origin_node, hidden(cs[i]))],
                             answer.filter)
=============================================================================
