---------------------------- MODULE CatalogQuads ----------------------------
(* Which quads of a node's named graph a SPARQL query restricted to an       *)
(* allow-list may match.  A resource IRI is its path <<node, kind, id, ...>>: *)
(* ids are percent-encoded, so a path and its IRI determine each other.      *)
EXTENDS CatalogValues

catalog_iri(node, id) == <<node, "catalogs", id>>
dataset_iri(node, id) == <<node, "datasets", id>>
service_iri(node, id) == <<node, "services", id>>

\* The dataset or service a path belongs to; None for what is never gated.
owning_resource_iri(path) ==
    IF Len(path) < 3 \/ path[2] = "catalogs" THEN None ELSE Some(SubSeq(path, 1, 3))

iri_is_visible(path, visible) ==
    LET owner == owning_resource_iri(path) IN owner = None \/ owner[1] \in visible

\* Links are the predicates whose object is a resource of this store.
Links == {"dataset", "service", "distribution", "accessService", "hasPolicy",
          "permission", "prohibition", "obligation", "constraint"}
             \cup ToSet(LOGICAL_CONSTRAINT_BUILDERS)

quad_is_visible(t, visible) ==
    /\ t[2] # "sequenceIndex"
    /\ iri_is_visible(t[1], visible)
    /\ t[2] \in Links => iri_is_visible(t[3].v, visible)

\* What a query evaluated over VisibleDataset can match.
VisibleDataset(g, visible) == {t \in g : quad_is_visible(t, visible)}
=============================================================================
