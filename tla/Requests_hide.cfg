\* A policy that cannot be mapped beside one that allows, under hide_dataset.
SPECIFICATION Spec
CONSTANTS
    MAX_CONSTRAINT_DEPTH = 2
    JSON_DEPTH = 4
    MAX_SERVED_GROUP_DEPTH = 1
    Now = "today"
    Nodes <- MCNodes
    Rank <- MCRank
    provider_did <- MCProviderDid
    Responses <- HideResponses
    Configs <- HideConfigs
    Tokens <- KeyTokens
    Filters <- MCFilters
    ParseResponse <- parse_catalog_response
    WriteCatalog <- write_catalog
    LoadCatalog <- load_catalog
    DatasetVisible <- dataset_is_visible
    PolicyToJson <- policy_to_json
CHECK_DEADLOCK FALSE
INVARIANT UnmappableHidesDataset
