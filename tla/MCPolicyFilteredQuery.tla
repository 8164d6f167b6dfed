----------------------- MODULE MCPolicyFilteredQuery -----------------------
(* TLC instances of PolicyFilteredQuery; the sets are model values given in  *)
(* the .cfg files.  Every property treats the members of each set alike.     *)
EXTENDS PolicyFilteredQuery, TLC

Symmetry ==
    UNION {Permutations(S) : S \in {Nodes, Catalogs, Writers, Readers, Keys}}
=============================================================================
