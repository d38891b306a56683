------------------------------ MODULE MCFabric ------------------------------
(***************************************************************************)
(* A publisher whose tool is run three times, for two resources of which   *)
(* the registry has room for one.                                          *)
(***************************************************************************)
EXTENDS Fabric

Run(pub, nr, resource) == [pub |-> pub, nr |-> nr, resource |-> resource]

MCRuns == {Run("p1", 1, "e1"), Run("p1", 2, "e2"), Run("p1", 3, "e1")}

MCContents == [run : MCRuns, k : 1..Publishes]

=============================================================================
