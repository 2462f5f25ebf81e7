--------------------------- MODULE MCCoreCacheDoc ---------------------------
(* CoreCacheDoc on small instances for TLC.                                *)
EXTENDS CoreCacheDoc, TLC

CONSTANTS a, b, m1, d1, c1, v1, s1, s2

MCDirs == <<"alpha", "beta">>
MCDefaultDir == [p \in Plugins |-> IF p = a THEN "alpha" ELSE "beta"]
NoFiles == [i \in DirSet |-> NoFile]

\* An installed file of plugin a, for one device.
MCFile ==
    [plugin |-> a, models |-> {m1}, conns |-> {c1},
     devices |-> [d \in Devices |-> [model |-> m1, plugin |-> a, conn |-> c1,
                                     props |-> NilMap, desc |-> s1]]]

\* The file is in the directory of its plugin.
MCDisks == {[NoFiles EXCEPT !["alpha"] = MCFile]}
=============================================================================
