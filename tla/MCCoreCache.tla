---------------------------- MODULE MCCoreCache ----------------------------
(* CoreCache for TLC: two plugins, one object of each kind, three          *)
(* directories, an empty disk or a file for plugin a in a directory that   *)
(* is the default of none.                                                 *)
EXTENDS CoreCache, TLC

CONSTANTS a, b, m1, d1, c1, s1

Directories == <<"alpha", "beta", "site">>
Defaults    == (a :> "alpha" @@ b :> "beta")

NoFiles   == [i \in DirSet |-> NoFile]
Installed ==
    [plugin |-> a, models |-> {m1}, conns |-> {c1},
     devices |-> (d1 :> [model |-> m1, plugin |-> a, conn |-> c1, props |-> NilMap, desc |-> s1])]
Disks     == {NoFiles, [NoFiles EXCEPT !["site"] = Installed]}
=============================================================================
