---------------------------- MODULE CoreCacheDoc ----------------------------
(***************************************************************************)
(* What the documentation says of the core cache and the code does not do: *)
(* the property is refuted by a run of CoreCache.                          *)
(***************************************************************************)
EXTENDS CoreCache

\* "Configuration changes are not lost": Stop leaves nothing unsaved of a plugin
\* that has connections (Stop, which clears the crontab and does not flush).
StopSavesChanges ==
    [][Stop => \A p \in Plugins : ConfigOf(p).conns # {} => unsaved[p] = "none"]_vars
=============================================================================
