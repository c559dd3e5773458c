--------------------------- MODULE MCCacheBucket ---------------------------
(* A bucket of three paths: `app' references `lib', `lib' references       *)
(* itself and may be pushed again in another compression, and `twin' has   *)
(* the bytes of `lib'.                                                     *)
EXTENDS CacheBucket

MCPaths == {"app", "lib", "twin"}
MCNars == {"app.zst", "lib.xz", "lib.zst"}
MCHashOf == [n \in MCNars |-> IF n = "app.zst" THEN "h1" ELSE "h2"]
MCLib(nar) == [nar |-> nar, refs |-> {"lib"}]
MCInfos == [app |-> {[nar |-> "app.zst", refs |-> {"lib"}]},
            lib |-> {MCLib("lib.xz"), MCLib("lib.zst")},
            twin |-> {[nar |-> "lib.xz", refs |-> {}]}]
MCOld == [p \in {"lib"} |-> MCLib("lib.xz")]
=============================================================================
