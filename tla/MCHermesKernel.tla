--------------------------- MODULE MCHermesKernel ---------------------------
(* A store, a cache over it and an optional probe over both; two callers of *)
(* stop().                                                                  *)
EXTENDS HermesKernel

Module(name, deps, required) == [name |-> name, deps |-> deps, required |-> required]

Layered ==
    {Module("store", {}, TRUE), Module("cache", {"store"}, FALSE),
     Module("probe", {"store", "cache"}, FALSE)}

Optional == {Module("store", {}, FALSE), Module("cache", {"store"}, FALSE)}
=============================================================================
