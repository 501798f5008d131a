---------------------------- MODULE MCIndexStore ----------------------------
(* Small instances of IndexStore for TLC. *)
EXTENDS IndexStore, TLC

CONSTANTS p1, p2, k1, k2, t1, t2, x1, x2

MCTagLists == {<<>>, <<t1>>, <<t2>>, <<t1, t2>>, <<t2, t1>>}

MCPrefixes == {x1, x2}

MCKeysWithPrefix == (x1 :> {k1, k2}) @@ (x2 :> {k1})

=============================================================================
