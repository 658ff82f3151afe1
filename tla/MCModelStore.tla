----------------------------- MODULE MCModelStore -----------------------------
(* Small catalogs for ModelStore.  Disjoint: a vision model with an mmproj *)
(* and a model whose remote file is empty.  Shared: the catalog's two      *)
(* quants of one vision repository, which name the same mmproj.            *)
EXTENDS ModelStore, TLC

CONSTANTS ma, mb

MCKind == (ma :> "chat") @@ (mb :> "embedding")
MCQuant == (ma :> "q4") @@ (mb :> "q6")

DisjointRepo == (ma :> "vl") @@ (mb :> "embed")
DisjointMMProj == (ma :> "f16") @@ (mb :> NoFile)
DisjointSize == (<<"vl", "q4">> :> 2) @@ (<<"vl", "f16">> :> 1) @@ (<<"embed", "q6">> :> 0)

SharedRepo == (ma :> "vl") @@ (mb :> "vl")
SharedKind == (ma :> "chat") @@ (mb :> "chat")
SharedMMProj == (ma :> "f16") @@ (mb :> "f16")
SharedSize == (<<"vl", "q4">> :> 1) @@ (<<"vl", "q6">> :> 1) @@ (<<"vl", "f16">> :> 2)
===============================================================================
