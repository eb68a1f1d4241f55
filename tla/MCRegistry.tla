----------------------------- MODULE MCRegistry -----------------------------
(* Three models on a small card: one of two layers, one with a reserve, and *)
(* a small one.                                                             *)
EXTENDS Registry, TLC

CONSTANTS a, b, c

MCModels == {a, b, c}
MCLayers == a :> 2 @@ b :> 1 @@ c :> 1
MCCore   == a :> 1 @@ b :> 2 @@ c :> 1
MCKv     == a :> 1 @@ b :> 1 @@ c :> 0
MCShared == a :> 1 @@ b :> 2 @@ c :> 1
MCSolo   == a :> 2 @@ b :> 4 @@ c :> 2
MCReserve == a :> 0 @@ b :> 2 @@ c :> 0
=============================================================================
