---------------------------- MODULE MCIndexIDMap ------------------------------
(* Instances of IndexIDMap: two codes for one list, one for another, and a   *)
(* vector with a NaN, which the quantizer assigns to none.                   *)
EXTENDS IndexIDMap

MCAssign == ("a" :> 0) @@ ("b" :> 0) @@ ("c" :> 1) @@ ("nan" :> -1)
MCCodes == DOMAIN MCAssign
=============================================================================
