-------------------------- MODULE MCSmartMetCache --------------------------
(***************************************************************************)
(* TLC instance of SmartMetCache: two entries of a byte, which give way to *)
(* one that fills the memory cache, and one that is larger than it.        *)
(***************************************************************************)
EXTENDS SmartMetCache, TLC

CONSTANTS small, other, full, large

MCKey  == {small, other, full, large}
MCSize == small :> 1 @@ other :> 1 @@ full :> 2 @@ large :> 3
=============================================================================
