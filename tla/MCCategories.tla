---------------------------- MODULE MCCategories ----------------------------
(* An instance of Categories for TLC: Rugs is below Home, Garden apart.    *)
EXTENDS Categories, TLC

CONSTANTS Home, Rugs, Garden

MCFirst == (Home :> None) @@ (Rugs :> Home) @@ (Garden :> None)

MCRequests == {<<Home, None>>, <<Home, Garden>>, <<None, Rugs>>}
=============================================================================
