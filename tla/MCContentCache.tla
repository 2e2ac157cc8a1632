---------------------------- MODULE MCContentCache ----------------------------
(* Two targets that share a payload, two imports and one power failure.      *)
EXTENDS ContentCache

CONSTANTS pal, us

Symmetry == Permutations(Importers)
MCMedia == (pal :> <<"pal movie">>) @@ (us :> <<"us movie">>)
MCPayloads == (pal :> <<"stage">>) @@ (us :> <<"stage">>)
=============================================================================
