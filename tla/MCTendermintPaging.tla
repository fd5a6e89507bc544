------------------------- MODULE MCTendermintPaging -------------------------
(* Up to seven matching transactions, two per page; eight heights whose    *)
(* validator sets grow, shrink, empty and reorder, one validator per page. *)
(* Either loop can see the chain move before any of its page requests.    *)
EXTENDS TendermintPaging

CONSTANTS v1, v2, v3, v4

MCValidators == {v1, v2, v3, v4}

MCValSets ==
  << <<v1, v2>>, <<v2, v3, v1>>, <<v3>>, <<v1, v3, v4>>, <<>>, <<v4, v2, v3, v1>>,
     <<v3, v4>>, <<v2, v1, v4>> >>
=============================================================================
