---------------------------- MODULE MCTxSearchAll ----------------------------
(* Up to five matching transactions, two per page: three pages, so a new  *)
(* transaction can land before, on or after the page being read.          *)
EXTENDS TxSearchAll
=============================================================================
