-------------------------- MODULE TendermintPaging --------------------------
(***************************************************************************)
(* txSearchAll and validatorsAll of one Tendermint33Client running at the *)
(* same time against one node: each loop is its module's, and the only   *)
(* thing they share is the chain.  A new block raises the node's latest   *)
(* height and may hold a transaction matching the search query.           *)
(***************************************************************************)
EXTENDS Naturals

CONSTANTS
    MinTxs, MaxTxs, TxPerPage, Orders, StartPages, NoAnswer,   \* the txSearchAll call
    Validators, ValSets, ValPerPage, NoHeight          \* the validatorsAll call

VARIABLES
    n, params, tsPage, txs, tsStatus,                  \* txSearchAll's loop
    latest, blockHeight, vaPage, validators, vaStatus  \* validatorsAll's loop

tsVars == <<params, tsPage, txs, tsStatus>>
vaVars == <<blockHeight, vaPage, validators, vaStatus>>
vars == <<n, latest, tsVars, vaVars>>

TS == INSTANCE TxSearchAll WITH PerPage <- TxPerPage, page <- tsPage, status <- tsStatus
VA == INSTANCE ValidatorsAll WITH PerPage <- ValPerPage, page <- vaPage, status <- vaStatus

Init == TS!Init /\ VA!Init

(* One page request of either loop; the chain does not move during it.    *)
TxSearchStep == TS!TxSearchPage /\ UNCHANGED <<latest, vaVars>>
ValidatorsStep == VA!ValidatorsPage /\ UNCHANGED <<n, tsVars>>

(* A block is committed, with or without a matching transaction.          *)
NewBlock ==
  /\ latest < VA!MaxHeight
  /\ latest' = latest + 1
  /\ n' \in {n, n + 1} \cap 0..MaxTxs
  /\ UNCHANGED <<tsVars, vaVars>>

Next == TxSearchStep \/ ValidatorsStep \/ NewBlock

(* The node answers every request of both loops; blocks need not come.    *)
Spec == Init /\ [][Next]_vars /\ WF_vars(TxSearchStep) /\ WF_vars(ValidatorsStep)

-----------------------------------------------------------------------------
TypeOK == TS!TypeOK /\ VA!TypeOK

(* txSearchAll implements TxSearchAbstract while validatorsAll pages too. *)
TxSearchSpec == TS!TxSearchSpec

(* validatorsAll returns the whole set of the height it reports.          *)
ValidatorsConsistent == VA!ValidatorsConsistent

(* validatorsAll returns, however the two loops interleave.               *)
ValidatorsReturn == VA!ValidatorsReturn
=============================================================================
