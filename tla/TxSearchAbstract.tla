--------------------------- MODULE TxSearchAbstract ---------------------------
(***************************************************************************)
(* What Tendermint33Client.txSearchAll promises (the comment above it in  *)
(* packages/tendermint-rpc/src/tendermint33/tendermint33client.ts): one    *)
(* answer holding every transaction matching the query, from the start    *)
(* page on, each once, in the requested order, as of some moment while    *)
(* the call runs; and the answer does come.  Matching transactions are    *)
(* numbered 1..height in the order of their heights; the chain grows.     *)
(***************************************************************************)
EXTENDS Naturals, Sequences

CONSTANTS
    MaxTxs,    \* bound on the number of matching transactions
    Orders,    \* the order_by values a caller may pass
    Skips,     \* how many leading results the start page skips
    NoAnswer   \* the call has not returned yet

VARIABLES
    height,    \* number of matching transactions on chain
    order,     \* order_by of the call
    skip,      \* results before the start page
    answer     \* NoAnswer, or the transactions returned

vars == <<height, order, skip, answer>>

(* All matching transactions in the node's order for `o`.                 *)
Matching(h, o) == IF o = "desc" THEN [i \in 1..h |-> h + 1 - i] ELSE [i \in 1..h |-> i]

Init ==
  /\ height \in 0..MaxTxs
  /\ order \in Orders
  /\ skip \in Skips
  /\ answer = NoAnswer

Grow ==
  /\ height < MaxTxs
  /\ height' = height + 1
  /\ UNCHANGED <<order, skip, answer>>

Answer ==
  /\ answer = NoAnswer
  /\ answer' = SubSeq(Matching(height, order), skip + 1, height)
  /\ UNCHANGED <<height, order, skip>>

Spec == Init /\ [][Grow \/ Answer]_vars /\ WF_vars(Answer)
=============================================================================
