----------------------------- MODULE TxSearchAll -----------------------------
(***************************************************************************)
(* Tendermint33Client.txSearchAll (packages/tendermint-rpc/src/tendermint33/*)
(* tendermint33client.ts) paging through tx_search while new matching     *)
(* transactions are committed between two page requests.                   *)
(*                                                                         *)
(* Matching transactions are numbered 1..n by height.  The node answers a *)
(* page request from its current results, sorted by order_by (ascending   *)
(* unless "desc"), with totalCount = n, and refuses a page outside        *)
(* [1, pages] (Tendermint's validatePage).  Each request is one step: the *)
(* chain may grow between two requests, not during one.                   *)
(***************************************************************************)
EXTENDS Naturals, Sequences, FiniteSetsExt

CONSTANTS
    MinTxs,      \* matching transactions at least committed when the call starts
    MaxTxs,      \* bound on the number of matching transactions
    PerPage,     \* per_page of the call
    Orders,      \* order_by values a call may pass
    StartPages,  \* params.page values a call may pass (0: not given)
    NoAnswer

ASSUME PerPage \in Nat \ {0} /\ StartPages \subseteq Nat /\ MinTxs \in 0..MaxTxs

VARIABLES
    n,         \* matching transactions committed so far
    params,    \* the call's order_by and page
    page,      \* the loop's `page`
    txs,       \* the loop's `txs`
    status     \* "running", "done" (returned) or "error" (rejected)

vars == <<n, params, page, txs, status>>

-----------------------------------------------------------------------------
(* The node's tx_search: results sorted by order_by, one page of them.     *)
Results(o) == IF o = "desc" THEN [i \in 1..n |-> n + 1 - i] ELSE [i \in 1..n |-> i]

Pages == IF n = 0 THEN 1 ELSE (n - 1) \div PerPage + 1

PageOk(p) == p >= 1 /\ p <= Pages

PageTxs(o, p) == SubSeq(Results(o), (p - 1) * PerPage + 1, Min({p * PerPage, n}))

(* Mutant of the initialisation: `params.page` without the `|| 1`.       *)
InitNoDefaultPage ==
  /\ n \in MinTxs..MaxTxs
  /\ params \in [order : Orders, page : StartPages]
  /\ page = params.page
  /\ txs = <<>>
  /\ status = "running"

(* The loop's initial state: page 1 unless the caller gave a start page.  *)
Init ==
  /\ n \in MinTxs..MaxTxs
  /\ params \in [order : Orders, page : StartPages]
  /\ page = IF params.page = 0 THEN 1 ELSE params.page
  /\ txs = <<>>
  /\ status = "running"

(* Mutant of the loop iteration: `<=` for `<` in the loop condition.     *)
TxSearchPageLessEq ==
  /\ status = "running"
  /\ IF PageOk(page)
     THEN /\ txs' = txs \o PageTxs(params.order, page)
          /\ IF Len(txs') <= n
             THEN page' = page + 1 /\ UNCHANGED status
             ELSE status' = "done" /\ UNCHANGED page
     ELSE status' = "error" /\ UNCHANGED <<page, txs>>
  /\ UNCHANGED <<n, params>>

(* One iteration of the while loop: request `page`, append its txs, and   *)
(* go on while fewer txs were collected than the response's totalCount.   *)
(* A page the node refuses rejects the whole call.                         *)
TxSearchPage ==
  /\ status = "running"
  /\ IF PageOk(page)
     THEN /\ txs' = txs \o PageTxs(params.order, page)
          /\ IF Len(txs') < n
             THEN page' = page + 1 /\ UNCHANGED status
             ELSE status' = "done" /\ UNCHANGED page
     ELSE status' = "error" /\ UNCHANGED <<page, txs>>
  /\ UNCHANGED <<n, params>>

(* A new matching transaction is committed.                                *)
NewTx ==
  /\ n < MaxTxs
  /\ n' = n + 1
  /\ UNCHANGED <<params, page, txs, status>>

Next == TxSearchPage \/ NewTx

(* The node answers every request; new transactions need not come.        *)
Spec == Init /\ [][Next]_vars /\ WF_vars(TxSearchPage)

-----------------------------------------------------------------------------
TypeOK ==
  /\ n \in 0..MaxTxs
  /\ params \in [order : Orders, page : StartPages]
  /\ page \in Nat \ {0}
  /\ txs \in Seq(1..MaxTxs)
  /\ status \in {"running", "done", "error"}

Abstract == INSTANCE TxSearchAbstract
              WITH height <- n,
                   order <- params.order,
                   skip <- IF params.page = 0 THEN 0 ELSE (params.page - 1) * PerPage,
                   answer <- IF status = "done" THEN txs ELSE NoAnswer,
                   Skips <- { IF p = 0 THEN 0 ELSE (p - 1) * PerPage : p \in StartPages }

(* txSearchAll implements its promise: it eventually returns, and what it *)
(* returns is every matching transaction from the start page on, once     *)
(* each and in order, as of the moment of its last page request.          *)
TxSearchSpec == Abstract!Spec
=============================================================================
