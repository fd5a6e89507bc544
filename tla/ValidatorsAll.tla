---------------------------- MODULE ValidatorsAll ----------------------------
(***************************************************************************)
(* Tendermint33Client.validatorsAll (packages/tendermint-rpc/src/         *)
(* tendermint33/tendermint33client.ts): page through the validator set    *)
(* while new blocks, possibly with other validator sets, are committed    *)
(* between two page requests.                                              *)
(*                                                                         *)
(* ValSets gives the validator set of every height, in the node's order.  *)
(* A request without a height is answered at the latest height; the      *)
(* response carries that blockHeight and total = size of the set.  A page *)
(* outside [1, pages] is refused (Tendermint's validatePage).  per_page is *)
(* the literal 50 in the code; here it is the constant PerPage, scaled    *)
(* down with the validator sets so that a set spans several pages.        *)
(***************************************************************************)
EXTENDS Naturals, Sequences, FiniteSetsExt

CONSTANTS
    Validators,  \* validator identities
    ValSets,     \* height -> the validator set at that height
    PerPage,     \* stands for per_page: 50
    NoHeight     \* `height` undefined

Heights == DOMAIN ValSets
MaxHeight == Max(Heights)

ASSUME /\ PerPage \in Nat \ {0}
       /\ \A h \in Heights : ValSets[h] \in Seq(Validators)

VARIABLES
    latest,       \* the node's latest height
    blockHeight,  \* the loop's `blockHeight`
    page,         \* the loop's `page`
    validators,   \* the loop's `validators`
    status        \* "running", "done" or "error"

vars == <<latest, blockHeight, page, validators, status>>

-----------------------------------------------------------------------------
(* The node's validators endpoint.                                         *)
AnswerHeight(h) == IF h = NoHeight THEN latest ELSE h

PageOk(vs, p) == p >= 1 /\ p <= IF vs = <<>> THEN 1 ELSE (Len(vs) - 1) \div PerPage + 1

PageOf(vs, p) == SubSeq(vs, (p - 1) * PerPage + 1, Min({p * PerPage, Len(vs)}))

(* The call starts with `height` given or not; a given height is one the  *)
(* node has.                                                               *)
Init ==
  /\ latest \in Heights
  /\ blockHeight \in {NoHeight} \cup 1..latest
  /\ page = 1
  /\ validators = <<>>
  /\ status = "running"

(* Mutants of one loop iteration: `validators.push(response.validators)`  *)
(* without the spread; `blockHeight` never pinned to the first answer.    *)
ValidatorsPagePushNoSpread ==
  /\ status = "running"
  /\ LET h == AnswerHeight(blockHeight)
         vs == ValSets[h]
     IN IF PageOk(vs, page)
        THEN /\ validators' = Append(validators, PageOf(vs, page))
             /\ blockHeight' = IF blockHeight = NoHeight THEN h ELSE blockHeight
             /\ IF Len(validators') < Len(vs)
                THEN page' = page + 1 /\ UNCHANGED status
                ELSE status' = "done" /\ UNCHANGED page
        ELSE status' = "error" /\ UNCHANGED <<blockHeight, page, validators>>
  /\ UNCHANGED latest

ValidatorsPageNoPin ==
  /\ status = "running"
  /\ LET h == AnswerHeight(blockHeight)
         vs == ValSets[h]
     IN IF PageOk(vs, page)
        THEN /\ validators' = validators \o PageOf(vs, page)
             /\ UNCHANGED blockHeight
             /\ IF Len(validators') < Len(vs)
                THEN page' = page + 1 /\ UNCHANGED status
                ELSE status' = "done" /\ UNCHANGED page
        ELSE status' = "error" /\ UNCHANGED <<blockHeight, page, validators>>
  /\ UNCHANGED latest

(* One iteration of the while loop: request `page` at `blockHeight`,      *)
(* append the validators, pin `blockHeight` to the response's height if   *)
(* it was not set, and go on while fewer were collected than `total`.     *)
ValidatorsPage ==
  /\ status = "running"
  /\ LET h == AnswerHeight(blockHeight)
         vs == ValSets[h]
     IN IF PageOk(vs, page)
        THEN /\ validators' = validators \o PageOf(vs, page)
             /\ blockHeight' = IF blockHeight = NoHeight THEN h ELSE blockHeight
             /\ IF Len(validators') < Len(vs)
                THEN page' = page + 1 /\ UNCHANGED status
                ELSE status' = "done" /\ UNCHANGED page
        ELSE status' = "error" /\ UNCHANGED <<blockHeight, page, validators>>
  /\ UNCHANGED latest

(* The chain commits a block.                                              *)
NewBlock ==
  /\ latest < MaxHeight
  /\ latest' = latest + 1
  /\ UNCHANGED <<blockHeight, page, validators, status>>

Next == ValidatorsPage \/ NewBlock

Spec == Init /\ [][Next]_vars /\ WF_vars(ValidatorsPage)

-----------------------------------------------------------------------------
TypeOK ==
  /\ latest \in Heights
  /\ blockHeight \in {NoHeight} \cup Heights
  /\ page \in Nat \ {0}
  /\ validators \in Seq(Validators)
  /\ status \in {"running", "done", "error"}

(* What validatorsAll returns is the whole validator set of one height,   *)
(* the blockHeight it reports, in the node's order, with count = total =  *)
(* the size of that set, however many blocks were committed while it      *)
(* paged.                                                                  *)
ValidatorsConsistent ==
  status = "done" => blockHeight # NoHeight /\ validators = ValSets[blockHeight]

(* Every call returns: the loop never asks for a page the node refuses.    *)
ValidatorsReturn == <>(status = "done")
=============================================================================
