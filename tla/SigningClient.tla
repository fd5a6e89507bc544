---------------------------- MODULE SigningClient ----------------------------
(***************************************************************************)
(* SigningCosmWasmClient.signAndBroadcast (packages/cosmwasm-stargate/src/ *)
(* signingcosmwasmclient.ts) driven by an application whose calls may     *)
(* overlap, against a chain node that checks, orders,                      *)
(* includes or evicts the transactions, and an injected signer that may    *)
(* change the fee and the memo of what it is asked to sign.                *)
(*                                                                         *)
(* A call runs sign() (gather the signer data, then signDirect or         *)
(* signAmino) and broadcastTx (broadcast_tx_sync, then poll getTx until   *)
(* the transaction is found or the broadcast timeout has fired).  Each    *)
(* step of a call ends at an await, where the chain and the timer may     *)
(* move.  Encodings are modelled as tagged records: the protobuf encoding *)
(* of a TxBody or AuthInfo is injective, which is all the chain's         *)
(* signature check relies on.                                              *)
(***************************************************************************)
EXTENDS Naturals, Sequences, SequencesExt

CONSTANTS
    MaxCalls,        \* number of signAndBroadcast calls the application makes
    CallMethods,     \* client methods the application may call
    Addresses,       \* addresses a call may name as signer address
    SignerAccounts,  \* addresses the injected signer holds keys for
    Fees, Memos,     \* abstract fees and memos; the first ones are the inputs
    InputFee, InputMemo,
    MaxExplicitSeq,  \* bound on a sequence given as explicit signer data
    AccountNumber, ChainId,
    Values,          \* abstract message values
    NoTx, NoData     \* "no transaction yet", "no signer data yet"

ASSUME /\ MaxCalls \in Nat \ {0}
       /\ SignerAccounts \subseteq Addresses
       /\ InputFee \in Fees /\ InputMemo \in Memos

Calls == 1..MaxCalls

VARIABLES
    signerKind,  \* "direct" iff the signer has signDirect (isOfflineDirectSigner)
    aminoTypes,  \* this.aminoTypes: the register the client was constructed with
    chainCodec,  \* the register of the chain's own legacy Amino JSON codec
    exists,      \* address -> the account is known to the chain
    chainSeq,    \* address -> committed account sequence
    mempool,     \* calls whose transaction passed CheckTx, in order
    onChain,     \* call -> "none", or the code its transaction was included with
    pc,          \* call -> where the call is
    req,         \* call -> the call's arguments
    sd,          \* call -> signer data gathered by sign()
    tx,          \* call -> the TxRaw built for the call
    timedOut,    \* call -> the broadcast timeout has fired
    result,      \* call -> what the call returned or threw
    overlap      \* history: call -> the calls of its address it was in flight together with

vars == <<signerKind, aminoTypes, chainCodec, exists, chainSeq, mempool, onChain, pc, req,
          sd, tx, timedOut, result, overlap>>

-----------------------------------------------------------------------------
(* Registers: cosmWasmTypes (the default of SigningCosmWasmClient) and    *)
(* the stargate built-ins alone, as a caller may pass in options.          *)
CosmWasmTypes ==
  << <<"/cosmwasm.wasm.v1beta1.MsgStoreCode", "wasm/MsgStoreCode">>,
     <<"/cosmwasm.wasm.v1beta1.MsgInstantiateContract", "wasm/MsgInstantiateContract">>,
     <<"/cosmwasm.wasm.v1beta1.MsgUpdateAdmin", "wasm/MsgUpdateAdmin">>,
     <<"/cosmwasm.wasm.v1beta1.MsgClearAdmin", "wasm/MsgClearAdmin">>,
     <<"/cosmwasm.wasm.v1beta1.MsgExecuteContract", "wasm/MsgExecuteContract">>,
     <<"/cosmwasm.wasm.v1beta1.MsgMigrateContract", "wasm/MsgMigrateContract">> >>

AT == INSTANCE AminoTypes
        WITH AdditionUrls <- { CosmWasmTypes[i][1] : i \in DOMAIN CosmWasmTypes },
             AdditionAminoTypes <- { CosmWasmTypes[i][2] : i \in DOMAIN CosmWasmTypes },
             MaxAdditions <- Len(CosmWasmTypes),
             Malformed <- NoData, RegistryMiss <- NoTx,
             additions <- CosmWasmTypes,
             register <- <<>>,
             lastResult <- NoTx

CosmWasmRegister == AT!CreateRegister(CosmWasmTypes)
StargateRegister == AT!CreateRegister(<<>>)

(* The message each client method builds and passes, alone, to           *)
(* signAndBroadcast.  The wasm methods throw when the transaction failed  *)
(* in its block; the bank and staking methods return the failed result.   *)
(* Either way the call ends with that outcome, which is all the model     *)
(* records.                                                                *)
WasmMethodTypeUrl ==
  [upload |-> "/cosmwasm.wasm.v1beta1.MsgStoreCode",
   instantiate |-> "/cosmwasm.wasm.v1beta1.MsgInstantiateContract",
   updateAdmin |-> "/cosmwasm.wasm.v1beta1.MsgUpdateAdmin",
   clearAdmin |-> "/cosmwasm.wasm.v1beta1.MsgClearAdmin",
   migrate |-> "/cosmwasm.wasm.v1beta1.MsgMigrateContract",
   execute |-> "/cosmwasm.wasm.v1beta1.MsgExecuteContract"]
BankStakingMethodTypeUrl ==
  [sendTokens |-> "/cosmos.bank.v1beta1.MsgSend",
   delegateTokens |-> "/cosmos.staking.v1beta1.MsgDelegate",
   undelegateTokens |-> "/cosmos.staking.v1beta1.MsgUndelegate",
   withdrawRewards |-> "/cosmos.distribution.v1beta1.MsgWithdrawDelegatorReward"]
MethodTypeUrl == WasmMethodTypeUrl @@ BankStakingMethodTypeUrl

TxBodyBytes(messages, memo) == <<"TxBody", [messages |-> messages, memo |-> memo]>>
AuthInfoBytes(fee, sequence, signMode) ==
  <<"AuthInfo", [fee |-> fee, sequence |-> sequence, signMode |-> signMode]>>
Body(t) == t.bodyBytes[2]
AuthInfo(t) == t.authInfoBytes[2]

(* makeSignDoc (direct) and makeSignDocAmino.                              *)
SignDoc(bodyBytes, authInfoBytes, chainId, accountNumber) ==
  [mode |-> "direct", bodyBytes |-> bodyBytes, authInfoBytes |-> authInfoBytes,
   chainId |-> chainId, accountNumber |-> accountNumber]
StdSignDoc(msgs, fee, chainId, memo, accountNumber, sequence) ==
  [mode |-> "amino", msgs |-> msgs, fee |-> fee, chainId |-> chainId, memo |-> memo,
   accountNumber |-> accountNumber, sequence |-> sequence]

-----------------------------------------------------------------------------
(* The chain's signature check: rebuild the document from the transaction *)
(* in the sign mode its AuthInfo names, and compare with what was signed. *)
SigValid(t) ==
  LET ai == AuthInfo(t)
      b == Body(t)
  IN IF ai.signMode = "direct"
     THEN t.signature = SignDoc(t.bodyBytes, t.authInfoBytes, ChainId, AccountNumber)
     ELSE t.signature =
            StdSignDoc([i \in DOMAIN b.messages |->
                          AT!ToAmino(chainCodec, b.messages[i].typeUrl,
                                     b.messages[i].value)],
                       ai.fee, ChainId, b.memo, AccountNumber, ai.sequence)

(* The sequence CheckTx expects: committed plus this sender's pending txs. *)
CheckSeq(a) == chainSeq[a] + Len(SelectSeq(mempool, LAMBDA d : req[d].addr = a))

(* The constructor: the injected signer, of either kind, and             *)
(* this.aminoTypes, cosmWasmTypes by default or a register passed in      *)
(* options; the chain is a fresh one.                                      *)
Init ==
  /\ signerKind \in {"direct", "amino"}
  /\ aminoTypes \in {CosmWasmRegister, StargateRegister}
  /\ chainCodec = CosmWasmRegister
  /\ exists \in [Addresses -> BOOLEAN]
  /\ chainSeq = [a \in Addresses |-> 0]
  /\ mempool = <<>>
  /\ onChain = [c \in Calls |-> "none"]
  /\ pc = [c \in Calls |-> "idle"]
  /\ req = [c \in Calls |-> NoData]
  /\ sd = [c \in Calls |-> NoData]
  /\ tx = [c \in Calls |-> NoTx]
  /\ timedOut = [c \in Calls |-> FALSE]
  /\ result = [c \in Calls |-> "none"]
  /\ overlap = [c \in Calls |-> {}]

Config == <<signerKind, aminoTypes, chainCodec>>
ChainVars == <<exists, chainSeq, mempool, onChain>>

(* The application calls a client method, whether or not its earlier     *)
(* calls have returned (calls are numbered in the order they start); it   *)
(* may pass explicit signer data (offline signing) with a sequence.        *)
Start(c) ==
  /\ pc[c] = "idle"
  /\ \A d \in 1..(c - 1) : pc[d] # "idle"
  /\ \E m \in CallMethods, a \in Addresses, s \in {NoData} \cup 0..MaxExplicitSeq :
       /\ req' = [req EXCEPT ![c] = [method |-> m, addr |-> a, explicit |-> s]]
       /\ IF s = NoData
          THEN UNCHANGED sd
          ELSE sd' = [sd EXCEPT ![c] = [accountNumber |-> AccountNumber,
                                         sequence |-> s, chainId |-> ChainId]]
       /\ pc' = [pc EXCEPT ![c] = IF s = NoData THEN "gather" ELSE "sign"]
       /\ LET along == {d \in Calls : pc[d] \notin {"idle", "done"} /\ req[d].addr = a}
          IN overlap' = [d \in Calls |-> IF d = c THEN along
                                         ELSE IF d \in along THEN overlap[d] \cup {c}
                                         ELSE overlap[d]]
  /\ UNCHANGED <<Config, ChainVars, tx, timedOut, result>>

(* sign() without explicit signer data: getSequence, then getChainId.      *)
(* getSequence rejects for an account the chain does not know.             *)
GatherSignerData(c) ==
  /\ pc[c] = "gather"
  /\ IF exists[req[c].addr]
     THEN /\ sd' = [sd EXCEPT ![c] = [accountNumber |-> AccountNumber,
                                      sequence |-> chainSeq[req[c].addr],
                                      chainId |-> ChainId]]
          /\ pc' = [pc EXCEPT ![c] = "sign"]
          /\ UNCHANGED result
     ELSE /\ pc' = [pc EXCEPT ![c] = "done"]
          /\ result' = [result EXCEPT ![c] = "accountMissing"]
          /\ UNCHANGED sd
  /\ UNCHANGED <<Config, overlap, ChainVars, req, tx, timedOut>>

(* The signer's answer: it may replace the fee and the memo it was given. *)
Modified(doc, fee, memo) == [doc EXCEPT !.fee = fee, !.memo = memo]

(* signDirect: build TxBody and AuthInfo bytes and the SignDoc, let the   *)
(* signer sign, and take bodyBytes and authInfoBytes from what it signed. *)
SignDirect(c, msgs) ==
  LET bodyBytes == TxBodyBytes(msgs, InputMemo)
      authInfoBytes == AuthInfoBytes(InputFee, sd[c].sequence, "direct")
  IN \E fee \in Fees, memo \in Memos :
       LET sBody == TxBodyBytes(msgs, memo)
           sAuth == AuthInfoBytes(fee, sd[c].sequence, "direct")
           signed == SignDoc(sBody, sAuth, sd[c].chainId, sd[c].accountNumber)
       IN tx' = [tx EXCEPT ![c] = [bodyBytes |-> signed.bodyBytes,
                                    authInfoBytes |-> signed.authInfoBytes,
                                    signature |-> signed]]

(* Mutants of signAmino: a body with the caller's memo instead of the     *)
(* signed one; a body with the Amino messages not converted back.         *)
SignAminoInputMemo(c, msgs) ==
  LET reg == aminoTypes
      aminoMsgs == [i \in DOMAIN msgs |-> AT!ToAmino(reg, msgs[i].typeUrl, msgs[i].value)]
      doc == StdSignDoc(aminoMsgs, InputFee, sd[c].chainId, InputMemo,
                        sd[c].accountNumber, sd[c].sequence)
  IN \E fee \in Fees, memo \in Memos :
       LET signed == Modified(doc, fee, memo)
           body == TxBodyBytes([i \in DOMAIN signed.msgs |->
                                  AT!FromAmino(reg, signed.msgs[i])], InputMemo)
       IN tx' = [tx EXCEPT ![c] = [bodyBytes |-> body,
                                    authInfoBytes |-> AuthInfoBytes(signed.fee,
                                                        signed.sequence, "amino"),
                                    signature |-> signed]]

(* Mutant: the AuthInfo built from the fee the caller passed.            *)
SignAminoInputFee(c, msgs) ==
  LET reg == aminoTypes
      aminoMsgs == [i \in DOMAIN msgs |-> AT!ToAmino(reg, msgs[i].typeUrl, msgs[i].value)]
      doc == StdSignDoc(aminoMsgs, InputFee, sd[c].chainId, InputMemo,
                        sd[c].accountNumber, sd[c].sequence)
  IN \E fee \in Fees, memo \in Memos :
       LET signed == Modified(doc, fee, memo)
           body == TxBodyBytes([i \in DOMAIN signed.msgs |->
                                  AT!FromAmino(reg, signed.msgs[i])], signed.memo)
       IN tx' = [tx EXCEPT ![c] = [bodyBytes |-> body,
                                    authInfoBytes |-> AuthInfoBytes(InputFee,
                                                        signed.sequence, "amino"),
                                    signature |-> signed]]

SignAminoNoFromAmino(c, msgs) ==
  LET reg == aminoTypes
      aminoMsgs == [i \in DOMAIN msgs |-> AT!ToAmino(reg, msgs[i].typeUrl, msgs[i].value)]
      doc == StdSignDoc(aminoMsgs, InputFee, sd[c].chainId, InputMemo,
                        sd[c].accountNumber, sd[c].sequence)
  IN \E fee \in Fees, memo \in Memos :
       LET signed == Modified(doc, fee, memo)
       IN tx' = [tx EXCEPT ![c] = [bodyBytes |-> TxBodyBytes(signed.msgs, signed.memo),
                                    authInfoBytes |-> AuthInfoBytes(signed.fee,
                                                        signed.sequence, "amino"),
                                    signature |-> signed]]

(* signAmino: convert the messages with toAmino, let the signer sign the  *)
(* StdSignDoc, and rebuild body and AuthInfo from what it signed.         *)
SignAmino(c, msgs) ==
  LET reg == aminoTypes
      aminoMsgs == [i \in DOMAIN msgs |-> AT!ToAmino(reg, msgs[i].typeUrl, msgs[i].value)]
      doc == StdSignDoc(aminoMsgs, InputFee, sd[c].chainId, InputMemo,
                        sd[c].accountNumber, sd[c].sequence)
  IN \E fee \in Fees, memo \in Memos :
       LET signed == Modified(doc, fee, memo)
           body == TxBodyBytes([i \in DOMAIN signed.msgs |->
                                  AT!FromAmino(reg, signed.msgs[i])], signed.memo)
       IN tx' = [tx EXCEPT ![c] = [bodyBytes |-> body,
                                    authInfoBytes |-> AuthInfoBytes(signed.fee,
                                                        signed.sequence, "amino"),
                                    signature |-> signed]]

(* sign() continued: signDirect or signAmino by the signer's capability.  *)
(* Both first look the signer address up in signer.getAccounts(); the     *)
(* Amino path throws when toAmino misses a message's type URL.             *)
Sign(c) ==
  /\ pc[c] = "sign"
  /\ LET msgs == << [typeUrl |-> MethodTypeUrl[req[c].method],
                     value |-> CHOOSE v \in Values : TRUE] >>
     IN \/ /\ req[c].addr \notin SignerAccounts
           /\ pc' = [pc EXCEPT ![c] = "done"]
           /\ result' = [result EXCEPT ![c] = "signerAccountMissing"]
           /\ UNCHANGED tx
        \/ /\ req[c].addr \in SignerAccounts
           /\ signerKind = "amino"
           /\ AT!ToAmino(aminoTypes, msgs[1].typeUrl, msgs[1].value) = NoTx
           /\ pc' = [pc EXCEPT ![c] = "done"]
           /\ result' = [result EXCEPT ![c] = "registryMiss"]
           /\ UNCHANGED tx
        \/ /\ req[c].addr \in SignerAccounts
           /\ signerKind = "direct"
           /\ SignDirect(c, msgs)
           /\ pc' = [pc EXCEPT ![c] = "broadcast"]
           /\ UNCHANGED result
        \/ /\ req[c].addr \in SignerAccounts
           /\ signerKind = "amino"
           /\ AT!ToAmino(aminoTypes, msgs[1].typeUrl, msgs[1].value) # NoTx
           /\ SignAmino(c, msgs)
           /\ pc' = [pc EXCEPT ![c] = "broadcast"]
           /\ UNCHANGED result
  /\ UNCHANGED <<Config, overlap, ChainVars, req, sd, timedOut>>

(* broadcastTx, first half: broadcast_tx_sync runs CheckTx, which knows   *)
(* the account, checks the sequence against its pending state and then    *)
(* the signature; a non-zero code is thrown as "Broadcasting transaction  *)
(* failed".  The poll timeout was armed before the broadcast.              *)
Broadcast(c) ==
  /\ pc[c] = "broadcast"
  /\ LET a == req[c].addr
         code == CASE ~exists[a] -> "unknownAddress"
                   [] AuthInfo(tx[c]).sequence # CheckSeq(a) -> "seqMismatch"
                   [] ~SigValid(tx[c]) -> "unauthorized"
                   [] OTHER -> "ok"
     IN IF code = "ok"
        THEN /\ mempool' = Append(mempool, c)
             /\ pc' = [pc EXCEPT ![c] = "poll"]
             /\ UNCHANGED result
        ELSE /\ pc' = [pc EXCEPT ![c] = "done"]
             /\ result' = [result EXCEPT ![c] = code]
             /\ UNCHANGED mempool
  /\ UNCHANGED <<Config, overlap, exists, chainSeq, onChain, req, sd, tx, timedOut>>

(* The broadcast timeout fires (setTimeout in broadcastTx).                *)
Timeout(c) ==
  /\ pc[c] \in {"broadcast", "poll"}
  /\ ~timedOut[c]
  /\ timedOut' = [timedOut EXCEPT ![c] = TRUE]
  /\ UNCHANGED <<Config, overlap, ChainVars, pc, req, sd, tx, result>>

(* Mutants of pollForTx: return once CheckTx accepted the transaction,    *)
(* without waiting for a block; keep polling after the timeout fired.     *)
PollNoWait(c) ==
  /\ pc[c] = "poll"
  /\ pc' = [pc EXCEPT ![c] = "done"]
  /\ result' = [result EXCEPT ![c] = IF timedOut[c] THEN "timeout" ELSE "ok"]
  /\ UNCHANGED <<Config, overlap, ChainVars, req, sd, tx, timedOut>>

PollIgnoresTimeout(c) ==
  /\ pc[c] = "poll"
  /\ onChain[c] # "none"
  /\ pc' = [pc EXCEPT ![c] = "done"]
  /\ result' = [result EXCEPT ![c] = onChain[c]]
  /\ UNCHANGED <<Config, overlap, ChainVars, req, sd, tx, timedOut>>

(* pollForTx: throw a TimeoutError once the timeout has fired, otherwise  *)
(* sleep, getTx, and return the result if the transaction was found.  A   *)
(* poll that finds nothing and recurses changes no state (a stutter).      *)
Poll(c) ==
  /\ pc[c] = "poll"
  /\ timedOut[c] \/ onChain[c] # "none"
  /\ pc' = [pc EXCEPT ![c] = "done"]
  /\ result' = [result EXCEPT ![c] = IF timedOut[c] THEN "timeout" ELSE onChain[c]]
  /\ UNCHANGED <<Config, overlap, ChainVars, req, sd, tx, timedOut>>

-----------------------------------------------------------------------------
(* The chain includes the oldest pending transaction in a block: its      *)
(* messages succeed or fail, and the sequence advances either way.  A     *)
(* transaction whose sequence no longer fits is evicted instead.           *)
Deliver ==
  /\ mempool # <<>>
  /\ LET c == Head(mempool)
         a == req[c].addr
     IN IF AuthInfo(tx[c]).sequence = chainSeq[a]
        THEN /\ \E code \in {"ok", "failed"} : onChain' = [onChain EXCEPT ![c] = code]
             /\ chainSeq' = [chainSeq EXCEPT ![a] = @ + 1]
        ELSE UNCHANGED <<onChain, chainSeq>>
  /\ mempool' = Tail(mempool)
  /\ UNCHANGED <<Config, overlap, exists, pc, req, sd, tx, timedOut, result>>

(* The node drops a pending transaction (eviction, restart).               *)
Evict ==
  /\ \E i \in DOMAIN mempool : mempool' = RemoveAt(mempool, i)
  /\ UNCHANGED <<Config, overlap, exists, chainSeq, onChain, pc, req, sd, tx,
                 timedOut, result>>

(* Somebody sends tokens to an address the chain did not know.            *)
CreateAccount ==
  /\ \E a \in Addresses : ~exists[a] /\ exists' = [exists EXCEPT ![a] = TRUE]
  /\ UNCHANGED <<Config, overlap, chainSeq, mempool, onChain, pc, req, sd, tx,
                 timedOut, result>>

Client(c) ==
  GatherSignerData(c) \/ Sign(c) \/ Broadcast(c) \/ Poll(c)

Next ==
  \/ \E c \in Calls : Start(c) \/ Client(c) \/ Timeout(c)
  \/ Deliver \/ Evict \/ CreateAccount

(* The client's steps and its timer are never starved (single event loop, *)
(* setTimeout fires); the application and the chain get no fairness.      *)
(* Sign(c) is enabled exactly when pc[c] = "sign" (its cases cover every  *)
(* signer address and kind), so its weak fairness is written with that    *)
(* predicate for ENABLED, which TLC would otherwise evaluate over every   *)
(* choice of the signer.                                                   *)
SignFair(c) == []<>(pc[c] # "sign") \/ []<><<Sign(c)>>_vars

Fairness ==
  \A c \in Calls :
    /\ WF_vars(GatherSignerData(c) \/ Broadcast(c) \/ Poll(c))
    /\ SignFair(c)
    /\ WF_vars(Timeout(c))

Spec == Init /\ [][Next]_vars /\ Fairness

-----------------------------------------------------------------------------
TypeOK ==
  /\ signerKind \in {"direct", "amino"}
  /\ aminoTypes \in {CosmWasmRegister, StargateRegister}
  /\ chainCodec = CosmWasmRegister
  /\ exists \in [Addresses -> BOOLEAN]
  /\ chainSeq \in [Addresses -> Nat]
  /\ mempool \in Seq(Calls)
  /\ onChain \in [Calls -> {"none", "ok", "failed"}]
  /\ pc \in [Calls -> {"idle", "gather", "sign", "broadcast", "poll", "done"}]
  /\ timedOut \in [Calls -> BOOLEAN]
  /\ \A c \in Calls :
       tx[c] # NoTx =>
         /\ Body(tx[c]).messages \in Seq([typeUrl : AT!TypeUrls, value : Values])
         /\ Body(tx[c]).memo \in Memos
         /\ AuthInfo(tx[c]).fee \in Fees
  /\ result \in [Calls -> {"none", "ok", "failed", "timeout", "accountMissing",
                            "signerAccountMissing", "registryMiss", "unknownAddress",
                            "seqMismatch", "unauthorized"}]
  /\ overlap \in [Calls -> SUBSET Calls]

(* Whatever the signer changed before signing, every transaction the      *)
(* client builds (signDirect, signAmino) carries exactly the body and     *)
(* AuthInfo that were signed, in the right sign mode, so the chain's      *)
(* signature check accepts it.                                             *)
BroadcastTxVerifies == \A c \in Calls : tx[c] # NoTx => SigValid(tx[c])

(* getSequence reads the committed sequence, not the pending one.  A call *)
(* that gathered its own signer data is therefore rejected for its        *)
(* sequence only if another call of its address was in flight at the     *)
(* same time (two concurrent signAndBroadcast calls), or a call ended in  *)
(* a broadcast timeout and left its transaction pending.  With calls made *)
(* one after the other, only a timeout explains it.                        *)
SequenceNotStale ==
  \A c \in Calls :
    result[c] = "seqMismatch" =>
      \/ req[c].explicit # NoData
      \/ overlap[c] # {}
      \/ \E d \in Calls \ {c} : result[d] = "timeout"

(* Every call the application starts eventually returns or throws:       *)
(* pollForTx cannot spin forever on a transaction the node dropped.       *)
CallsReturn == \A c \in Calls : pc[c] # "idle" ~> pc[c] = "done"
=============================================================================
