----------------------------- MODULE AminoTypes -----------------------------
(***************************************************************************)
(* The Amino message-type register of @cosmjs/stargate (class AminoTypes, *)
(* packages/stargate/src/aminotypes.ts).                                   *)
(*                                                                         *)
(* A register is a JavaScript object from type URL to converter, so it is *)
(* modelled as a sequence of entries in the object's key order: the order *)
(* matters because fromAmino scans Object.entries and takes the first    *)
(* entry whose aminoType matches.  A converter is identified by where it  *)
(* was defined (the built-in table or one of the caller's additions) and  *)
(* the key it was defined under; the field renaming a converter performs  *)
(* is abstracted to the layout it writes: a converter's fromAmino reads   *)
(* back exactly the values written in its own layout, and anything else   *)
(* gives a malformed value.                                                *)
(***************************************************************************)
EXTENDS Naturals, Sequences, SequencesExt

CONSTANTS
    AdditionUrls,        \* type URLs a caller may register additions under
    AdditionAminoTypes,  \* amino types a caller's additions may declare
    MaxAdditions,        \* bound on the number of entries of `additions`
    Values,              \* abstract protobuf message values
    Malformed,           \* what a converter makes of a value in another layout
    RegistryMiss         \* the error thrown when no converter matches

ASSUME MaxAdditions \in Nat

VARIABLES
    additions,   \* the `additions` option given to the constructor
    register,    \* this.register, built by the constructor
    lastResult   \* result of the latest toAmino/fromAmino call

vars == <<additions, register, lastResult>>

-----------------------------------------------------------------------------
(* createDefaultTypes: the built-in converters, in the literal's key order, *)
(* by the module of their message.                                         *)
BankTypes ==
  << [typeUrl |-> "/cosmos.bank.v1beta1.MsgSend",
      aminoType |-> "cosmos-sdk/MsgSend"],
     [typeUrl |-> "/cosmos.bank.v1beta1.MsgMultiSend",
      aminoType |-> "cosmos-sdk/MsgMultiSend"] >>
DistributionTypes ==
  << [typeUrl |-> "/cosmos.distribution.v1beta1.MsgFundCommunityPool",
      aminoType |-> "cosmos-sdk/MsgFundCommunityPool"],
     [typeUrl |-> "/cosmos.distribution.v1beta1.MsgSetWithdrawAddress",
      aminoType |-> "cosmos-sdk/MsgModifyWithdrawAddress"],
     [typeUrl |-> "/cosmos.distribution.v1beta1.MsgWithdrawDelegatorReward",
      aminoType |-> "cosmos-sdk/MsgWithdrawDelegationReward"],
     [typeUrl |-> "/cosmos.distribution.v1beta1.MsgWithdrawValidatorCommission",
      aminoType |-> "cosmos-sdk/MsgWithdrawValidatorCommission"] >>
StakingTypes ==
  << [typeUrl |-> "/cosmos.staking.v1beta1.MsgBeginRedelegate",
      aminoType |-> "cosmos-sdk/MsgBeginRedelegate"],
     [typeUrl |-> "/cosmos.staking.v1beta1.MsgCreateValidator",
      aminoType |-> "cosmos-sdk/MsgCreateValidator"],
     [typeUrl |-> "/cosmos.staking.v1beta1.MsgDelegate",
      aminoType |-> "cosmos-sdk/MsgDelegate"],
     [typeUrl |-> "/cosmos.staking.v1beta1.MsgEditValidator",
      aminoType |-> "cosmos-sdk/MsgEditValidator"],
     [typeUrl |-> "/cosmos.staking.v1beta1.MsgUndelegate",
      aminoType |-> "cosmos-sdk/MsgUndelegate"] >>
IbcTypes ==
  << [typeUrl |-> "/ibc.applications.transfer.v1.MsgTransfer",
      aminoType |-> "cosmos-sdk/MsgTransfer"] >>
DefaultTypes == BankTypes \o DistributionTypes \o StakingTypes \o IbcTypes

(* A register entry: key, the converter's aminoType, and the converter.    *)
Entry(url, atype, origin) ==
  [typeUrl |-> url, aminoType |-> atype, conv |-> <<origin, url>>]

(* One converter's toAmino and fromAmino, abstracted to their layout.      *)
ToAminoValue(e, v) == [layout |-> e.conv, data |-> v]

(* Mutant: a converter whose fromAmino hands back the Amino value as is.  *)
FromAminoValueRaw(e, av) == av

FromAminoValue(e, av) == IF av.layout = e.conv THEN av.data ELSE Malformed

(* The `additions` objects a caller can pass: distinct keys, in order.     *)
AdditionsSet ==
  { s \in BoundedSeq(AdditionUrls \X AdditionAminoTypes, MaxAdditions) :
      \A i, j \in DOMAIN s : i # j => s[i][1] # s[j][1] }

(* Mutants of the constructor: additions appended even when their key    *)
(* exists; built-ins never filtered; built-ins filtered by type URL.      *)
CreateRegisterAppend(adds) ==
  LET additionalAminoTypes == { adds[i][2] : i \in DOMAIN adds }
      Keep(acc, d) ==
        IF d.aminoType \in additionalAminoTypes THEN acc
        ELSE Append(acc, Entry(d.typeUrl, d.aminoType, "default"))
      Spread(reg, a) == Append(reg, Entry(a[1], a[2], "addition"))
  IN FoldLeft(Spread, FoldLeft(Keep, <<>>, DefaultTypes), adds)

CreateRegisterNoFilter(adds) ==
  LET Keep(acc, d) == Append(acc, Entry(d.typeUrl, d.aminoType, "default"))
      Spread(reg, a) ==
        LET i == SelectInSeq(reg, LAMBDA r : r.typeUrl = a[1])
            e == Entry(a[1], a[2], "addition")
        IN IF i = 0 THEN Append(reg, e) ELSE [reg EXCEPT ![i] = e]
  IN FoldLeft(Spread, FoldLeft(Keep, <<>>, DefaultTypes), adds)

CreateRegisterByUrl(adds) ==
  LET additionalTypeUrls == { adds[i][1] : i \in DOMAIN adds }
      Keep(acc, d) ==
        IF d.typeUrl \in additionalTypeUrls THEN acc
        ELSE Append(acc, Entry(d.typeUrl, d.aminoType, "default"))
      Spread(reg, a) ==
        LET i == SelectInSeq(reg, LAMBDA r : r.typeUrl = a[1])
            e == Entry(a[1], a[2], "addition")
        IN IF i = 0 THEN Append(reg, e) ELSE [reg EXCEPT ![i] = e]
  IN FoldLeft(Spread, FoldLeft(Keep, <<>>, DefaultTypes), adds)

(* constructor: drop every built-in whose aminoType an addition also uses, *)
(* then spread the additions over the rest; a spread onto an existing key *)
(* keeps that key's position, a new key goes to the end.                   *)
CreateRegister(adds) ==
  LET additionalAminoTypes == { adds[i][2] : i \in DOMAIN adds }
      Keep(acc, d) ==
        IF d.aminoType \in additionalAminoTypes THEN acc
        ELSE Append(acc, Entry(d.typeUrl, d.aminoType, "default"))
      Spread(reg, a) ==
        LET i == SelectInSeq(reg, LAMBDA r : r.typeUrl = a[1])
            e == Entry(a[1], a[2], "addition")
        IN IF i = 0 THEN Append(reg, e) ELSE [reg EXCEPT ![i] = e]
  IN FoldLeft(Spread, FoldLeft(Keep, <<>>, DefaultTypes), adds)

(* toAmino: look the converter up by type URL.                             *)
ToAmino(reg, typeUrl, v) ==
  LET i == SelectInSeq(reg, LAMBDA r : r.typeUrl = typeUrl)
  IN IF i = 0 THEN RegistryMiss
     ELSE [type |-> reg[i].aminoType, value |-> ToAminoValue(reg[i], v)]

(* fromAmino: the first entry, in key order, with a matching aminoType.    *)
FromAmino(reg, msg) ==
  LET i == SelectInSeq(reg, LAMBDA r : r.aminoType = msg.type)
  IN IF i = 0 THEN RegistryMiss
     ELSE [typeUrl |-> reg[i].typeUrl, value |-> FromAminoValue(reg[i], msg.value)]

-----------------------------------------------------------------------------
TypeUrls == { d.typeUrl : d \in ToSet(DefaultTypes) } \cup AdditionUrls
AminoTypeNames == { d.aminoType : d \in ToSet(DefaultTypes) } \cup AdditionAminoTypes
Layouts == {"default", "addition"} \X TypeUrls
AminoValues == [layout : Layouts, data : Values]
AminoMsgs == [type : AminoTypeNames, value : AminoValues]

Init ==
  /\ additions \in AdditionsSet
  /\ register = CreateRegister(additions)
  /\ lastResult = RegistryMiss

(* A caller converts an encode object to an Amino message.                 *)
CallToAmino ==
  /\ \E url \in TypeUrls, v \in Values :
       lastResult' = ToAmino(register, url, v)
  /\ UNCHANGED <<additions, register>>

(* A caller converts an Amino message back to an encode object.            *)
CallFromAmino ==
  /\ \E m \in AminoMsgs : lastResult' = FromAmino(register, m)
  /\ UNCHANGED <<additions, register>>

Next == CallToAmino \/ CallFromAmino

Spec == Init /\ [][Next]_vars

-----------------------------------------------------------------------------
TypeOK ==
  /\ additions \in AdditionsSet
  /\ register \in Seq([typeUrl : TypeUrls, aminoType : AminoTypeNames,
                       conv : {"default", "addition"} \X TypeUrls])
  /\ lastResult \in {RegistryMiss}
                    \cup [type : AminoTypeNames, value : AminoValues]
                    \cup [typeUrl : TypeUrls, value : Values \cup {Malformed}]

(* The register as the spec describes it: the built-ins whose aminoType no *)
(* addition uses, overridden and extended by the additions by type URL.    *)
RegisterRef(adds) ==
  LET addUrls == { adds[i][1] : i \in DOMAIN adds }
      addTypes == { adds[i][2] : i \in DOMAIN adds }
      kept == { d \in ToSet(DefaultTypes) : d.aminoType \notin addTypes }
      urls == addUrls \cup { d.typeUrl : d \in kept }
  IN [u \in urls |->
        IF u \in addUrls
        THEN LET a == CHOOSE i \in DOMAIN adds : adds[i][1] = u
             IN Entry(u, adds[a][2], "addition")
        ELSE LET d == CHOOSE d \in kept : d.typeUrl = u
             IN Entry(u, d.aminoType, "default")]

(* The register the constructor builds holds one converter per type URL   *)
(* and is, as a map, exactly the reference register: a built-in survives  *)
(* iff no addition shares its aminoType, and an addition always wins.      *)
RegisterImplementsRef ==
  /\ \A i, j \in DOMAIN register : i # j => register[i].typeUrl # register[j].typeUrl
  /\ [u \in { register[i].typeUrl : i \in DOMAIN register } |->
        register[SelectInSeq(register, LAMBDA r : r.typeUrl = u)]]
     = RegisterRef(additions)

(* Override law (spec section 8): an Amino message whose type an addition *)
(* declares is resolved by fromAmino to an addition, never to a built-in. *)
OverrideLaw ==
  \A i \in DOMAIN additions, v \in Values :
    LET r == FromAmino(register, [type |-> additions[i][2],
                                  value |-> [layout |-> <<"addition", additions[i][1]>>,
                                             data |-> v]])
    IN r # RegistryMiss /\ r.typeUrl \in { additions[j][1] : j \in DOMAIN additions }

(* Round-trip law: for every registered type URL, fromAmino(toAmino(x))   *)
(* gives back x, type URL and value.                                       *)
RoundTrip ==
  \A i \in DOMAIN register, v \in Values :
    FromAmino(register, ToAmino(register, register[i].typeUrl, v))
      = [typeUrl |-> register[i].typeUrl, value |-> v]

(* The additions declare pairwise distinct amino types.                    *)
DistinctAdditionTypes ==
  \A i, j \in DOMAIN additions : i # j => additions[i][2] # additions[j][2]

(* The round-trip law holds for every register whose additions declare    *)
(* distinct amino types (the case the spec leaves open excluded).          *)
RoundTripDistinct == DistinctAdditionTypes => RoundTrip
=============================================================================
