------------------------- MODULE CreateValidatorPubkey -------------------------
(***************************************************************************)
(* The pubkey field of the MsgCreateValidator Amino converter             *)
(* (packages/stargate/src/aminotypes.ts), over the pubkey codec of        *)
(* AminoPubkey.  toAmino tags the validator key of the protobuf Any as    *)
(* secp256k1 whatever its typeUrl and bech32-encodes it with the registry *)
(* prefix; fromAmino decodes it, rejects every type but secp256k1 and     *)
(* rebuilds a secp256k1 Any.  The converter's other fields are copied     *)
(* field by field and are left out.                                        *)
(*                                                                         *)
(* The codec's own encode/decode machine runs beside the converter, so    *)
(* one specification checks both.                                          *)
(***************************************************************************)
EXTENDS AminoPubkey

CONSTANTS
    AnyInputs   \* protobuf Any pubkeys of a MsgCreateValidator

VARIABLES
    msgPubkey,    \* the message's pubkey field (None when missing)
    aminoPubkey,  \* result of toAmino: the bech32 pubkey string, or an error
    backPubkey    \* result of fromAmino on that string

cvVars == <<msgPubkey, aminoPubkey, backPubkey>>
pubkeysVars == <<vars, cvVars>>

SecpTypeUrl == "/cosmos.crypto.secp256k1.PubKey"

-----------------------------------------------------------------------------
(* toAmino: assertDefinedAndNotNull(pubkey), then                          *)
(* encodeBech32Pubkey({type: secp256k1, value: toBase64(pubkey.value)}).  *)
ToAmino ==
  /\ aminoPubkey = None
  /\ \E prefix \in Bech32Prefixes :
       aminoPubkey' =
         IF msgPubkey = None THEN Fail("missingPubkey")
         ELSE LET r == EncodeAminoPubkey(SingleKey(Secp256k1, msgPubkey.value))
              IN IF r.ok THEN Ok(Bech32Encode(prefix, r.value)) ELSE r
  /\ UNCHANGED <<msgPubkey, backPubkey, vars>>

(* fromAmino: decodeBech32Pubkey, the secp256k1-only check, and the Any   *)
(* rebuilt with fromBase64 of the decoded value.                           *)
FromAmino ==
  /\ aminoPubkey # None /\ aminoPubkey.ok /\ backPubkey = None
  /\ backPubkey' =
       LET d == DecodeAminoPubkey(Bech32Decode(aminoPubkey.value))
       IN CASE ~d.ok -> d
            [] d.value.type # Secp256k1 -> Fail("onlySecp256k1")
            [] OTHER -> Ok([typeUrl |-> SecpTypeUrl, value |-> FromBase64(d.value.value)])
  /\ UNCHANGED <<msgPubkey, aminoPubkey, vars>>

PubkeysInit ==
  /\ Init
  /\ msgPubkey \in AnyInputs \cup {None}
  /\ aminoPubkey = None
  /\ backPubkey = None

PubkeysNext ==
  \/ EncodeBech32Pubkey /\ UNCHANGED cvVars
  \/ DecodeBech32Pubkey /\ UNCHANGED cvVars
  \/ ToAmino
  \/ FromAmino

PubkeysSpec == PubkeysInit /\ [][PubkeysNext]_pubkeysVars

-----------------------------------------------------------------------------
(* fromAmino never hands back a validator key other than the one toAmino  *)
(* was given: for a key that is not secp256k1 it throws rather than       *)
(* returning the bytes relabelled as secp256k1.  It is the decoder's      *)
(* length check that rejects an ed25519 key under the secp256k1 prefix.   *)
FromAminoNeverAltersKey ==
  backPubkey # None /\ backPubkey.ok => backPubkey.value = msgPubkey

(* The converter round-trip law (spec section 3, AminoConverter): when    *)
(* toAmino succeeds, fromAmino reconstructs the message's pubkey.          *)
CreateValidatorRoundTrip ==
  aminoPubkey # None /\ aminoPubkey.ok /\ backPubkey # None => backPubkey = Ok(msgPubkey)
=============================================================================
