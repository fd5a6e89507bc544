---------------------------- MODULE MCAminoPubkey ----------------------------
(* Single keys of every type (and a secp256k1 key of the wrong length),   *)
(* multisigs of up to four keys with thresholds around the 127 limit, and *)
(* multisigs nesting one of those: the nested encoding of four keys is    *)
(* the first that does not fit one length byte.  MsgCreateValidator      *)
(* carries a secp256k1 or an ed25519 key, or none.                         *)
EXTENDS CreateValidatorPubkey

SecpBytes == <<2>> \o [i \in 1..32 |-> 7]
EdBytes == [i \in 1..32 |-> 9]

Secp == EncodeSecp256k1Pubkey(SecpBytes).value
Ed == SingleKey(Ed25519, EdBytes)
Sr == SingleKey(Sr25519, EdBytes)
ShortSecp == SingleKey(Secp256k1, EdBytes)

Level1 == { MultisigKey(t, ks) : t \in {1, 127, 128, 300}, ks \in BoundedSeq({Secp, Ed}, 4) }
Level2 == { MultisigKey(2, ks \o <<m>>) : ks \in {<<>>, <<Secp>>}, m \in Level1 }

MCInputs == {Secp, Ed, Sr, ShortSecp} \cup Level1 \cup Level2
MCInputsSingle == {Secp, Ed, Sr}

(* Validator keys as MsgCreateValidator carries them: the raw key bytes   *)
(* under the typeUrl of their type.                                        *)
SecpAny == [typeUrl |-> SecpTypeUrl, value |-> SecpBytes]
EdAny == [typeUrl |-> "/cosmos.crypto.ed25519.PubKey", value |-> EdBytes]

MCAnyInputsAll == {SecpAny, EdAny}
=============================================================================
