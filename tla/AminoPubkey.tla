----------------------------- MODULE AminoPubkey -----------------------------
(***************************************************************************)
(* The binary Amino encoding of public keys in @cosmjs/amino              *)
(* (packages/amino/src/encoding.ts): encodeSecp256k1Pubkey,               *)
(* encodeAminoPubkey (recursive over multisig keys), decodeAminoPubkey,    *)
(* and the bech32 wrappers, checked against a reference decoder of the    *)
(* Amino format with full multi-byte uvarints.                             *)
(*                                                                         *)
(* Bytes are numbers and byte arrays are sequences of them.  base64 and   *)
(* bech32 are modelled as the tagged wrappings they are: the one is       *)
(* undone by fromBase64, the other by Bech32.decode, which drops the      *)
(* prefix.  A call either returns a value or throws an error tag.          *)
(***************************************************************************)
EXTENDS Naturals, Sequences, SequencesExt

CONSTANTS
    Inputs,     \* the pubkeys a caller encodes (defined in the MC module)
    Bech32Prefixes,   \* bech32 prefixes a caller may use
    None        \* nothing computed yet

VARIABLES
    pubkey,     \* the input
    encoded,    \* result of encodeBech32Pubkey(pubkey, prefix)
    decoded     \* result of decodeBech32Pubkey on the encoded string

vars == <<pubkey, encoded, decoded>>

-----------------------------------------------------------------------------
(* pubkeyType and the pubkey shapes of packages/amino/src/pubkeys.ts.      *)
Secp256k1 == "tendermint/PubKeySecp256k1"
Ed25519 == "tendermint/PubKeyEd25519"
Sr25519 == "tendermint/PubKeySr25519"
Multisig == "tendermint/PubKeyMultisigThreshold"

ToBase64(bytes) == [base64 |-> bytes]
FromBase64(s) == s.base64

SingleKey(type, bytes) == [type |-> type, value |-> ToBase64(bytes)]
MultisigKey(threshold, keys) ==
  [type |-> Multisig, value |-> [threshold |-> threshold, pubkeys |-> keys]]

Ok(v) == [ok |-> TRUE, value |-> v]
Fail(e) == [ok |-> FALSE, error |-> e]

(* encodeSecp256k1Pubkey: only 33-byte compressed keys.                    *)
EncodeSecp256k1Pubkey(bytes) ==
  IF Len(bytes) # 33 \/ bytes[1] \notin {2, 3}
  THEN Fail("notCompressedSecp256k1")
  ELSE Ok(SingleKey(Secp256k1, bytes))

(* The four Amino prefixes (hex eb5ae98721, 1624de6420, 0dfb100520,       *)
(* 22c1f7e2).                                                              *)
PrefixSecp256k1 == <<235, 90, 233, 135, 33>>
PrefixEd25519 == <<22, 36, 222, 100, 32>>
PrefixSr25519 == <<13, 251, 16, 5, 32>>
PrefixMultisig == <<34, 193, 247, 226>>

(* Mutants of encodeUvarint: without its > 127 guard; >= for >.           *)
EncodeUvarintUnchecked(value) == Ok(<<value>>)

EncodeUvarintOffByOne(value) == IF value >= 127 THEN Fail("varintTooLarge") ELSE Ok(<<value>>)

(* encodeUvarint: a single byte, or an error above 127.                    *)
EncodeUvarint(value) == IF value > 127 THEN Fail("varintTooLarge") ELSE Ok(<<value>>)

(* The first failed result of a sequence of results, if any.               *)
FirstFailure(results) == SelectInSeq(results, LAMBDA r : ~r.ok)

RECURSIVE EncodeAminoPubkey(_), EncodeMultisig(_), EncodeMultisigNoTag(_)

(* Mutant: nested keys written without their 0x12 tag.                     *)
EncodeMultisigNoTag(pk) ==
  LET t == EncodeUvarint(pk.value.threshold)
      parts == [i \in DOMAIN pk.value.pubkeys |-> EncodeAminoPubkey(pk.value.pubkeys[i])]
      lens == [i \in DOMAIN parts |-> EncodeUvarint(Len(parts[i].value))]
  IN IF ~t.ok THEN t
     ELSE IF FirstFailure(parts) # 0 THEN parts[FirstFailure(parts)]
     ELSE IF FirstFailure(lens) # 0 THEN lens[FirstFailure(lens)]
     ELSE Ok(PrefixMultisig \o <<8>> \o t.value
             \o FlattenSeq([i \in DOMAIN parts |-> lens[i].value \o parts[i].value]))

(* The multisig branch: prefix, 0x08, the threshold, then for every       *)
(* nested key (all encoded first) 0x12, its length and its bytes.          *)
EncodeMultisig(pk) ==
  LET t == EncodeUvarint(pk.value.threshold)
      parts == [i \in DOMAIN pk.value.pubkeys |-> EncodeAminoPubkey(pk.value.pubkeys[i])]
      lens == [i \in DOMAIN parts |-> EncodeUvarint(Len(parts[i].value))]
  IN IF ~t.ok THEN t
     ELSE IF FirstFailure(parts) # 0 THEN parts[FirstFailure(parts)]
     ELSE IF FirstFailure(lens) # 0 THEN lens[FirstFailure(lens)]
     ELSE Ok(PrefixMultisig \o <<8>> \o t.value
             \o FlattenSeq([i \in DOMAIN parts |-> <<18>> \o lens[i].value \o parts[i].value]))

(* encodeAminoPubkey.                                                      *)
EncodeAminoPubkey(pk) ==
  CASE pk.type = Multisig -> EncodeMultisig(pk)
    [] pk.type = Ed25519 -> Ok(PrefixEd25519 \o FromBase64(pk.value))
    [] pk.type = Secp256k1 -> Ok(PrefixSecp256k1 \o FromBase64(pk.value))
    [] OTHER -> Fail("unsupportedPubkeyType")

(* arrayContentStartsWith (@cosmjs/utils): a is at least as long as b and *)
(* agrees with it on b's elements.                                         *)
ArrayContentStartsWith(a, b) ==
  /\ Len(a) >= Len(b)
  /\ \A i \in 1..Len(b) : a[i] = b[i]

(* Mutant: the decoder without its payload length checks.                 *)
DecodeNoLengthCheck(data) ==
  LET Rest(prefix) == SubSeq(data, Len(prefix) + 1, Len(data))
  IN CASE ArrayContentStartsWith(data, PrefixSecp256k1) -> Ok(SingleKey(Secp256k1, Rest(PrefixSecp256k1)))
       [] ArrayContentStartsWith(data, PrefixEd25519) -> Ok(SingleKey(Ed25519, Rest(PrefixEd25519)))
       [] ArrayContentStartsWith(data, PrefixSr25519) -> Ok(SingleKey(Sr25519, Rest(PrefixSr25519)))
       [] OTHER -> Fail("unsupportedPubkeyType")

(* decodeAminoPubkey: one of the three single-key prefixes and a payload  *)
(* of exactly the key's length.                                            *)
DecodeAminoPubkey(data) ==
  LET Rest(prefix) == SubSeq(data, Len(prefix) + 1, Len(data))
      Single(prefix, len, type) ==
        IF Len(Rest(prefix)) # len THEN Fail("invalidRestLength")
        ELSE Ok(SingleKey(type, Rest(prefix)))
  IN CASE ArrayContentStartsWith(data, PrefixSecp256k1) -> Single(PrefixSecp256k1, 33, Secp256k1)
       [] ArrayContentStartsWith(data, PrefixEd25519) -> Single(PrefixEd25519, 32, Ed25519)
       [] ArrayContentStartsWith(data, PrefixSr25519) -> Single(PrefixSr25519, 32, Sr25519)
       [] OTHER -> Fail("unsupportedPubkeyType")

(* Bech32.encode / Bech32.decode: the prefix travels with the data.        *)
Bech32Encode(prefix, data) == [prefix |-> prefix, data |-> data]
Bech32Decode(s) == s.data

-----------------------------------------------------------------------------
Init ==
  /\ pubkey \in Inputs
  /\ encoded = None
  /\ decoded = None

(* encodeBech32Pubkey(pubkey, prefix).                                     *)
EncodeBech32Pubkey ==
  /\ encoded = None
  /\ \E prefix \in Bech32Prefixes :
       encoded' = LET r == EncodeAminoPubkey(pubkey)
                  IN IF r.ok THEN Ok(Bech32Encode(prefix, r.value)) ELSE r
  /\ UNCHANGED <<pubkey, decoded>>

(* decodeBech32Pubkey of what was encoded.                                 *)
DecodeBech32Pubkey ==
  /\ encoded # None /\ encoded.ok /\ decoded = None
  /\ decoded' = DecodeAminoPubkey(Bech32Decode(encoded.value))
  /\ UNCHANGED <<pubkey, encoded>>

Next == EncodeBech32Pubkey \/ DecodeBech32Pubkey

Spec == Init /\ [][Next]_vars

-----------------------------------------------------------------------------
(* Reference: Amino binary as Tendermint reads it, uvarints of any length. *)
RECURSIVE RefUvarint(_, _)
RefUvarint(b, i) ==
  IF i > Len(b) THEN [value |-> 0, next |-> 0]
  ELSE IF b[i] < 128 THEN [value |-> b[i], next |-> i + 1]
  ELSE LET r == RefUvarint(b, i + 1)
       IN [value |-> (b[i] - 128) + 128 * r.value, next |-> r.next]

RECURSIVE RefDecode(_), RefKeys(_, _)
(* The repeated field 2 (tag 0x12) of a multisig from index i to the end. *)
RefKeys(b, i) ==
  IF i = Len(b) + 1 THEN Ok(<<>>)
  ELSE IF b[i] # 18 THEN Fail("ref")
  ELSE LET l == RefUvarint(b, i + 1)
           last == l.next + l.value - 1
       IN IF l.next = 0 \/ last > Len(b) THEN Fail("ref")
          ELSE LET k == RefDecode(SubSeq(b, l.next, last))
                   rest == RefKeys(b, last + 1)
               IN IF k.ok /\ rest.ok THEN Ok(<<k.value>> \o rest.value) ELSE Fail("ref")

RefDecode(b) ==
  LET Single(prefix, len, type) ==
        IF Len(b) - Len(prefix) = len
        THEN Ok(SingleKey(type, SubSeq(b, Len(prefix) + 1, Len(b)))) ELSE Fail("ref")
      p == Len(PrefixMultisig) + 1
  IN CASE IsPrefix(PrefixMultisig, b) ->
            IF p > Len(b) \/ b[p] # 8 THEN Fail("ref")
            ELSE LET t == RefUvarint(b, p + 1)
                     ks == IF t.next = 0 THEN Fail("ref") ELSE RefKeys(b, t.next)
                 IN IF ks.ok THEN Ok(MultisigKey(t.value, ks.value)) ELSE Fail("ref")
       [] IsPrefix(PrefixSecp256k1, b) -> Single(PrefixSecp256k1, 33, Secp256k1)
       [] IsPrefix(PrefixEd25519, b) -> Single(PrefixEd25519, 32, Ed25519)
       [] IsPrefix(PrefixSr25519, b) -> Single(PrefixSr25519, 32, Sr25519)
       [] OTHER -> Fail("ref")

(* Bytes a uvarint of v takes, and the reference length of an encoding.   *)
RECURSIVE VarLen(_)
VarLen(v) == IF v < 128 THEN 1 ELSE 1 + VarLen(v \div 128)

RECURSIVE RefLen(_)
RefLen(pk) ==
  IF pk.type = Multisig
  THEN Len(PrefixMultisig) + 1 + VarLen(pk.value.threshold)
       + FoldLeft(LAMBDA acc, k : acc + 1 + VarLen(RefLen(k)) + RefLen(k), 0, pk.value.pubkeys)
  ELSE 5 + Len(FromBase64(pk.value))

(* Keys of the length their type has, all the way down.                    *)
RECURSIVE WellFormed(_)
WellFormed(pk) ==
  CASE pk.type = Multisig -> \A i \in DOMAIN pk.value.pubkeys : WellFormed(pk.value.pubkeys[i])
    [] pk.type = Secp256k1 -> Len(FromBase64(pk.value)) = 33
    [] OTHER -> Len(FromBase64(pk.value)) = 32

(* What the encoder can write: supported types, every threshold and every *)
(* nested encoding's length within one uvarint byte.                       *)
RECURSIVE Encodable(_)
Encodable(pk) ==
  CASE pk.type = Multisig ->
         /\ pk.value.threshold <= 127
         /\ \A i \in DOMAIN pk.value.pubkeys :
              Encodable(pk.value.pubkeys[i]) /\ RefLen(pk.value.pubkeys[i]) <= 127
    [] OTHER -> pk.type \in {Secp256k1, Ed25519}

(* What spec section 4.1 says can be encoded: thresholds up to 127 and    *)
(* any single-key variant (secp256k1, ed25519, sr25519).                   *)
RECURSIVE SpecEncodable(_)
SpecEncodable(pk) ==
  CASE pk.type = Multisig ->
         /\ pk.value.threshold <= 127
         /\ \A i \in DOMAIN pk.value.pubkeys : SpecEncodable(pk.value.pubkeys[i])
    [] OTHER -> pk.type \in {Secp256k1, Ed25519, Sr25519}

-----------------------------------------------------------------------------
TypeOK ==
  /\ pubkey \in Inputs
  /\ encoded = None \/ ~encoded.ok \/ encoded.value.data \in Seq(0..255)
  /\ decoded = None \/ ~decoded.ok \/ decoded.value.type \in {Secp256k1, Ed25519, Sr25519}

(* encodeAminoPubkey writes exactly the Amino binary of the key: the      *)
(* reference decoder, with full uvarints, reads every well-formed key,    *)
(* multisig trees included, back from what the encoder wrote.              *)
EncodeMatchesReference ==
  encoded # None /\ encoded.ok /\ WellFormed(pubkey) =>
    RefDecode(encoded.value.data) = Ok(pubkey)

(* encodeAminoPubkey throws exactly when a threshold, or the encoding of  *)
(* a nested key, does not fit one uvarint byte, or a key has a type it    *)
(* does not support; it never writes a byte string otherwise.              *)
EncodeFailsExactly == encoded # None => (encoded.ok <=> Encodable(pubkey))

(* decodeBech32Pubkey(encodeBech32Pubkey(k)) gives k back exactly for the *)
(* well-formed single keys, and throws for multisig and misfit lengths.   *)
DecodeInvertsEncode ==
  decoded # None =>
    (decoded = Ok(pubkey) <=> pubkey.type # Multisig /\ WellFormed(pubkey))

(* Spec section 4.1: encoding fails only for a threshold above 127 or a   *)
(* variant outside secp256k1, ed25519, sr25519 and multisig.               *)
SpecEncodeLimits == encoded # None => (encoded.ok <=> SpecEncodable(pubkey))
=============================================================================
