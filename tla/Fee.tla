--------------------------------- MODULE Fee ---------------------------------
(***************************************************************************)
(* GasPrice.fromString and calculateFee (packages/stargate/src/fee.ts).   *)
(*                                                                         *)
(* A gas price is a Decimal with FractionalDigits fractional digits (18   *)
(* in the code), held as its integer atomics.  calculateFee multiplies it *)
(* exactly by the gas limit (a Uint53), converts the product to a double  *)
(* with toFloatApproximation, and takes Math.ceil of that.  A double is   *)
(* m * 2^e with an m of MantissaBits bits (53), the conversion rounding   *)
(* to the nearest one, ties to even; the same width bounds Uint53.  The   *)
(* model keeps both widths as parameters and checks them scaled down.     *)
(*                                                                         *)
(* A price string that matched the regular expression is a record of its  *)
(* whole part, its fractional digits and the length of its denom; one     *)
(* that did not is Unmatched.  Formatting of the result is left out.      *)
(***************************************************************************)
EXTENDS Integers, Sequences, SequencesExt

CONSTANTS
    FractionalDigits,  \* fractionalDigits of GasPrice.fromString (18)
    MantissaBits,      \* significand bits of a double (53), also Uint53's width
    PriceStrings,      \* gas price strings the caller may pass
    GasLimits,         \* gas limits the caller may pass
    Unmatched,         \* a string the gas price regexp does not match
    None

VARIABLES
    gasLimit,  \* the gasLimit argument
    gasPrice,  \* the gasPrice argument, a string
    fee        \* None, or what calculateFee returned or threw

vars == <<gasLimit, gasPrice, fee>>

Ok(v) == [ok |-> TRUE, value |-> v]
Fail(reason) == [ok |-> FALSE, value |-> reason]

-----------------------------------------------------------------------------
(* checkDenom: a denom of 3 to 128 characters.                            *)
CheckDenom(len) == 3 <= len /\ len <= 128

(* Decimal.fromUserInput(amount, FractionalDigits): at most that many     *)
(* fractional digits, read into integer atomics.                           *)
FromUserInput(whole, frac) ==
  IF Len(frac) > FractionalDigits
  THEN Fail("fractionalDigits")
  ELSE Ok(whole * 10^FractionalDigits
          + FoldLeft(LAMBDA acc, d : 10 * acc + d, 0, frac)
            * 10^(FractionalDigits - Len(frac)))

(* GasPrice.fromString: the regexp match, checkDenom, then the amount.    *)
FromString(s) ==
  CASE s = Unmatched -> Fail("Invalid gas price string")
    [] ~CheckDenom(s.denomLen) -> Fail("denomLength")
    [] OTHER -> FromUserInput(s.whole, s.frac)

(* new Uint53(gasLimit): a safe non-negative integer.                      *)
IsUint53(n) == 0 <= n /\ n <= 2^MantissaBits - 1

(* num/den as a fraction scaled by 2^-e, numerator and denominator kept   *)
(* integral.                                                               *)
Scaled(num, den, e) == IF e >= 0 THEN <<num, den * 2^e>> ELSE <<num * 2^(-e), den>>

(* The exponent e at which num/den/2^e has MantissaBits integer bits.     *)
RECURSIVE Exponent(_, _, _)
Exponent(num, den, e) ==
  LET q == Scaled(num, den, e)
  IN CASE q[1] >= 2^MantissaBits * q[2] -> Exponent(num, den, e + 1)
       [] q[1] < 2^(MantissaBits - 1) * q[2] -> Exponent(num, den, e - 1)
       [] OTHER -> e

(* Round num/den to an integer, ties to even.                              *)
RoundHalfEven(num, den) ==
  LET q == num \div den
      r == num % den
  IN IF 2 * r > den \/ (2 * r = den /\ q % 2 = 1) THEN q + 1 ELSE q

(* toFloatApproximation: Number(decimal.toString()), the double nearest   *)
(* to atomics / 10^FractionalDigits.                                       *)
ToFloatApproximation(atomics) ==
  LET den == 10^FractionalDigits
  IN IF atomics = 0 THEN [m |-> 0, e |-> 0]
     ELSE LET e == Exponent(atomics, den, 0)
              q == Scaled(atomics, den, e)
          IN [m |-> RoundHalfEven(q[1], q[2]), e |-> e]

(* Math.ceil of the double m * 2^e.                                        *)
Ceil(x) == IF x.e >= 0 THEN x.m * 2^x.e ELSE (x.m + 2^(-x.e) - 1) \div 2^(-x.e)

(* calculateFee: parse the price, Uint53 the limit, multiply exactly,     *)
(* convert to a double and round it up.                                    *)
CalculateFee(limit, price) ==
  LET p == FromString(price)
  IN CASE ~p.ok -> p
       [] ~IsUint53(limit) -> Fail("Uint53")
       [] OTHER -> Ok([amount |-> Ceil(ToFloatApproximation(p.value * limit)),
                       gas |-> limit])

-----------------------------------------------------------------------------
Init ==
  /\ gasLimit \in GasLimits
  /\ gasPrice \in PriceStrings
  /\ fee = None

Calculate ==
  /\ fee = None
  /\ fee' = CalculateFee(gasLimit, gasPrice)
  /\ UNCHANGED <<gasLimit, gasPrice>>

Spec == Init /\ [][Calculate]_vars

-----------------------------------------------------------------------------
(* The fee calculateFee returns pays for every unit of gas at the gas     *)
(* price: amount >= gasPrice * gasLimit, computed exactly.  The exact      *)
(* product goes through toFloatApproximation before Math.ceil.             *)
FeeCoversPrice ==
  fee # None /\ fee.ok =>
    fee.value.amount * 10^FractionalDigits >= FromString(gasPrice).value * gasLimit
=============================================================================
