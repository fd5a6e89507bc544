--------------------------------- MODULE MCFee --------------------------------
(* Two fractional digits and 8-bit doubles (Uint8 limits): prices around  *)
(* one unit of the fee token, limits on both sides of a power of two and  *)
(* of the Uint bound, denoms at both length limits, and a string with too *)
(* many fractional digits.                                                 *)
EXTENDS Fee

MCPriceStrings ==
  {Unmatched} \cup
  { [whole |-> w, frac |-> f, denomLen |-> l] :
      w \in {0, 1}, f \in {<<>>, <<5>>, <<0, 1>>, <<2, 5>>, <<0, 0, 1>>}, l \in {2, 3, 128, 129} }

MCGasLimits == {-1, 0, 100, 200, 255, 256}

(* Reference for ToFloatApproximation: of all doubles m * 2^e with an     *)
(* m of MantissaBits bits and e in -K..K, the ones nearest to x, and of    *)
(* two at the same distance the one with an even m.  Distances are taken  *)
(* scaled by 10^FractionalDigits * 2^K so that they are integers.          *)
K == 8
Doubles == [m : 2^(MantissaBits - 1)..2^MantissaBits - 1, e : -K..K]
RefDist(atomics, v) ==
  LET d == atomics * 2^K - 10^FractionalDigits * v.m * 2^(v.e + K)
  IN IF d < 0 THEN -d ELSE d
RefNearest(atomics) ==
  LET best == {v \in Doubles : \A w \in Doubles : RefDist(atomics, v) <= RefDist(atomics, w)}
  IN CHOOSE v \in best : v.m % 2 = 0 \/ best = {v}
DoubleValue(v) == v.m * 2^(v.e + K)    \* scaled by 2^K

Products ==
  { FromString(s).value * l : s \in {t \in MCPriceStrings : FromString(t).ok},
                             l \in {n \in MCGasLimits : IsUint53(n)} } \ {0}

ASSUME \A n \in Products :
         DoubleValue(ToFloatApproximation(n)) = DoubleValue(RefNearest(n))
=============================================================================
