-------------------------------- MODULE Digits --------------------------------
(***************************************************************************)
(* Numbers in a fixed count of digits, the high one first: what            *)
(* PCCBitstream::write and read do bit by bit, and the conversions of the  *)
(* video byte streams byte by byte.                                        *)
(***************************************************************************)
EXTENDS Integers, Sequences

Power(b, n) == LET power[k \in 0 .. n] == IF k = 0 THEN 1 ELSE b * power[k - 1] IN power[n]

(* the k-th of n digits: what does not fit into them is cut off *)
Digit(v, b, n, k) == (v \div Power(b, n - k)) % b

(* mutant: the last digit is the high one *)
Number_LowFirst(digits, b) ==
  LET n == Len(digits)
      value[k \in 0 .. n] == IF k = 0 THEN 0 ELSE value[k - 1] * b + digits[n + 1 - k] IN value[n]

Number(digits, b) ==
  LET value[k \in 0 .. Len(digits)] == IF k = 0 THEN 0 ELSE value[k - 1] * b + digits[k] IN value[Len(digits)]
=============================================================================
