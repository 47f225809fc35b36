-------------------------------- MODULE I257 ---------------------------------
(***************************************************************************)
(* The signed numbers that VmDB::basic adds lazy updates up in             *)
(* (crates/primitives/src/i257.rs): a magnitude below 2^256 and a sign, so *)
(* zero has two representations.  U256Max stands for 2^256 - 1.            *)
(***************************************************************************)
EXTENDS Integers

CONSTANT U256Max

ASSUME U256MaxAssumption == U256Max \in Nat

U256 == 0 .. U256Max

\* saturating_add and saturating_sub of U256
SaturatingAdd(x, y) == IF x + y > U256Max THEN U256Max ELSE x + y
SaturatingSub(x, y) == IF x < y THEN 0 ELSE x - y

Signed == [value : U256, is_negative : BOOLEAN]

new(v, neg) == [value |-> v, is_negative |-> neg]

From(v) == new(v, FALSE)

NEGATIVE_ZERO == new(0, TRUE)

add(x, y) ==
  IF x.is_negative = y.is_negative
  THEN new(SaturatingAdd(x.value, y.value), x.is_negative)
  ELSE IF x.value > y.value
  THEN new(x.value - y.value, x.is_negative)
  ELSE new(y.value - x.value, y.is_negative)

\* Variant: the sign of the result is not flipped when the subtrahend is larger.
subUnflipped(x, y) ==
  IF x.is_negative # y.is_negative
  THEN new(SaturatingAdd(x.value, y.value), x.is_negative)
  ELSE IF x.value > y.value
  THEN new(x.value - y.value, x.is_negative)
  ELSE new(y.value - x.value, x.is_negative)

sub(x, y) ==
  IF x.is_negative # y.is_negative
  THEN new(SaturatingAdd(x.value, y.value), x.is_negative)
  ELSE IF x.value > y.value
  THEN new(x.value - y.value, x.is_negative)
  ELSE new(y.value - x.value, ~x.is_negative)
=============================================================================
