------------------------------- MODULE Money -------------------------------
(***************************************************************************)
(* The decimal arithmetic of operations/betting.py on integers.            *)
(*                                                                         *)
(* Amounts of money are whole cents (models.py: MONEY = NUMERIC(12,2)),    *)
(* prices are thousandths (ODDS = NUMERIC(8,3)), and a stake arrives from  *)
(* the caller in tenths of a cent, one digit finer than the column keeps,  *)
(* so that rounding can be observed.  Decimal.quantize rounds half to      *)
(* even, the default of Python's decimal context.                          *)
(***************************************************************************)
EXTENDS Integers

\* The integer nearest to n / d; of two equally near ones the even one.
HalfEven(n, d) ==
  LET q == n \div d
      r == n % d
  IN  IF 2 * r < d \/ (2 * r = d /\ q % 2 = 0) THEN q ELSE q + 1

\* Decimal(stake).quantize(Decimal("0.01")): tenths of a cent to cents.
Quantized(tenths) == HalfEven(tenths, 10)

\* (amount_staked * price).quantize(Decimal("0.01")): cents times thousandths.
Payout(cents, price) == HalfEven(cents * price, 1000)
=============================================================================
