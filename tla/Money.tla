------------------------------- MODULE Money -------------------------------
(***************************************************************************)
(* The arithmetic of a price (commerce_runtime.py).  Amounts are cents, the *)
(* value of a percentage discount is in hundredths of a percent, a tax rate *)
(* in ten-thousandths: what the decimal columns hold.                      *)
(***************************************************************************)
EXTENDS Integers

Whole == 10000  \* 100 %, and a tax rate of 1

\* quantize_money: n/Whole to the nearest cent, halves up (n is not negative).
HalfUp(n) == (2 * n + Whole) \div (2 * Whole)

NotBelowZero(n) == IF n > 0 THEN n ELSE 0

NoCode == [type |-> "none", value |-> 0]

(* Mutant: the discount is rounded to ten cents. *)
OffGoods_TenCents(subtotal, code) ==
  CASE code.type = "percentage" -> 10 * HalfUp((subtotal * code.value) \div 10)
    [] code.type = "fixed" -> IF code.value < subtotal THEN code.value ELSE subtotal
    [] OTHER -> 0

(* What a discount takes off the goods. *)
OffGoods(subtotal, code) ==
  CASE code.type = "percentage" -> HalfUp(subtotal * code.value)
    [] code.type = "fixed" -> IF code.value < subtotal THEN code.value ELSE subtotal
    [] OTHER -> 0

(* What it takes off the shipping. *)
OffShipping(price, code) ==
  IF code.type = "free_shipping" THEN NotBelowZero(price) ELSE 0

TaxOn(base, rate) == HalfUp(base * rate)

(* calculate_cart_pricing, once the shipping price, the discount and the tax *)
(* rate are found.                                                          *)
Charge(subtotal, price, code, rate) ==
  LET off      == OffGoods(subtotal, code)
      waived   == OffShipping(price, code)
      shipping == NotBelowZero(price - waived)
      taxable  == NotBelowZero(subtotal - off)
      tax      == TaxOn(taxable + shipping, rate)
  IN [subtotal |-> subtotal, shipping |-> shipping, tax |-> tax,
      discount |-> off + waived, total |-> NotBelowZero(taxable + shipping + tax)]
=============================================================================
