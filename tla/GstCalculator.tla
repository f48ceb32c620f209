---------------------------- MODULE GstCalculator ----------------------------
(***************************************************************************)
(* The arithmetic of a document, in paise: its lines, their tax, the total  *)
(* in whole rupees, and the voucher that posts it.                          *)
(***************************************************************************)
EXTENDS Integers, Sequences, FiniteSetsExt, Functions

QtyUnit == 10     \* quantities are in tenths of a unit
Rupee == 100
FirstDown == 29   \* the first odd number of paise whose half, in binary, falls short of .5

(* Math.round of n / d: halves go up; negative numbers too.                  *)
Round(n, d) == (2 * n + d) \div (2 * d)

SumOver(s, F(_)) == SumFunctionOnSet([i \in DOMAIN s |-> F(s[i])], DOMAIN s)

(* The smaller half goes to SGST, or to CGST where the binary half falls short. *)
CgstOf(tax, short) == IF short /\ tax >= FirstDown THEN tax \div 2 ELSE (tax + 1) \div 2

(* Broken variant: the tax is taken on the amount before the discount. *)
LineOf_TaxOnGross(l, inter, short) ==
  LET gross == Round(l.qty * l.rate, QtyUnit)
      taxable == gross - Round(gross * l.disc, 100)
      tax == Round(gross * l.gst, 100)
      cgst == IF inter THEN 0 ELSE CgstOf(tax, short)
  IN [qty |-> l.qty, gst |-> l.gst, taxable |-> taxable, cgst |-> cgst,
      sgst |-> IF inter THEN 0 ELSE tax - cgst, igst |-> IF inter THEN tax ELSE 0,
      total |-> taxable + tax]

(* calculateInvoice, one line: every product is rounded to a paisa.           *)
LineOf(l, inter, short) ==
  LET gross == Round(l.qty * l.rate, QtyUnit)
      taxable == gross - Round(gross * l.disc, 100)
      tax == Round(taxable * l.gst, 100)
      cgst == IF inter THEN 0 ELSE CgstOf(tax, short)
  IN [qty |-> l.qty, gst |-> l.gst, taxable |-> taxable, cgst |-> cgst,
      sgst |-> IF inter THEN 0 ELSE tax - cgst, igst |-> IF inter THEN tax ELSE 0,
      total |-> taxable + tax]

(* The document: sums over its lines, charges that bear no tax, and the total in
   whole rupees. *)
Calculated(lines, extra) ==
  LET taxable == SumOver(lines, LAMBDA l : l.taxable)
      cgst == SumOver(lines, LAMBDA l : l.cgst)
      sgst == SumOver(lines, LAMBDA l : l.sgst)
      igst == SumOver(lines, LAMBDA l : l.igst)
      exact == taxable + cgst + sgst + igst + extra
      total == Rupee * Round(exact, Rupee)
  IN [taxable |-> taxable, cgst |-> cgst, sgst |-> sgst, igst |-> igst, extra |-> extra,
      roundOff |-> total - exact, total |-> total]

(* The preview of the entry form: nothing is rounded but the total.           *)
Preview(lines, extra) ==
  Rupee * Round(SumOver(lines, LAMBDA l : l.qty * l.rate * (100 - l.disc) * (100 + l.gst))
                  + extra * QtyUnit * 100 * 100,
                QtyUnit * 100 * 100 * Rupee)

(* Broken variant: CGST is posted twice, SGST not at all. *)
SalesVoucher_CgstTwice(d) ==
  [party |-> d.total, sales |-> - d.taxable,
   cgst |-> - d.cgst, sgst |-> - d.cgst, igst |-> - d.igst,
   freight |-> - d.extra, rounding |-> - d.roundOff]

(* buildSalesVoucherLines: debits positive, credits negative.                 *)
SalesVoucher(d) ==
  [party |-> d.total, sales |-> - d.taxable,
   cgst |-> IF d.cgst > 0 THEN - d.cgst ELSE 0,
   sgst |-> IF d.cgst > 0 THEN - d.sgst ELSE 0,
   igst |-> IF d.igst > 0 THEN - d.igst ELSE 0,
   freight |-> - d.extra, rounding |-> - d.roundOff]

(* validateVoucherInput: the two sides are equal, and not nothing.            *)
Balanced(v) == SumFunctionOnSet(v, DOMAIN v) = 0
Something(v) == \E k \in DOMAIN v : v[k] > 0
=============================================================================
