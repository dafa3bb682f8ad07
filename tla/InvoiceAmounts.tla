--------------------------- MODULE InvoiceAmounts ---------------------------
(***************************************************************************)
(* The amounts of an invoice (InvoicesService).  create multiplies and     *)
(* adds exactly, with the rate as it was sent, and every value is rounded  *)
(* on its own when it is stored: an amount as a Decimal(12, 2), the rate   *)
(* as a Decimal(5, 2).  What is stored need not add up to the cent.        *)
(* update changes the tax rate and leaves the amounts as they are.         *)
(*                                                                         *)
(* A price is counted in quarters of a cent, a rate that is sent in        *)
(* thousandths of a percent, a stored one in hundredths; quantities are    *)
(* whole.  A value too large for its column fails the query.  The other    *)
(* fields are left out.                                                    *)
(***************************************************************************)
EXTENDS Integers, SequencesExt

CONSTANTS
    Quantities, Prices,  \* of an item
    Rates,               \* of the tax, in thousandths of a percent
    MaxItems,            \* bound: items of an invoice
    None                 \* no invoice yet

VARIABLES
    invoice,
    repriced  \* only observes: the rate was changed after the invoice was made

vars == <<invoice, repriced>>

InvoiceStatus == {"DRAFT", "ISSUED", "SENT", "PARTIALLY_PAID", "PAID", "OVERDUE", "CANCELLED"}

TypeOK ==
    /\ invoice = None \/ invoice \in [items: Seq(Nat), rate: Nat, subtotal: Nat, taxAmount: Nat,
                                      total: Nat, status: InvoiceStatus, isActive: BOOLEAN]
    /\ repriced \in BOOLEAN

Init == invoice = None /\ repriced = FALSE

-----------------------------------------------------------------------------
Item == [quantity: Quantities, unitPrice: Prices]

\* Faulty: a fraction of a cent is lost.
truncated(x, cent) == x \div cent

\* Half a cent is rounded up; no amount is negative.
stored(x, cent) == (2 * x + cent) \div (2 * cent)

\* All of it, in the unit of a rate that is sent.
whole == 100000

\* In quarters of a cent, and with the tax in fractions of them.
amount(item) == item.quantity * item.unitPrice

\* reduce: the amounts of a list, added up in its order.
added(amounts) ==
    LET upTo[n \in 0 .. Len(amounts)] == IF n = 0 THEN 0 ELSE upTo[n - 1] + amounts[n]
    IN  upTo[Len(amounts)]
sum(items) == added([n \in DOMAIN items |-> amount(items[n])])
tax(items, rate) == sum(items) * rate

gross(items, rate) == whole * sum(items) + tax(items, rate)

create(items, rate) ==
    /\ invoice = None
    /\ invoice' = [items |-> [n \in DOMAIN items |-> stored(amount(items[n]), 4)],
                   rate |-> stored(rate, 10), subtotal |-> stored(sum(items), 4),
                   taxAmount |-> stored(tax(items, rate), 4 * whole),
                   total |-> stored(gross(items, rate), 4 * whole),
                   status |-> "DRAFT", isActive |-> TRUE]
    /\ UNCHANGED repriced

\* Any status may be set at any time, also to an invoice that was removed.
update ==
    /\ invoice # None
    /\ \/ \E rate \in Rates : invoice' = [invoice EXCEPT !.rate = stored(rate, 10)] /\ repriced' = TRUE
       \/ \E status \in InvoiceStatus : invoice' = [invoice EXCEPT !.status = status] /\ UNCHANGED repriced

\* A removed invoice keeps its row, and its number.
remove ==
    /\ invoice # None
    /\ invoice' = [invoice EXCEPT !.isActive = FALSE, !.status = "CANCELLED"]
    /\ UNCHANGED repriced

Next ==
    \/ \E items \in BoundedSeq(Item, MaxItems), rate \in Rates : items # <<>> /\ create(items, rate)
    \/ update \/ remove

-----------------------------------------------------------------------------
(* Properties *)

distance(x, y) == IF x > y THEN x - y ELSE y - x
itemsTotal == added(invoice.items)

\* What is printed adds up as far as rounding lets it: the total is at most a
\* cent off, and the items at most half a cent each and one for their sum.
AmountsAddUp ==
    invoice # None =>
        /\ distance(invoice.total, invoice.subtotal + invoice.taxAmount) <= 1
        /\ 2 * distance(invoice.subtotal, itemsTotal) <= Len(invoice.items) + 1

\* The tax is the one of the subtotal and the rate beside it, as far as rounding
\* the three of them lets it: half a cent for the tax, half a hundredth of a
\* percent of the subtotal and half a cent's tax.  It is until the rate is
\* changed: then the invoice goes on showing the tax of the old one.
TaxFollowsRate ==
    invoice # None /\ ~repriced =>
        2 * distance(10000 * invoice.taxAmount, invoice.subtotal * invoice.rate)
            <= 10000 + invoice.subtotal + invoice.rate
=============================================================================
