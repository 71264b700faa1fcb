---------------------------- MODULE Depreciation ----------------------------
(* The money of a hardware asset, year by year: inventory-api's money.ts and  *)
(* schedule.ts. Pure: a price, a purchase year, a rule and a disposal in,     *)
(* whole cents out. A schedule is the sequence of its entries, one a year: a  *)
(* year and what is written off in it; other years write nothing off. The     *)
(* RangeErrors of schedule.ts are left out: they guard years at or before an  *)
(* anchor, which its callers read from the stored figures.                    *)
EXTENDS Integers, Sequences, FiniteSetsExt

\* "No such thing": no anchor, no threshold, no disposal, no stored row.
CONSTANT None

RoundHalfUp(n, d) == LET r == n % d
                     IN  (n \div d) + (IF r >= d - r THEN 1 ELSE 0)

\* The units of one purchase: the last takes the cents left over.
SplitPrice(total, n) ==
    [i \in 1..n |-> (total \div n) + (IF i = n THEN total % n ELSE 0)]

\* Faulty variant: the last year takes the yearly amount like the others.
LastYearTakesNoMore(remaining, amount) == Min({remaining, amount})

LastYearTakes(remaining, amount) == remaining

\* `total` over `years` years from `firstYear`: `first` in the first of them and
\* `each` in the others, never more than what remains.
Spread(total, firstYear, years, first, each) ==
    LET upTo[i \in 0..years] ==
            IF i = 0
            THEN [spent |-> 0, entries |-> <<>>]
            ELSE LET before == upTo[i - 1]
                     remaining == total - before.spent
                     nominal == IF i = 1 THEN first ELSE each
                     amount == IF i = years THEN LastYearTakes(remaining, nominal)
                               ELSE Min({remaining, nominal})
                 IN  [spent |-> before.spent + amount,
                      entries |-> Append(before.entries,
                          [year |-> firstYear + i - 1, depreciation |-> amount])]
    IN  upTo[years].entries

NoSchedule == <<>>

ScheduleYears(rule) == rule.life + (IF rule.half THEN 1 ELSE 0)

\* What an anchored asset, worth anchor.value at the end of anchor.year, has left.
AnchoredSchedule(purchaseYear, rule, anchor) ==
    LET k == ScheduleYears(rule) - (anchor.year - purchaseYear + 1)
        span == anchor.value - rule.residual
        each == RoundHalfUp(span, k)
    IN  IF k <= 0 \/ span <= 0
        THEN NoSchedule
        ELSE Spread(span, anchor.year + 1, k, each, each)

LowValue(price, rule) == rule.threshold # None /\ price <= rule.threshold

PurchaseSchedule(price, purchaseYear, rule) ==
    LET depreciable == price - rule.residual
        full == RoundHalfUp(depreciable, rule.life)
        first == IF rule.half THEN RoundHalfUp(depreciable, 2 * rule.life) ELSE full
    IN  IF depreciable <= 0
        THEN NoSchedule
        ELSE IF LowValue(price, rule)
             THEN <<[year |-> purchaseYear, depreciation |-> depreciable]>>
             ELSE Spread(depreciable, purchaseYear, ScheduleYears(rule), first, full)

Schedule(x) == IF x.anchor # None
               THEN AnchoredSchedule(x.purchaseYear, x.rule, x.anchor)
               ELSE PurchaseSchedule(x.price, x.purchaseYear, x.rule)

Zero == [opening |-> 0, purchase |-> 0, depreciation |-> 0, disposal |-> 0,
         closing |-> 0]

Figure(opening, purchase, depreciation, disposal) ==
    [opening |-> opening, purchase |-> purchase, depreciation |-> depreciation,
     disposal |-> disposal, closing |-> opening + purchase - depreciation - disposal]

\* Book value at the end of year y on a schedule, whatever the disposal.
BookEnd(x, schedule, y) ==
    LET spent[i \in 0..Len(schedule)] ==
            IF i = 0
            THEN 0
            ELSE LET entry == schedule[i]
                 IN  spent[i - 1] + (IF entry.year <= y THEN entry.depreciation ELSE 0)
    IN  (IF x.anchor # None THEN x.anchor.value ELSE x.price) - spent[Len(schedule)]

\* What a schedule writes off in year y.
WrittenOff(schedule, y) ==
    LET entries == {i \in DOMAIN schedule : schedule[i].year = y}
    IN  IF entries = {} THEN 0 ELSE schedule[Min(entries)].depreciation

\* The figures of asset x in year y (y after the anchor, if there is one).
\* x: [price, purchaseYear, rule, anchor, disposalYear].
YearFigure(x, y) ==
    LET schedule == Schedule(x)
        bought == x.anchor = None /\ y = x.purchaseYear
        opening == IF bought THEN 0 ELSE BookEnd(x, schedule, y - 1)
        purchase == IF bought THEN x.price ELSE 0
    IN  IF y < x.purchaseYear \/ (x.disposalYear # None /\ y > x.disposalYear)
        THEN Zero
        ELSE IF y = x.disposalYear
             THEN Figure(opening, purchase, 0, opening + purchase)
             ELSE Figure(opening, purchase, WrittenOff(schedule, y), 0)
=============================================================================
