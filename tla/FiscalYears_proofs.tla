------------------------- MODULE FiscalYears_proofs -------------------------
(***************************************************************************)
(* Proofs about Depreciation and FiscalYears, for any assets, requests,    *)
(* rules, sheets and number of years: an asset is written down along its   *)
(* rule, what a closed year amounts to never changes, what was stored for  *)
(* it is what the books still say, and the years reconcile.                *)
(*                                                                         *)
(* A recursive function is unfolded into the CHOOSE it stands for: a       *)
(* closed form satisfies its equation, so the chosen one does too, and     *)
(* where the two first differed the equation would contradict it (Least).  *)
(***************************************************************************)
EXTENDS FiscalYears, FiniteSetTheorems, WellFoundedInduction, TLAPS

(* Numbers *)

LEMMA Least ==
  ASSUME NEW T \in SUBSET Nat, T # {}
  PROVE  \E x \in T : \A y \in T : x <= y
  <1>1. PICK x \in T : \A y \in T : ~(<<y, x>> \in OpToRel(<, Nat))
    BY NatLessThanWellFounded, WFMin, Zenon
  <1>2. \A y \in T : ~(y < x)
    BY <1>1 DEF OpToRel
  <1> QED BY <1>2

LEMMA Greatest ==
  ASSUME NEW m \in Nat, NEW T \in SUBSET (0..m), T # {}
  PROVE  \E x \in T : \A y \in T : y <= x
  <1> DEFINE U == {m - x : x \in T}
  <1>1. U \in SUBSET Nat /\ U # {}
    <2>1. \A x \in T : m - x \in Nat
      OBVIOUS
    <2>2. U # {}
      OBVIOUS
    <2> QED BY <2>1, <2>2
  <1>2. PICK u \in U : \A v \in U : u <= v
    <2> HIDE DEF U
    <2> QED BY <1>1, Least
  <1>3. PICK x \in T : u = m - x
    OBVIOUS
  <1>4. \A y \in T : m - x <= m - y
    BY <1>2, <1>3
  <1> QED BY <1>4

LEMMA MinOfTwo ==
  ASSUME NEW i \in Int, NEW j \in Int
  PROVE  Min({i, j}) = IF i <= j THEN i ELSE j
  BY DEF Min

LEMMA MinOfNats ==
  ASSUME NEW S \in SUBSET Nat, S # {}
  PROVE  Min(S) \in S /\ \A i \in S : Min(S) <= i
  <1>1. \E i \in S : \A j \in S : i <= j
    BY Least
  <1> QED BY <1>1 DEF Min

LEMMA Rounded ==
  ASSUME NEW n \in Nat, NEW d \in Nat \ {0}
  PROVE  RoundHalfUp(n, d) \in Nat
  <1>1. n \div d \in Nat /\ n % d \in Nat
    OBVIOUS
  <1> QED BY <1>1 DEF RoundHalfUp

-----------------------------------------------------------------------------
(* What a schedule writes off *)

\* What is written off by the i-th of n years.
Line(total, n, first, each, i) ==
    IF i = 0 THEN 0 ELSE IF i = n THEN total ELSE Min({total, first + (i - 1) * each})

\* What the i-th year takes when `spent` has been written off before it.
Taken(total, n, first, each, i, spent) ==
    IF i = n THEN LastYearTakes(total - spent, IF i = 1 THEN first ELSE each)
    ELSE Min({total - spent, IF i = 1 THEN first ELSE each})

\* The entries of n years from a first one, given what is written off by each.
Entries(from, n, spent) ==
    [i \in 1..n |-> [year |-> from + i - 1, depreciation |-> spent[i] - spent[i - 1]]]

LEMMA Product ==
  ASSUME NEW i \in Nat, NEW e \in Nat
  PROVE  i * e \in Nat /\ (i + 1) * e = i * e + e
  OBVIOUS

LEMMA LineGrows ==
  ASSUME NEW total \in Nat, NEW n \in Nat \ {0}, NEW first \in Nat, NEW each \in Nat,
         NEW i \in 1..n
  PROVE  /\ Line(total, n, first, each, i) \in Nat
         /\ Line(total, n, first, each, i - 1) \in Nat
         /\ Line(total, n, first, each, i - 1) <= Line(total, n, first, each, i)
         /\ Line(total, n, first, each, i) <= total
         /\ Taken(total, n, first, each, i, Line(total, n, first, each, i - 1))
              = Line(total, n, first, each, i) - Line(total, n, first, each, i - 1)
  <1> DEFINE L(j) == Line(total, n, first, each, j)
             m == first + (i - 1) * each
  <1>1. (i - 1) * each \in Nat /\ m \in Nat
    BY Product
  <1>2. L(i) = IF i = n THEN total ELSE IF total <= m THEN total ELSE m
    BY <1>1, MinOfTwo DEF Line
  <1>3. CASE i = 1
    <2>1. L(i - 1) = 0
      BY <1>3 DEF Line
    <2>2. m = first
      BY <1>3
    <2> QED BY <1>1, <1>2, <1>3, <2>1, <2>2, MinOfTwo DEF Taken, LastYearTakes
  <1>4. CASE i # 1
    <2>1. (i - 2) * each \in Nat /\ (i - 1) * each = (i - 2) * each + each
      <3>1. i - 2 \in Nat /\ (i - 2) + 1 = i - 1
        BY <1>4
      <3> QED BY <3>1, Product
    <2> DEFINE k == first + (i - 2) * each
    <2>2. k \in Nat /\ m = k + each
      BY <2>1
    <2>3. L(i - 1) = IF total <= k THEN total ELSE k
      BY <1>4, <2>2, MinOfTwo DEF Line
    <2> HIDE DEF m, k, L
    <2>4. L(i - 1) \in Nat /\ total - L(i - 1) \in Nat
      BY <2>2, <2>3
    <2>5. Min({total - L(i - 1), each}) =
             IF total - L(i - 1) <= each THEN total - L(i - 1) ELSE each
      BY <2>4, MinOfTwo
    <2>6. Taken(total, n, first, each, i, L(i - 1)) = L(i) - L(i - 1)
      BY <1>2, <1>4, <2>2, <2>3, <2>4, <2>5 DEF Taken, LastYearTakes
    <2>7. L(i) \in Nat /\ L(i - 1) <= L(i) /\ L(i) <= total
      BY <1>2, <2>2, <2>3
    <2> QED BY <2>4, <2>6, <2>7 DEF L
  <1> QED BY <1>3, <1>4

LEMMA SpreadIsLine ==
  ASSUME NEW total \in Nat, NEW n \in Nat \ {0}, NEW first \in Nat, NEW each \in Nat,
         NEW from \in Int
  PROVE  Spread(total, from, n, first, each) =
           Entries(from, n, [i \in 0..n |-> Line(total, n, first, each, i)])
  <1> DEFINE L(i) == Line(total, n, first, each, i)
             entry(i) == [year |-> from + i - 1, depreciation |-> L(i) - L(i - 1)]
             Up(i) == [spent |-> L(i), entries |-> [j \in 1..i |-> entry(j)]]
             amount(spent, i) == Taken(total, n, first, each, i, spent)
             Step(before, i) ==
               [spent |-> before.spent + amount(before.spent, i),
                entries |-> Append(before.entries,
                   [year |-> from + i - 1, depreciation |-> amount(before.spent, i)])]
             Body(g) == [i \in 0..n |-> IF i = 0 THEN [spent |-> 0, entries |-> <<>>]
                                        ELSE Step(g[i - 1], i)]
             upTo == CHOOSE g : g = Body(g)
  <1>1. Spread(total, from, n, first, each) = upTo[n].entries
    BY DEF Spread, Taken
  <1>2. Up(0) = [spent |-> 0, entries |-> <<>>]
    BY DEF Line
  <1>3. ASSUME NEW i \in 1..n PROVE Step(Up(i - 1), i) = Up(i)
    <2>1. L(i) \in Nat /\ L(i - 1) \in Nat
      BY LineGrows
    <2>2. amount(L(i - 1), i) = L(i) - L(i - 1)
      BY LineGrows
    <2> HIDE DEF L, amount
    <2>3. Append([j \in 1..(i - 1) |-> entry(j)], entry(i)) = [j \in 1..i |-> entry(j)]
      <3> HIDE DEF entry
      <3> QED OBVIOUS
    <2>4. L(i - 1) + (L(i) - L(i - 1)) = L(i)
      BY <2>1
    <2> DEFINE es(j) == [k \in 1..j |-> entry(k)]
    <2>5. Step([spent |-> L(i - 1), entries |-> es(i - 1)], i) =
             [spent |-> L(i - 1) + (L(i) - L(i - 1)), entries |-> Append(es(i - 1), entry(i))]
      <3> HIDE DEF es
      <3> QED BY <2>2
    <2> QED BY <2>3, <2>4, <2>5
  <1> HIDE DEF Up, Step
  <1>4. [i \in 0..n |-> Up(i)] = Body([i \in 0..n |-> Up(i)])
    BY <1>2, <1>3
  <1>5. upTo = Body(upTo)
    <2> HIDE DEF Body
    <2> QED BY <1>4
  <1> HIDE DEF upTo
  <1>6. \A i \in 0..n : upTo[i] = Up(i)
    <2> DEFINE Wrong == {i \in 0..n : upTo[i] # Up(i)}
    <2> SUFFICES ASSUME Wrong # {} PROVE FALSE
      OBVIOUS
    <2>1. Wrong \in SUBSET Nat
      OBVIOUS
    <2>2. PICK i \in Wrong : \A j \in Wrong : i <= j
      <3> HIDE DEF Wrong
      <3> QED BY <2>1, Least
    <2>3. i \in 1..n
      BY <1>2, <1>5
    <2>4. upTo[i - 1] = Up(i - 1)
      BY <2>2, <2>3
    <2>5. upTo[i] = Step(upTo[i - 1], i)
      BY <1>5, <2>3
    <2> QED BY <1>3, <2>3, <2>4, <2>5
  <1>7. upTo[n].entries = [j \in 1..n |-> entry(j)]
    <2> HIDE DEF entry
    <2>1. upTo[n] = Up(n)
      BY <1>6
    <2> QED BY <2>1 DEF Up
  <1>8. [j \in 1..n |-> entry(j)] = Entries(from, n, [i \in 0..n |-> L(i)])
    <2> HIDE DEF L
    <2> QED BY DEF Entries
  <1> QED BY <1>1, <1>7, <1>8

\* How many of the n entries from a first year are of y or before.
Until(from, n, y) == IF y < from THEN 0 ELSE IF y - from >= n THEN n ELSE y - from + 1

Worth(x) == IF x.anchor # None THEN x.anchor.value ELSE x.price

LEMMA BookEndOfEntries ==
  ASSUME NEW n \in Nat, NEW from \in Int, NEW spent \in [0..n -> Int], spent[0] = 0,
         NEW y \in Int, NEW x
  PROVE  BookEnd(x, Entries(from, n, spent), y) = Worth(x) - spent[Until(from, n, y)]
  <1> DEFINE k == Until(from, n, y)
             s == Entries(from, n, spent)
             Upto(i) == IF i <= k THEN spent[i] ELSE spent[k]
             Body(g) == [i \in 0..n |-> IF i = 0 THEN 0
                           ELSE g[i - 1] + (IF s[i].year <= y THEN s[i].depreciation ELSE 0)]
             sum == CHOOSE g : g = Body(g)
  <1>1. Len(s) = n /\ k \in 0..n
    BY DEF Entries, Until
  <1>2. BookEnd(x, s, y) = Worth(x) - sum[n]
    <2> HIDE DEF s
    <2> QED BY <1>1 DEF BookEnd, Worth
  <1>3. ASSUME NEW i \in 1..n
        PROVE  Upto(i) = Upto(i - 1) + (IF s[i].year <= y THEN s[i].depreciation ELSE 0)
    <2>1. s[i].year = from + i - 1 /\ s[i].depreciation = spent[i] - spent[i - 1]
      BY DEF Entries
    <2>2. from + i - 1 <= y <=> i <= k
      BY DEF Until
    <2>3. spent[i] \in Int /\ spent[i - 1] \in Int /\ spent[k] \in Int
      BY <1>1
    <2> HIDE DEF s, k
    <2>4. CASE i <= k
      BY <1>1, <2>1, <2>2, <2>3, <2>4
    <2>5. CASE ~(i <= k)
      <3>1. i - 1 = k \/ ~(i - 1 <= k)
        BY <1>1, <2>5
      <3> QED BY <2>1, <2>2, <2>3, <2>5, <3>1
    <2> QED BY <2>4, <2>5
  <1>4. Upto(0) = 0 /\ Upto(n) = spent[k]
    BY <1>1
  <1> HIDE DEF s, k, Upto
  <1>5. [i \in 0..n |-> Upto(i)] = Body([i \in 0..n |-> Upto(i)])
    BY <1>3, <1>4
  <1>6. sum = Body(sum)
    <2> HIDE DEF Body
    <2> QED BY <1>5
  <1> HIDE DEF sum
  <1>7. \A i \in 0..n : sum[i] = Upto(i)
    <2> DEFINE Wrong == {i \in 0..n : sum[i] # Upto(i)}
    <2> SUFFICES ASSUME Wrong # {} PROVE FALSE
      OBVIOUS
    <2>1. Wrong \in SUBSET Nat
      OBVIOUS
    <2>2. PICK i \in Wrong : \A j \in Wrong : i <= j
      <3> HIDE DEF Wrong
      <3> QED BY <2>1, Least
    <2>3. i \in 1..n
      BY <1>4, <1>6
    <2>4. sum[i - 1] = Upto(i - 1)
      BY <2>2, <2>3
    <2>5. sum[i] = sum[i - 1] + (IF s[i].year <= y THEN s[i].depreciation ELSE 0)
      BY <1>6, <2>3
    <2> QED BY <1>3, <2>3, <2>4, <2>5
  <1>8. sum[n] = spent[k]
    BY <1>4, <1>7
  <1> QED BY <1>2, <1>8 DEF s, k

LEMMA WrittenOffOfEntries ==
  ASSUME NEW n \in Nat, NEW from \in Int, NEW spent \in [0..n -> Int], NEW y \in Int
  PROVE  WrittenOff(Entries(from, n, spent), y) =
           spent[Until(from, n, y)] - spent[Until(from, n, y - 1)]
  <1> DEFINE s == Entries(from, n, spent)
             found == {i \in DOMAIN s : s[i].year = y}
  <1>1. /\ DOMAIN s = 1..n
        /\ \A i \in 1..n : /\ s[i].year = from + i - 1
                           /\ s[i].depreciation = spent[i] - spent[i - 1]
    BY DEF Entries
  <1> HIDE DEF s
  <1>2. CASE y < from \/ y - from >= n
    <2>1. found = {} /\ Until(from, n, y) = Until(from, n, y - 1)
      BY <1>1, <1>2 DEF Until
    <2>2. spent[Until(from, n, y)] \in Int
      BY DEF Until
    <2> QED BY <2>1, <2>2 DEF WrittenOff, s
  <1>3. CASE ~(y < from \/ y - from >= n)
    <2> DEFINE i == y - from + 1
    <2>0. i \in 1..n /\ Until(from, n, y) = i /\ Until(from, n, y - 1) = i - 1
      BY <1>3 DEF Until
    <2>1. found = {i}
      <3>1. \A j \in 1..n : s[j].year = y <=> j = i
        BY <1>1
      <3> QED BY <1>1, <2>0, <3>1
    <2> HIDE DEF i, found
    <2>2. Min(found) = i
      <3>1. Min({i, i}) = i
        BY <2>0, MinOfTwo
      <3> QED BY <2>1, <3>1
    <2> QED BY <1>1, <2>0, <2>1, <2>2 DEF WrittenOff, found, s
  <1> QED BY <1>2, <1>3

WellFormed(rule) ==
    rule.life \in Nat \ {0} /\ rule.half \in BOOLEAN /\ rule.residual \in Nat

\* An asset whose figures can be computed.
Sound(x) ==
    /\ x.price \in Nat /\ x.purchaseYear \in Calendar /\ WellFormed(x.rule)
    /\ x.anchor # None => x.anchor.year \in Nat /\ x.anchor.value \in Nat
    /\ x.disposalYear \in Calendar \cup {None}

\* The years an asset's own schedule covers, if it has one.
FirstOf(x) == IF x.anchor = None THEN x.purchaseYear ELSE x.anchor.year + 1
LastOf(x) == x.purchaseYear + ScheduleYears(x.rule) - 1

\* The schedule of x is n entries from its first year, and `spent` what they
\* write off: nothing that goes back, and in the end all but the residual.
Follows(x, n, spent) ==
    /\ Schedule(x) = Entries(FirstOf(x), n, spent)
    /\ spent \in [0..n -> Nat] /\ spent[0] = 0
    /\ \A i \in 1..n : spent[i - 1] <= spent[i]
    /\ n = 0 <=> Worth(x) <= x.rule.residual \/ FirstOf(x) > LastOf(x)
    /\ n > 0 => /\ spent[n] = Worth(x) - x.rule.residual
                /\ FirstOf(x) + n - 1 <= LastOf(x)
                /\ \/ FirstOf(x) + n - 1 = LastOf(x)
                   \/ x.anchor = None /\ LowValue(x.price, x.rule) /\ n = 1

\* The line of x, where a rule is followed from the purchase.
LineOf(x, i) ==
    LET span == x.price - x.rule.residual
        full == RoundHalfUp(span, x.rule.life)
    IN  Line(span, ScheduleYears(x.rule),
             IF x.rule.half THEN RoundHalfUp(span, 2 * x.rule.life) ELSE full, full, i)

LEMMA NoEntries ==
  ASSUME NEW from, NEW spent
  PROVE  Entries(from, 0, spent) = <<>>
  BY DEF Entries

LEMMA LineIsSpent ==
  ASSUME NEW total \in Nat, NEW n \in Nat \ {0}, NEW first \in Nat, NEW each \in Nat
  PROVE  /\ \A i \in 0..n : Line(total, n, first, each, i) \in Nat
         /\ \A i \in 1..n : Line(total, n, first, each, i - 1) <= Line(total, n, first, each, i)
         /\ Line(total, n, first, each, 0) = 0
         /\ Line(total, n, first, each, n) = total
  <1>1. Line(total, n, first, each, 0) = 0 /\ Line(total, n, first, each, n) = total
    BY DEF Line
  <1>2. \A i \in 1..n : /\ Line(total, n, first, each, i) \in Nat
                        /\ Line(total, n, first, each, i - 1) <= Line(total, n, first, each, i)
    BY LineGrows
  <1>3. \A i \in 0..n : Line(total, n, first, each, i) \in Nat
    BY <1>1, <1>2
  <1> QED BY <1>1, <1>2, <1>3

LEMMA YearsOfRule ==
  ASSUME NEW rule, WellFormed(rule)
  PROVE  ScheduleYears(rule) \in Nat \ {0}
  BY DEF WellFormed, ScheduleYears

LEMMA ScheduleOf ==
  ASSUME NEW x, Sound(x)
  PROVE  \E n \in Nat : \E spent :
            /\ Follows(x, n, spent)
            /\ x.anchor = None /\ n > 0 /\ ~LowValue(x.price, x.rule) =>
                  /\ n = ScheduleYears(x.rule)
                  /\ \A i \in 0..n : spent[i] = LineOf(x, i)
  <1> DEFINE years == ScheduleYears(x.rule)
             none == [i \in 0..0 |-> 0]
  <1>1. /\ years \in Nat \ {0} /\ x.purchaseYear \in Nat /\ x.price \in Nat
        /\ x.rule.residual \in Nat /\ x.rule.life \in Nat \ {0}
    BY YearsOfRule DEF Sound, WellFormed, Calendar
  <1>2. none \in [0..0 -> Nat] /\ none[0] = 0 /\ (\A i \in 1..0 : none[i - 1] <= none[i])
    OBVIOUS
  <1> HIDE DEF none
  <1>3. CASE x.anchor # None
    <2> DEFINE k == years - (x.anchor.year - x.purchaseYear + 1)
               span == x.anchor.value - x.rule.residual
               each == RoundHalfUp(span, k)
    <2>1. x.anchor.year \in Nat /\ x.anchor.value \in Nat
      BY <1>3 DEF Sound
    <2>2. /\ FirstOf(x) = x.anchor.year + 1 /\ Worth(x) = x.anchor.value
          /\ LastOf(x) = x.anchor.year + k /\ k \in Int /\ span \in Int
          /\ FirstOf(x) \in Int
      BY <1>1, <1>3, <2>1 DEF FirstOf, LastOf, Worth
    <2>3. Schedule(x) = IF k <= 0 \/ span <= 0 THEN <<>>
                        ELSE Spread(span, FirstOf(x), k, each, each)
      BY <1>3, <2>2 DEF Schedule, AnchoredSchedule, NoSchedule
    <2>4. Worth(x) <= x.rule.residual <=> span <= 0
      BY <1>1, <2>1, <2>2
    <2>5. FirstOf(x) > LastOf(x) <=> k <= 0
      BY <2>1, <2>2
    <2>6. CASE k <= 0 \/ span <= 0
      <3>1. Schedule(x) = Entries(FirstOf(x), 0, none)
        BY <2>3, <2>6, NoEntries
      <3> HIDE DEF k, span
      <3>2. Follows(x, 0, none)
        BY <1>2, <2>4, <2>5, <2>6, <3>1 DEF Follows
      <3> QED BY <1>3, <3>2
    <2>7. CASE ~(k <= 0 \/ span <= 0)
      <3> DEFINE spent == [i \in 0..k |-> Line(span, k, each, each, i)]
      <3>1. k \in Nat \ {0} /\ span \in Nat
        BY <2>2, <2>7
      <3> HIDE DEF k, span
      <3>2. each \in Nat
        BY <3>1, Rounded
      <3> HIDE DEF each
      <3>3. Schedule(x) = Entries(FirstOf(x), k, spent)
        BY <2>2, <2>3, <2>7, <3>1, <3>2, SpreadIsLine
      <3>4. /\ spent \in [0..k -> Nat] /\ spent[0] = 0 /\ spent[k] = span
            /\ \A i \in 1..k : spent[i - 1] <= spent[i]
        <4> DEFINE L(i) == Line(span, k, each, each, i)
        <4>1. /\ \A i \in 0..k : L(i) \in Nat
              /\ \A i \in 1..k : L(i - 1) <= L(i)
              /\ L(0) = 0 /\ L(k) = span
          BY <3>1, <3>2, LineIsSpent
        <4> HIDE DEF L
        <4>2. spent = [i \in 0..k |-> L(i)]
          BY DEF L
        <4> HIDE DEF spent
        <4> QED BY <3>1, <3>2, <4>1, <4>2
      <3>5. FirstOf(x) + k - 1 = LastOf(x)
        BY <2>1, <2>2, <3>1
      <3>6. span = Worth(x) - x.rule.residual
        BY <2>2 DEF span
      <3> HIDE DEF spent
      <3>7. Follows(x, k, spent)
        BY <2>2, <2>4, <2>5, <2>7, <3>1, <3>3, <3>4, <3>5, <3>6 DEF Follows
      <3> QED BY <1>3, <3>1, <3>7
    <2> QED BY <2>6, <2>7
  <1>4. CASE x.anchor = None
    <2> DEFINE span == x.price - x.rule.residual
               full == RoundHalfUp(span, x.rule.life)
               first == IF x.rule.half THEN RoundHalfUp(span, 2 * x.rule.life) ELSE full
    <2>1. /\ FirstOf(x) = x.purchaseYear /\ Worth(x) = x.price
          /\ LastOf(x) = x.purchaseYear + years - 1 /\ span \in Int
          /\ FirstOf(x) \in Int
      BY <1>1, <1>4 DEF FirstOf, LastOf, Worth
    <2>2. Schedule(x) = IF span <= 0 THEN <<>>
                        ELSE IF LowValue(x.price, x.rule)
                        THEN <<[year |-> x.purchaseYear, depreciation |-> span]>>
                        ELSE Spread(span, FirstOf(x), years, first, full)
      BY <1>4, <2>1 DEF Schedule, PurchaseSchedule, NoSchedule
    <2>3. Worth(x) <= x.rule.residual <=> span <= 0
      BY <1>1, <2>1
    <2>4. ~(FirstOf(x) > LastOf(x))
      BY <1>1, <2>1
    <2>5. CASE span <= 0
      <3>1. Schedule(x) = Entries(FirstOf(x), 0, none)
        BY <2>2, <2>5, NoEntries
      <3> HIDE DEF span
      <3>2. Follows(x, 0, none)
        BY <1>2, <2>3, <2>5, <3>1 DEF Follows
      <3> QED BY <3>2
    <2>6. CASE ~(span <= 0) /\ LowValue(x.price, x.rule)
      <3> DEFINE spent == [i \in 0..1 |-> IF i = 0 THEN 0 ELSE span]
      <3>1. span \in Nat
        BY <2>1, <2>6
      <3>2. span = Worth(x) - x.rule.residual
        BY <2>1
      <3> HIDE DEF span
      <3>3. /\ spent \in [0..1 -> Nat] /\ spent[0] = 0 /\ spent[1] = span
            /\ \A i \in 1..1 : spent[i - 1] <= spent[i]
        BY <3>1
      <3>4. Entries(FirstOf(x), 1, spent) = <<[year |-> x.purchaseYear, depreciation |-> span]>>
        BY <1>1, <2>1, <3>1, <3>3 DEF Entries
      <3> HIDE DEF spent
      <3>5. FirstOf(x) + 1 - 1 <= LastOf(x)
        BY <1>1, <2>1
      <3>6. Follows(x, 1, spent)
        BY <1>4, <2>1, <2>2, <2>3, <2>4, <2>6, <3>1, <3>2, <3>3, <3>4, <3>5 DEF Follows
      <3> QED BY <2>6, <3>6
    <2>7. CASE ~(span <= 0) /\ ~LowValue(x.price, x.rule)
      <3> DEFINE spent == [i \in 0..years |-> Line(span, years, first, full, i)]
      <3>1. span \in Nat
        BY <2>1, <2>7
      <3>2. full \in Nat /\ first \in Nat
        <4>1. 2 * x.rule.life \in Nat \ {0}
          BY <1>1
        <4> HIDE DEF span
        <4> QED BY <1>1, <3>1, <4>1, Rounded
      <3>3. \A i : Line(span, years, first, full, i) = LineOf(x, i)
        BY DEF LineOf
      <3>4. span = Worth(x) - x.rule.residual
        BY <2>1
      <3> HIDE DEF span, first, full, years
      <3>5. Schedule(x) = Entries(FirstOf(x), years, spent)
        BY <1>1, <2>1, <2>2, <2>7, <3>1, <3>2, SpreadIsLine
      <3>6. /\ spent \in [0..years -> Nat] /\ spent[0] = 0 /\ spent[years] = span
            /\ \A i \in 1..years : spent[i - 1] <= spent[i]
        <4> DEFINE L(i) == Line(span, years, first, full, i)
        <4>1. /\ \A i \in 0..years : L(i) \in Nat
              /\ \A i \in 1..years : L(i - 1) <= L(i)
              /\ L(0) = 0 /\ L(years) = span
          BY <1>1, <3>1, <3>2, LineIsSpent
        <4> HIDE DEF L
        <4>2. spent = [i \in 0..years |-> L(i)]
          BY DEF L
        <4> HIDE DEF spent
        <4> QED BY <1>1, <3>1, <3>2, <4>1, <4>2
      <3>7. \A i \in 0..years : spent[i] = LineOf(x, i)
        BY <3>3
      <3> HIDE DEF spent
      <3>8. FirstOf(x) + years - 1 = LastOf(x)
        BY <1>1, <2>1
      <3>9. Follows(x, years, spent)
        BY <1>1, <2>1, <2>3, <2>4, <2>7, <3>1, <3>4, <3>5, <3>6, <3>8 DEF Follows
      <3> QED BY <1>1, <3>7, <3>9 DEF years
    <2> QED BY <2>5, <2>6, <2>7
  <1> QED BY <1>3, <1>4

USE FiscalYearsAssumption, NoneAssumption

\* The book value of x at the end of y.
Value(x, y) == BookEnd(x, Schedule(x), y)

LEMMA UntilSteps ==
  ASSUME NEW n \in Nat, NEW from \in Int, NEW y \in Int
  PROVE  /\ Until(from, n, y) \in 0..n /\ Until(from, n, y - 1) \in 0..n
         /\ \/ Until(from, n, y - 1) = Until(from, n, y)
            \/ /\ Until(from, n, y) \in 1..n
               /\ Until(from, n, y - 1) = Until(from, n, y) - 1
  BY DEF Until

LEMMA ValueOf ==
  ASSUME NEW x, Sound(x), NEW n \in Nat, NEW spent, Follows(x, n, spent), NEW y \in Int
  PROVE  /\ Value(x, y) = Worth(x) - spent[Until(FirstOf(x), n, y)]
         /\ Value(x, y) \in Int
  <1>1. FirstOf(x) \in Int /\ Worth(x) \in Int
    BY DEF Sound, FirstOf, Worth, Calendar
  <1>2. spent \in [0..n -> Int] /\ spent[0] = 0 /\ spent \in [0..n -> Nat]
    BY DEF Follows
  <1>3. spent[Until(FirstOf(x), n, y)] \in Nat
    BY <1>1, <1>2 DEF Until
  <1>4. Value(x, y) = Worth(x) - spent[Until(FirstOf(x), n, y)]
    <2>1. Schedule(x) = Entries(FirstOf(x), n, spent)
      BY DEF Follows
    <2>2. BookEnd(x, Entries(FirstOf(x), n, spent), y)
             = Worth(x) - spent[Until(FirstOf(x), n, y)]
      BY <1>1, <1>2, BookEndOfEntries
    <2> QED BY <2>1, <2>2 DEF Value
  <1> QED BY <1>1, <1>3, <1>4

LEMMA ValueFalls ==
  ASSUME NEW x, Sound(x), NEW y \in Int
  PROVE  /\ Value(x, y) \in Int /\ Value(x, y) <= Value(x, y - 1)
         /\ y < FirstOf(x) => Value(x, y) = Worth(x)
         /\ WrittenOff(Schedule(x), y) = Value(x, y - 1) - Value(x, y)
  <1>0. PICK n \in Nat : \E spent : Follows(x, n, spent)
    BY ScheduleOf
  <1>1. PICK spent : Follows(x, n, spent)
    BY <1>0
  <1>2. FirstOf(x) \in Int /\ Worth(x) \in Int
    BY DEF Sound, FirstOf, Worth, Calendar
  <1>3. /\ spent \in [0..n -> Int] /\ spent[0] = 0 /\ spent \in [0..n -> Nat]
        /\ \A i \in 1..n : spent[i - 1] <= spent[i]
    BY <1>1 DEF Follows
  <1> DEFINE k == Until(FirstOf(x), n, y)
             j == Until(FirstOf(x), n, y - 1)
  <1>4. k \in 0..n /\ j \in 0..n /\ (j = k \/ (k \in 1..n /\ j = k - 1))
    BY <1>2, UntilSteps
  <1>5. y < FirstOf(x) => k = 0
    BY DEF Until
  <1>6. WrittenOff(Schedule(x), y) = spent[k] - spent[j]
    <2>1. Schedule(x) = Entries(FirstOf(x), n, spent)
      BY <1>1 DEF Follows
    <2>2. WrittenOff(Entries(FirstOf(x), n, spent), y) = spent[k] - spent[j]
      BY <1>2, <1>3, WrittenOffOfEntries
    <2> QED BY <2>1, <2>2
  <1>7. Value(x, y) = Worth(x) - spent[k] /\ Value(x, y - 1) = Worth(x) - spent[j]
    BY <1>1, ValueOf
  <1> HIDE DEF k, j
  <1>8. spent[k] \in Nat /\ spent[j] \in Nat /\ spent[j] <= spent[k]
    BY <1>3, <1>4
  <1> QED BY <1>2, <1>3, <1>5, <1>6, <1>7, <1>8

LEMMA LineIsStraight ==
  ASSUME NEW x, NEW i \in Nat \ {0}, ScheduleYears(x.rule) \in Nat
  PROVE  LineOf(x, i) = StraightLine(x.price - x.rule.residual, x.rule, i)
  BY DEF LineOf, Line, StraightLine

LEMMA Lands ==
  ASSUME NEW x, Sound(x)
  PROVE  /\ Value(x, LastOf(x)) = IF FirstOf(x) > LastOf(x) THEN Worth(x)
                                  ELSE Min({Worth(x), x.rule.residual})
         /\ x.anchor = None /\ x.price - x.rule.residual > 0 /\ ~LowValue(x.price, x.rule) =>
              \A y \in FirstOf(x)..LastOf(x) :
                 Value(x, y) = x.price - StraightLine(x.price - x.rule.residual, x.rule,
                                                      y - FirstOf(x) + 1)
  <1>0. PICK n \in Nat : \E spent :
            /\ Follows(x, n, spent)
            /\ x.anchor = None /\ n > 0 /\ ~LowValue(x.price, x.rule) =>
                  /\ n = ScheduleYears(x.rule)
                  /\ \A i \in 0..n : spent[i] = LineOf(x, i)
    BY ScheduleOf
  <1>1. PICK spent :
            /\ Follows(x, n, spent)
            /\ x.anchor = None /\ n > 0 /\ ~LowValue(x.price, x.rule) =>
                  /\ n = ScheduleYears(x.rule)
                  /\ \A i \in 0..n : spent[i] = LineOf(x, i)
    BY <1>0
  <1>2. /\ FirstOf(x) \in Int /\ Worth(x) \in Nat /\ x.rule.residual \in Nat
        /\ LastOf(x) \in Int /\ ScheduleYears(x.rule) \in Nat /\ x.purchaseYear \in Int
    BY YearsOfRule DEF Sound, FirstOf, LastOf, Worth, WellFormed, Calendar
  <1>3. Min({Worth(x), x.rule.residual}) =
           IF Worth(x) <= x.rule.residual THEN Worth(x) ELSE x.rule.residual
    BY <1>2, MinOfTwo
  <1>4. Value(x, LastOf(x)) = Worth(x) - spent[Until(FirstOf(x), n, LastOf(x))]
    BY <1>1, <1>2, ValueOf
  <1>5. CASE n = 0
    <2>1. Until(FirstOf(x), n, LastOf(x)) = 0
      BY <1>2, <1>5 DEF Until
    <2>2. spent[0] = 0 /\ (Worth(x) <= x.rule.residual \/ FirstOf(x) > LastOf(x))
      BY <1>1, <1>5 DEF Follows
    <2>3. ASSUME x.anchor = None, x.price - x.rule.residual > 0 PROVE FALSE
      <3>1. Worth(x) = x.price /\ FirstOf(x) = x.purchaseYear
        BY <2>3 DEF Worth, FirstOf
      <3>2. ScheduleYears(x.rule) \in Nat \ {0}
        BY YearsOfRule DEF Sound
      <3> QED BY <1>2, <2>2, <2>3, <3>1, <3>2 DEF LastOf
    <2> QED BY <1>2, <1>3, <1>4, <2>1, <2>2, <2>3
  <1>6. CASE n # 0
    <2>1. /\ spent[n] = Worth(x) - x.rule.residual /\ FirstOf(x) + n - 1 <= LastOf(x)
          /\ ~(Worth(x) <= x.rule.residual) /\ ~(FirstOf(x) > LastOf(x))
      BY <1>1, <1>6 DEF Follows
    <2>2. Until(FirstOf(x), n, LastOf(x)) = n
      BY <1>2, <1>6, <2>1 DEF Until
    <2>3. Value(x, LastOf(x)) = x.rule.residual
      BY <1>2, <1>4, <2>1, <2>2
    <2>4. ASSUME x.anchor = None, ~LowValue(x.price, x.rule), NEW y \in FirstOf(x)..LastOf(x)
          PROVE  Value(x, y) = x.price - StraightLine(x.price - x.rule.residual, x.rule,
                                                      y - FirstOf(x) + 1)
      <3> DEFINE i == y - FirstOf(x) + 1
      <3>1. n = ScheduleYears(x.rule) /\ LastOf(x) = FirstOf(x) + n - 1 /\ Worth(x) = x.price
        BY <1>1, <1>2, <1>6, <2>4 DEF FirstOf, LastOf, Worth
      <3>2. y \in Int /\ i \in 1..n /\ Until(FirstOf(x), n, y) = i
        BY <1>2, <2>4, <3>1 DEF Until
      <3> HIDE DEF i
      <3>3. Value(x, y) = x.price - spent[i]
        BY <1>1, <3>1, <3>2, ValueOf
      <3>4. spent[i] = LineOf(x, i)
        BY <1>1, <1>6, <2>4, <3>2
      <3> QED BY <1>2, <3>2, <3>3, <3>4, LineIsStraight DEF i
    <2> QED BY <1>3, <2>1, <2>3, <2>4
  <1> QED BY <1>5, <1>6

-----------------------------------------------------------------------------
(* The figures of a year *)

LEMMA Balance ==
  ASSUME NEW x, Sound(x), NEW y \in 0..MaxYear, x.purchaseYear <= y,
         x.disposalYear = None \/ y <= x.disposalYear
  PROVE  /\ YearFigure(x, y).opening =
               IF x.anchor = None /\ y = x.purchaseYear THEN 0 ELSE Value(x, y - 1)
         /\ YearFigure(x, y).closing = IF y = x.disposalYear THEN 0 ELSE Value(x, y)
         /\ YearFigure(x, y) \in FigureRow
  <1>1. y \in Int /\ y - 1 \in Int /\ x.purchaseYear \in Int /\ x.price \in Int
    BY DEF Sound, Calendar
  <1>2. /\ Value(x, y) \in Int /\ Value(x, y - 1) \in Int
        /\ WrittenOff(Schedule(x), y) = Value(x, y - 1) - Value(x, y)
    BY <1>1, ValueFalls
  <1>3. x.anchor = None /\ y = x.purchaseYear => Value(x, y - 1) = x.price
    <2> SUFFICES ASSUME x.anchor = None, y = x.purchaseYear PROVE Value(x, y - 1) = x.price
      OBVIOUS
    <2>1. y - 1 < FirstOf(x)
      BY <1>1 DEF FirstOf
    <2> QED BY <1>1, <2>1, ValueFalls DEF Worth
  <1>4. ~(y < x.purchaseYear) /\ ~(x.disposalYear # None /\ y > x.disposalYear)
    BY <1>1 DEF Sound, Calendar
  <1> DEFINE bought == x.anchor = None /\ y = x.purchaseYear
             opening == IF bought THEN 0 ELSE Value(x, y - 1)
             purchase == IF bought THEN x.price ELSE 0
  <1>5. YearFigure(x, y) = IF y = x.disposalYear
                           THEN Figure(opening, purchase, 0, opening + purchase)
                           ELSE Figure(opening, purchase, WrittenOff(Schedule(x), y), 0)
    BY <1>4 DEF YearFigure, Value
  <1>6. /\ opening \in Int /\ purchase \in Int
        /\ opening + purchase = Value(x, y - 1)
    BY <1>1, <1>2, <1>3
  <1> HIDE DEF opening, purchase
  <1>7. YearFigure(x, y).opening = opening
    BY <1>5 DEF Figure
  <1>8. YearFigure(x, y).closing = IF y = x.disposalYear THEN 0 ELSE Value(x, y)
    BY <1>2, <1>5, <1>6 DEF Figure
  <1>9. YearFigure(x, y) \in FigureRow
    BY <1>2, <1>5, <1>6 DEF Figure, FigureRow
  <1> QED BY <1>7, <1>8, <1>9 DEF opening

\* An asset that is not on the books in y has no figure there.
LEMMA OffTheBooks ==
  ASSUME NEW x, NEW y,
         y < x.purchaseYear \/ (x.disposalYear # None /\ y > x.disposalYear)
  PROVE  YearFigure(x, y) = Zero
  BY DEF YearFigure

LEMMA FigureTyped ==
  ASSUME NEW x, Sound(x), NEW y \in 0..MaxYear
  PROVE  YearFigure(x, y) \in FigureRow
  <1>1. CASE y < x.purchaseYear \/ (x.disposalYear # None /\ y > x.disposalYear)
    BY <1>1, OffTheBooks DEF Zero, FigureRow
  <1>2. CASE ~(y < x.purchaseYear \/ (x.disposalYear # None /\ y > x.disposalYear))
    <2>1. x.purchaseYear <= y /\ (x.disposalYear = None \/ y <= x.disposalYear)
      BY <1>2 DEF Sound, Calendar
    <2> QED BY <2>1, Balance
  <1> QED BY <1>1, <1>2

\* A year opens with what the year before closed.
LEMMA Chained ==
  ASSUME NEW x, Sound(x), NEW y \in 0..MaxYear, y - 1 \in 0..MaxYear,
         x.anchor = None \/ x.purchaseYear < y
  PROVE  YearFigure(x, y).opening = YearFigure(x, y - 1).closing
  <1>1. /\ y \in Int /\ x.purchaseYear \in Int /\ x.disposalYear \in Int \cup {None}
        /\ None \notin 0..MaxYear
    BY DEF Sound, Calendar
  <1>2. CASE y < x.purchaseYear
    <2>1. y - 1 < x.purchaseYear
      BY <1>1, <1>2
    <2> QED BY <1>2, <2>1, OffTheBooks DEF Zero
  <1>3. CASE y = x.purchaseYear
    <2>1. YearFigure(x, y - 1) = Zero
      BY <1>1, <1>3, OffTheBooks
    <2>2. x.anchor = None
      BY <1>1, <1>3
    <2>3. CASE x.disposalYear # None /\ y > x.disposalYear
      BY <2>1, <2>3, OffTheBooks DEF Zero
    <2>4. CASE x.disposalYear = None \/ y <= x.disposalYear
      <3>1. YearFigure(x, y).opening = 0
        BY <1>1, <1>3, <2>2, <2>4, Balance
      <3> QED BY <2>1, <3>1 DEF Zero
    <2> QED BY <1>1, <2>3, <2>4
  <1>4. CASE x.purchaseYear < y /\ (x.disposalYear = None \/ y <= x.disposalYear)
    <2>1. x.purchaseYear <= y - 1 /\ (x.disposalYear = None \/ y - 1 <= x.disposalYear)
          /\ y - 1 # x.disposalYear /\ y # x.purchaseYear /\ x.purchaseYear <= y
      BY <1>1, <1>4
    <2>2. YearFigure(x, y).opening = Value(x, y - 1)
      BY <1>1, <1>4, <2>1, Balance
    <2>3. YearFigure(x, y - 1).closing = Value(x, y - 1)
      BY <2>1, Balance
    <2> QED BY <2>2, <2>3
  <1>5. CASE x.purchaseYear < y /\ x.disposalYear # None /\ y > x.disposalYear
    <2>1. YearFigure(x, y) = Zero
      BY <1>5, OffTheBooks
    <2>2. CASE y - 1 = x.disposalYear
      <3>1. x.purchaseYear <= y - 1 /\ y - 1 <= x.disposalYear
        BY <1>1, <1>5, <2>2
      <3>2. YearFigure(x, y - 1).closing = 0
        BY <2>2, <3>1, Balance
      <3> QED BY <2>1, <3>2 DEF Zero
    <2>3. CASE y - 1 # x.disposalYear
      <3>1. YearFigure(x, y - 1) = Zero
        BY <1>1, <1>5, <2>3, OffTheBooks
      <3> QED BY <2>1, <3>1 DEF Zero
    <2> QED BY <2>2, <2>3
  <1> QED BY <1>1, <1>2, <1>3, <1>4, <1>5

\* The year after the anchor opens with the anchor's value.
LEMMA ChainedFromAnchor ==
  ASSUME NEW x, Sound(x), NEW y \in 0..MaxYear, x.anchor # None, y = x.anchor.year + 1,
         x.purchaseYear <= y, x.disposalYear = None \/ y <= x.disposalYear
  PROVE  YearFigure(x, y).opening = x.anchor.value
  <1>1. y - 1 \in Int /\ y - 1 < FirstOf(x)
    BY DEF Sound, FirstOf
  <1>2. Value(x, y - 1) = x.anchor.value
    BY <1>1, ValueFalls DEF Worth
  <1> QED BY <1>2, Balance

-----------------------------------------------------------------------------
(* The lock and the boundary *)

LEMMA UnitPrice ==
  ASSUME NEW total \in Nat, NEW n \in Nat, NEW i \in 1..n
  PROVE  SplitPrice(total, n)[i] \in Nat
  <1>1. total \div n \in Nat /\ total % n \in Nat
    OBVIOUS
  <1> QED BY <1>1 DEF SplitPrice

LEMMA YearOfDate ==
  ASSUME NEW d \in Calendar
  PROVE  YearOf(d) \in 0..MaxYear
  BY DEF Calendar, YearOf

LEMMA LaterYearLaterDate ==
  ASSUME NEW d \in Calendar, NEW e \in Calendar, YearOf(d) < YearOf(e)
  PROVE  d < e
  BY DEF Calendar, YearOf

LEMMA DatesAreDays == Dates \subseteq Calendar
  BY DEF Calendar

(* The books begin with nothing closed and nothing in flight. *)
THEOREM Initially == Init => IInv
  <1> SUFFICES ASSUME Init PROVE IInv
    OBVIOUS
  <1>1. rules \in Seq([from : {0} \cup Dates, terms : {LaunchRule} \cup Terms])
    BY DEF Init
  <1>2. \A a \in Assets : ImportedYears(a) = {}
    BY DEF Init, ImportedYears
  <1>3. Shapes
    BY <1>1 DEF Init, Shapes
  <1> QED BY <1>2, <1>3 DEF Init, IInv, LockIsHeld, ImportsAreClosed

-----------------------------------------------------------------------------
(* One lemma per step *)

LEMMA Released ==
  ASSUME IInv, NEW p \in Requests, seen[p] # None, Release(p)
  PROVE  /\ \A q \in Requests : seen'[q] = None /\ sheet'[q] = None
         /\ seen' \in [Requests -> 0..MaxYear \cup {None}]
         /\ sheet' = [q \in Requests |-> sheet'[q]]
  BY DEF IInv, Shapes, LockIsHeld, Release

LEMMA WrittenKeeps ==
  ASSUME IInv, NEW p \in Requests, seen[p] # None, Release(p),
         assets' \in [Assets -> AssetRow \cup {None}],
         rules' \in Seq([from : {0} \cup Dates, terms : {LaunchRule} \cup Terms]),
         UNCHANGED <<closed, figures>>
  PROVE  IInv'
  <1>1. \A a \in Assets : ImportedYears(a)' = ImportedYears(a)
    BY DEF ImportedYears
  <1>2. LockIsHeld'
    BY Released DEF LockIsHeld
  <1>3. ImportsAreClosed'
    BY <1>1 DEF IInv, ImportsAreClosed
  <1>4. Shapes'
    BY Released DEF IInv, Shapes
  <1> QED BY <1>2, <1>3, <1>4 DEF IInv

LEMMA RegisterRows ==
  ASSUME IInv, NEW p \in Requests, Register(p)
  PROVE  \E d \in Dates, new \in SUBSET {a \in Assets : assets[a] = None} :
            /\ YearOpen(p, d)
            /\ \A a \in Assets \ new : assets'[a] = assets[a]
            /\ \A a \in new : assets[a] = None /\ assets'[a].date = d
            /\ assets' \in [Assets -> AssetRow \cup {None}]
  <1>1. PICK d \in Dates, total \in Totals,
             new \in SUBSET {a \in Assets : assets[a] = None} \ {{}} :
          \E unit \in Bijection(new, 1..Cardinality(new)) :
            /\ YearOpen(p, d)
            /\ \A a \in new : SplitPrice(total, Cardinality(new))[unit[a]] > 0
            /\ assets' = [a \in Assets |->
                 IF a \in new
                 THEN [date |-> d, price |-> SplitPrice(total, Cardinality(new))[unit[a]],
                       disposed |-> None]
                 ELSE assets[a]]
    BY DEF Register
  <1>2. PICK unit \in Bijection(new, 1..Cardinality(new)) :
            /\ \A a \in new : SplitPrice(total, Cardinality(new))[unit[a]] > 0
            /\ assets' = [a \in Assets |->
                 IF a \in new
                 THEN [date |-> d, price |-> SplitPrice(total, Cardinality(new))[unit[a]],
                       disposed |-> None]
                 ELSE assets[a]]
    BY <1>1
  <1>3. Cardinality(new) \in Nat
    <2>1. IsFiniteSet(new)
      BY FS_Subset
    <2> QED BY <2>1, FS_CardinalityType
  <1>4. ASSUME NEW a \in new PROVE SplitPrice(total, Cardinality(new))[unit[a]] \in Nat \ {0}
    <2>1. unit[a] \in 1..Cardinality(new)
      BY DEF Bijection, Injection
    <2>2. SplitPrice(total, Cardinality(new))[unit[a]] \in Nat
      BY <1>3, <2>1, UnitPrice
    <2> QED BY <1>2, <2>2
  <1>5. assets' \in [Assets -> AssetRow \cup {None}]
    BY <1>2, <1>4, DatesAreDays DEF AssetRow, IInv, Shapes
  <1> QED BY <1>1, <1>2, <1>5

LEMMA EditRows ==
  ASSUME IInv, NEW p \in Requests, NEW a \in Assets, EditDated(p, a)
  PROVE  /\ YearOpen(p, assets[a].date) /\ YearOpen(p, assets'[a].date)
         /\ \A b \in Assets \ {a} : assets'[b] = assets[b]
         /\ assets'[a] # None
         /\ assets' \in [Assets -> AssetRow \cup {None}]
  <1>1. PICK d \in Dates, price \in Totals :
            /\ Rewritable(p, a, d)
            /\ assets' = [assets EXCEPT ![a] = [@ EXCEPT !.date = d, !.price = price]]
    BY DEF EditDated
  <1>2. assets[a] \in AssetRow
    BY DEF EditDated, IInv, Shapes
  <1>3. [assets[a] EXCEPT !.date = d, !.price = price] \in AssetRow
    BY <1>2, DatesAreDays DEF AssetRow
  <1> QED BY <1>1, <1>2, <1>3 DEF IInv, Shapes, Rewritable, AssetRow

LEMMA DisposeRows ==
  ASSUME IInv, NEW p \in Requests, NEW a \in Assets, Dispose(p, a)
  PROVE  \E d \in Dates :
         /\ YearOpen(p, d)
         /\ assets' = [assets EXCEPT ![a].disposed = d]
         /\ assets[a] \in AssetRow /\ assets[a].disposed = None /\ assets'[a] # None
         /\ assets' \in [Assets -> AssetRow \cup {None}]
  <1>1. PICK d \in Dates : /\ Disposable(p, a, d)
                           /\ assets' = [assets EXCEPT ![a].disposed = d]
    BY DEF Dispose
  <1>2. assets[a] \in AssetRow /\ assets[a].disposed = None
    BY DEF Dispose, IInv, Shapes
  <1>3. [assets[a] EXCEPT !.disposed = d] \in AssetRow
    BY <1>2, DatesAreDays DEF AssetRow
  <1> QED BY <1>1, <1>2, <1>3 DEF IInv, Shapes, Disposable

LEMMA RuleRows ==
  ASSUME IInv, NEW p \in Requests, CreateRule(p)
  PROVE  \E d \in Dates, terms \in Terms :
         /\ YearOpen(p, d)
         /\ rules' = Append(rules, [from |-> d, terms |-> terms])
         /\ rules' \in Seq([from : {0} \cup Dates, terms : {LaunchRule} \cup Terms])
  BY DEF CreateRule, IInv, Shapes

(* Every step keeps one transaction at a time past the lock, with the boundary it
   read still the closed one, and imported figures to the closed years. *)
THEOREM Inductive == IInv /\ [Next]_vars => IInv'
  <1> SUFFICES ASSUME IInv, [Next]_vars PROVE IInv'
    OBVIOUS
  <1>1. ASSUME NEW p \in Requests, Begin(p) PROVE IInv'
    <2>1. \A a \in Assets : ImportedYears(a)' = ImportedYears(a)
      BY <1>1 DEF Begin, books, ImportedYears
    <2>2. \A q \in Requests : seen[q] = None
      BY <1>1 DEF IInv, LockIsHeld, Begin, EntityFree
    <2>3. \A q \in Requests : sheet[q] = None
      BY <2>2 DEF IInv, LockIsHeld
    <2> QED BY <1>1, <2>1, <2>2, <2>3
            DEF Begin, books, IInv, Shapes, LockIsHeld, ImportsAreClosed
  <1>2. ASSUME NEW p \in Requests, Abort(p) PROVE IInv'
    BY <1>2, WrittenKeeps DEF Abort, books, IInv, Shapes
  <1>3. ASSUME NEW p \in Requests, Register(p) PROVE IInv'
    BY <1>3, RegisterRows, WrittenKeeps DEF Register, Writing, IInv, Shapes
  <1>4. ASSUME NEW p \in Requests, NEW a \in Assets, EditDated(p, a) PROVE IInv'
    BY <1>4, EditRows, WrittenKeeps DEF EditDated, Writing, IInv, Shapes
  <1>5. ASSUME NEW p \in Requests, NEW a \in Assets, Dispose(p, a) PROVE IInv'
    BY <1>5, DisposeRows, WrittenKeeps DEF Dispose, Writing, IInv, Shapes
  <1>6. ASSUME NEW p \in Requests, CreateRule(p) PROVE IInv'
    BY <1>6, RuleRows, WrittenKeeps DEF CreateRule, Writing, IInv, Shapes
  <1>7. ASSUME NEW p \in Requests, ComputeClose(p) PROVE IInv'
    <2>1. \A a \in Assets : ImportedYears(a)' = ImportedYears(a)
      BY <1>7 DEF ComputeClose, books, ImportedYears
    <2>2. PICK y \in Years : y > seen[p]
               /\ sheet' = [sheet EXCEPT ![p] = [year |-> y, rows |-> Rows(y)]]
      BY <1>7 DEF ComputeClose
    <2>3. \A a \in Assets : Rows(y)[a] # None => ~Rows(y)[a].imported
      BY DEF Rows
    <2>4. seen[p] # None /\ seen[p] = closed
      BY <1>7 DEF ComputeClose, Writing, IInv, LockIsHeld
    <2>5. LockIsHeld'
      BY <1>7, <2>2, <2>3, <2>4 DEF ComputeClose, books, IInv, Shapes, LockIsHeld
    <2> QED BY <1>7, <2>1, <2>2, <2>5
            DEF ComputeClose, books, IInv, Shapes, ImportsAreClosed
  <1>8. ASSUME NEW p \in Requests, StoreClose(p) PROVE IInv'
    <2>1. /\ seen[p] # None /\ sheet[p].year \in Years /\ sheet[p].year > closed
          /\ \A a \in Assets : sheet[p].rows[a] # None => ~sheet[p].rows[a].imported
      BY <1>8 DEF StoreClose, IInv, LockIsHeld
    <2>2. \A a \in Assets, y \in Years :
             figures'[a][y] = IF y = sheet[p].year THEN sheet[p].rows[a] ELSE figures[a][y]
      BY <1>8 DEF StoreClose, IInv, Shapes
    <2>3. \A a \in Assets : ImportedYears(a)' \subseteq ImportedYears(a)
      BY <2>1, <2>2 DEF ImportedYears
    <2>4. closed' \in 0..MaxYear /\ closed' > closed /\ closed \in Nat
      BY <1>8, <2>1 DEF StoreClose, Years, IInv, Shapes
    <2>5. ImportsAreClosed'
      BY <2>3, <2>4 DEF ImportsAreClosed, IInv, ImportedYears, Years
    <2>6. LockIsHeld'
      BY <1>8, <2>1, Released DEF StoreClose, LockIsHeld
    <2>7. figures' = [a \in Assets |-> [y \in Years |-> figures'[a][y]]]
      BY <1>8 DEF StoreClose, IInv, Shapes
    <2>8. Shapes'
      BY <1>8, <2>1, <2>4, <2>7, Released DEF StoreClose, IInv, Shapes
    <2> QED BY <2>5, <2>6, <2>8 DEF IInv
  <1>9. ASSUME NEW s \in Sheets, Import(s) PROVE IInv'
    <2>1. assets' \in [Assets -> AssetRow \cup {None}]
      BY <1>9, SheetsAssumption DEF Import
    <2>2. \A a \in Assets, y \in Years : figures'[a][y] # None =>
             a \in DOMAIN s /\ y \in DOMAIN s[a].figures
      BY <1>9 DEF Import
    <2>3. ImportsAreClosed'
      <3> SUFFICES ASSUME NEW a \in Assets, NEW y \in ImportedYears(a)' PROVE y <= closed'
        BY DEF ImportsAreClosed
      <3>1. y \in Years /\ a \in DOMAIN s /\ y \in DOMAIN s[a].figures
        BY <2>2 DEF ImportedYears
      <3>2. y \in YearOf(s[a].asset.date)..LastImported
        BY <3>1, SheetsAssumption
      <3> QED BY <1>9, <3>1, <3>2 DEF Import, Years
    <2>4. \A q \in Requests : seen[q] = None
      BY <1>9 DEF IInv, LockIsHeld, Import, EntityFree
    <2>5. LockIsHeld'
      BY <1>9, <2>4 DEF IInv, LockIsHeld, Import
    <2> QED BY <1>9, <2>1, <2>3, <2>5 DEF Import, IInv, Shapes
  <1>10. ASSUME Tick \/ UNCHANGED vars PROVE IInv'
    <2>1. UNCHANGED <<assets, rules, closed, figures, lock, seen, sheet>>
      BY <1>10 DEF Tick, vars
    <2>2. \A a \in Assets : ImportedYears(a)' = ImportedYears(a)
      BY <2>1 DEF ImportedYears
    <2> QED BY <2>1, <2>2 DEF IInv, Shapes, LockIsHeld, ImportsAreClosed
  <1> QED BY <1>1, <1>2, <1>3, <1>4, <1>5, <1>6, <1>7, <1>8, <1>9, <1>10 DEF Next

(* lockEntity: at every moment one transaction at a time is past the lock. *)
THEOREM Invariance == Spec => []IInv
  BY Initially, Inductive, PTL DEF Spec

-----------------------------------------------------------------------------
(* What a closed year is computed from *)

\* An asset that is not on the books in y has no row there.
LEMMA NoRowBefore ==
  ASSUME NEW a \in Assets, NEW y, assets[a] = None \/ y < PurchaseYear(a)
  PROVE  ComputedRow(Books(a), y) = {}
  <1>1. CASE assets[a] = None
    BY <1>1 DEF ComputedRow, Books
  <1>2. CASE assets[a] # None /\ y < PurchaseYear(a)
    <2>1. Inputs(a).purchaseYear = PurchaseYear(a)
      BY DEF Inputs
    <2>2. YearFigure(Inputs(a), y) = Zero
      BY <1>2, <2>1, OffTheBooks
    <2> QED BY <1>2, <2>2 DEF ComputedRow, Books
  <1> QED BY <1>1, <1>2

LEMMA NoRowBeforeNext ==
  ASSUME NEW a \in Assets, NEW y, (assets[a] = None)' \/ y < PurchaseYear(a)'
  PROVE  ComputedRow(Books(a)', y) = {}
  <1>1. CASE (assets[a] = None)'
    BY <1>1 DEF ComputedRow, Books
  <1>2. CASE (assets[a] # None)' /\ y < PurchaseYear(a)'
    <2>1. Inputs(a)'.purchaseYear = PurchaseYear(a)'
      BY DEF Inputs
    <2>2. YearFigure(Inputs(a)', y) = Zero
      BY <1>2, <2>1, OffTheBooks
    <2>3. Books(a)' = {Inputs(a)'}
      BY <1>2 DEF Books
    <2> QED BY <2>2, <2>3 DEF ComputedRow
  <1> QED BY <1>1, <1>2

\* The rows of the register, the rules it reads and its imported figures decide.
LEMMA SameBooks ==
  ASSUME NEW a \in Assets,
         assets'[a] = assets[a],
         assets[a] # None => RuleFor(rules', assets[a].date) = RuleFor(rules, assets[a].date),
         ImportedClosings(a)' = ImportedClosings(a)
  PROVE  Books(a)' = Books(a)
  <1>1. CASE assets[a] = None
    BY <1>1 DEF Books
  <1>2. CASE assets[a] # None
    <2>1. Anchor(a)' = Anchor(a)
      BY DEF Anchor
    <2>2. Inputs(a)' = Inputs(a)
      BY <1>2, <2>1 DEF Inputs, PurchaseYear
    <2> QED BY <1>2, <2>2 DEF Books
  <1> QED BY <1>1, <1>2

LEMMA SameClosings ==
  ASSUME NEW a \in Assets, UNCHANGED figures
  PROVE  ImportedClosings(a)' = ImportedClosings(a)
  BY DEF ImportedClosings, ImportedYears

\* A rule of a later year is not in force for an asset of an earlier one.
LEMMA LaterRule ==
  ASSUME NEW rs \in Seq([from : {0} \cup Dates, terms : {LaunchRule} \cup Terms]),
         NEW from \in Calendar, NEW terms \in Terms, NEW d \in Calendar, d < from
  PROVE  RuleFor(Append(rs, [from |-> from, terms |-> terms]), d) = RuleFor(rs, d)
  <1> DEFINE more == Append(rs, [from |-> from, terms |-> terms])
  <1>1. /\ DOMAIN more = 1..(Len(rs) + 1) /\ DOMAIN rs = 1..Len(rs) /\ Len(rs) \in Nat
        /\ \A i \in 1..Len(rs) : more[i] = rs[i]
        /\ more[Len(rs) + 1] = [from |-> from, terms |-> terms]
    OBVIOUS
  <1> HIDE DEF more
  <1>2. InForce(more, d) = InForce(rs, d)
    <2>1. more[Len(rs) + 1].from = from
      BY <1>1
    <2>2. ~(from <= d)
      BY DEF Calendar
    <2>3. \A i \in DOMAIN more : more[i].from <= d => i \in DOMAIN rs
      BY <1>1, <2>1, <2>2
    <2> QED BY <1>1, <2>3 DEF InForce
  <1>3. \A i \in InForce(rs, d) : more[i] = rs[i]
    BY <1>1 DEF InForce
  <1>4. Latest(more, d) = Latest(rs, d)
    BY <1>2, <1>3 DEF Latest
  <1>5. {more[i] : i \in Latest(more, d)} = {rs[i] : i \in Latest(rs, d)}
    BY <1>3, <1>4 DEF Latest
  <1> QED BY <1>5 DEF RuleFor, more

\* A disposal of a later year leaves the year alone.
LEMMA LaterDisposal ==
  ASSUME NEW x, NEW z, NEW y \in 1..MaxYear, NEW e \in 0..MaxYear, y < e,
         x.disposalYear = None, z.disposalYear = e,
         z.price = x.price, z.purchaseYear = x.purchaseYear, z.rule = x.rule,
         z.anchor = x.anchor
  PROVE  YearFigure(z, y) = YearFigure(x, y)
  <1>1. Schedule(z) = Schedule(x)
    BY DEF Schedule
  <1>2. \A s, i : BookEnd(z, s, i) = BookEnd(x, s, i)
    BY DEF BookEnd
  <1>3. y # None
    BY DEF Calendar
  <1> QED BY <1>1, <1>2, <1>3 DEF YearFigure

-----------------------------------------------------------------------------
(* What a closed year amounts to *)

Frozen == \A a \in Assets : \A y \in 1..closed :
              ComputedRow(Books(a)', y) = ComputedRow(Books(a), y)

\* The transaction past the lock knows which years are closed.
LEMMA OpenIsLater ==
  ASSUME IInv, NEW p \in Requests, seen[p] # None, NEW d, YearOpen(p, d),
         NEW y \in 1..closed
  PROVE  y < YearOf(d) \/ YearOf(d) \notin Int
  BY DEF YearOpen, IInv, LockIsHeld, Shapes

LEMMA FrozenByStep ==
  ASSUME IInv, [Next]_vars
  PROVE  Frozen
  <1>1. ASSUME NEW p \in Requests, Register(p) PROVE Frozen
    <2> SUFFICES ASSUME NEW a \in Assets, NEW y \in 1..closed
                 PROVE  ComputedRow(Books(a)', y) = ComputedRow(Books(a), y)
      BY DEF Frozen
    <2>1. PICK d \in Dates, new \in SUBSET {b \in Assets : assets[b] = None} :
            /\ YearOpen(p, d)
            /\ \A b \in Assets \ new : assets'[b] = assets[b]
            /\ \A b \in new : assets[b] = None /\ assets'[b].date = d
      BY <1>1, RegisterRows
    <2>2. CASE a \in new
      <3>1. y < PurchaseYear(a)'
        BY <1>1, <2>1, <2>2, OpenIsLater, YearOfDate, DatesAreDays
           DEF PurchaseYear, Register, Writing
      <3> QED BY <2>1, <2>2, <3>1, NoRowBefore, NoRowBeforeNext
    <2>3. CASE a \notin new
      BY <1>1, <2>1, <2>3, SameBooks, SameClosings DEF Register
    <2> QED BY <2>2, <2>3
  <1>2. ASSUME NEW p \in Requests, NEW b \in Assets, EditDated(p, b) PROVE Frozen
    <2> SUFFICES ASSUME NEW a \in Assets, NEW y \in 1..closed
                 PROVE  ComputedRow(Books(a)', y) = ComputedRow(Books(a), y)
      BY DEF Frozen
    <2>1. CASE a = b
      <3>1. assets[b] \in AssetRow /\ assets'[b] \in AssetRow
        BY <1>2, EditRows DEF EditDated, IInv, Shapes
      <3>2. assets[b].date \in Calendar /\ assets'[b].date \in Calendar
        BY <3>1 DEF AssetRow
      <3>3. seen[p] # None
        BY <1>2 DEF EditDated, Writing
      <3>4. YearOpen(p, assets[b].date) /\ YearOpen(p, assets'[b].date)
        BY <1>2, EditRows
      <3>5. y < PurchaseYear(b)
        BY <3>2, <3>3, <3>4, OpenIsLater, YearOfDate DEF PurchaseYear
      <3>6. y < PurchaseYear(b)'
        BY <3>2, <3>3, <3>4, OpenIsLater, YearOfDate DEF PurchaseYear
      <3> QED BY <2>1, <3>5, <3>6, NoRowBefore, NoRowBeforeNext
    <2>2. CASE a # b
      BY <1>2, <2>2, EditRows, SameBooks, SameClosings DEF EditDated
    <2> QED BY <2>1, <2>2
  <1>3. ASSUME NEW p \in Requests, NEW b \in Assets, Dispose(p, b) PROVE Frozen
    <2> SUFFICES ASSUME NEW a \in Assets, NEW y \in 1..closed
                 PROVE  ComputedRow(Books(a)', y) = ComputedRow(Books(a), y)
      BY DEF Frozen
    <2>1. PICK d \in Dates :
            /\ YearOpen(p, d)
            /\ assets' = [assets EXCEPT ![b].disposed = d]
            /\ assets[b] \in AssetRow /\ assets[b].disposed = None /\ assets'[b] # None
      BY <1>3, DisposeRows
    <2>2. CASE a = b
      <3>1. /\ assets'[a].date = assets[a].date /\ assets'[a].price = assets[a].price
            /\ assets'[a].disposed = d /\ assets[a] # None /\ d # None
        BY <2>1, <2>2, DatesAreDays DEF IInv, Shapes, AssetRow
      <3>2. Anchor(a)' = Anchor(a)
        BY <1>3, SameClosings DEF Dispose, Anchor
      <3>3. /\ Inputs(a)'.price = Inputs(a).price
            /\ Inputs(a)'.purchaseYear = Inputs(a).purchaseYear
            /\ Inputs(a)'.rule = Inputs(a).rule
            /\ Inputs(a)'.anchor = Inputs(a).anchor
            /\ Inputs(a).disposalYear = None
            /\ Inputs(a)'.disposalYear = YearOf(d)
        BY <1>3, <2>1, <2>2, <3>1, <3>2 DEF Inputs, PurchaseYear, Dispose
      <3>4. YearOf(d) \in 0..MaxYear /\ y \in 1..MaxYear /\ y < YearOf(d)
        BY <1>3, <2>1, OpenIsLater, YearOfDate, DatesAreDays
           DEF Dispose, Writing, IInv, Shapes
      <3>5. YearFigure(Inputs(a)', y) = YearFigure(Inputs(a), y)
        BY <3>3, <3>4, LaterDisposal
      <3>6. Books(a) = {Inputs(a)} /\ Books(a)' = {Inputs(a)'}
        BY <2>1, <2>2, <3>1 DEF Books
      <3> QED BY <3>3, <3>5, <3>6 DEF ComputedRow
    <2>3. CASE a # b
      BY <1>3, <2>1, <2>3, SameBooks, SameClosings DEF Dispose, IInv, Shapes
    <2> QED BY <2>2, <2>3
  <1>4. ASSUME NEW p \in Requests, CreateRule(p) PROVE Frozen
    <2> SUFFICES ASSUME NEW a \in Assets, NEW y \in 1..closed
                 PROVE  ComputedRow(Books(a)', y) = ComputedRow(Books(a), y)
      BY DEF Frozen
    <2>1. PICK d \in Dates, terms \in Terms :
            YearOpen(p, d) /\ rules' = Append(rules, [from |-> d, terms |-> terms])
      BY <1>4, RuleRows
    <2>2. UNCHANGED <<assets, closed, figures>>
      BY <1>4 DEF CreateRule
    <2>3. CASE assets[a] = None \/ y < PurchaseYear(a)
      <3>1. (assets[a] = None)' \/ y < PurchaseYear(a)'
        BY <2>2, <2>3 DEF PurchaseYear
      <3> QED BY <2>3, <3>1, NoRowBefore, NoRowBeforeNext
    <2>4. CASE assets[a] # None /\ ~(y < PurchaseYear(a))
      <3>1. assets[a].date \in Calendar
        BY <2>4 DEF IInv, Shapes, AssetRow
      <3>2. YearOf(assets[a].date) < YearOf(d)
        BY <1>4, <2>1, <2>4, <3>1, OpenIsLater, YearOfDate, DatesAreDays
           DEF PurchaseYear, CreateRule, Writing, IInv, Shapes
      <3>3. assets[a].date < d
        BY <3>1, <3>2, LaterYearLaterDate, DatesAreDays
      <3>4. rules \in Seq([from : {0} \cup Dates, terms : {LaunchRule} \cup Terms])
        BY DEF IInv, Shapes
      <3>5. RuleFor(rules', assets[a].date) = RuleFor(rules, assets[a].date)
        BY <2>1, <3>1, <3>3, <3>4, LaterRule, DatesAreDays
      <3> QED BY <2>2, <3>5, SameBooks, SameClosings
    <2> QED BY <2>3, <2>4
  <1>5. ASSUME NEW p \in Requests, StoreClose(p) PROVE Frozen
    <2> SUFFICES ASSUME NEW a \in Assets
                 PROVE  Books(a)' = Books(a)
      BY DEF Frozen
    <2>1. /\ sheet[p].year \in Years /\ sheet[p].year > closed
          /\ \A b \in Assets : sheet[p].rows[b] # None => ~sheet[p].rows[b].imported
      BY <1>5 DEF StoreClose, IInv, LockIsHeld
    <2>2. \A y \in Years :
             figures'[a][y] = IF y = sheet[p].year THEN sheet[p].rows[a] ELSE figures[a][y]
      BY <1>5 DEF StoreClose, IInv, Shapes
    <2>3. sheet[p].year \notin ImportedYears(a)
      BY <2>1 DEF IInv, ImportsAreClosed, Shapes, Years
    <2>4. ImportedYears(a)' = ImportedYears(a)
      BY <2>1, <2>2, <2>3 DEF ImportedYears
    <2>5. ImportedClosings(a)' = ImportedClosings(a)
      BY <2>2, <2>3, <2>4 DEF ImportedClosings, ImportedYears
    <2> QED BY <1>5, <2>5, SameBooks DEF StoreClose
  <1>6. ASSUME NEW s \in Sheets, Import(s) PROVE Frozen
    BY <1>6 DEF Import, Frozen
  <1>7. ASSUME UNCHANGED <<assets, rules, figures>> PROVE Frozen
    BY <1>7, SameBooks, SameClosings DEF Frozen
  <1> QED BY <1>1, <1>2, <1>3, <1>4, <1>5, <1>6, <1>7
          DEF Next, Begin, Abort, ComputeClose, Tick, books, vars

(* What a closed year amounts to, for every asset, is decided: guard.ts's lock
   and boundary keep every later or concurrent write out of it. *)
THEOREM ClosedYearsAreFrozen == Spec => BooksAreFrozen
  <1>1. IInv /\ [Next]_vars =>
          [\A a \in Assets : \A was \in {Books(a)}, is \in {Books(a)'} :
             \A y \in 1..closed : ComputedRow(is, y) = ComputedRow(was, y)]_vars
    BY FrozenByStep DEF Frozen
  <1> QED BY <1>1, Invariance, PTL DEF Spec, BooksAreFrozen

-----------------------------------------------------------------------------
(* What an asset's figures are computed from *)

LEMMA RuleIsOne ==
  ASSUME IInv, SomeRuleAlways, NEW d \in Calendar
  PROVE  WellFormed(RuleFor(rules, d))
  <1>1. /\ rules \in Seq([from : {0} \cup Dates, terms : {LaunchRule} \cup Terms])
        /\ Len(rules) \in Nat /\ DOMAIN rules = 1..Len(rules)
        /\ \A i \in DOMAIN rules : rules[i].from \in Calendar
                                   /\ rules[i].terms \in {LaunchRule} \cup Terms
    <2> DEFINE R == [from : {0} \cup Dates, terms : {LaunchRule} \cup Terms]
    <2>1. rules \in Seq(R)
      BY DEF IInv, Shapes
    <2>2. {0} \cup Dates \subseteq Calendar
      BY DatesAreDays DEF Calendar
    <2>3. /\ Len(rules) \in Nat /\ DOMAIN rules = 1..Len(rules)
          /\ \A i \in DOMAIN rules : rules[i] \in R
      <3> HIDE DEF R
      <3> QED BY <2>1
    <2>4. \A r \in R : r.from \in Calendar /\ r.terms \in {LaunchRule} \cup Terms
      BY <2>2
    <2> HIDE DEF R
    <2>5. \A i \in DOMAIN rules : rules[i].from \in Calendar
                                /\ rules[i].terms \in {LaunchRule} \cup Terms
      BY <2>3, <2>4
    <2> QED BY <2>1, <2>3, <2>5 DEF R
  <1> DEFINE F == {rules[i].from : i \in InForce(rules, d)}
             top == 2 * MaxYear + 1
  <1>2. F \in SUBSET (0..top) /\ F # {} /\ top \in Nat
    <2>1. PICK i \in DOMAIN rules : rules[i].from = 0
      BY DEF SomeRuleAlways
    <2>2. i \in InForce(rules, d)
      BY <2>1 DEF InForce, Calendar
    <2>3. \A j \in InForce(rules, d) : rules[j].from \in 0..top
      BY <1>1 DEF InForce, Calendar
    <2> QED BY <2>2, <2>3
  <1>3. PICK f \in F : \A g \in F : g <= f
    <2> HIDE DEF F, top
    <2> QED BY <1>2, Greatest
  <1> DEFINE I == {i \in InForce(rules, d) : rules[i].from = f}
  <1>4. I \in SUBSET (0..Len(rules)) /\ I # {}
    BY <1>1 DEF InForce
  <1>5. PICK i \in I : \A j \in I : j <= i
    <2> HIDE DEF I
    <2> QED BY <1>1, <1>4, Greatest
  <1>6. i \in Latest(rules, d)
    <2> SUFFICES ASSUME NEW j \in InForce(rules, d)
                 PROVE  rules[j].from < rules[i].from
                        \/ (rules[j].from = rules[i].from /\ j <= i)
      BY DEF Latest
    <2>1. rules[j].from \in F /\ rules[j].from \in Int /\ f \in Int
      BY <1>1 DEF InForce, Calendar
    <2>2. rules[j].from <= f /\ rules[i].from = f
      BY <1>3, <2>1
    <2>3. rules[j].from = f => j <= i
      BY <1>5
    <2> HIDE DEF F, I
    <2> QED BY <2>1, <2>2, <2>3
  <1>7. (CHOOSE rule \in {rules[j] : j \in Latest(rules, d)} : TRUE)
           \in {rules[j] : j \in Latest(rules, d)}
    BY <1>6
  <1>8. RuleFor(rules, d) \in {LaunchRule} \cup Terms
    BY <1>1, <1>7 DEF RuleFor, Latest, InForce
  <1> QED BY <1>8, RulesAssumption DEF WellFormed

LEMMA NoAnchor ==
  ASSUME NEW a \in Assets, ImportedYears(a) = {}
  PROVE  Anchor(a) = None
  BY DEF Anchor, AnchorOf, ImportedClosings

LEMMA AnchorOfSheet ==
  ASSUME IInv, NEW a \in Assets, Legacy(a), ImportedYears(a) # {}
  PROVE  /\ Anchor(a) # None
         /\ Anchor(a) = [year |-> LastImported,
                         value |-> figures[a][LastImported].figure.closing]
         /\ LastImported \in ImportedYears(a) /\ PurchaseYear(a) <= LastImported
         /\ figures[a][LastImported].figure.closing \in Nat
  <1>1. assets[a] \in AssetRow /\ PurchaseYear(a) \in 0..MaxYear
    BY YearOfDate DEF Legacy, IInv, Shapes, PurchaseYear, AssetRow
  <1>2. LastImported \in ImportedYears(a) /\ PurchaseYear(a) <= LastImported
    BY <1>1 DEF Legacy
  <1>3. figures[a][LastImported].figure.closing \in Nat
    BY <1>2 DEF Legacy
  <1> DEFINE D == DOMAIN ImportedClosings(a)
  <1>4. D = ImportedYears(a) /\ D \subseteq 1..LastImported
    BY DEF ImportedClosings, Legacy
  <1>5. Max(D) = LastImported
    <2> HIDE DEF D
    <2>1. LastImported \in D /\ \A y \in D : LastImported >= y
      BY <1>2, <1>4
    <2>2. \A z \in D : (\A y \in D : z >= y) => z = LastImported
      BY <1>4, <2>1
    <2> QED BY <2>1, <2>2 DEF Max
  <1>6. Anchor(a) = [year |-> LastImported, value |-> figures[a][LastImported].figure.closing]
    BY <1>2, <1>4, <1>5 DEF Anchor, AnchorOf, ImportedClosings
  <1>7. Anchor(a) \in AnchorRow
    BY <1>3, <1>6 DEF AnchorRow, Years
  <1> QED BY <1>2, <1>3, <1>6, <1>7

LEMMA AnchorCases ==
  ASSUME IInv, SheetsAreWhole, NEW a \in Assets
  PROVE  \/ ImportedYears(a) = {} /\ Anchor(a) = None
         \/ /\ Legacy(a) /\ Anchor(a) # None
            /\ Anchor(a) = [year |-> LastImported,
                            value |-> figures[a][LastImported].figure.closing]
            /\ LastImported \in ImportedYears(a) /\ PurchaseYear(a) <= LastImported
            /\ figures[a][LastImported].figure.closing \in Nat
  <1>1. CASE ImportedYears(a) = {}
    BY <1>1, NoAnchor
  <1>2. CASE ImportedYears(a) # {}
    BY <1>2, AnchorOfSheet DEF SheetsAreWhole
  <1> QED BY <1>1, <1>2

LEMMA SoundInputs ==
  ASSUME IInv, SomeRuleAlways, SheetsAreWhole, NEW a \in Assets, assets[a] # None
  PROVE  /\ Sound(Inputs(a))
         /\ Inputs(a).purchaseYear = PurchaseYear(a) /\ PurchaseYear(a) \in 0..MaxYear
         /\ Inputs(a).anchor = Anchor(a)
         /\ Inputs(a).disposalYear = None \/ Inputs(a).disposalYear \in 0..MaxYear
         /\ Legacy(a) /\ Inputs(a).disposalYear # None => Inputs(a).disposalYear > LastImported
  <1>1. assets[a] \in AssetRow
    BY DEF IInv, Shapes
  <1>2. /\ assets[a].date \in Calendar /\ assets[a].price \in Nat
        /\ assets[a].disposed \in Calendar \cup {None}
    BY <1>1 DEF AssetRow
  <1>3. PurchaseYear(a) \in 0..MaxYear /\ PurchaseYear(a) \in Calendar
    BY <1>2, YearOfDate DEF PurchaseYear, Calendar
  <1>4. WellFormed(RuleFor(rules, assets[a].date))
    BY <1>2, RuleIsOne
  <1>5. Anchor(a) # None => Anchor(a).year \in Nat /\ Anchor(a).value \in Nat
    BY AnchorCases
  <1>6. assets[a].disposed # None => YearOf(assets[a].disposed) \in 0..MaxYear
                                     /\ YearOf(assets[a].disposed) \in Calendar
    BY <1>2, YearOfDate DEF Calendar
  <1>7. /\ Inputs(a).price = assets[a].price /\ Inputs(a).purchaseYear = PurchaseYear(a)
        /\ Inputs(a).rule = RuleFor(rules, assets[a].date) /\ Inputs(a).anchor = Anchor(a)
        /\ Inputs(a).disposalYear = IF assets[a].disposed = None
                                    THEN None ELSE YearOf(assets[a].disposed)
    BY DEF Inputs
  <1>8. Sound(Inputs(a))
    BY <1>2, <1>3, <1>4, <1>5, <1>6, <1>7 DEF Sound
  <1>9. Legacy(a) /\ Inputs(a).disposalYear # None => Inputs(a).disposalYear > LastImported
    BY <1>7 DEF Legacy
  <1> QED BY <1>3, <1>6, <1>7, <1>8, <1>9

-----------------------------------------------------------------------------
(* The stored figures and the open ones *)

\* What is known of the stored figures, whatever is in flight.
Figured == IInv /\ SomeRuleAlways /\ SheetsAreWhole /\ NoDrift

LEMMA StoredIsComputed ==
  ASSUME Figured, NEW a \in Assets, assets[a] # None, NEW y \in 1..closed,
         y \notin ImportedYears(a), Anchor(a) = None \/ y > Anchor(a).year
  PROVE  Stored(a, y) = YearFigure(Inputs(a), y)
  <1>1. {Stored(a, y)} \ {Zero} = ComputedRow(Books(a), y)
    BY DEF Figured, NoDrift
  <1>2. Inputs(a).anchor = Anchor(a)
    BY DEF Inputs
  <1>3. ComputedRow(Books(a), y) = {YearFigure(Inputs(a), y)} \ {Zero}
    BY <1>2 DEF ComputedRow, Books
  <1> QED BY <1>1, <1>3

\* What an asset's closed year closed with is what the next year opens with.
LEMMA NextOpens ==
  ASSUME Figured, NEW a \in Assets, assets[a] # None,
         closed # 0, figures[a][closed] # None, closed + 1 \in Years,
         Inputs(a).purchaseYear <= closed + 1,
         Inputs(a).disposalYear = None \/ closed + 1 <= Inputs(a).disposalYear
  PROVE  figures[a][closed].figure.closing = YearFigure(Inputs(a), closed + 1).opening
  <1> DEFINE x == Inputs(a)
             e == closed + 1
  <1>1. /\ Sound(x) /\ x.purchaseYear = PurchaseYear(a) /\ x.anchor = Anchor(a)
        /\ PurchaseYear(a) \in 0..MaxYear
    BY SoundInputs DEF Figured
  <1>2. closed \in 1..MaxYear /\ e \in 0..MaxYear /\ e - 1 = closed /\ e - 1 \in 0..MaxYear
        /\ closed \in Years
    BY DEF Figured, IInv, Shapes, Years
  <1>3. Stored(a, closed) = figures[a][closed].figure
    BY DEF Stored
  <1>4. \/ ImportedYears(a) = {} /\ Anchor(a) = None
        \/ /\ Legacy(a) /\ Anchor(a) # None
           /\ Anchor(a) = [year |-> LastImported,
                           value |-> figures[a][LastImported].figure.closing]
           /\ LastImported \in ImportedYears(a) /\ PurchaseYear(a) <= LastImported
    BY AnchorCases DEF Figured
  <1>5. CASE closed \in ImportedYears(a)
    <2>1. closed = LastImported
      BY <1>2, <1>4, <1>5 DEF Legacy
    <2>2. x.anchor # None /\ e = x.anchor.year + 1
          /\ x.anchor.value = figures[a][closed].figure.closing
      BY <1>1, <1>4, <1>5, <2>1
    <2> HIDE DEF x, e
    <2> QED BY <1>1, <1>2, <2>2, ChainedFromAnchor DEF x, e
  <1>6. CASE closed \notin ImportedYears(a)
    <2>1. Anchor(a) = None \/ closed > Anchor(a).year
      BY <1>2, <1>4, <1>6 DEF Legacy
    <2>2. Stored(a, closed) = YearFigure(x, closed)
      BY <1>2, <1>6, <2>1, StoredIsComputed
    <2>3. x.anchor = None \/ x.purchaseYear < e
      BY <1>1, <1>2, <1>4, <2>1
    <2> HIDE DEF x
    <2>4. YearFigure(x, e).opening = YearFigure(x, e - 1).closing
      BY <1>1, <1>2, <2>3, Chained
    <2> QED BY <1>2, <1>3, <2>2, <2>4 DEF x
  <1> QED BY <1>5, <1>6

\* The open years, chained from what the last closed one stored, are the ones
\* computed one by one: no year of the chain drifts from the one before.
LEMMA OpenIsComputed ==
  ASSUME Figured, NEW a \in Assets, assets[a] # None, NEW y \in Years, y > closed
  PROVE  OpenYearFigure(a, y) = YearFigure(Inputs(a), y)
  <1> DEFINE x == Inputs(a)
             start == ChainStart(a)
             stored == closed # 0 /\ figures[a][closed] # None
             base == IF stored THEN figures[a][closed].figure ELSE None
             Step(carry, e) ==
               LET f == YearFigure(x, e)
               IN  IF Drifts(f, carry, e, x) THEN Rebased(f, carry, e, x) ELSE f
             Body(g) == [e \in (start - 1)..y |-> IF e < start THEN base ELSE Step(g[e - 1], e)]
             chain == CHOOSE g : g = Body(g)
             Whole == [e \in (start - 1)..y |-> IF e < start THEN base ELSE YearFigure(x, e)]
  <1>1. /\ Sound(x) /\ x.purchaseYear = PurchaseYear(a) /\ x.anchor = Anchor(a)
        /\ PurchaseYear(a) \in 0..MaxYear
    BY SoundInputs DEF Figured
  <1>2. closed \in 0..MaxYear /\ y \in 1..MaxYear /\ start \in 0..(MaxYear + 1)
    BY <1>1 DEF Figured, IInv, Shapes, Years, ChainStart
  <1>3. OpenYearFigure(a, y) = IF y < start THEN Zero ELSE chain[y]
    BY DEF OpenYearFigure
  <1>4. CASE y < start
    <2>1. y < x.purchaseYear
      BY <1>1, <1>2, <1>4 DEF ChainStart
    <2> QED BY <1>3, <1>4, <2>1, OffTheBooks
  <1>5. CASE ~(y < start)
    <2>1. ASSUME NEW e \in start..y
          PROVE  Step(IF e = start THEN base ELSE YearFigure(x, e - 1), e) = YearFigure(x, e)
      <3>1. e \in 0..MaxYear /\ e \in Int
        BY <1>2
      <3>2. CASE e = start
        <4>1. ASSUME stored, e >= x.purchaseYear, x.disposalYear = None \/ e <= x.disposalYear
              PROVE  base.closing = YearFigure(x, e).opening
          <5>1. e = closed + 1 /\ e \in Years
            BY <3>2, <4>1, <1>2 DEF ChainStart, Years
          <5> QED BY <4>1, <5>1, <1>1, <1>2, NextOpens
        <4>2. ~Drifts(YearFigure(x, e), base, e, x)
          <5> HIDE DEF x
          <5>1. CASE stored
            BY <4>1, <5>1 DEF Drifts
          <5>2. CASE ~stored
            BY <5>2 DEF Drifts
          <5> QED BY <5>1, <5>2
        <4> QED BY <3>2, <4>2
      <3>3. CASE e # start
        <4>2. x.anchor = None \/ x.purchaseYear < e
          <5>1. Anchor(a) # None => PurchaseYear(a) <= LastImported /\ LastImported <= closed
            BY AnchorCases DEF Figured, Legacy
          <5> QED BY <1>1, <1>2, <3>1, <3>3, <5>1 DEF ChainStart
        <4>3. e - 1 \in 0..MaxYear
          BY <1>2, <3>3
        <4>4. YearFigure(x, e).opening = YearFigure(x, e - 1).closing
          BY <1>1, <3>1, <4>2, <4>3, Chained
        <4>5. ~Drifts(YearFigure(x, e), YearFigure(x, e - 1), e, x)
          BY <4>4 DEF Drifts
        <4> QED BY <3>3, <4>5
      <3> QED BY <3>2, <3>3
    <2> HIDE DEF Step, x, base
    <2>2. start \in Int /\ y \in Int /\ start <= y
      BY <1>2, <1>5
    <2> HIDE DEF start
    <2>3. Whole = Body(Whole)
      <3> SUFFICES ASSUME NEW e \in (start - 1)..y
                   PROVE  Whole[e] = IF e < start THEN base ELSE Step(Whole[e - 1], e)
        OBVIOUS
      <3>1. CASE e < start
        BY <3>1
      <3>2. CASE ~(e < start)
        <4>1. e \in start..y /\ Whole[e] = YearFigure(x, e)
          BY <2>2, <3>2
        <4>2. Whole[e - 1] = IF e = start THEN base ELSE YearFigure(x, e - 1)
          BY <2>2, <3>2
        <4> QED BY <2>1, <3>2, <4>1, <4>2
      <3> QED BY <3>1, <3>2
    <2>4. chain = Body(chain)
      <3> HIDE DEF Body
      <3> QED BY <2>3
    <2> HIDE DEF chain
    <2>5. ASSUME NEW i \in Nat, NEW e \in (start - 1)..y, i = e - (start - 1),
                 \A j \in Nat : j < i => chain[start - 1 + j] = Whole[start - 1 + j]
          PROVE  chain[e] = Whole[e]
      <3>1. CASE e < start
        BY <2>2, <2>4, <3>1
      <3>2. CASE ~(e < start)
        <4>1. e - 1 \in (start - 1)..y /\ i - 1 \in Nat /\ start - 1 + (i - 1) = e - 1 /\ i - 1 < i
          BY <2>2, <2>5, <3>2
        <4>2. chain[e - 1] = Whole[e - 1]
          BY <2>5, <4>1
        <4>3. chain[e] = Step(chain[e - 1], e)
          BY <2>4, <3>2
        <4>4. Whole[e] = Step(Whole[e - 1], e)
          BY <2>3, <3>2
        <4> QED BY <4>2, <4>3, <4>4
      <3> QED BY <3>1, <3>2
    <2>6. chain[y] = Whole[y]
      <3> DEFINE m == y - (start - 1)
                 Wrong == {i \in 0..m : chain[start - 1 + i] # Whole[start - 1 + i]}
      <3> HIDE DEF Whole
      <3>1. Wrong \in SUBSET Nat
        BY <2>2
      <3>2. m \in Nat /\ start - 1 + m = y
        BY <2>2
      <3>3. ASSUME Wrong # {} PROVE FALSE
        <4>1. PICK i \in Wrong : \A j \in Wrong : i <= j
          <5> HIDE DEF Wrong
          <5> QED BY <3>1, <3>3, Least
        <4> DEFINE e == start - 1 + i
        <4>2. e \in (start - 1)..y /\ i \in Nat /\ i = e - (start - 1) /\ chain[e] # Whole[e]
          BY <2>2
        <4>3. \A j \in Nat : j < i => chain[start - 1 + j] = Whole[start - 1 + j]
          BY <2>2, <4>1
        <4> HIDE DEF e, Wrong
        <4> QED BY <2>5, <4>2, <4>3
      <3> HIDE DEF m
      <3>4. m \notin Wrong
        BY <3>3
      <3>5. chain[start - 1 + m] = Whole[start - 1 + m]
        BY <3>2, <3>4
      <3> QED BY <3>2, <3>5
    <2>7. Whole[y] = YearFigure(x, y)
      BY <2>2
    <2> QED BY <1>3, <1>5, <2>6, <2>7 DEF x, start
  <1> QED BY <1>4, <1>5

-----------------------------------------------------------------------------
(* What the figures need is kept by every step *)

LEMMA FirstYearIsFirst ==
  ASSUME IInv, NEW a \in Registered
  PROVE  FirstYear <= PurchaseYear(a) /\ FirstYear \in Nat
  <1> DEFINE S == {PurchaseYear(b) : b \in Registered}
  <1>1. S \in SUBSET Nat /\ S # {} /\ PurchaseYear(a) \in S
    <2>1. \A b \in Registered : PurchaseYear(b) \in Nat
      <3> TAKE b \in Registered
      <3>1. assets[b].date \in Calendar
        BY DEF Registered, IInv, Shapes, AssetRow
      <3> QED BY <3>1, YearOfDate DEF PurchaseYear
    <2> QED BY <2>1
  <1> HIDE DEF S
  <1>2. Min(S) \in S /\ \A i \in S : Min(S) <= i
    BY <1>1, MinOfNats
  <1> QED BY <1>1, <1>2 DEF FirstYear, S

\* The rows a close of the next year would store.
LEMMA RowsAreComputed ==
  ASSUME Figured, NEW y \in Years, y > closed, NEW a \in Assets
  PROVE  /\ Rows(y)[a] = None => ComputedRow(Books(a), y) = {}
         /\ Rows(y)[a] # None => {Rows(y)[a].figure} \ {Zero} = ComputedRow(Books(a), y)
  <1>1. CASE assets[a] = None \/ PurchaseYear(a) > y
    <2>1. Rows(y)[a] = None
      BY <1>1 DEF Rows
    <2>2. assets[a] = None \/ y < PurchaseYear(a)
      <3>1. assets[a] # None => PurchaseYear(a) \in Int
        <4>1. assets[a] # None => assets[a].date \in Calendar
          BY DEF Figured, IInv, Shapes, AssetRow
        <4> QED BY <4>1, YearOfDate DEF PurchaseYear
      <3> QED BY <1>1, <3>1 DEF Years
    <2> QED BY <2>1, <2>2, NoRowBefore
  <1>2. CASE assets[a] # None /\ ~(PurchaseYear(a) > y)
    <2>1. OpenYearFigure(a, y) = YearFigure(Inputs(a), y)
      BY <1>2, OpenIsComputed
    <2>2. Rows(y)[a] = IF YearFigure(Inputs(a), y) = Zero THEN None
                       ELSE [figure |-> YearFigure(Inputs(a), y), imported |-> FALSE]
      BY <1>2, <2>1 DEF Rows
    <2>3. YearFigure(Inputs(a), y) \in FigureRow
      BY <1>2, SoundInputs, FigureTyped DEF Figured, Years
    <2>4. [figure |-> YearFigure(Inputs(a), y), imported |-> FALSE] # None
      <3>1. [figure |-> YearFigure(Inputs(a), y), imported |-> FALSE] \in StoredRow
        BY <2>3 DEF StoredRow
      <3> QED BY <3>1
    <2>5. Inputs(a).anchor = None \/ y > Inputs(a).anchor.year
      BY AnchorCases DEF Figured, Legacy, Inputs, Years, IInv, Shapes
    <2>6. ComputedRow(Books(a), y) = {YearFigure(Inputs(a), y)} \ {Zero}
      BY <1>2, <2>5 DEF ComputedRow, Books
    <2> QED BY <2>2, <2>4, <2>6
  <1> QED BY <1>1, <1>2

\* The open years have the rows they had while the books stay as they are.
LEMMA SameRows ==
  ASSUME NEW y, UNCHANGED <<assets, rules, closed, figures>>
  PROVE  Rows(y)' = Rows(y) /\ FirstYear' = FirstYear /\ Registered' = Registered
  BY DEF Rows, OpenYearFigure, Inputs, Anchor, ImportedClosings, ImportedYears, PurchaseYear,
         ChainStart, FirstYear, Registered

(* The books begin with no closed year to drift. *)
THEOREM StoredInitially == Init => StoredInv
  <1> SUFFICES ASSUME Init PROVE StoredInv
    OBVIOUS
  <1>1. IInv
    BY Initially
  <1>2. SomeRuleAlways
    BY DEF Init, SomeRuleAlways
  <1>3. \A a \in Assets : ImportedYears(a) = {}
    BY DEF Init, ImportedYears
  <1> QED BY <1>1, <1>2, <1>3
          DEF Init, StoredInv, OpenYearsAreEmpty, SheetStands, SheetsAreWhole, NoDrift

\* Between a close and the next, what is stored and what it is computed from agree.
LEMMA NoDriftKept ==
  ASSUME IInv, NoDrift, [Next]_vars, UNCHANGED <<closed, figures>>
  PROVE  NoDrift'
  <1> SUFFICES ASSUME NEW a \in Assets, NEW y \in 1..closed
               PROVE  \/ y \in ImportedYears(a)'
                      \/ {Stored(a, y)'} \ {Zero} = ComputedRow(Books(a)', y)
    BY DEF NoDrift
  <1>1. ImportedYears(a)' = ImportedYears(a) /\ Stored(a, y)' = Stored(a, y)
    BY DEF ImportedYears, Stored
  <1>2. ComputedRow(Books(a)', y) = ComputedRow(Books(a), y)
    BY FrozenByStep DEF Frozen
  <1> QED BY <1>1, <1>2 DEF NoDrift

LEMMA OpenKept ==
  ASSUME OpenYearsAreEmpty, UNCHANGED <<closed, figures>>
  PROVE  OpenYearsAreEmpty'
  BY DEF OpenYearsAreEmpty

LEMMA LegacyKept ==
  ASSUME NEW a \in Assets, UNCHANGED <<closed, figures>>, assets'[a] = assets[a],
         ImportedYears(a) = {} \/ Legacy(a)
  PROVE  ImportedYears(a)' = {} \/ Legacy(a)'
  BY DEF Legacy, ImportedYears, PurchaseYear

\* The transaction past the lock wrote, and is over.
LEMMA WriteKeeps ==
  ASSUME StoredInv, [Next]_vars, NEW p \in Requests, seen[p] # None, Release(p),
         UNCHANGED <<closed, figures>>, SomeRuleAlways', SheetsAreWhole'
  PROVE  StoredInv'
  <1>1. IInv'
    BY Inductive DEF StoredInv
  <1>2. SheetStands'
    BY Released DEF SheetStands, StoredInv
  <1> QED BY <1>1, <1>2, NoDriftKept, OpenKept DEF StoredInv

LEMMA RulesKept ==
  ASSUME SomeRuleAlways, UNCHANGED rules
  PROVE  SomeRuleAlways'
  BY DEF SomeRuleAlways

LEMMA StoreKeeps ==
  ASSUME StoredInv, [Next]_vars, NEW p \in Requests, StoreClose(p)
  PROVE  StoredInv'
  <1> DEFINE last == sheet[p].year
  <1>1. /\ seen[p] # None /\ sheet[p] # None /\ last \in Years /\ last > closed
        /\ \A a \in Assets : sheet[p].rows[a] # None => ~sheet[p].rows[a].imported
    BY DEF StoreClose, StoredInv, IInv, LockIsHeld
  <1>2. /\ Registered # {}
        /\ last = IF closed # 0 THEN closed + 1 ELSE FirstYear
        /\ sheet[p].rows = Rows(last)
    BY <1>1 DEF StoredInv, SheetStands
  <1>3. closed' = last /\ UNCHANGED <<year, assets, rules>> /\ Release(p)
    BY DEF StoreClose
  <1>4. closed \in Nat /\ last \in 1..MaxYear
    BY <1>1 DEF StoredInv, IInv, Shapes, Years
  <1> HIDE DEF last
  <1>5. \A a \in Assets, y \in Years :
           figures'[a][y] = IF y = last THEN Rows(last)[a] ELSE figures[a][y]
    BY <1>2 DEF StoreClose, StoredInv, IInv, Shapes, last
  <1>6. \A a \in Assets : last \notin ImportedYears(a)
    BY <1>1, <1>4 DEF StoredInv, IInv, ImportsAreClosed, last
  <1>7. \A a \in Assets : ImportedYears(a)' = ImportedYears(a)
    <2> SUFFICES ASSUME NEW a \in Assets PROVE ImportedYears(a)' = ImportedYears(a)
      OBVIOUS
    <2>1. last \notin ImportedYears(a)'
      BY <1>1, <1>2, <1>5 DEF ImportedYears, last
    <2> QED BY <1>5, <1>6, <2>1 DEF ImportedYears
  <1>8. IInv'
    BY Inductive DEF StoredInv
  <1>9. SomeRuleAlways'
    BY <1>3, RulesKept DEF StoredInv
  <1>10. OpenYearsAreEmpty'
    BY <1>1, <1>3, <1>4, <1>5 DEF StoredInv, OpenYearsAreEmpty, Years
  <1>11. SheetStands'
    BY <1>1, <1>3, Released DEF StoredInv, SheetStands
  <1>12. SheetsAreWhole'
    <2> SUFFICES ASSUME NEW a \in Assets PROVE ImportedYears(a)' = {} \/ Legacy(a)'
      BY DEF SheetsAreWhole
    <2>1. CASE ImportedYears(a) = {}
      BY <1>7, <2>1
    <2>2. CASE Legacy(a)
      <3>1. assets'[a] # None /\ PurchaseYear(a)' = PurchaseYear(a) /\ assets'[a] = assets[a]
        BY <1>3, <2>2 DEF Legacy, PurchaseYear
      <3>2. LastImported <= closed'
        BY <1>1, <1>3, <1>4, <2>2 DEF Legacy, last
      <3>3. \A y \in ImportedYears(a) : figures'[a][y] = figures[a][y] /\ y \in Years
        BY <1>5, <1>6 DEF ImportedYears
      <3> QED BY <1>7, <2>2, <3>1, <3>2, <3>3 DEF Legacy
    <2> QED BY <2>1, <2>2 DEF StoredInv, SheetsAreWhole
  <1>13. NoDrift'
    <2> SUFFICES ASSUME NEW a \in Assets, NEW y \in 1..closed', y \notin ImportedYears(a)
                 PROVE  {Stored(a, y)'} \ {Zero} = ComputedRow(Books(a)', y)
      BY <1>7 DEF NoDrift
    <2>1. y \in Years /\ y \in Int
      BY <1>3, <1>4 DEF Years
    <2>2. Books(a)' = Books(a)
      <3>1. ImportedClosings(a)' = ImportedClosings(a)
        BY <1>5, <1>6, <1>7 DEF ImportedClosings, ImportedYears
      <3> QED BY <1>3, <3>1, SameBooks
    <2>3. CASE y <= closed
      <3>1. figures'[a][y] = figures[a][y]
        BY <1>1, <1>4, <1>5, <2>1, <2>3 DEF last
      <3>2. Stored(a, y)' = Stored(a, y)
        BY <3>1 DEF Stored
      <3> QED BY <2>1, <2>2, <2>3, <3>2 DEF StoredInv, NoDrift
    <2>4. CASE y = last
      <3>1. figures'[a][y] = Rows(last)[a]
        BY <1>5, <2>1, <2>4
      <3>2. /\ Rows(last)[a] = None => ComputedRow(Books(a), last) = {}
            /\ Rows(last)[a] # None =>
                 {Rows(last)[a].figure} \ {Zero} = ComputedRow(Books(a), last)
        BY <1>1, RowsAreComputed DEF StoredInv, Figured, last
      <3> QED BY <2>2, <2>4, <3>1, <3>2 DEF Stored
    <2>5. CASE closed < y /\ y < last
      <3>1. last = FirstYear
        BY <1>2, <1>4, <2>1, <2>5
      <3>2. assets[a] # None => y < PurchaseYear(a)
        <4>1. assets[a] # None => FirstYear <= PurchaseYear(a) /\ PurchaseYear(a) \in Int
          <5>1. assets[a] # None => assets[a].date \in Calendar
            BY DEF StoredInv, IInv, Shapes, AssetRow
          <5> QED BY <5>1, FirstYearIsFirst, YearOfDate DEF Registered, StoredInv, PurchaseYear
        <4> QED BY <1>4, <2>1, <2>5, <3>1, <4>1
      <3>3. ComputedRow(Books(a), y) = {}
        BY <3>2, NoRowBefore
      <3>4. figures'[a][y] = figures[a][y] /\ figures[a][y] = None
        BY <1>4, <1>5, <2>1, <2>5 DEF StoredInv, OpenYearsAreEmpty
      <3> QED BY <2>2, <3>3, <3>4 DEF Stored
    <2> QED BY <1>3, <1>4, <2>1, <2>3, <2>4, <2>5
  <1> QED BY <1>8, <1>9, <1>10, <1>11, <1>12, <1>13 DEF StoredInv

LEMMA ImportKeeps ==
  ASSUME StoredInv, [Next]_vars, NEW s \in Sheets, Import(s)
  PROVE  StoredInv'
  <1>1. /\ closed = 0 /\ closed' = LastImported /\ LastImported \in 1..MaxYear
        /\ UNCHANGED <<year, rules, lock, seen, sheet>> /\ lock = None
    BY DEF Import, EntityFree
  <1>2. \A a \in Assets : assets'[a] = IF a \in DOMAIN s THEN s[a].asset ELSE None
    BY DEF Import
  <1>3. \A a \in Assets, y \in Years :
           figures'[a][y] = IF a \in DOMAIN s /\ y \in DOMAIN s[a].figures
                            THEN [figure |-> s[a].figures[y], imported |-> TRUE] ELSE None
    BY DEF Import
  <1>4. ASSUME NEW a \in Assets, a \in DOMAIN s
        PROVE  /\ s[a].asset \in AssetRow
               /\ s[a].asset.disposed # None => YearOf(s[a].asset.disposed) > LastImported
               /\ DOMAIN s[a].figures = {y \in 1..LastImported : YearOf(s[a].asset.date) <= y}
               /\ \A y \in DOMAIN s[a].figures :
                     /\ s[a].figures[y] \in FigureRow /\ s[a].figures[y].closing \in Nat
                     /\ y - 1 \in DOMAIN s[a].figures =>
                           s[a].figures[y].opening = s[a].figures[y - 1].closing
                     /\ [figure |-> s[a].figures[y], imported |-> TRUE] # None
    <2>1. /\ s[a].asset \in AssetRow
          /\ s[a].asset.disposed # None => YearOf(s[a].asset.disposed) > LastImported
          /\ DOMAIN s[a].figures = {y \in 1..LastImported : YearOf(s[a].asset.date) <= y}
          /\ \A y \in DOMAIN s[a].figures :
                /\ s[a].figures[y] \in FigureRow /\ s[a].figures[y].closing \in Nat
                /\ y - 1 \in DOMAIN s[a].figures =>
                      s[a].figures[y].opening = s[a].figures[y - 1].closing
      BY <1>4, SheetsAssumption
    <2>2. \A f \in FigureRow : [figure |-> f, imported |-> TRUE] \in StoredRow
      BY DEF StoredRow
    <2> QED BY <2>1, <2>2
  <1>5. ASSUME NEW a \in Assets
        PROVE  ImportedYears(a)' = IF a \in DOMAIN s THEN DOMAIN s[a].figures ELSE {}
    <2>1. CASE a \in DOMAIN s
      <3>1. DOMAIN s[a].figures \subseteq Years
        BY <1>1, <1>4, <2>1 DEF Years
      <3>2. \A y \in DOMAIN s[a].figures :
               figures'[a][y] # None /\ figures'[a][y].imported
        <4> SUFFICES ASSUME NEW y \in DOMAIN s[a].figures
                     PROVE  figures'[a][y] # None /\ figures'[a][y].imported
          OBVIOUS
        <4>1. figures'[a][y] = [figure |-> s[a].figures[y], imported |-> TRUE]
          BY <1>3, <2>1, <3>1
        <4>2. [figure |-> s[a].figures[y], imported |-> TRUE] # None
          BY <1>4, <2>1
        <4> QED BY <4>1, <4>2
      <3>3. \A y \in Years \ DOMAIN s[a].figures : figures'[a][y] = None
        BY <1>3
      <3> QED BY <2>1, <3>1, <3>2, <3>3 DEF ImportedYears
    <2>2. CASE a \notin DOMAIN s
      BY <1>3, <2>2 DEF ImportedYears
    <2> QED BY <2>1, <2>2
  <1>6. IInv'
    BY Inductive DEF StoredInv
  <1>7. SomeRuleAlways'
    BY <1>1, RulesKept DEF StoredInv
  <1>8. OpenYearsAreEmpty'
    <2> SUFFICES ASSUME NEW a \in Assets, NEW y \in Years, y > LastImported
                 PROVE  figures'[a][y] = None
      BY <1>1 DEF OpenYearsAreEmpty
    <2>1. a \in DOMAIN s => y \notin DOMAIN s[a].figures
      BY <1>1, <1>4 DEF Years
    <2> QED BY <1>3, <2>1
  <1>9. SheetStands'
    BY <1>1 DEF StoredInv, IInv, LockIsHeld, SheetStands
  <1>10. SheetsAreWhole'
    <2> SUFFICES ASSUME NEW a \in Assets, a \in DOMAIN s PROVE Legacy(a)'
      BY <1>5 DEF SheetsAreWhole
    <2>1. assets'[a] = s[a].asset /\ s[a].asset # None
      BY <1>2, <1>4
    <2>2. PurchaseYear(a)' = YearOf(s[a].asset.date)
      BY <2>1 DEF PurchaseYear
    <2>3. ImportedYears(a)' = DOMAIN s[a].figures
      BY <1>5
    <2>4. \A y \in DOMAIN s[a].figures : figures'[a][y].figure = s[a].figures[y]
      <3>1. DOMAIN s[a].figures \subseteq Years
        BY <1>1, <1>4 DEF Years
      <3> SUFFICES ASSUME NEW y \in DOMAIN s[a].figures
                   PROVE  figures'[a][y].figure = s[a].figures[y]
        OBVIOUS
      <3>2. figures'[a][y] = [figure |-> s[a].figures[y], imported |-> TRUE]
        BY <1>3, <3>1
      <3> QED BY <3>2
    <2>5. \A y \in ImportedYears(a)' :
             /\ figures'[a][y].figure \in FigureRow
             /\ figures'[a][y].figure.closing \in Nat
             /\ y - 1 \in ImportedYears(a)' =>
                   figures'[a][y].figure.opening = figures'[a][y - 1].figure.closing
      BY <1>4, <2>3, <2>4
    <2>6. /\ LastImported <= closed'
          /\ assets'[a].disposed # None => YearOf(assets'[a].disposed) > LastImported
          /\ ImportedYears(a)' = {y \in 1..LastImported : PurchaseYear(a)' <= y}
      BY <1>1, <1>4, <2>1, <2>2, <2>3
    <2> QED BY <2>1, <2>5, <2>6 DEF Legacy
  <1>11. NoDrift'
    <2> SUFFICES ASSUME NEW a \in Assets, NEW y \in 1..LastImported,
                        y \notin ImportedYears(a)'
                 PROVE  {Stored(a, y)'} \ {Zero} = ComputedRow(Books(a)', y)
      BY <1>1 DEF NoDrift
    <2>1. y \in Years
      BY <1>1 DEF Years
    <2>2. figures'[a][y] = None
      BY <1>3, <1>5, <2>1
    <2>3. (assets[a] = None)' \/ y < PurchaseYear(a)'
      <3>1. CASE a \in DOMAIN s
        <4>1. ~(YearOf(s[a].asset.date) <= y) /\ s[a].asset \in AssetRow
          BY <1>4, <1>5, <3>1
        <4>2. s[a].asset.date \in Calendar
          BY <4>1 DEF AssetRow
        <4>3. PurchaseYear(a)' = YearOf(s[a].asset.date)
          BY <1>2, <3>1 DEF PurchaseYear
        <4> QED BY <4>1, <4>2, <4>3, YearOfDate
      <3>2. CASE a \notin DOMAIN s
        BY <1>2, <3>2
      <3> QED BY <3>1, <3>2
    <2> QED BY <2>2, <2>3, NoRowBeforeNext DEF Stored
  <1> QED BY <1>6, <1>7, <1>8, <1>9, <1>10, <1>11 DEF StoredInv

\* The transaction past the lock, and no other, has a sheet or a boundary.
LEMMA OneTransaction ==
  ASSUME IInv, NEW p \in Requests, seen[p] # None
  PROVE  /\ seen[p] = closed /\ closed \in 0..MaxYear
         /\ \A q \in Requests \ {p} : seen[q] = None /\ sheet[q] = None
  BY DEF IInv, Shapes, LockIsHeld

LEMMA RegisterKeeps ==
  ASSUME StoredInv, [Next]_vars, NEW p \in Requests, Register(p)
  PROVE  StoredInv'
  <1>1. seen[p] # None /\ Release(p) /\ UNCHANGED <<rules, closed, figures>>
    BY DEF Register, Writing
  <1>2. PICK d \in Dates, new \in SUBSET {a \in Assets : assets[a] = None} :
            /\ \A a \in Assets \ new : assets'[a] = assets[a]
            /\ \A a \in new : assets[a] = None /\ assets'[a].date = d
    BY RegisterRows DEF StoredInv
  <1>3. SheetsAreWhole'
    <2> SUFFICES ASSUME NEW a \in Assets PROVE ImportedYears(a)' = {} \/ Legacy(a)'
      BY DEF SheetsAreWhole
    <2>1. ImportedYears(a) = {} \/ Legacy(a)
      BY DEF StoredInv, SheetsAreWhole
    <2>2. CASE a \in new
      BY <1>1, <1>2, <2>1, <2>2 DEF Legacy, ImportedYears
    <2>3. CASE a \notin new
      BY <1>1, <1>2, <2>1, <2>3, LegacyKept
    <2> QED BY <2>2, <2>3
  <1> QED BY <1>1, <1>3, WriteKeeps, RulesKept DEF StoredInv

LEMMA EditKeeps ==
  ASSUME StoredInv, [Next]_vars, NEW p \in Requests, NEW b \in Assets, EditDated(p, b)
  PROVE  StoredInv'
  <1>1. seen[p] # None /\ Release(p) /\ UNCHANGED <<rules, closed, figures>> /\ assets[b] # None
    BY DEF EditDated, Writing
  <1>2. /\ YearOpen(p, assets[b].date)
        /\ \A a \in Assets \ {b} : assets'[a] = assets[a]
    BY EditRows DEF StoredInv
  <1>3. SheetsAreWhole'
    <2> SUFFICES ASSUME NEW a \in Assets PROVE ImportedYears(a)' = {} \/ Legacy(a)'
      BY DEF SheetsAreWhole
    <2>1. ImportedYears(a) = {} \/ Legacy(a)
      BY DEF StoredInv, SheetsAreWhole
    <2>2. CASE a = b
      <3>1. assets[a].date \in Calendar
        BY <1>1, <2>2 DEF StoredInv, IInv, Shapes, AssetRow
      <3>2. PurchaseYear(a) > closed /\ PurchaseYear(a) \in Int /\ closed \in Int
        BY <1>1, <1>2, <2>2, <3>1, OneTransaction, YearOfDate DEF StoredInv, YearOpen, PurchaseYear
      <3>3. Legacy(a) => ImportedYears(a) = {}
        BY <3>2 DEF Legacy
      <3> QED BY <1>1, <2>1, <3>3 DEF ImportedYears
    <2>3. CASE a # b
      BY <1>1, <1>2, <2>1, <2>3, LegacyKept
    <2> QED BY <2>2, <2>3
  <1> QED BY <1>1, <1>3, WriteKeeps, RulesKept DEF StoredInv

LEMMA DisposeKeeps ==
  ASSUME StoredInv, [Next]_vars, NEW p \in Requests, NEW b \in Assets, Dispose(p, b)
  PROVE  StoredInv'
  <1>1. seen[p] # None /\ Release(p) /\ UNCHANGED <<rules, closed, figures>>
    BY DEF Dispose, Writing
  <1>2. PICK d \in Dates :
         /\ YearOpen(p, d)
         /\ assets' = [assets EXCEPT ![b].disposed = d]
         /\ assets[b] \in AssetRow /\ assets'[b] # None
    BY DisposeRows DEF StoredInv
  <1>3. SheetsAreWhole'
    <2> SUFFICES ASSUME NEW a \in Assets PROVE ImportedYears(a)' = {} \/ Legacy(a)'
      BY DEF SheetsAreWhole
    <2>1. ImportedYears(a) = {} \/ Legacy(a)
      BY DEF StoredInv, SheetsAreWhole
    <2>2. CASE a = b /\ Legacy(a)
      <3>1. /\ assets'[a].date = assets[a].date /\ assets'[a].disposed = d /\ assets'[a] # None
        BY <1>2, <2>2 DEF StoredInv, IInv, Shapes, AssetRow
      <3>2. YearOf(d) > LastImported
        BY <1>1, <1>2, <2>2, OneTransaction, YearOfDate, DatesAreDays
           DEF StoredInv, YearOpen, Legacy
      <3>3. PurchaseYear(a)' = PurchaseYear(a) /\ ImportedYears(a)' = ImportedYears(a)
        BY <1>1, <3>1 DEF PurchaseYear, ImportedYears
      <3> QED BY <1>1, <2>2, <3>1, <3>2, <3>3 DEF Legacy
    <2>3. CASE ImportedYears(a) = {}
      BY <1>1, <2>3 DEF ImportedYears
    <2>4. CASE a # b
      BY <1>1, <1>2, <2>1, <2>4, LegacyKept DEF StoredInv, IInv, Shapes
    <2> QED BY <2>1, <2>2, <2>3, <2>4
  <1> QED BY <1>1, <1>3, WriteKeeps, RulesKept DEF StoredInv

LEMMA RuleKeeps ==
  ASSUME StoredInv, [Next]_vars, NEW p \in Requests, CreateRule(p)
  PROVE  StoredInv'
  <1>1. seen[p] # None /\ Release(p) /\ UNCHANGED <<assets, closed, figures>>
    BY DEF CreateRule, Writing
  <1>2. PICK d \in Dates, terms \in Terms : rules' = Append(rules, [from |-> d, terms |-> terms])
    BY RuleRows DEF StoredInv
  <1>3. SomeRuleAlways'
    <2>1. PICK i \in DOMAIN rules : rules[i].from = 0
      BY DEF StoredInv, SomeRuleAlways
    <2>2. rules \in Seq([from : {0} \cup Dates, terms : {LaunchRule} \cup Terms])
      BY DEF StoredInv, IInv, Shapes
    <2>3. i \in DOMAIN rules' /\ rules'[i] = rules[i]
      BY <1>2, <2>2
    <2> QED BY <2>1, <2>3 DEF SomeRuleAlways
  <1>4. SheetsAreWhole'
    BY <1>1, LegacyKept DEF StoredInv, SheetsAreWhole
  <1> QED BY <1>1, <1>3, <1>4, WriteKeeps DEF StoredInv

\* A step that writes nothing: only what is in flight may change.
LEMMA ReadKeeps ==
  ASSUME StoredInv, [Next]_vars, UNCHANGED <<assets, rules, closed, figures>>, SheetStands'
  PROVE  StoredInv'
  <1>1. SheetsAreWhole'
    BY LegacyKept DEF StoredInv, SheetsAreWhole
  <1> QED BY <1>1, Inductive, NoDriftKept, OpenKept, RulesKept DEF StoredInv

LEMMA ComputeKeeps ==
  ASSUME StoredInv, [Next]_vars, NEW p \in Requests, ComputeClose(p)
  PROVE  StoredInv'
  <1>1. /\ seen[p] # None /\ Registered # {}
        /\ UNCHANGED <<assets, rules, closed, figures>>
    BY DEF ComputeClose, Writing, books
  <1>2. PICK y \in Years : Closable(y, seen[p])
                           /\ sheet' = [sheet EXCEPT ![p] = [year |-> y, rows |-> Rows(y)]]
    BY DEF ComputeClose
  <1>3. y = IF closed # 0 THEN closed + 1 ELSE FirstYear
    BY <1>1, <1>2, OneTransaction DEF StoredInv, Closable
  <1>4. SheetStands'
    <2> SUFFICES ASSUME NEW q \in Requests, sheet'[q] # None
                 PROVE  /\ Registered' # {}
                        /\ sheet'[q].year = IF closed' # 0 THEN closed' + 1 ELSE FirstYear'
                        /\ sheet'[q].rows = Rows(sheet[q].year)'
      BY DEF SheetStands
    <2>1. q = p
      BY <1>1, <1>2, OneTransaction DEF StoredInv
    <2>2. sheet'[q] = [year |-> y, rows |-> Rows(y)]
      <3>1. DOMAIN sheet = Requests
        BY DEF StoredInv, IInv, Shapes
      <3> QED BY <1>2, <2>1, <3>1
    <2>3. Rows(y)' = Rows(y) /\ FirstYear' = FirstYear /\ Registered' = Registered
      BY <1>1, SameRows
    <2>4. Rows(sheet[q].year)' = Rows(y)'
      BY <2>2
    <2> QED BY <1>1, <1>3, <2>2, <2>3, <2>4
  <1> QED BY <1>1, <1>4, ReadKeeps

(* No step of any writer makes a stored figure differ from what the books say of its
   year, nor an unstored row of the year being closed. *)
THEOREM StoredInductive == StoredInv /\ [Next]_vars => StoredInv'
  <1> SUFFICES ASSUME StoredInv, [Next]_vars PROVE StoredInv'
    OBVIOUS
  <1>1. ASSUME NEW p \in Requests, Begin(p) PROVE StoredInv'
    <2>1. UNCHANGED <<assets, rules, closed, figures, sheet>>
      BY <1>1 DEF Begin, books
    <2>2. \A q \in Requests : sheet[q] = None
      BY <1>1 DEF StoredInv, IInv, LockIsHeld, Begin, EntityFree
    <2>3. SheetStands'
      BY <2>1, <2>2 DEF SheetStands
    <2> QED BY <2>1, <2>3, ReadKeeps
  <1>2. ASSUME NEW p \in Requests, Abort(p) PROVE StoredInv'
    <2>1. UNCHANGED <<assets, rules, closed, figures>>
      BY <1>2 DEF Abort, books
    <2>2. SheetStands'
      BY <1>2, Released DEF Abort, SheetStands, StoredInv
    <2> QED BY <2>1, <2>2, ReadKeeps
  <1>3. ASSUME Tick \/ UNCHANGED vars PROVE StoredInv'
    <2>1. UNCHANGED <<assets, rules, closed, figures, sheet>>
      BY <1>3 DEF Tick, vars
    <2>2. SheetStands'
      <3> SUFFICES ASSUME NEW q \in Requests, sheet[q] # None
                   PROVE  /\ Registered' # {}
                          /\ sheet[q].year = IF closed' # 0 THEN closed' + 1 ELSE FirstYear'
                          /\ sheet[q].rows = Rows(sheet[q].year)'
        BY <2>1 DEF SheetStands
      <3>1. /\ Rows(sheet[q].year)' = Rows(sheet[q].year) /\ FirstYear' = FirstYear
            /\ Registered' = Registered
        BY <2>1, SameRows
      <3> QED BY <2>1, <3>1 DEF StoredInv, SheetStands
    <2> QED BY <2>1, <2>2, ReadKeeps
  <1> QED BY <1>1, <1>2, <1>3, RegisterKeeps, EditKeeps, DisposeKeeps, RuleKeeps, ComputeKeeps,
             StoreKeeps, ImportKeeps DEF Next

(* The stored figures, the sheet of a close in flight and the imported years agree
   with the register at every moment. *)
THEOREM StoredInvariance == Spec => []StoredInv
  BY StoredInitially, StoredInductive, PTL DEF Spec

(* close.repo.ts: the stored figure of every closed year stays the one the register
   and the rules give: a close misses no write and none comes after it. *)
THEOREM NothingDrifts == Spec => []NoDrift
  <1>1. StoredInv => NoDrift
    BY DEF StoredInv
  <1> QED BY <1>1, StoredInvariance, PTL

\* The figure of a year that is not the sheet's is the computed one.
LEMMA FigureIs ==
  ASSUME Figured, NEW a \in Assets, assets[a] # None, NEW y \in Years,
         y \notin ImportedYears(a), PurchaseYear(a) <= y
  PROVE  /\ (IF y <= closed THEN Stored(a, y) ELSE OpenYearFigure(a, y))
               = YearFigure(Inputs(a), y)
         /\ Inputs(a).anchor = None \/ (Legacy(a) /\ y > LastImported)
  <1>1. closed \in 0..MaxYear /\ y \in 1..MaxYear /\ PurchaseYear(a) \in 0..MaxYear
    BY SoundInputs DEF Figured, IInv, Shapes, Years
  <1>2. Inputs(a).anchor = Anchor(a)
    BY DEF Inputs
  <1>3. \/ Anchor(a) = None
        \/ /\ Legacy(a) /\ Anchor(a).year = LastImported /\ y > LastImported
    BY <1>1, AnchorCases DEF Figured, Legacy
  <1>4. CASE y <= closed
    <2>1. Stored(a, y) = YearFigure(Inputs(a), y)
      BY <1>1, <1>3, <1>4, StoredIsComputed
    <2> QED BY <1>2, <1>3, <1>4, <2>1
  <1>5. CASE ~(y <= closed)
    <2>1. OpenYearFigure(a, y) = YearFigure(Inputs(a), y)
      BY <1>1, <1>5, OpenIsComputed
    <2> QED BY <1>2, <1>3, <1>5, <2>1
  <1> QED BY <1>4, <1>5

LEMMA FiguredReconciles ==
  ASSUME Figured
  PROVE  Reconciles
  <1> SUFFICES ASSUME NEW a \in Registered
               PROVE  /\ \A y \in Years : y > closed =>
                           {OpenYearFigure(a, y)} \ {Zero} = ComputedRow(Books(a), y)
                      /\ \A y \in Years \ {1} :
                           PurchaseYear(a) < y =>
                             (IF y <= closed THEN Stored(a, y) ELSE OpenYearFigure(a, y)).opening
                               = (IF y - 1 <= closed THEN Stored(a, y - 1)
                                  ELSE OpenYearFigure(a, y - 1)).closing
    BY DEF Reconciles
  <1> DEFINE x == Inputs(a)
  <1>1. a \in Assets /\ assets[a] # None
    BY DEF Registered
  <1>2. /\ Sound(x) /\ x.purchaseYear = PurchaseYear(a) /\ x.anchor = Anchor(a)
        /\ PurchaseYear(a) \in 0..MaxYear /\ closed \in 0..MaxYear
        /\ x.disposalYear = None \/ x.disposalYear \in 0..MaxYear
        /\ Legacy(a) /\ x.disposalYear # None => x.disposalYear > LastImported
    BY <1>1, SoundInputs DEF Figured, IInv, Shapes
  <1>3. ASSUME NEW y \in Years, y > closed
        PROVE  {OpenYearFigure(a, y)} \ {Zero} = ComputedRow(Books(a), y)
    <2>1. OpenYearFigure(a, y) = YearFigure(x, y)
      BY <1>1, <1>3, OpenIsComputed
    <2>2. x.anchor = None \/ y > x.anchor.year
      BY <1>1, <1>2, <1>3, AnchorCases DEF Figured, Legacy, Years
    <2> QED BY <1>1, <2>1, <2>2 DEF ComputedRow, Books
  <1>4. ASSUME NEW y \in Years \ {1}, PurchaseYear(a) < y
        PROVE  (IF y <= closed THEN Stored(a, y) ELSE OpenYearFigure(a, y)).opening
                 = (IF y - 1 <= closed THEN Stored(a, y - 1)
                    ELSE OpenYearFigure(a, y - 1)).closing
    <2> DEFINE fig(e) == IF e <= closed THEN Stored(a, e) ELSE OpenYearFigure(a, e)
    <2>1. /\ y \in 0..MaxYear /\ y - 1 \in 0..MaxYear /\ y \in Years /\ y - 1 \in Years
          /\ y \in Int /\ PurchaseYear(a) <= y /\ PurchaseYear(a) <= y - 1
      BY <1>2, <1>4 DEF Years
    <2>2. CASE y \in ImportedYears(a)
      <3>1. Legacy(a) /\ y \in 1..LastImported /\ y - 1 \in ImportedYears(a)
        BY <1>1, <2>1, <2>2 DEF Figured, SheetsAreWhole, Legacy
      <3>2. y <= closed /\ y - 1 <= closed
        BY <1>2, <2>1, <3>1 DEF Legacy
      <3>3. /\ Stored(a, y) = figures[a][y].figure /\ Stored(a, y - 1) = figures[a][y - 1].figure
        BY <2>2, <3>1 DEF Stored, ImportedYears
      <3> QED BY <2>2, <3>1, <3>2, <3>3 DEF Legacy
    <2>3. CASE y \notin ImportedYears(a)
      <3>1. fig(y) = YearFigure(x, y) /\ (x.anchor = None \/ (Legacy(a) /\ y > LastImported))
        BY <1>1, <2>1, <2>3, FigureIs
      <3>2. CASE y - 1 \in ImportedYears(a)
        <4>1. /\ Legacy(a) /\ x.anchor # None
              /\ x.anchor = [year |-> LastImported,
                             value |-> figures[a][LastImported].figure.closing]
          BY <1>1, <1>2, <3>2, AnchorCases DEF Figured
        <4>2. y - 1 = LastImported
          BY <2>1, <3>1, <3>2, <4>1 DEF Legacy
        <4>3. x.disposalYear = None \/ y <= x.disposalYear
          BY <1>2, <2>1, <4>1, <4>2
        <4>4. y = x.anchor.year + 1
          BY <2>1, <4>1, <4>2
        <4> HIDE DEF x
        <4>5. YearFigure(x, y).opening = x.anchor.value
          BY <1>2, <2>1, <4>1, <4>3, <4>4, ChainedFromAnchor
        <4>6. y - 1 <= closed /\ Stored(a, y - 1) = figures[a][y - 1].figure
          BY <1>2, <3>2, <4>1, <4>2 DEF Legacy, Stored, ImportedYears
        <4> QED BY <3>1, <4>1, <4>2, <4>5, <4>6
      <3>3. CASE y - 1 \notin ImportedYears(a)
        <4>1. fig(y - 1) = YearFigure(x, y - 1)
          BY <1>1, <2>1, <3>3, FigureIs
        <4>2. YearFigure(x, y).opening = YearFigure(x, y - 1).closing
          <5> HIDE DEF x
          <5> QED BY <1>2, <1>4, <2>1, Chained
        <4> QED BY <3>1, <4>1, <4>2
      <3> QED BY <3>2, <3>3
    <2> QED BY <2>2, <2>3
  <1> QED BY <1>3, <1>4

LEMMA FiguredWrittenDown ==
  ASSUME Figured
  PROVE  WrittenDown
  <1> SUFFICES ASSUME NEW a \in Registered, NEW x, x = Inputs(a),
                      NEW schedule, schedule = Schedule(x),
                      NEW first, first = FirstOf(x), NEW last, last = LastOf(x),
                      NEW worth, worth = Worth(x), NEW span, span = worth - x.rule.residual
               PROVE  /\ \A y \in first..last :
                            BookEnd(x, schedule, y) <= BookEnd(x, schedule, y - 1)
                      /\ BookEnd(x, schedule, last) = IF first > last THEN worth
                                                      ELSE Min({worth, x.rule.residual})
                      /\ x.anchor = None /\ span > 0 /\ ~LowValue(x.price, x.rule) =>
                           \A y \in first..last :
                             BookEnd(x, schedule, y)
                               = worth - StraightLine(span, x.rule, y - first + 1)
    BY DEF WrittenDown, FirstOf, LastOf, Worth
  <1>1. Sound(x)
    BY SoundInputs DEF Registered, Figured
  <1>2. \A y : BookEnd(x, schedule, y) = Value(x, y)
    BY DEF Value
  <1>3. first \in Int /\ last \in Int
    BY <1>1, YearsOfRule DEF Sound, FirstOf, LastOf, Calendar
  <1>4. ASSUME NEW y \in first..last PROVE Value(x, y) <= Value(x, y - 1)
    BY <1>1, <1>3, ValueFalls
  <1>5. x.anchor = None => worth = x.price
    BY DEF Worth
  <1> QED BY <1>1, <1>2, <1>3, <1>4, <1>5, Lands

(* rollForward.ts, AC-8.3: the open years chained from the stored ones are those
   computed one by one, and every year opens with what the one before closed. *)
THEOREM FiguresReconcile == Spec => []Reconciles
  <1>1. StoredInv => Reconciles
    BY FiguredReconciles DEF StoredInv, Figured
  <1> QED BY <1>1, StoredInvariance, PTL

(* schedule.ts: whatever the price, the rule and the rounding, an asset never rises in
   value, follows the straight line of its rule and ends at its residual value, and a
   legacy one ends there from the value of its sheet. *)
THEOREM AssetsAreWrittenDown == Spec => []WrittenDown
  <1>1. StoredInv => WrittenDown
    BY FiguredWrittenDown DEF StoredInv, Figured
  <1> QED BY <1>1, StoredInvariance, PTL
=============================================================================
