----------------------------- MODULE FiscalYears -----------------------------
(* The books of one entity in inventory-api: the assets' dates and prices, the *)
(* depreciation rules, the stored figures of the closed years, and the writes  *)
(* that race on them. Every dated write (register, price/date edit, disposal,  *)
(* rule, close, legacy import) is a transaction that takes the entity's lock   *)
(* first and reads the closed boundary second.                                 *)
(*                                                                             *)
(* A date is a number, two of them a year. What an asset is, who holds it and  *)
(* its undated edits are in Assets or left out: no figure reads them.          *)
EXTENDS Depreciation, Sequences, FiniteSets

CONSTANTS
    Assets,         \* the asset rows that can be inserted
    Requests,       \* the requests in flight, each with its transaction
    MaxYear,        \* bound: the last year of the calendar
    Dates,          \* the dates a manager can type
    Totals,         \* the prices a manager can type, in cents
    LaunchRule,     \* the terms seeded by the migration
    Terms,          \* the terms a manager can give a rule
    MaxRules,       \* bound on the rules
    Sheets,         \* the readings of the legacy sheet an import can write
    LastImported    \* the year those readings end with

ASSUME FiscalYearsAssumption ==
    /\ MaxYear \in Nat /\ LastImported \in 1..MaxYear
    /\ Dates \subseteq 2..(2 * MaxYear + 1)
    /\ IsFiniteSet(Assets) /\ Totals \subseteq Nat \ {0} /\ MaxRules \in Nat

Years == 1..MaxYear
YearOf(d) == d \div 2
Calendar == 0..(2 * MaxYear + 1)
AssetRow == [date : Calendar, price : Nat \ {0}, disposed : Calendar \cup {None}]

FigureRow == [opening : Int, purchase : Int, depreciation : Int, disposal : Int,
              closing : Int]
StoredRow == [figure : FigureRow, imported : BOOLEAN]
AnchorRow == [year : Years, value : Int]

ASSUME NoneAssumption ==
    /\ None \notin Requests \cup Calendar \cup AssetRow
    /\ None \notin FigureRow \cup StoredRow \cup AnchorRow

ASSUME RulesAssumption ==
    \A rule \in {LaunchRule} \cup Terms :
        rule.life \in Nat \ {0} /\ rule.half \in BOOLEAN /\ rule.residual \in Nat

\* A sheet gives each of its assets a row and its own figures for the years from
\* its purchase to the last one the sheet states as a fact: each year opens with
\* what the one before closed, and a cession is of a later year.
ASSUME SheetsAssumption ==
    \A s \in Sheets : \A a \in DOMAIN s :
        LET row == s[a].asset
            stated == s[a].figures
        IN  /\ row \in AssetRow
            /\ row.disposed # None => YearOf(row.disposed) > LastImported
            /\ DOMAIN stated = {y \in 1..LastImported : YearOf(row.date) <= y}
            /\ \A y \in DOMAIN stated :
                   /\ stated[y] \in FigureRow /\ stated[y].closing \in Nat
                   /\ y - 1 \in DOMAIN stated => stated[y].opening = stated[y - 1].closing

VARIABLES
    year,       \* the calendar year
    assets,     \* asset -> [date, price, disposed] or None
    rules,      \* the rules, oldest first: [from, terms]
    closed,     \* the last closed year, 0 while none is (the fiscal_year rows)
    figures,    \* asset -> year -> [figure, imported] or None (asset_year_figure)
    lock,       \* the transaction that holds the entity's lock
    seen,       \* transaction -> the boundary it read under the lock, or None
    sheet       \* transaction -> the year it is closing and its rows, or None

vars == <<year, assets, rules, closed, figures, lock, seen, sheet>>
books == <<year, assets, rules, closed, figures>>

-----------------------------------------------------------------------------
(* The figures of an asset. *)

\* The rules an asset bought on d may take, and the one it takes.
InForce(rs, d) == {i \in DOMAIN rs : rs[i].from <= d}
Latest(rs, d) ==
    {i \in InForce(rs, d) : \A j \in InForce(rs, d) :
        rs[j].from < rs[i].from \/ (rs[j].from = rs[i].from /\ j <= i)}
RuleFor(rs, d) == (CHOOSE rule \in {rs[i] : i \in Latest(rs, d)} : TRUE).terms

PurchaseYear(a) == YearOf(assets[a].date)
ImportedYears(a) == {y \in Years : figures[a][y] # None /\ figures[a][y].imported}
ImportedClosings(a) == [y \in ImportedYears(a) |-> figures[a][y].figure.closing]

\* The latest imported figure: what a legacy asset's own schedule starts from.
AnchorOf(closings) ==
    IF DOMAIN closings = {}
    THEN None
    ELSE LET y == Max(DOMAIN closings) IN [year |-> y, value |-> closings[y]]
Anchor(a) == AnchorOf(ImportedClosings(a))

Inputs(a) ==
    [price |-> assets[a].price, purchaseYear |-> PurchaseYear(a),
     rule |-> RuleFor(rules, assets[a].date), anchor |-> Anchor(a),
     disposalYear |-> IF assets[a].disposed = None
                      THEN None ELSE YearOf(assets[a].disposed)]

\* The year's own movements on the closing carried from the year before.
Rebased(f, carry, e, x) ==
    LET opening == carry.closing
        disposing == e = x.disposalYear
    IN  Figure(opening, f.purchase,
               IF disposing THEN 0
               ELSE Min({f.depreciation, Max({0, opening + f.purchase})}),
               IF disposing THEN opening + f.purchase ELSE 0)

Drifts(f, carry, e, x) ==
    /\ carry # None /\ carry.closing # f.opening
    /\ e >= x.purchaseYear
    /\ x.disposalYear = None \/ e <= x.disposalYear

\* Faulty variant: the last closed year is computed once more.
ChainStartAtClosed(a) == IF closed = 0 THEN PurchaseYear(a) ELSE closed

ChainStart(a) == IF closed = 0 THEN PurchaseYear(a) ELSE closed + 1

\* An open year, chained from the stored closing of the last closed one.
OpenYearFigure(a, y) ==
    LET x == Inputs(a)
        start == ChainStart(a)
        stored == closed # 0 /\ figures[a][closed] # None
        chain[e \in (start - 1)..y] ==
            IF e < start
            THEN IF stored THEN figures[a][closed].figure ELSE None
            ELSE LET f == YearFigure(x, e)
                     carry == chain[e - 1]
                 IN  IF Drifts(f, carry, e, x) THEN Rebased(f, carry, e, x) ELSE f
    IN  IF y < start THEN Zero ELSE chain[y]

\* The rows a close of year y would store: an empty one is not written.
Rows(y) ==
    [a \in Assets |->
        IF assets[a] = None \/ (assets[a] # None /\ PurchaseYear(a) > y)
        THEN None
        ELSE LET f == OpenYearFigure(a, y)
             IN  IF f = Zero THEN None ELSE [figure |-> f, imported |-> FALSE]]

Registered == {a \in Assets : assets[a] # None}
FirstYear == Min({PurchaseYear(a) : a \in Registered})

\* Faulty variant: any year that has ended may be closed.
ClosableInAnyOrder(y, last) == y <= year /\ (last = 0 => y = FirstYear)

Closable(y, last) == /\ y <= year
                     /\ y = IF last # 0 THEN last + 1 ELSE FirstYear

-----------------------------------------------------------------------------
Init ==
    /\ year = 1
    /\ assets = [a \in Assets |-> None]
    /\ rules = <<[from |-> 0, terms |-> LaunchRule]>>
    /\ closed = 0
    /\ figures = [a \in Assets |-> [y \in Years |-> None]]
    /\ lock = None
    /\ seen = [p \in Requests |-> None]
    /\ sheet = [p \in Requests |-> None]

\* Faulty variant: the boundary is read without lockEntity.
EntityFreeAnyway == TRUE

EntityFree == lock = None

\* A dated write: lockEntity, and then the boundary as it stands.
Begin(p) ==
    /\ seen[p] = None /\ EntityFree
    /\ lock' = p
    /\ seen' = [seen EXCEPT ![p] = closed]
    /\ UNCHANGED <<books, sheet>>

\* The transaction is over: committed with the step's writes, or rolled back.
Release(p) ==
    /\ lock' = None
    /\ seen' = [seen EXCEPT ![p] = None]
    /\ sheet' = [sheet EXCEPT ![p] = None]

\* A refusal, a timeout, a crash: nothing is written.
Abort(p) ==
    /\ seen[p] # None
    /\ Release(p)
    /\ UNCHANGED books

Writing(p) == seen[p] # None /\ sheet[p] = None
YearOpen(p, d) == YearOf(d) > seen[p]

\* registerAssets: one row per unit, the total split over them.
Register(p) ==
    \E d \in Dates, total \in Totals,
       new \in SUBSET {a \in Assets : assets[a] = None} \ {{}} :
    \E unit \in Bijection(new, 1..Cardinality(new)) :
        LET price == SplitPrice(total, Cardinality(new)) IN
        /\ Writing(p) /\ YearOpen(p, d)
        /\ \A a \in new : price[unit[a]] > 0
        /\ assets' = [a \in Assets |->
               IF a \in new
               THEN [date |-> d, price |-> price[unit[a]], disposed |-> None]
               ELSE assets[a]]
        /\ Release(p)
        /\ UNCHANGED <<year, rules, closed, figures>>

\* The old year is the schedule being rewritten, the new one where it goes.
Rewritable(p, a, d) ==
    YearOpen(p, assets[a].date) /\ (d # assets[a].date => YearOpen(p, d))

EditDated(p, a) ==
    /\ Writing(p)
    /\ assets[a] # None /\ assets[a].disposed = None
    /\ \E d \in Dates, price \in Totals :
        /\ Rewritable(p, a, d)
        /\ assets' = [assets EXCEPT ![a] = [@ EXCEPT !.date = d, !.price = price]]
    /\ Release(p)
    /\ UNCHANGED <<year, rules, closed, figures>>

Disposable(p, a, d) == d >= assets[a].date /\ YearOpen(p, d)

Dispose(p, a) ==
    /\ Writing(p)
    /\ assets[a] # None /\ assets[a].disposed = None
    /\ \E d \in Dates :
        /\ Disposable(p, a, d)
        /\ assets' = [assets EXCEPT ![a].disposed = d]
    /\ Release(p)
    /\ UNCHANGED <<year, rules, closed, figures>>

\* Rules are only ever added; the later of two of one date wins.
CreateRule(p) ==
    /\ Writing(p) /\ Len(rules) < MaxRules
    /\ \E d \in Dates, terms \in Terms :
        /\ YearOpen(p, d)
        /\ rules' = Append(rules, [from |-> d, terms |-> terms])
    /\ Release(p)
    /\ UNCHANGED <<year, assets, closed, figures>>

\* closeYear: the checks and the figures, from what it reads under the lock...
ComputeClose(p) ==
    /\ Writing(p) /\ Registered # {}
    /\ \E y \in Years :
        /\ y > seen[p] /\ Closable(y, seen[p])
        /\ sheet' = [sheet EXCEPT ![p] = [year |-> y, rows |-> Rows(y)]]
    /\ UNCHANGED <<books, lock, seen>>

\* ...and their insertion, with the fiscal_year row that closes the year.
StoreClose(p) ==
    /\ sheet[p] # None
    /\ figures' = [a \in Assets |->
           [figures[a] EXCEPT ![sheet[p].year] = sheet[p].rows[a]]]
    /\ closed' = sheet[p].year
    /\ Release(p)
    /\ UNCHANGED <<year, assets, rules>>

\* The legacy import: the sheet's assets and its own figures for the years it
\* covers, which become closed; only on an entity that holds nothing.
Import(s) ==
    /\ EntityFree /\ closed = 0 /\ Registered = {}
    /\ assets' = [a \in Assets |-> IF a \in DOMAIN s THEN s[a].asset ELSE None]
    /\ figures' = [a \in Assets |-> [y \in Years |->
           IF a \in DOMAIN s /\ y \in DOMAIN s[a].figures
           THEN [figure |-> s[a].figures[y], imported |-> TRUE] ELSE None]]
    /\ closed' = LastImported
    /\ UNCHANGED <<year, rules, lock, seen, sheet>>

Tick ==
    /\ year < MaxYear
    /\ year' = year + 1
    /\ UNCHANGED <<assets, rules, closed, figures, lock, seen, sheet>>

Next ==
    \/ \E p \in Requests :
        \/ Begin(p) \/ Abort(p) \/ Register(p) \/ CreateRule(p)
        \/ ComputeClose(p) \/ StoreClose(p)
        \/ \E a \in Assets : EditDated(p, a) \/ Dispose(p, a)
    \/ \E s \in Sheets : Import(s)
    \/ Tick

Spec == Init /\ [][Next]_vars

-----------------------------------------------------------------------------
\* What the register and the rules say of an asset, if it is there at all, and of
\* its year y, with no regard to what was stored for it: no row when all is zero.
\* Up to its anchor a legacy asset's figures are the sheet's, and nothing is said.
Books(a) == IF assets[a] = None THEN {} ELSE {Inputs(a)}
ComputedRow(inputs, y) ==
    {YearFigure(x, y) : x \in {i \in inputs : i.anchor = None \/ y > i.anchor.year}} \ {Zero}

(* guard.ts: a closed year is sealed. No register, edit, disposal or rule that
   commits after a year's close changes what any asset amounts to in it, whichever
   transactions were in flight when it closed. ("\in {...}" only makes TLC
   evaluate each side once.) *)
BooksAreFrozen ==
    [][\A a \in Assets : \A was \in {Books(a)}, is \in {Books(a)'} :
           \A y \in 1..closed : ComputedRow(is, y) = ComputedRow(was, y)]_vars

Stored(a, y) == IF figures[a][y] = None THEN Zero ELSE figures[a][y].figure

(* close.repo.ts, "what is stored is exactly what the accountant saw": at every
   moment the stored figure of every closed year is the one the register's rows
   and the rules give today, so a close missed no write and none came after. *)
NoDrift ==
    \A a \in Assets : \A y \in 1..closed :
        y \in ImportedYears(a) \/ {Stored(a, y)} \ {Zero} = ComputedRow(Books(a), y)

(* rollForward.ts, AC-8.3: the open years chained from the last closed one are the
   years computed one by one, and each opens with what the year before closed. *)
Reconciles ==
    \A a \in Registered :
        /\ \A y \in Years : y > closed =>
               {OpenYearFigure(a, y)} \ {Zero} = ComputedRow(Books(a), y)
        /\ \A y \in Years \ {1} :
            LET figure(e) == IF e <= closed THEN Stored(a, e) ELSE OpenYearFigure(a, e)
            IN  PurchaseYear(a) < y => figure(y).opening = figure(y - 1).closing

\* The straight line: what is written off by the i-th of n years, each of them
\* round(span / life) but a half first one, and all of it by the last.
StraightLine(span, rule, i) ==
    LET full == RoundHalfUp(span, rule.life)
        first == IF rule.half THEN RoundHalfUp(span, 2 * rule.life) ELSE full
    IN  IF i = ScheduleYears(rule) THEN span ELSE Min({span, first + (i - 1) * full})

(* schedule.ts: whatever the rounding, an asset follows the straight line down to
   its residual value in exactly the years of its rule, never up and never below,
   and a legacy one lands there from the sheet's value in the years it had left. *)
WrittenDown ==
    \A a \in Registered :
        LET x == Inputs(a)
            schedule == Schedule(x)
            bookEnd(y) == BookEnd(x, schedule, y)
            first == IF x.anchor = None THEN x.purchaseYear ELSE x.anchor.year + 1
            last == x.purchaseYear + ScheduleYears(x.rule) - 1
            worth == IF x.anchor = None THEN x.price ELSE x.anchor.value
            span == worth - x.rule.residual
        IN  /\ \A y \in first..last : bookEnd(y) <= bookEnd(y - 1)
            /\ bookEnd(last) = IF first > last THEN worth
                                  ELSE Min({worth, x.rule.residual})
            /\ x.anchor = None /\ span > 0 /\ ~LowValue(x.price, x.rule) =>
                \A y \in first..last :
                    bookEnd(y) = worth - StraightLine(span, x.rule, y - first + 1)

-----------------------------------------------------------------------------
(* The inductive invariant of BooksAreFrozen. *)

\* One transaction at a time is past the lock, and the boundary it read stands.
LockIsHeld ==
    \A p \in Requests :
        /\ seen[p] # None => lock = p /\ seen[p] = closed
        /\ sheet[p] # None => /\ seen[p] # None
                             /\ sheet[p].year \in Years /\ sheet[p].year > closed
                             /\ \A a \in Assets : sheet[p].rows[a] # None =>
                                    ~sheet[p].rows[a].imported

\* Imported figures are never of an open year.
ImportsAreClosed == \A a \in Assets : \A y \in ImportedYears(a) : y <= closed

\* The types of what the proof reads.
Shapes ==
    /\ closed \in 0..MaxYear
    /\ assets \in [Assets -> AssetRow \cup {None}]
    /\ rules \in Seq([from : {0} \cup Dates, terms : {LaunchRule} \cup Terms])
    /\ figures = [a \in Assets |-> [y \in Years |-> figures[a][y]]]
    /\ seen \in [Requests -> 0..MaxYear \cup {None}]
    /\ sheet = [p \in Requests |-> sheet[p]]

IInv == Shapes /\ LockIsHeld /\ ImportsAreClosed

(* What the figures need besides: the invariant of NoDrift and Reconciles. *)

\* The seeded rule is in force on every date.
SomeRuleAlways == \E i \in DOMAIN rules : rules[i].from = 0

\* Nothing is stored for an open year.
OpenYearsAreEmpty == \A a \in Assets : \A y \in Years : y > closed => figures[a][y] = None

\* A close in flight holds the rows of the next year to close, and nothing it
\* read of the register has changed.
SheetStands ==
    \A p \in Requests : sheet[p] # None =>
        /\ Registered # {}
        /\ sheet[p].year = IF closed # 0 THEN closed + 1 ELSE FirstYear
        /\ sheet[p].rows = Rows(sheet[p].year)

\* An asset has the figures of its sheet, one for each year it covers, or none.
Legacy(a) ==
    /\ assets[a] # None /\ LastImported <= closed
    /\ assets[a].disposed # None => YearOf(assets[a].disposed) > LastImported
    /\ ImportedYears(a) = {y \in 1..LastImported : PurchaseYear(a) <= y}
    /\ \A y \in ImportedYears(a) :
           /\ figures[a][y].figure \in FigureRow
           /\ figures[a][y].figure.closing \in Nat
           /\ y - 1 \in ImportedYears(a) =>
                  figures[a][y].figure.opening = figures[a][y - 1].figure.closing

SheetsAreWhole == \A a \in Assets : ImportedYears(a) = {} \/ Legacy(a)

StoredInv ==
    /\ IInv /\ SomeRuleAlways /\ OpenYearsAreEmpty /\ SheetStands
    /\ SheetsAreWhole /\ NoDrift
=============================================================================
