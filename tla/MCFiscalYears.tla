---------------------------- MODULE MCFiscalYears ----------------------------
(* An instance of FiscalYears for TLC: three years, two days each. *)
EXTENDS FiscalYears, TLC

CONSTANTS a1, a2

\* Three years, nothing left but a cent; the seeded rule has no threshold.
Launch == [life |-> 3, half |-> FALSE, threshold |-> None, residual |-> 1]

\* A half first year with a low-value threshold and no residual.
HalfYear == [life |-> 2, half |-> TRUE, threshold |-> 2, residual |-> 0]

\* A legacy asset bought before the calendar begins, whose row does not foot by a
\* cent, with one the sheet says was ceded in the first open year.
Sheet == a1 :> [asset |-> [date |-> 1, price |-> 9, disposed |-> None],
                figures |-> 1 :> [opening |-> 6, purchase |-> 0, depreciation |-> 2,
                                  disposal |-> 0, closing |-> 3]]
      @@ a2 :> [asset |-> [date |-> 2, price |-> 8, disposed |-> 4],
                figures |-> 1 :> [opening |-> 0, purchase |-> 8, depreciation |-> 2,
                                  disposal |-> 0, closing |-> 6]]

OneSheet == {Sheet}
Rule == {HalfYear}

Symmetry == Permutations(Requests)
=============================================================================
