------------------------------- MODULE Shadow -------------------------------
(* ShadowTrajectoryAnalyzer (_trajectory/shadow.py): what it makes of the
   Checkpoints of a Run.

   A history is a sequence of Checkpoints [state, path, attributed, actions,
   novel]: the state an evaluation found (requirements met, the verdict of the
   constraints, evidence cited, whether all of it could be read), the Actions
   since the Checkpoint before and whether they are all of them, the Actions so
   far, and whether evidence is new to the Run.

   Coverage is a float in the code, and sums of rounded differences are compared
   with zero: numbers are kept in units of half an ulp of one half.          *)
EXTENDS Integers, Sequences, FiniteSets, FiniteSetsExt

CONSTANTS
  Requirements, \* requirements of the plan
  MaxPeriod,    \* max_period
  Precision     \* bits of a float's significand, 53 in the code

ASSUME ShadowAssumption ==
  /\ IsFiniteSet(Requirements) /\ Cardinality(Requirements) \in 1 .. 4
  /\ MaxPeriod \in Nat \ {0}
  /\ Precision \in Nat \ (0 .. 3)

Verdicts == {"insufficient_evidence", "non_progress_cycle", "cycle_suspected",
             "causally_ambiguous", "no_cycle"}

----------------------------------------------------------------------------
(* Floats of magnitude at most one; what is below one quarter is exact *)

One == 2 ^ (Precision + 1)

Spacing(units) ==
  IF units < 2 ^ Precision THEN 1 ELSE IF units < One THEN 2 ELSE 4

(* n units divided by d, to the nearest float, ties to even *)
Quotient(n, d) ==
  LET step == Spacing(n \div d)
      q == n \div (step * d)
      r == n % (step * d)
      up == 2 * r > step * d \/ (2 * r = step * d /\ q % 2 = 1)
  IN step * (q + IF up THEN 1 ELSE 0)

Rounded(units) == IF units < 0 THEN -Quotient(-units, 1) ELSE Quotient(units, 1)

----------------------------------------------------------------------------
(* Progress *)

Coverage(c) == Quotient(Cardinality(c.state.met) * One, Cardinality(Requirements))

CoverageDelta(h, i) == IF i = 1 THEN 0 ELSE Rounded(Coverage(h[i]) - Coverage(h[i - 1]))

Best(h, i) == Max({Coverage(h[j]) : j \in 1 .. i})

ActionsSince(h, i) == h[i].actions - IF i = 1 THEN 0 ELSE h[i - 1].actions

LastOf(h, n) == (Len(h) - n + 1) .. Len(h)

(* sum() of Python 3.12 compensates its rounding errors *)
ProgressOver(h, p) == MapThenSumSet(LAMBDA i : CoverageDelta(h, i), LastOf(h, p))

ActionsOver(h, p) == MapThenSumSet(LAMBDA i : ActionsSince(h, i), LastOf(h, p))

----------------------------------------------------------------------------
(* Cycles *)

Equivalent(c, d) == c.state = d.state

(* the last n Checkpoints, the first m of which recur p later *)
Recurs(h, n, m, p) ==
  /\ Len(h) >= n
  /\ \A i \in 1 .. m : Equivalent(h[Len(h) - n + i], h[Len(h) - n + i + p])

Observed(h, n) == \A i \in LastOf(h, n) : h[i].attributed /\ h[i].state.complete

(* what both thresholds ask of the last p Checkpoints *)
NoProgress(h, p) ==
  /\ ProgressOver(h, p) <= 0
  /\ \A i \in LastOf(h, p) : ~h[i].novel
  /\ ActionsOver(h, p) > 0

PathRepeats(h, p) ==
  /\ \A i \in LastOf(h, 2 * p) : h[i].path # <<>>
  /\ \A i \in LastOf(h, p) : h[i].path = h[i - p].path

ConfirmedOnReturn(h, p) ==  \* mutant: the state is not compared over the whole window
  /\ Recurs(h, 2 * p + 1, 1, 2 * p)
  /\ PathRepeats(h, p) /\ Observed(h, 2 * p + 1) /\ NoProgress(h, p)
  /\ Best(h, Len(h)) <= Best(h, Len(h) - p)

Confirmed(h, p) ==
  /\ Recurs(h, 2 * p + 1, p + 1, p)
  /\ PathRepeats(h, p) /\ Observed(h, 2 * p + 1) /\ NoProgress(h, p)
  /\ Best(h, Len(h)) <= Best(h, Len(h) - p)

SuspectedLate(h, p) ==  \* mutant: suspicion waits for the window of a confirmation
  Recurs(h, 2 * p + 1, p + 1, p) /\ Observed(h, 2 * p + 1) /\ NoProgress(h, p)

Suspected(h, p) == Recurs(h, 2 * p, p, p) /\ Observed(h, 2 * p) /\ NoProgress(h, p)

Ambiguous(h, p) ==
  \E n \in {2 * p + 1, 2 * p} :
    Recurs(h, n, n - p, p) /\ \E i \in LastOf(h, n) : ~h[i].attributed

Periods == 1 .. MaxPeriod

(* assess() *)
Verdict(h) ==
  IF ~h[Len(h)].state.complete THEN "insufficient_evidence"
  ELSE IF \E p \in Periods : Confirmed(h, p) THEN "non_progress_cycle"
  ELSE IF \E p \in Periods : Suspected(h, p) THEN "cycle_suspected"
  ELSE IF \E p \in Periods : Ambiguous(h, p) THEN "causally_ambiguous"
  ELSE "no_cycle"
=============================================================================
