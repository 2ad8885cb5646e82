--------------------------- MODULE QuantityLattice ---------------------------
(***************************************************************************)
(* The arithmetic of entry quantities.  A domain is a regular grid         *)
(*    origin + i * step,  first <= i <= last                               *)
(* or empty.  The code computes with exact fractions of plain decimals; a  *)
(* common denominator makes them integers, so integers model them exactly. *)
(***************************************************************************)
EXTENDS Integers, Sequences, SequencesExt

\* last_index None: the grid has no upper end.
Open == -1

EmptyGrid == [kind |-> "EMPTY"]
Grid(origin, step, first, last) ==
  [kind |-> "REGULAR_GRID", origin |-> origin, step |-> step, first |-> first, last |-> last]
IsEmpty(d) == d.kind = "EMPTY"

Larger(a, b) == IF a >= b THEN a ELSE b
Smaller(a, b) == IF a <= b THEN a ELSE b
CeilDiv(a, b) == -((-a) \div b)

At(d, i) == d.origin + i * d.step

\* The terms the provider declares: origin, increment, minimum and a finite or
\* unbounded maximum.  Anything else raises.
WellFormedTerms(g) ==
  /\ g.step > 0
  /\ g.max.kind = "FINITE" => g.min <= g.max.value

\* From declared terms to the grid of its positive quantities.
Descriptor(g) ==
  LET residue == g.origin - (g.origin \div g.step) * g.step
      first   == Larger(CeilDiv(g.min - residue, g.step), ((-residue) \div g.step) + 1)
  IN  IF g.max.kind = "UNBOUNDED"
        THEN Grid(residue, g.step, first, Open)
        ELSE LET last == (g.max.value - residue) \div g.step
             IN  IF last < first THEN EmptyGrid ELSE Grid(residue, g.step, first, last)

\* The part of d between two indices.
Slice(d, first, last) ==
  IF last # Open /\ last < first THEN EmptyGrid ELSE Grid(d.origin, d.step, first, last)

\* What of d the risk function supports (at most maximum), and what lies beyond.
Supported(d, maximum) ==
  LET bound == (maximum - d.origin) \div d.step
      last  == IF d.last = Open THEN bound ELSE Smaller(d.last, bound)
  IN  IF IsEmpty(d) \/ last < d.first THEN EmptyGrid ELSE Slice(d, d.first, last)
BeyondSupport(d, maximum) ==
  LET bound == (maximum - d.origin) \div d.step
  IN  IF IsEmpty(d) THEN EmptyGrid ELSE Slice(d, Larger(d.first, bound + 1), d.last)

\* The loss at the stop of quantity q: the price loss and every charge, a fixed
\* and a proportional part with a minimum.
Loss(f, q) ==
  FoldLeft(LAMBDA sum, c : sum + Larger(c.minimum, c.fixed + c.perUnit * q), f.priceLoss * q, f.charges)

\* The longest prefix of lo..hi on which fits holds, lo being known to fit:
\* the binary search of the code.
LastFitting(fits, lo0, hi0) ==
  LET search[p \in (lo0 .. hi0) \X (lo0 .. hi0)] ==
        LET mid == (p[1] + p[2] + 1) \div 2
        IN  IF p[1] >= p[2] THEN p[1]
            ELSE IF fits[mid] THEN search[<<mid, p[2]>>] ELSE search[<<p[1], mid - 1>>]
  IN  search[<<lo0, hi0>>]

\* The quantities of d whose loss stays within the budget.
Feasible(d, f, budget) ==
  LET Fits(i) == Loss(f, At(d, i)) <= budget
  IN  IF IsEmpty(d) \/ ~Fits(d.first) THEN EmptyGrid
      ELSE Slice(d, d.first, LastFitting([i \in d.first .. d.last |-> Fits(i)], d.first, d.last))

\* The quantities of d inside a closed interval, and the two pieces outside it.
Clip(d, interval) ==
  IF IsEmpty(d) \/ interval.kind = "EMPTY" THEN EmptyGrid
  ELSE LET first == Larger(d.first, CeilDiv(interval.min - d.origin, d.step))
           last  == Smaller(d.last, (interval.max - d.origin) \div d.step)
       IN  IF first > last THEN EmptyGrid ELSE Slice(d, first, last)
Outside(d, interval) ==
  LET lo == CeilDiv(interval.min - d.origin, d.step) - 1
      hi == (interval.max - d.origin) \div d.step + 1
      pieces == { <<d.first, Smaller(d.last, lo)>>, <<Larger(d.first, hi), d.last>> }
  IN  { Slice(d, p[1], p[2]) : p \in { p \in pieces : p[1] <= p[2] } }

Interval(a, b) == [kind |-> "CLOSED_INTERVAL", min |-> a, max |-> b]
EmptyInterval == [kind |-> "EMPTY"]

\* The quantities up to top that a domain contains.
Members(d, top) ==
  IF IsEmpty(d) THEN {}
  ELSE { q \in 1 .. top : \E i \in d.first .. (IF d.last = Open THEN top ELSE d.last) : q = At(d, i) }

=============================================================================
