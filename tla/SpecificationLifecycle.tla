------------------------ MODULE SpecificationLifecycle ------------------------
(***************************************************************************)
(* What a reporter asserts over time of the revisions of an instrument's   *)
(* specification (the lifecycle evidence snapshot), and which revision it  *)
(* follows from all that was published through k to apply at economic      *)
(* instant t (the applicability resolver).  A report is                    *)
(*   [assertions   |-> set of [id, published, says],                       *)
(*    completeness |-> COMPLETE, LIMITED or UNKNOWN,                       *)
(*    cutoff       |-> instant it is complete through, None if UNKNOWN,    *)
(*    observed     |-> instant it was taken,                               *)
(*    revisions    |-> revision -> its contract metadata]                  *)
(* An assertion says APPLIES or WITHDRAWS of a revision, SUPERSEDES of one *)
(* by another, or CORRECTS of another assertion, which it replaces by a    *)
(* statement of its own or by nothing.  A revision is a model value.       *)
(***************************************************************************)
EXTENDS DeclarationStream

CONSTANT None

Corrections(report) == { a \in report.assertions : a.says.kind = "CORRECTS" }
Originals(report) == report.assertions \ Corrections(report)
CorrectionsOf(report, a) == { c \in Corrections(report) : c.says.target = a.id }

\* What is stated, in the originals and in the replacements.
Statements(report) ==
  { a.says : a \in Originals(report) } \cup ({ c.says.by : c \in Corrections(report) } \ {None})

Named2(statement) ==
  IF statement.kind = "SUPERSEDES" THEN {statement.before, statement.after} ELSE {statement.revision}

\* A set of which every member leads to a member: a cycle of a finite graph.
HasCycle(edges) ==
  \E nodes \in SUBSET { e[1] : e \in edges } :
    nodes # {} /\ \A n \in nodes : \E m \in nodes : <<n, m>> \in edges

\* Corrections name another assertion of the report that is no younger than they
\* are, and never each other in a circle.
CorrectionsFit(report) ==
  /\ \A c \in Corrections(report) :
       \E a \in report.assertions : a.id = c.says.target /\ a.id # c.id /\ a.published <= c.published
  /\ ~HasCycle({ <<c.id, c.says.target>> : c \in Corrections(report) })

CoverageFits(report) ==
  report.completeness # "UNKNOWN" =>
    /\ report.cutoff <= report.observed
    /\ \A a \in report.assertions : a.published <= report.cutoff

\* What raises: a report that contradicts itself, is not known at k, or comes with
\* other specifications than those it mentions.
LifecycleAdmissible(report, k) ==
  /\ \A a, b \in report.assertions : a.id = b.id => a = b
  /\ \A s \in Statements(report) :
       s.from < s.until /\ (s.kind = "SUPERSEDES" => s.before # s.after)
  /\ CorrectionsFit(report)
  /\ CoverageFits(report)
  /\ report.observed <= k /\ \A a \in report.assertions : a.published <= k
  /\ DOMAIN report.revisions = UNION { Named2(s) : s \in Statements(report) }

-----------------------------------------------------------------------------
(* Resolution.                                                             *)

\* The one statement that stands for an original: itself, or what its correction
\* puts in its place, whether or not that holds at the time asked for.
Standing(report, a) ==
  IF CorrectionsOf(report, a) = {} THEN a.says
  ELSE (CHOOSE c \in CorrectionsOf(report, a) : TRUE).says.by

\* Corrections of corrections, and rival corrections, are not interpreted.
Interpretable(report) ==
  /\ \A c \in Corrections(report) : CorrectionsOf(report, c) = {}
  /\ \A a \in report.assertions : Cardinality(CorrectionsOf(report, a)) <= 1

\* (mutant) A correction that does not hold at t leaves the original standing.
ActiveOrOriginal(report, t) ==
  { s \in { IF Standing(report, a) # None /\ ~Within(Standing(report, a).from, Standing(report, a).until, t)
              THEN a.says ELSE Standing(report, a) : a \in Originals(report) } \ {None} :
      Within(s.from, s.until, t) }

Active(report, t) ==
  { s \in { Standing(report, a) : a \in Originals(report) } \ {None} : Within(s.from, s.until, t) }

Replacing(active) == { s \in active : s.kind = "SUPERSEDES" }
Positive(active) ==
  { s.after : s \in Replacing(active) } \cup { s.revision : s \in { s \in active : s.kind = "APPLIES" } }
Displaced(active) == { s.before : s \in Replacing(active) }
Withdrawn(active) == { s.revision : s \in { s \in active : s.kind = "WITHDRAWS" } }

\* Contradictions, looked for before anything is displaced.
Contradicts(report, active, t) ==
  \/ HasCycle({ <<s.before, s.after>> : s \in Replacing(active) })
  \/ Positive(active) \cap Withdrawn(active) # {}
  \/ \E r \in Positive(active) : report.revisions[r].effective > t

Resolution(outcome, selected) == [outcome |-> outcome, selected |-> selected]
Unresolved == Resolution("UNRESOLVED", None)

\* One candidate applies, none does, or the report does not settle it.
Selected(report, active) ==
  LET candidates == Positive(active) \ Displaced(active)
  IN  CASE Cardinality(candidates) = 1 -> Resolution("UNIQUE", CHOOSE r \in candidates : TRUE)
        [] candidates = {} -> Resolution("NONE", None)
        [] OTHER -> Unresolved

\* Nothing is settled by a report that is not complete through k.
Applicable(report, t, k) ==
  IF report.completeness # "COMPLETE" \/ report.cutoff < k \/ ~Interpretable(report)
     \/ Contradicts(report, Active(report, t), t)
  THEN Unresolved ELSE Selected(report, Active(report, t))

=============================================================================
