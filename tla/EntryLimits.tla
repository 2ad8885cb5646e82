----------------------------- MODULE EntryLimits -----------------------------
(***************************************************************************)
(* The limits of the selected rules on the position that is open while the *)
(* trade lasts, and the composition of everything that constrains the      *)
(* entry quantity:                                                         *)
(*   Limits       which quantities of the position interval every limit in *)
(*                force allows;                                            *)
(*   Composition  the quantities that the budget, the position and the     *)
(*                limits all allow.                                        *)
(* The position packet carries its own copies of the account state and of  *)
(* the regime report, which have to be the originals of the financial one. *)
(***************************************************************************)
EXTENDS EntryFeasibility

Position(e) == e.packet["position"]
SelectedHere(e) == Regime(Position(e).regime, e.at)

\* A statement is proven if it is admitted and the originals that support it
\* were published.
Proven(e, target) == Admitted(e, target) /\ target \notin Position(e).unsupported

-----------------------------------------------------------------------------
(* What the provider says of each rule.                                    *)

BindingsOf(e, rule) == { b \in Position(e).limits.bindings : b.rule = rule.id }
LimitOf(e, rule) == CHOOSE b \in BindingsOf(e, rule) : TRUE

Everywhere(rule) == rule.instruments = None
Names(e, rule) == ~Everywhere(rule) /\ ~rule.foreign /\ e.instrument \in rule.instruments

\* A claim about the population of a rule may not contradict the rule itself.
LimitAdmissible(e, rule) ==
  \A b \in BindingsOf(e, rule) :
    /\ b.population = "DISJOINT" => ~Everywhere(rule) /\ ~Names(e, rule)
    /\ b.population = "CONTAINS" => Everywhere(rule) \/ rule.foreign \/ Names(e, rule)
    /\ b.projected => rule.type \in {"POSITION_QUANTITY", "POSITION_COUNT"}
    /\ b.cutoff <= Position(e).limits.observed

\* ... and is supported only by what the rule says literally.
PopulationSupported(e, rule) ==
  \E b \in BindingsOf(e, rule) :
    \/ b.population = "CONTAINS" /\ (Everywhere(rule) \/ Names(e, rule))
    \/ b.population = "DISJOINT" /\ ~Everywhere(rule) /\ ~rule.foreign /\ ~Names(e, rule)

\* The rules that bind the position now, not when it is closed or paid out.
LaterEffects == {"EXIT", "PHASE_TRANSITION", "PAYOUT"}

\* The limit holds for the whole life of the position, in the units of the entry,
\* and every exception to it known at the boundary leaves it as it is.
InForceThroughout(e, rule) ==
  \E b \in BindingsOf(e, rule) :
    /\ rule.type = "POSITION_QUANTITY" => b.denomination = "IDENTICAL"
    /\ b.projected /\ b.mandatory
    /\ b.exceptions = "COMPLETE" /\ b.resolved /\ b.cutoff = e.at

\* Every rule is a limit of the position, has nothing to do with it, or leaves
\* the answer open.
RegimeProven(e, regime) == regime.outcome = "UNIQUE" /\ Proven(e, "regime")
ScopeProven(e) == Position(e).limits.scope = "COMPATIBLE" /\ Proven(e, "scope")
Disposition(e, regime, effect, rule) ==
  LET based == RegimeProven(e, regime) /\ ScopeProven(e) /\ PopulationSupported(e, rule) /\ Proven(e, rule.id)
      limit == rule.type \in {"POSITION_QUANTITY", "POSITION_COUNT"}
      later == rule.effects \subseteq LaterEffects
      other == rule.effects # {"UNKNOWN"} /\ rule.supported /\ ~limit
  IN  IF ~based THEN "UNRESOLVED"
      ELSE IF LimitOf(e, rule).population = "DISJOINT" THEN "DISJOINT_POPULATION"
      ELSE IF later \/ other THEN "OTHER_OBLIGATION"
      ELSE IF /\ limit /\ rule.effects # {"UNKNOWN"}
              /\ InForceThroughout(e, rule)
              /\ effect.outcome = "ESTABLISHED" THEN "TERMINAL_LIMIT"
      ELSE "UNRESOLVED"

-----------------------------------------------------------------------------
(* The limits together.                                                    *)

\* What of the interval a limit excludes: all of it, its upper part, nothing.
\* The position is one position.
Nothing == [kind |-> "NOTHING"]
Excluded(rule, interval) ==
  IF rule.type = "POSITION_COUNT" THEN IF 1 > rule.maximum THEN [kind |-> "ALL_SUPPORT"] ELSE Nothing
  ELSE IF rule.maximum < interval.min THEN [kind |-> "ALL_SUPPORT"]
  ELSE IF rule.maximum < interval.max
    THEN [kind |-> "UPPER_TAIL", above |-> rule.maximum, upto |-> interval.max]
  ELSE Nothing

\* All limits are known: the inventory and the exceptions are complete, as of
\* the boundary, and so is the package of rules.
LimitsCovered(e, regime) ==
  LET l == Position(e).limits
  IN  /\ l.inventory = "COMPLETE" /\ l.exceptions = "COMPLETE"
      /\ l.cutoff = e.at
      /\ regime.package.complete
      /\ Proven(e, "coverage")

LimitsAdmissible(e, regime, effect) ==
  /\ effect # Invalid
  /\ RegimeAdmissible(Position(e).regime, e.at)
  /\ Position(e).limits # None =>
       /\ Position(e).limits.observed <= e.at
       /\ Position(e).limits.cutoff <= Position(e).limits.observed
       /\ \A b, c \in Position(e).limits.bindings : b.rule = c.rule => b = c
       /\ \A rule \in RulesOf(regime) : LimitAdmissible(e, rule)

NoLimits(outcome) == [outcome |-> outcome, domain |-> None, excluded |-> {}]

\* A limit that excludes the whole interval decides whatever else is open.
LimitsResult(interval, excluded, limiting, settled) ==
  LET maxima == { rule.maximum : rule \in { rule \in limiting : rule.type = "POSITION_QUANTITY" } }
  IN  IF [kind |-> "ALL_SUPPORT"] \in excluded
        THEN [outcome |-> "NOT_SUITABLE", domain |-> EmptyInterval, excluded |-> excluded]
      ELSE IF settled
        THEN [outcome |-> "ESTABLISHED", domain |-> Interval(interval.min, Min({interval.max} \cup maxima)),
              excluded |-> excluded]
      ELSE [outcome |-> "UNKNOWN", domain |-> None, excluded |-> excluded]

\* disposed[d]: the rules of disposition d.
LimitsOf(e, regime, effect, disposed) ==
  LET settled == /\ effect.outcome = "ESTABLISHED"
                 /\ RegimeProven(e, regime) /\ ScopeProven(e) /\ LimitsCovered(e, regime)
                 /\ disposed["UNRESOLVED"] = {}
  IN  LimitsResult(effect.value,
                   { Excluded(rule, effect.value) : rule \in disposed["TERMINAL_LIMIT"] } \ {Nothing},
                   disposed["TERMINAL_LIMIT"], settled)

LimitsFrom(e, regime, effect) ==
  IF ~LimitsAdmissible(e, regime, effect) THEN NoLimits("INVALID")
  ELSE IF Position(e).limits = None THEN NoLimits("UNKNOWN")
  ELSE LimitsOf(e, regime, effect,
                [d \in {"UNRESOLVED", "TERMINAL_LIMIT"} |->
                   { rule \in RulesOf(regime) : Disposition(e, regime, effect, rule) = d }])

Limits(e) ==
  IF Position(e) = None THEN NoLimits("UNKNOWN")
  ELSE LimitsFrom(e, SelectedHere(e), PositionEffect(e))

-----------------------------------------------------------------------------
(* The composition.                                                        *)

\* Both owners were asked about the same originals; anything else raises.
SameOriginals(e) ==
  e.packet["financial"] # None /\ Position(e) # None =>
    /\ e.packet["financial"].account = Position(e).account
    /\ e.packet["financial"].regime = Position(e).regime

NoComposition(outcome) == [outcome |-> outcome, domain |-> None]

\* A limit excludes what is left of the grid: all of it, or its tail from below
\* the first quantity left.
Exhausts(x, common, interval) ==
  \/ x.kind = "ALL_SUPPORT"
  \/ x.kind = "UPPER_TAIL" /\ x.upto = interval.max /\ At(common, common.first) > x.above

\* The quantities left, as far as they are known: of the feasible ones, common
\* end in one position, of the supported ones, support.
Composed(feasible, support, common, terminal, interval) ==
  IF IsEmpty(support) \/ IsEmpty(common) THEN EmptyGrid
  ELSE IF terminal.outcome = "ESTABLISHED" THEN Clip(feasible, terminal.domain)
  ELSE IF \E x \in terminal.excluded : Exhausts(x, common, interval) THEN EmptyGrid
  ELSE None

CompositionResult(financial, terminal, domain) ==
  IF financial.outcome = "NOT_SUITABLE" \/ terminal.outcome = "NOT_SUITABLE" \/ domain = EmptyGrid
    THEN NoComposition("NOT_SUITABLE")
  ELSE IF domain = None THEN NoComposition("UNKNOWN")
  ELSE [outcome |-> "ESTABLISHED", domain |-> domain]

\* The position interval as an owner states it.
CompositionOf(e, financial, terminal, effect) ==
  IF "INVALID" \in { financial.outcome, terminal.outcome } \/ ~SameOriginals(e)
    THEN NoComposition("INVALID")
  ELSE IF financial.outcome = "ESTABLISHED" /\ effect.outcome = "ESTABLISHED"
    THEN CompositionResult(financial, terminal,
           Composed(financial.feasible, Clip(financial.supported, effect.value),
                    Clip(financial.feasible, effect.value), terminal, effect.value))
  ELSE CompositionResult(financial, terminal, None)

Composition(e) == CompositionOf(e, Feasibility(e), Limits(e), PositionEffect(e))

=============================================================================
