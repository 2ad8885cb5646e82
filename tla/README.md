# Verification of CED ONE OS: mission control, market facts, setups, trade management and entry quantities

TLA+ models of the parts of `ced_one` where steps of several actors, several
objects or several calls meet, the TLC runs that check them on small instances,
and TLAPS proofs of the main results for every value of the constants.

Paths below are relative to the repository root; `mc/` stands for
`src/ced_one/mission_control/` and `trading/` for
`src/ced_one/business_divisions/trading/`.

## 1. Inventory

| Component | Where | State it keeps | Operations | Hard behaviour |
|---|---|---|---|---|
| Task lifecycle | `mc/tasks.py` | none (tables) | `validate_compatibility`, `TASK_TRANSITIONS` | tables used by three writers |
| Mission task graph | `mc/tasks.py` | `task_state`, `approval_state`, `retry_count`, `terminally_prevented` of each task; the dependencies | `from_execution_plan`, `transition_task`, `approve_task`, `mark_task_result`, `propagate_failure`, `resolve_mission_state` | composite calls that write first and walk the graph after; any call in any order |
| Local execution runtime | `mc/runtime.py` | `_executors`, `_reservations` under `_registration_lock` | `register`, `get_registration`, `reserve_registration`, `execute` | replacement while a request is in flight; the counter on exceptional exits |
| Service and dispatcher | `mc/service.py`, `mc/runtime.py` | `policy`, `execution_history`; a private task per request | `handle_request`, `dispatch` | reads of shared state at several moments of one request; authorisation that goes stale |
| Policy engine | `mc/policy.py` | `rules` of an `ExecutionPolicy`, mutable and unlocked | `evaluate`, `evaluate_match` | rules edited under a running evaluation; order-independence of the tie-break |
| Governance | `mc/governance.py` | an immutable snapshot per authorisation | `from_context`, `is_still_valid`, the gate | a snapshot of two reads of `service.policy` |
| Connectors and adapters | `mc/connectors.py`, `mc/adapters.py` | registration, health, readiness, circuit, rate-limit state of a connector; lists of bindings | state setters, `invoke`, `get_eligible`, `select` | long ladders of states; recovery from an open circuit |
| Intake and shells | `mc/request.py`, `classifier.py`, `resolver.py`, `router.py`, `guards.py`, `validator.py`, `approval.py`, `execution.py`, `audit.py`, `flow.py`, `orchestrator.py`, `dispatcher.py`, `registry.py`, `decision.py`, `unsupported.py`, `types.py` | none that is shared | checks of one request, records, delegating names | none of its own |
| Sources of a market report | `trading/validation.py`, `causal_snapshot_availability.py` (and `market_observation.py`, `market_context.py`, records of one candle) | none (snapshots are values) | validate a history, cut it at an instant | no look-ahead: the candle in progress is delivered with the closed ones |
| Detectors | `trading/market_structure.py`, `liquidity_*.py`, `fvg_*.py`, `displacement_*.py`, `order_block_*.py`, `structural_dealing_range_*.py`, `premium_discount_*.py`, `candle_intelligence.py`, `volatility_range.py` | none (functions of a candle sequence) | one analysis each | a later candle must not rewrite an earlier fact; `tests/test_hardening_causality.py` |
| Causal composition | `trading/causal_factual_intelligence_envelope.py`, `causal_multi_timeframe_context.py`, `causal_factual_*.py`, `factual_market_context_composition.py`, `causal_market_state_synthesis.py` | none | run detectors behind their dependencies, bind timeframes, date facts, make claims, evaluate conditions | parts of different evaluations handed in together; answers emptied by filters read as absences |
| Liquidity reversal | `trading/xauusd_causal_liquidity_reversal.py` | the setups (`instances`) with their `bound` stages, birth and outcome while the boundaries of five clocks are walked | found a setup, step it through sweep, reaction, break, gap, return and trigger, expire, invalidate, report | several clocks; deadlines between boundaries; stages that compete at one boundary; several setups in one replay |
| Candidate, experiment | `trading/xauusd_technical_trade_candidate.py`, `xauusd_reference_trade_management_experiment.py` | `stage`, `first_1r`, `latched_2r`, `gate_open`, excursions and result of a variant while minute candles are walked | walk one minute, promote the stop, open the gate, end or censor; pair the outcomes of two variants | stop and target inside one candle; promotion after the touch test; evidence that is missing exactly when it matters |
| Account rules | `trading/causal_account_rule_regime_assessment.py`, `xauusd_account_specific_risk_policy_evaluation.py` | none (functions of captured evidence) | select the rules in force, evaluate the gates of the policy and of each rule | incomplete evidence that may prove but not permit; intervals unknown at one end |
| Loss floors | `trading/current_intraday_trailing_*`, `as_of_equity_trailing_*`, `as_of_daily_reset_*` | none | the trailing threshold, the equity against it, the daily floor | order of closes at one instant, what was known at the capture, events at the reset |
| Entry quantity owners | eight files `trading/xauusd_current_*` | none | grid, position effect, risk function, budget, limits, composition, projection, floors | packets captured at one instant and answered from at another; grids cut by four owners |
| Evidence snapshots | `trading/causal_financial_*_snapshot*.py`, `causal_instrument_specification_*` | none | validate what a reporter says; select the applicable revision of a specification | assertions replaced, withdrawn and corrected out of order |

How they interact: `handle_request` is called from any thread. It reads the
runtime's registry under its lock, the service's policy without one, creates a
task of its own, and calls `dispatch` inline; `dispatch` takes a reservation,
compares the authorisation snapshot with the policy as it is now, evaluates the
policy again, moves the task and calls the registered executor. Trading code is
reached only as such an executor; it is functional and never calls back.

The trading chain has two entrances. A market report takes the histories of all
timeframes, runs the detectors on each behind an envelope that says what came of
them, binds the envelopes to one instant, dates every fact, and answers claims and
conditions. An entry quantity is computed from packets somebody captured and a
host admitted: five owners read them, the others compose what those answer. Nothing
is kept between calls, so everything that can go wrong lies between the instants
of publication, capture, admission and answer.

What makes each correct: a task graph whose gates (approval, dependencies, retry
budget) hold in whatever order callers act and whose composite calls do not stop
half way; reservations that count their holders exactly, so that what runs is
what was authorised; results that say what happened; a policy decision that is
the maximum of an order and honours every rule that stands, as far as a list
iterated in place allows; facts that no later candle rewrites, and claims that are
true of the candles; for the liquidity reversal, stages bound once, in causal
order and within their windows, and reports that only say what the replay has
established; for the management experiment, stops that only tighten and
are never backdated, variants that are nested as their comparison supposes, and
alternatives that are what one price path can give; and, for the entry, answers
and refusals that are true of what had been published by the boundary, whatever
the captures left out, as long as they admit that they did.

## 2. Plan

Order of modules, the most important behaviour first.

1. `TaskLifecycle`, `TaskGraph` (+ `TaskGraphProofs`, `MCTaskGraph`)
2. `GovernedExecution` (abstract), `MissionService` (+ proofs, MC) which
   implements it and shares `TaskLifecycle`
3. `PolicyEngine` (+ proofs, MC), which refines the one-step verdict that
   `MissionService` takes from a policy object
4. `TradeManagement`, `TradePaths` (+ proofs, MC): the management experiment,
   and its paired comparison against explicit price paths
5. `LiquidityReversal` (+ proofs, MC): the replay that finds the setups
6. The market report: `CausalSource`; the detectors `MarketStructure`,
   `LiquidityEvents`, `Imbalances`, `DealingRange` (+ `DetectorProofs`);
   `FactualEnvelope`, `FactualContext`, `EventChronology`, `MarketSynthesis`;
   `CandleFeed` composes them over an appending market, `MarketTruth` states what
   is so of candles and `FeedTruth` what reports promise (+ `FeedProofs`),
   `MCCandleFeed` checks it
7. The entry: `QuantityLattice`, `DeclarationStream`, `SpecificationLifecycle`, `EntryOwners`, `AccountRules`, `EntryFeasibility`,
   `EntryLimits`, `EntryHeadroom`, `LossFloors`; `EntryDesk` composes them with
   publications, captures and admissions, `EntryTruth` states what answers promise
   (+ `EntryProofs` of all of it), `MCEntryDesk` checks it

All of it is written. What could follow, in this order:

8. the boundary of connectors with the adapter selection (registration, health,
   readiness, circuit and rate limit, and the ladder of `invoke`), once something
   in the pipeline calls it;
9. `candle_intelligence` and `volatility_range` as further capabilities of the
   market report, and the technical candidate between the reversal and the entry.

## 3. What models what

### TaskLifecycle
The two enumerations, `TASK_TRANSITIONS` and `validate_compatibility`, as sets
and two operators. No state.

### TaskGraph
State: `state`, `approval`, `retries`, `prevented`, one value per task, plus two
history variables: `starts` (entries into `in_progress`) and `torn` (some call
raised after it had written). Dependencies, the retry budget and the retryable
flags are constants, as the code never changes them.

Actions: `TransitionTask` (any target, with or without a new approval),
`StartExecution` (the dispatcher's checks and its transition), `RejectApproval`,
`GrantApproval`, `RequestApproval` (the branches of `approve_task`),
`MarkCompleted`, `MarkFailed` (the branches of `mark_task_result`), and, in
`OpenNext`, `PropagateFailure` as a call of its own. `Cascade` is the whole walk
of `propagate_failure` inside its caller: it skips closed tasks, leaves blocked
and failed ones in their state, blocks the others and marks all of them. If the
table refuses one, the walk keeps a nondeterministic part of what it would have
written and `torn` becomes true: task names decide the order of siblings in the
code and are abstracted. The dependency records of a plan and the per-task lists
agree in the graphs `from_execution_plan` builds, so one constant `Deps` stands
for both.

### MissionService and GovernedExecution
A request is a thread and `pc` its place. One action is one access to state
another thread can change (the registry under its lock, the attribute
`service.policy`, a field of a policy object, the run of the executor) together
with the thread-local code up to the next. The environment registers executors
(`Register`, with a fresh identity), replaces `service.policy` (`ReplacePolicy`)
and edits policy objects (`EditPolicy`, with or without a new version).
`snapshot` holds the two fields of the authorisation fingerprint another thread
can change; the rest of the fingerprint is computed from values private to the
request and cannot drift. `Refuse` stands for every check before shared state is
touched. The verdict of a policy object is one value, `raises` included;
`PolicyEngine` is the model of how it comes about.

`GovernedExecution` says the same without locks, reservations, policies or task
states: a request is bound to the registration that is current, runs under that
one or not at all, nothing replaces a running registration, one answer per
request. The refinement mapping reads the phase off `pc`, `selected` and `ran`.

### PolicyEngine
`objects` are the `PolicyRule` objects, `rules` the list of references that
`policy.rules` names, and `scanned` the list the loop of `evaluate_match` runs over;
`attached` says that the two are the same list, as they are until the attribute is
given another one. `pc`, `i`, `matches`, `highest`, `candidates` and `winner` are the
locals of `evaluate_match` and `evaluate`. One iteration of either loop is a step
(`Inspect`, `Consider`), and so are the maximum between them (`EndMatching`) and the
selection of candidates (`Filter`), which reads the priorities a second time. What one
such step reads of a rule it reads at once.

Between any two steps the owner may insert or append, replace or remove an element
(`InsertRule`, `ReplaceRule`, `RemoveRule`), give the attribute another list
(`RebindRules`) and assign to the fields of a rule (`AmendRule`). The loop keeps its
position while the list shifts, as an iterator over a Python list does. A sort or a
move in place is a removal and an insertion. A naive datetime in a window makes the
comparison raise; assigned to a rule that has matched, it counts as an instant
(`LocalInstant`), since the tie-break uses `timestamp()`. Rules' nine bindings are one
function; ids are integers, since the code only compares them, 0 being the empty
string.

Three variables are history: `standing`, the rules that governed the context at the call and
have been in the policy, unchanged, ever since; `overtaken`, that an element was taken
from, or a listed rule put to, where the loop had been; `rewritten`, that a rule was
assigned to after it had matched. The properties say which rule governs a context and
which starts later in words of their own (`Governs`, `StartsNoEarlier`), so that a slip
in the window or in the order of the code shows.

### TradeManagement and TradePaths
`_evaluate` replays one frozen candidate under one variant; the aggregate
compares five replays of the same minute candles. The model replays the five
side by side: `replay[v]` holds the locals of the loop of variant `v`, and a step
is one minute. `RelationshipMissing`, `DatasetEnds` and `EvidenceMissing` are its
early exits, in the order of the code; `CandleObserved` is the rest of the body:
`Alternatives` (opening beyond a barrier, then touches), `Survived` (excursions
and latches), the horizon, the gate of D and E (`Awaiting`, `Possible`,
`Verdict`, `Starved`) and the promotion (`Promoted`).

A history is complete before the code replays it, but the replay of a minute
reads no later candle, so the model draws candles one at a time and keeps the
last two minute and structural extremes, all that `_pivot` reads besides the
current one. A request's declarations are a record `evidence`: when a relationship
of each kind becomes available, the declared ends, the declared M5 coverage and
the phase of the M5 grid. Validation rejects rows outside declared coverage, so
a minute outside it is a missing row, and a missing T1 anchor is a missing row
of the first minute. Prices are integers relative to the entry; the code's exact
rationals make that no loss.

`TradePaths` adds `_compatible` and the pairs of `_aggregate`, and what they are
measured against: the orders in which a price path can first touch the levels a
candle reaches (`Paths`), and where a position leaves on such a path
(`ExitOnPath`). These two model no code.

### LiquidityReversal
`run` walks the completions of five clocks and, at each of them, expires what is
overdue (`NextBoundary`), checks that no candle is missing (`CoverageMissing`),
founds at most one setup (`Found`, `NothingFounded`, `FoundingUnknown`) and steps
every open setup (`StepSetups`); after the as-of instant it reports `WAITING`
(`Waits`). `ReportOr` ends the replay as soon as the setup asked for has its
outcome. A setup is the record of its `bound` stages, each as the time at which
its candle completed, with its founding tuple and outcome; `Stepped` composes the
stages in the order of `step`, so what one binds the next one sees.

What the detectors answer is an input, drawn where the code asks: `Facts` for what
is the same for all setups (displacements, gap), `OwnFacts` for what depends on a
setup's own levels (closes through them, sweep, break, overlap with its gap). Every
combination the code distinguishes is drawn, contradictory markets included. The
H4 structure may change only when an H4 candle completes. Founding is drawn only
where a candle of the timeframes it reads completes, since between them it can
only repeat its answer. Founding tuples are model values for CA1, P1 and L1.

Three simplifications are exact. Setups are stepped at once, although the code
takes them in turn: they share nothing but the candles, and the setup asked for
is always the last founded, so an early return skips nobody. The coverage check at a
deadline is left out: every expected completion is a boundary, so one missing
before the deadline has already stopped the replay. `invalid` keeps its first
entry only, all that is reported of it.

### The market report
`CausalSource` validates a history and cuts it at the requested instant.
`MarketStructure`, `LiquidityEvents`, `Imbalances` and `DealingRange` are the
detectors as functions of the candles and a configuration; each returns the rows
and counts that later stages read. `FactualEnvelope` runs them behind their
dependencies and says of each whether it was evaluated; `FactualContext` binds
sources and envelopes of all timeframes to one instant and relates neighbouring
timeframes; `EventChronology` brings the dated facts to one form, each with the
instant it was known; `MarketSynthesis` makes the claims (evidenced, absent in its
scope, unknown) and evaluates conditions on them. Every stage has its errors, the
ways in which it refuses parts that do not belong together.

`CandleFeed` is the market around them. Its state is `candles`, `profile` (the
configuration) and `log` (the reports). `Tick` completes a fast candle, `Evaluate`
is one evaluation through all stages, of histories delivered in full, with the
candle in progress, one candle late, empty, with a candle repeated, or ahead of
time, or with the envelopes of the report before handed in again. `MarketTruth` says
what is so by looking at the candles, with definitions of its own: a median is
what has no more than half of a window on either side, a level that was certainly
taken is a swing that stands alone, a filled gap is one a later candle crossed.
`FeedTruth` compares reports with it and with each other.

Simplifications. Two timeframes instead of seven, a slow candle being two fast
ones; eight of the ten capabilities. Histories begin with the market: boundary
identities contain indices into the history, so reports of histories that begin
elsewhere are not comparable in the code either. Identities and hashes are left
out, content stands for identity; ties that the code breaks by a digest are left
open. One liquidity configuration serves both uses. Detectors do not fail on a
history that passed validation, so the failure states of an execution do not
occur. Prices are integers, ratios percentages, a median is kept doubled.

### The entry
`QuantityLattice` is the arithmetic of grids `origin + i * step` (descriptor,
intersection, clipping, the last quantity that fits). `DeclarationStream` decides
which record of a revision chain is in force. `SpecificationLifecycle` is the
lifecycle report of an instrument's specification and the applicability resolver:
`Standing` puts a correction in the place of its original, `Active`, `Displaced`
and `Withdrawn` sort what holds at the time asked for, `Applicable` selects a
revision, says that none applies, or leaves it open. `EntryOwners` are the grid,
the position effect and the risk function; `AccountRules` the regime and the gates;
`EntryFeasibility`, `EntryLimits` and `EntryHeadroom` the owners that compose
them; `LossFloors` the three loss limits. An owner is a function of evidence `e`
whose answer is ESTABLISHED, NOT_SUITABLE, UNKNOWN or INVALID (it raises).

`EntryDesk` is the world around them, none of it code of the repository. A
`world` is one set of circumstances: the request, what is published from the
start, what may be published later (`menu`), what captures fail to say and admit
(`blur`). `Publish`, `Capture`, `Admit` and `Tick` interleave freely; the answers
are functions of the state. `EntryTruth` defines the true quantities, rules,
revisions and floors from everything published by now: the trailing threshold is
the highest balance ever held less the allowance (`TrueHigh`), the day's balance is
a sum of events (`TrueReset`), and an account is governed without a break when one
assignment and one package bind it at every instant since its inception
(`Continuous`). None of the three mentions the lists the code walks. Amounts are
counted in a unit in which the fractions of the initial capital are whole.

Simplifications. One admission serves all owners, with an interval of its own for
the planning mandate. Digests are ids and the instants of captures; the citation
of native originals is one set of unsupported statements, a subject pin is given
or missing. Captures are honest about their cutoffs: nothing is published at an
instant after a capture of that instant. Bodies of projection and floor
declarations are stated per capture. Commissions are folded into the change of a
close, membership of receipts into `unresolved`. Refusals drawn from trades and
equity hold for the capture, as the policy's maximum age allows. The regime
reports a floor with its notices worked in. Whether the facts themselves allow the
entry is computed from them too: the order (`OrderStands`), the package in force
(`TruePackages`), each rule that bears on the entry (`Broken`), the trades of the day,
the equity, the plan and the mandate (`MayEnter`). Assertions about a specification
always have a publication time and their revisions are model values with an
effective start, a coefficient and the state of their payoff; metadata is observed
with the capture.

## 4. Runs

| Run | Instance | Shows |
|---|---|---|
| `chain` | chain of 3 tasks, 1 retry, all retryable, the calls of `Spec` | gates, propagation, budget, atomicity, no revival, final verdicts |
| `prevention` | chain | **violated**: a terminal prevention can be withdrawn (finding 1) |
| `direct` | fork | **violated**: a direct `propagate_failure` can stop half way (finding 2) |
| `race` | 2 requests (symmetric), 1 pair, 2 registrations, 2 policies, 1 edit | accounting, identity, truth of results |
| `live` | 2 requests, 1 pair, 2 registrations, 1 policy, 1 edit, fair | withdrawn permission is heeded, answers, no leak, implementation of `GovernedExecution` |
| `policy` | up to 3 of 8 rules, 3 contexts, 1 change of any kind at any moment | the answer is the one maximum of the matches; a standing rule is silenced by nothing but a shift under the loop or an assignment to a match |
| `removal` | up to 3 of 3 rules that all apply, 1 change | **violated**: removing a rule the loop has been to hides a standing one (finding 4) |
| `replay` | risk 2, 5 minutes, structural candles of 2 minutes, 10 candle shapes, both directions, 5 evidences | stages, latches, gates and censoring; E never goes on over an answer it lacks; nested variants; pairs are exactly the price paths |
| `reversal` | up to 2 setups, candles of 2, 4, 8, 16 and 32 units, windows of 13, 5, 9, 4 and 5, two as-of instants | causal and timely stages, bounded lives, justified reports, final bindings |
| `entry` | 146 worlds, 2 boundaries, up to 2 publications, quantities up to 6 | answers, refusals, floors and selected specifications are true of what was published |
| `feed` | 2 openings of 7 and 9 candles, up to 10, 4 shapes, 2 timeframes, 2 configurations and one contradictory, 6 deliveries, 2 reports | no report rewrites what another could know; claims are true of the candles |
| `refuted` | the same as `replay` | **violated**: E is censored over a pivot that is already refuted (finding 3) |

Bounds and why they suffice. Three tasks give a chain in which a failure has a
transitive dependent, and a fork; one retry separates a recoverable from
an exhausted failure. That verdicts are final on any graph, also after torn calls, is
left to the proof. Two registrations of one pair and two requests are the
least with which a replacement can meet a selection and two holders a counter;
two policies with different identities let identity and version come from
different objects; one edit can fall between any two steps. Three rules reach
every pairwise and one transitive comparison of the tie-break; the eight rules
tie on each prefix of it and fail to apply for each reason but being disabled, which an
edit brings about. A change needs a rule the loop has been to, one it is at and one
ahead, so three rules do for it too; several changes in a row are left to the proof,
whose invariant was evaluated by TLC on three rules and two changes. `MaxRegistrations`,
`MaxEdits`, `MaxRules` and `MaxRetries` appear only in guards.

For the replay, five minutes are enough for one R, a pivot of three minutes or of
three structural candles that confirms strictly later, a promotion and a candle
under the promoted stop. The shapes reach each barrier alone and every set of
stops together with the target, inside a candle and at its opening; a risk of two
ticks leaves prices strictly between the levels. The evidences are complete,
late for M1, late for M5 on another phase of the grid, ended early, and covered
only in part; a hole may be anywhere. `Horizon` appears in a guard because the
code stops there.

For the reversal, a unit is half an M1 candle, so windows and as-of instants can
fall between candles; the odd windows do, while RT1's ends exactly on one. The
founding domain starts inside an M15 candle, ends on one and holds two births, one
of them before a completing candle that opened earlier; the H4 candle in progress
completes half way. An as-of instant of 29 meets the end of a window with no candle
completing, and 41 lies beyond the longest life of the earlier setup. Every
status, the expiry of every stage and each ambiguous order occur.

For the entry, two instants separate publication, capture and answer, and let
intervals end, begin and be half open at a boundary; some effects come only after
the last one. Prices around twenty and a budget of twenty make a loss of six per
unit, so that budget, limit, position interval and floors bind at different
quantities in different worlds, on grids with origins and steps on and off the
bounds; no world allows a quantity beyond `Top`. Each world changes one
thing or two; where a capture may leave something out, the same world is also
checked with a capture that does. Specifications are replaced, withdrawn,
corrected (by another, by nothing, by a statement that does not hold yet),
corrected twice, corrected in turn, replaced in a circle and along a chain of
three. The loss floors have closes on both sides of the high, at one instant and
apart, before and after the reset.

For the feed, the openings hold swings of both sides, equal highs and a gap; the
four shapes take the levels, sweep them, leave gaps and order blocks, or do
nothing. The lookbacks are shorter than the history, so that what leaves them is
seen; the narrow configuration cuts lists and filters touches. Two reports are
what the property compares. `LastCandle` and `MaxReports` appear in guards only.
Structural ranges are excluded from the comparison of reports, because a second
swing of one side may rewrite the last of them, by the code's pairing rule
(`adjacent_opposite_pivots_after_same_type_run_collapse`); order
blocks are compared as far as their displacement is still in the lookback. The
slow timeframe has at most five candles, too few for a structure.

`CHECK_DEADLOCK FALSE` where the system stops: a graph all of whose tasks are
closed, an evaluation that has answered, a replay all of whose variants have
ended, a reversal that has reported, a desk or a market at its last instant. The
service runs check deadlock.

Fairness: `WF_vars(Step(p))` for each request. A request is a Python thread that
never waits for anything but a short critical section, and executors are assumed
to return: contracts declare a timeout but, as `docs/system_architecture.md`
says, it is descriptive. Nothing is assumed of operators. The other models are
checked for safety only: their steps are taken by callers, providers and markets,
of whom the code requires nothing.

## 5. Findings

1. *Prevention is withdrawn* (`mc/tasks.py:320`, run `prevention`). Each walk
   assigns `terminally_prevented = terminal`. In the chain a, b, c, reject b (c
   is prevented for good), then let a fail with a retry left: the walk passes
   through b and sets c's flag back to false. `tests/test_mission_control_v05.py:149`
   expects the flag to be set after a terminal failure, and
   `docs/system_architecture.md:27` lets only recoverable blocks clear.
2. *A direct walk can tear* (`mc/tasks.py:319`, run `direct`). With one dependent
   ready and another in progress, `propagate_failure` blocks the first and raises
   on the second. `docs/system_architecture.md:25`: "Mutation is validated before
   state is changed." Through the two callers in the module this cannot happen,
   which is proved (`CallsAreAtomic`).
3. *Censored over an irrelevant candle* (`trading/xauusd_reference_trade_management_experiment.py:424`,
   run `refuted`). `_pivot` knows that one neighbour can refute a pivot whatever
   the other is, and `docs/capability_architecture.md:2124` promises that such a
   gap is not consequential. It is only asked when the declared coverage spans
   all three candles: if the M5 coverage ends before the confirming one, E is
   censored although its centre and left candle already refute the pivot.
4. *A rule removed hides another* (`mc/policy.py:176`, run `removal`).
   `docs/system_architecture.md:15`: "Valid matching rules retain the priority,
   severity, version, effective-time and rule-id precedence." The loop of
   `evaluate_match` runs over the policy's own list. With an allow in front of a deny
   of one priority, remove the allow after the loop has been to it: the deny moves to
   the position just left and is never looked at, and the answer is allow, although the
   deny was in the policy all the time. Everything else an owner may do to the list
   leaves standing rules heard, which is proved (`StandingRulesAreHonoured`).

## 6. Proofs

Every theorem about a specification leaves its constants unconstrained but
for the named assumptions (`GraphAssumption`, `ServiceAssumption`,
`PolicyAssumption`, `DefinitionIsNormal`, those of `TradeManagement`, of
`EntryDesk` and of `CandleFeed`): any graph, any number of requests, rules and edits, any risk, horizon,
candles and evidence, any clocks, windows and founding domain, any worlds and any
number of boundaries, any market, configuration, delivery and number of reports. The assumptions of `EntryDesk` say of a world that finitely
much is ever published and a statement about the specification names revisions that
exist (`WorldsAreFinite`), that events of the account are dated, have integer amounts
and are identified, the closes of the start finite (`HistoriesAreCounted`), that
intervals have integer ends or none (`RegimesAreDated`), that prices, amounts,
allowances, charges, limits and terms are integers of their sign, positions finitely
many and commitments counted (`OrdersAreCounted`,
`AccountsAreCounted`, `RulesAreCounted`, `TermsAreCounted`), that records of one
stream differ in their identity, and that "unknown" is neither a grid, the empty one
included, nor the value of a fact (`NoneIsApart`).
The code checks all that on every record it parses; that much is finite is what
tuples of records are. One assumption is about the world and no check of the code
can replace it: `StatementsAreTrue`. What a provider states of a rule (the value its
fraction is taken of, the instruments it is about, whether it is waived, whether it
looks at the settled balance) and of a notice (that one set aside changes nothing)
is so; an answer computed from statements cannot be better than they are. What a
*capture* of true statements leaves out, is late with, or gets out of order, is not
assumed away: that is what the theorems are about. Those of `CandleFeed` are that the timeframes are ordered down to the fastest, a slow
candle is two fast ones and conditions are what `normalize_condition` lets pass
(`FeedAssumption`), that prices are integers and every
timeframe has a completed candle when the feed begins (`MarketAssumption`), and that
settings are integers (`SettingsAreCounted`); of their ranges nothing is assumed
that `ProfileErrors` does not reject. The theorems about grids, declaration streams
and detectors hold for all their parameters that their hypotheses type.

*TaskGraphProofs.* `IInv` joins the type invariant with `ApprovalGate`,
`DependencyGate`, `PreventedNeverRuns` and `NoTornCall`. They need each other:
the walk never meets a dependent it cannot block because everything downstream
of a task that is not completed has not been released (`DownstreamNotReleased`,
from `DependencyGate` and the closure in `Downstream`); therefore `Cascade`
completes (`CascadeCompletes`), and therefore it preserves the gates. One lemma
handles every action that changes a single task. `OpenInv` is the part that
survives when `propagate_failure` is called from outside (`OpenSpec`): types, gates
and the budget, which ties the number of starts to the retries and the state
(`AttemptsWithinBudget`). `TaskStep` says what any call may do to one task, the
nondeterministic part of a torn walk included; from it and `OpenInv` follow that
the dead stay dead and that final verdicts are final. `PreventedHasDeadCause`
needs `Spec`: a walk that terminally prevents starts at a task that is dead, and the
dead stay so.

*MissionServiceProofs.* `IInv` says where in the pipeline each request is from
what its variables hold, that the reservations equal the number of holders, and
that a holder's selection is the current entry of its pair. The last is what
makes the second lookup of `execute` safe: `Register` is disabled while there
are holders. `ReservationsBalance` needs the cardinality lemmas for one request
joining or leaving the holders. `RefinesGovernedExecution` maps each action to an
abstract step or a stutter. `RunsUnderOnePolicy` has an invariant of its own,
`SnapshotsInv`: from the check of the snapshot to the run, the snapshot names the
identity of the policy that was passed; before that check the two may differ.
`RevocationIsHeeded` follows a request that has the second gate ahead of it while no
policy allows: it stays held back (`HeldStaysHeld`), wherever it is and whatever is
edited under an unchanged identity and version, because the gate evaluates the policy
as it is then. `KeepsPromise`, the steps of `GovernedExecution`, is a theorem only; the
run `live` checks `ImplementsPromise`, the same with its fairness.

*PolicyEngineProofs.* `IInv` adds four parts to the types. `StandingIsHeard`: a rule
that stands is in the list under the loop and, unless that list was shifted
(`overtaken`), has matched if the loop has been to it; the lemmas on insertion,
replacement and removal (`Inserted`, `Replaced`, `Removed`) say where each leaves the
rest of the list. `MatchesAreOrdered` and `HighestIsTaken`: until a match is assigned to
(`rewritten`), matches have comparable starts, and the candidates are those of the
highest priority. `WinnerSoFar`: the best candidate so far is not outranked by one
already considered, which needs transitivity of the tie-break order, proved from
integer arithmetic (`OutranksIsTransitive`). That `max` over the matches exists is the
guard of `EndMatching`, because induction over finite sets is not available to the
provers. `GoverningApplies` ties the properties' own notion of a rule that governs to
the code's tests. From the invariant follow `DecisionIsTheMaximum` and
`StandingRulesAreHonoured`, with the two exceptions their statements name.

*TradeManagementProofs.* `IInv` says of each variant that its milestones agree
with its recorded excursions and survival so far (`MilestonesAreObserved`), that
a gate is open only after a milestone and the stage is what the latches permit
(`GatesFollowMilestones`, `StageIsPermitted`); across variants, that those still
observing have recorded the same (`SameObservations`) and that the end of C and
A frames the others (`Nested`); and that the minute rows in hand have no hole
while something observes (`NoHoleBehind`), which is why D's gate always has an
answer. `NothingIsBackdated` and `StopsOnlyTighten` (a stop never loosens, a result never
changes: the theorem `ProtectionIsMonotone`) follow from one step of it, and so does
`GateOfEIsSettled`: a variant that goes on past an asked gate has a verdict
(`AdvancesOnAVerdict`), and a verdict rests on candles that are there
(`PivotIsSettled`).
`ComparisonIsExact` needs one invariant more, `EndsShareACandle`: variants that
ended at one minute ended on one candle. Then two alternatives are compatible exactly
when one path through the levels that candle reaches takes both exits
(`CompatibleIsOnePath`): where a path meets two stops it meets the nearer first
(`NearerStopFirst`), and every order that respects this is the order of some path
(`BothOnOnePath`).

*LiquidityReversalProofs.* `Sound` says of every setup that its stages are in
order, in time and agree with each other; `Timely` of an open one that no window
and no candle of its gap has passed; `Resting` that it can still go on after a
boundary. A step is proved stage by stage: each preserves `Pipe`, keeps what was
bound (`Extends`), and `Formed` and `Eligible` establish what `Settled` needs.
`NextBoundary` is the step that could skip something. A deadline before it is
settled by `Overdue`; the candle of the gap cannot be skipped because the
reaction's candle ends on the M5 grid, so the next one does (`NextOnGrid`) and is a
boundary. From this follow `LifeIsBounded`, although one stage has no deadline, and
`ReportIsJustified`, because the as-of instant is a boundary itself.

*EntryProofs, the terms.* What it says of grids rests on two facts about rounding: an
index is at most a quotient rounded down, or at least one rounded up, exactly when
the quantity at the index is on the right side of the dividend. `DescriptorIsExact`
says which quantities a grid holds, `SupportIsAPartition` and `ClippingIsExact` that
cutting it loses and invents none. Of streams: in the finite graph of predecessor
links without a circle, every record of a chain has the root above it. Two current
records would have a first common ancestor, and since a record has one replacement,
one of the two must be that ancestor itself and therefore replaced. Hence
`OneRecordInForce`, and `TermsInForceAreUnique` for what resolves.

*EntryProofs, the answers.* The invariant, `DeskIsTyped`, says that what is published,
captured and admitted is dated by boundaries not after now. All the rest is what
an answer means in such a state. `StateIsCaptured`, `HistoryIsCaptured`,
`StatementIsCaptured` and `DayIsCaptured` say what a capture holds, blurred or not, of
which an owner takes note.
`SelectionIsTrueAlways`: a complete report through now has left no assertion out
(`CompleteReportsTellAll`); what stands in it, correction by correction, is what
nobody corrected (`StandingIsUncorrected`); so what it leaves applicable are the true
revisions (`FullReportSelectsTruly`), and a single selection is their only member.
`FloorsAreTrueAlways` has to compare walks over lists with sums over sets. A sum
over a finite set exists and loses one summand when one element leaves
(`SumsExist`); a least counterexample (`LeastNatural`) stands for the induction the
provers lack. The admitted events are listed in their order (`ClosesAreListed`), so
the balance after each is the sum of what is not later, and the greatest of these
is the true high (`ThresholdIsTrue`). Captured spans, each with one regime
(`UniqueRegime`) and adjoining the next, leave no instant since inception governed
by anything else (`SpannedIsContinuous`), which needs that the capture did not blur
the regime (`ManifestTellsAll`, `StartIsDimmed`).

*EntryProofs, the entry.* `EstablishedIsTrueAlways` takes the same invariant, joined
with the mandate admitted being the planner's (`MandatesAreTheWorlds`), through all
the owners of an entry. Four arguments carry it. (1) *Nothing is answered out of an
old capture or an incomplete one.* What resolves was captured now and leaves nothing
out (`ResolvedIsCapturedNow`, `TermsAreCaptured`), so the record in force is the only
one that nothing in effect replaces (`TermsAreTrue`); established answers need a
packet of now (`AnsweredNow`, `EffectAnsweredNow`, `CompositionIsOfNow`) and with it
the specification, the plan, the account and the regime are those of now
(`SpecificationIsTrue`, `PlanIsTrue`, `AccountIsEmpty`, `RegimeIsTrue`). (2) *What is
judged satisfied is not broken*, rule type by rule type (`RuleIsKept`), also where
statements about a rule are missing, and a day the gate lets pass has not seen two
losing stops, whatever is unresolved of its trades (`StopOutsAreCounted`); hence
`GrantedMayEnter`. (3) *The quantities.* The loss function is the loss at the worst
prices within the allowances plus the charges (`WorstIsDistance`, `ChargesAreFolded`,
`LossIsTrue`), it never falls when the quantity grows (`LossGrows`), so the binary
search over a grid, of any length, finds the last quantity that fits
(`SearchFindsTheLast`, `FeasibleIsExact`, `PassingIsExact`); limits cut the interval
where the rules of the package do (`LimitsAreTrue`); clipping and slicing neither lose
nor add one (`QuantitiesAreTrue`). (4) *Until the deadline.* The rules that bind at
the next boundary bind now (`NoRuleComes`, from periods that cannot overlap), a floor
no notice is known to change is the same then (`RaisedAlike`: sums over sets that
differ by what adds nothing), and a floor that is settled is the true one at either
instant, or none (`FloorsAreSettled`); of the parts above the floors, the one that
ends first is their intersection (`NarrowestIsCommon`).

*EntryProofs, the refusal.* `RefusalIsTrueAlways` is the converse: what an owner takes
for a proof that there is nothing to enter with, is one. `NOT_SUITABLE` is decided by
one ground, whatever else is open, so each is followed back alone, and none may lean
on a capture that is complete. A rule that is judged broken is broken
(`RuleIsBroken`, type by type), by facts that a blurred capture may lack but cannot
invent; the daily block rests on two losses that are definite (`LossIsRefused`),
the other gates on what they show (`GatesRefuse`); a negative risk reason is one of
the evidence (`RisksRefuse`, with the plan and the selected specification those of
now, `PlanIsForbidden`, `SelectionIsOfNow`), and an incompatibility that is claimed is
one of the order (`ClaimsRefuse`). Together: `FeasibilityRefuses`. A domain that came
out empty has lost no true quantity on the way, by grid, support and budget
(`VenueIsOfNow`, `SupportLeavesNoneOut`, `BudgetLeavesNoneOut`), nor by interval and
limits, of which some may still be unresolved (`TrueAreNotExcluded`,
`CompositionLeavesNoneOut`, `CompositionRefuses`). And a floor without any quantity
above it is in force now, as high as it was told, so that no true quantity survives
(`CountedIsAFloor`, `HeadroomRefuses`), also while notices are missing.

The attempt to prove it refuted the property as it had been stated, and TLC then
showed both counterexamples in worlds the run lacked (`Overcounted`, `Elsewhere`).
Two grounds count although more could be told. `Uncorrected`: `_daily` blocks on two
definite losses without asking for the coverage it needs in order to pass, as
`docs/capability_architecture.md:1889` has it; where the inventory lacks the correction
of one of them, a day of one loss is blocked. `Misapplied`: `_providers` judges a rule
by the instrument its operand names, and `_evaluate` records the proof before it
looks whether that is the instrument of the order (`_policy_namespace`, which only
makes the answer open); so a broken rule about another instrument blocks the entry
when an operand binds it to that one. Both err on the side of refusing. They are
named in the property, so that whatever else refuses has to be true.

*DetectorProofs.* `Continues(longer, candles)`: the longer history begins with the
other. Swings, the levels a candle is measured against, the baseline of a
displacement and the rows of a gap are each shown to read no candle beyond the one
they are dated by, so that any continuation leaves them as they are. `EventsAgree`,
`GapsAgree` and `MovesAgree` carry this through filters and retention to the dated
facts a report tells: the longer history tells a fact again while it covers its
subject and keeps nothing back, and what it dates before the end of the shorter one,
the shorter one told already. Retention is harmless only because what it keeps is a
part of what was found and it counts what it drops; which of two facts of one instant
is dropped, a matter of digests in the code, is left open.

*DetectorProofs, the truth.* What is told is then compared with `MarketTruth`.
`GapsAreTrue` rests on what the deepest fill so far is (least and greatest values of
the candles behind a gap); `MovesAreTrue` on the median: the candle found by order
statistics has no more than half of the window below it and no more than half above
(`Baseline`); `BlocksAreTrue` on the nearest opposite candle being the greatest of a
finite set; `EventsAreTrue` on levels: a candle that takes the level of a cluster
reaches one of its swings within the tolerance, and a swing that stands alone is in
no cluster and keeps its own level; `RangesAreTrue` on the swings of the two sides
taking turns after runs of one side were collapsed, so that a high above a low leaves
two neighbours of different price; `StructureIsTrue` on the last two swings of each
side. Each says two things: what is told was there, and what an answer with nothing
left out keeps quiet was not.

*FeedProofs.* `NothingIsRewritten` is `KnownAsPublished` for the whole chain, in
three parts. (1) The facts of a timeframe are those its detectors find in the
approved history, so by the theorems above two reports agree when one history goes
on from the other; blocks need `BlocksAgree`, because a block whose first move left
the window may be confirmed by a later one, and is then the same block with another
date. (2) Whatever is delivered, the candle in progress, one candle too few, one
twice, one ahead of time, nothing, what an admitted source approved is a beginning of
what is completed, and its cutoff is the completion of its last candle. (3) What was
made of sources of one instant passes every check of every stage
(`FreshIsAccepted`), and bundles that pass with a source are those of that very
source: so a report handed the envelopes of the one before is refused when their
instants differ, and tells the truth when they do not. `KnownAsPublished` is not
inductive, since it compares reports with one another and says nothing of the
market. `FeedInv` ties every report to the market instead: what it says of a usable
timeframe is what the detectors say of a beginning of the completed candles
(`Told`), and only a report that was handed something again is refused, always when
the report before it was of another instant (`Answered`). A tick keeps it because
what is completed stays completed, and merging two fast candles into a slow one
never touches an earlier pair. Of any two reports one history then goes on from the
other, and part (1) applies. `FeedInv` was also evaluated by TLC on the instance of
the run `feed`, in all of its states.

*FeedProofs, the claims.* `WhatIsClaimedIsSo` is `ClaimsAreTrue`. A claim shows nothing
but its detector's answer, and is an absence only of an empty answer that left
nothing out (`ClaimIs`, `HistorySupport`); so the theorems above make the claims true
of one timeframe (`CurrentClaimsAreTrue`, `HistoryClaimsAreTrue`), and the conditions
evaluated on them (`OutcomesAreTrue`, conjunctions included). Of a source that cannot
be used every claim is unknown, and so is every condition (`NothingIsClaimed`,
`NothingIsDecided`). The third part of `FeedInv`, `Claimed`, says that a report's
claims are those of the bundles of its own sources, whose histories are valid: what
was handed in again passes only as what it is.

Only model-checked: liveness and the fairness part of the refinement
(`EveryRequestAnswered`, `ReservationsDrain`, `ImplementsPromise`), which the
provers cannot do. Every invariant and every action property of the passing runs is a
theorem, and so is `RevokedNeverRuns`.
Proved, but of no run: `NothingReplacedInUse`, `RefinesGovernedExecution`,
`ProtectionIsMonotone`, `FreshIsAccepted` and the theorems
about grids, streams and detectors.

## 7. Not modelled

Connectors and adapters: a state machine of health, readiness, circuit and rate
limit that nothing in the pipeline calls; the hazard at `mc/connectors.py:165` is
therefore listed without a property. The mock runtime, the intake checks and the
plan, audit and compatibility shells have no state of their own; what they can
answer is one nondeterministic choice in `MissionService`. Of the market report:
`candle_intelligence`, `volatility_range` (and the conditions on it),
`market_observation` and `market_context`, which no later stage needs; the order of
ranges confirmed by one candle, which the code takes from a digest (a hazard
without a property). Of the entry: the validation of single records, bodies of
contract metadata and of account and price snapshots, the match of an approved
policy with the static terms of a source, the venue and supplier of a quote, the
formulation and prerequisite records that restate their input, and the fields of
reports that no owner reads. The division shell is a table.

Formatting and logging are left out. Text fields such as `failure_reason` are
written beside the modelled state and read by nothing but reports, with one
exception, a pre-dispatch check that also requires the failed state and thus can
never be the only reason to refuse. Of the management experiment: validation of
requests and declarations (their outcome, an admissible evidence record, is
modelled), identities and hashes, the excursion bounds attached to an outcome,
cohort summaries and partitions. The technical
candidate and the gross measurement, records computed once from a setup, are left
out too. Of the reversal: how the detectors reach their answers (an input there), validation of the request, identities, fingerprints and the payload of
the report, including the list of exhausted setups. Its setups share the fields of one replay
object and are restored in turn; the model steps them at once, so a mix-up between
them is a hazard without a property, as is a matched policy rule assigned to before
the answer, of which nothing says which state should count.

Definitions marked "Wrong on purpose" are mutants: plausible slips in the code
that one of the properties must catch. They occur in no specification.
