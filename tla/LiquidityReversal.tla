------------------------- MODULE LiquidityReversal -------------------------
(***************************************************************************)
(* The bounded replay of xauusd_causal_liquidity_reversal.py: setups are   *)
(* founded on H4, H1 and M15 facts and then wait, each stage with a        *)
(* deadline, for a sweep (E1), a reaction (R1), a break (K1), a gap (Q1),  *)
(* a return into it (RT1) and a trigger (T1), on candles of five clocks.   *)
(*                                                                         *)
(* What the detectors report of a completed prefix is an input, drawn when *)
(* the replay asks for it.  A stage is bound to the time its candle        *)
(* completed.  Requested is the ordinal of the setup asked for, plus one.  *)
(***************************************************************************)
EXTENDS Integers, Sequences

CONSTANTS
    Span,           \* the duration of a candle of each timeframe
    Starts,         \* history_starts: the opening of its first candle
    Windows,        \* windows_seconds: the time a stage may take
    FoundingStart,
    FoundingEnd,
    AsOfs,          \* instants at which an assessment may be asked for
    Requests,       \* setups that may be asked for
    Tuples,         \* founding tuples: CA1, P1 and L1
    None            \* not bound

Timeframes == {"H4", "H1", "M15", "M5", "M1"}
WindowStages == {"E1", "R1", "K1", "RT1", "T1"}

ASSUME DefinitionIsNormal ==
    /\ Span \in [Timeframes -> Nat \ {0}]
    /\ Starts \in [Timeframes -> Int]
    /\ Windows \in [WindowStages -> Nat \ {0}]
    /\ FoundingStart \in Int /\ FoundingEnd \in Int
    /\ \A tf \in Timeframes : Starts[tf] + 3 * Span[tf] <= FoundingStart
    /\ AsOfs \subseteq {t \in Int : t >= FoundingStart}
    /\ Requests \subseteq Nat \ {0}
    /\ None \notin Int

VARIABLES
    requested, now,   \* the request: setup_ordinal + 1 and as_of
    at, pc,           \* the boundary in hand and the part of the loop
    h4,               \* the H4 structure, seen from the strategy's direction
    setups,           \* instances, in the order of their births
    report            \* status, reason and boundary of the assessment

vars == <<requested, now, at, pc, h4, setups, report>>

Completes(tf) == (at - Starts[tf]) % Span[tf] = 0

\* Wrong on purpose: nothing is evaluated at the as-of instant itself.
CompletionsOnly ==
    {FoundingStart} \cup
    {t \in FoundingStart..now : \E tf \in Timeframes : (t - Starts[tf]) % Span[tf] = 0}

\* The boundaries of the replay: both ends and every completion expected
\* between them, whether or not the candle is there.
Boundaries ==
    {FoundingStart, now} \cup
    {t \in FoundingStart..now : \E tf \in Timeframes : (t - Starts[tf]) % Span[tf] = 0}

-----------------------------------------------------------------------------
(* One setup *)

Birth(tuple) ==
    [tuple |-> tuple, birth |-> at, status |-> "OPEN", reason |-> "NONE", boundary |-> None,
     E1 |-> None, B1 |-> FALSE, R1 |-> None, K1 |-> None, Q1 |-> None,
     eligible |-> None, RT1 |-> None, T1 |-> None]

Bound(s, stage) == s[stage] # None
Later(a, b) == IF a >= b THEN a ELSE b

\* The stage a setup waits for, with the time its window opened; none between
\* K1 and Q1, which is enforced at the one candle that can be its C.
Waiting(s) ==
    IF ~Bound(s, "E1") THEN <<"E1", s.birth>>
    ELSE IF ~Bound(s, "R1") THEN <<"R1", s.E1>>
    ELSE IF ~Bound(s, "K1") THEN <<"K1", s.R1>>
    ELSE IF ~Bound(s, "Q1") THEN <<"NONE", None>>
    ELSE IF ~Bound(s, "RT1") THEN <<"RT1", s.eligible>>
    ELSE <<"T1", s.RT1>>

HasDeadline(s) == Waiting(s)[1] # "NONE"
Deadline(s) == Waiting(s)[2] + Windows[Waiting(s)[1]]

Expired(s) ==
    [s EXCEPT !.status = "EXPIRED", !.reason = Waiting(s)[1], !.boundary = Deadline(s)]

\* Evidence the replay cannot do without ends the setup at once.
Unknown(s, reason) ==
    [s EXCEPT !.status = "UNKNOWN", !.reason = reason, !.boundary = at]

\* Of several invalidations at a boundary the first is reported.
Invalid(s, reason) ==
    IF s.reason = "NONE" THEN [s EXCEPT !.reason = reason] ELSE s

\* H4 context, and H1 closes through the anchor or the block.
Context(s, own) ==
    LET opposed == IF h4 = "OPPOSITE" THEN Invalid(s, "OPPOSITE_H4") ELSE s
    IN  IF h4 = "UNRESOLVED" THEN Unknown(s, "UNRESOLVED_H4")
        ELSE IF own.h1 # "CLEAR" THEN Invalid(opposed, own.h1)
        ELSE opposed

Swept(s, own) ==
    LET opened == at - Span["M15"]
        swept == [s EXCEPT !.E1 = at, !.B1 = own.pivot]
    IN  IF s.status # "OPEN" \/ Bound(s, "E1") \/ own.m15 = "NONE" THEN s
        ELSE IF own.m15 \in {"L1_CONTINUITY_UNPROVEN", "TRUNCATED_E1_EVIDENCE"}
        THEN Unknown(s, own.m15)
        ELSE IF opened < s.birth
        THEN IF at > s.birth /\ own.m15 # "TOUCH"
             THEN Unknown(s, "E1_SELECTION_ORDER_UNPROVEN") ELSE s
        ELSE IF own.m15 = "CLOSE_BEYOND" THEN Invalid(s, "L1_CLOSE_BEFORE_SWEEP")
        ELSE IF own.m15 = "TOUCH" THEN s
        ELSE IF own.pivot THEN swept
        ELSE Invalid(swept, "ABSENT_PRE_E1_B1")

Reacted(s, facts) ==
    LET asked == /\ s.status = "OPEN" /\ s.B1 /\ ~Bound(s, "R1")
                 /\ Completes("M5") /\ at - Span["M5"] >= s.E1
    IN  IF ~asked \/ facts.reaction = "FALSE" THEN s
        ELSE IF facts.reaction = "UNKNOWN" THEN Unknown(s, "DISPLACEMENT_BASELINE")
        ELSE [s EXCEPT !.R1 = at]

BreaksNow(s, own) ==
    /\ s.status = "OPEN" /\ s.B1 /\ Bound(s, "R1") /\ ~Bound(s, "K1")
    /\ Completes("M5") /\ own.breaks

Broken(s, own) == IF BreaksNow(s, own) THEN [s EXCEPT !.K1 = at] ELSE s

FormsNow(s) ==
    /\ s.status = "OPEN" /\ s.B1 /\ Bound(s, "R1") /\ ~Bound(s, "Q1")
    /\ at = s.R1 + Span["M5"] /\ Completes("M5")

\* Wrong on purpose: a gap that is not there may come later.
WaitsForAnyGap(s, facts) ==
    IF FormsNow(s) /\ facts.gap THEN [s EXCEPT !.Q1 = at] ELSE s

Formed(s, facts) ==
    IF ~FormsNow(s) THEN s
    ELSE IF facts.gap THEN [s EXCEPT !.Q1 = at]
    ELSE Invalid(s, "ABSENT_FIXED_Q1")

Eligible(s) ==
    IF s.status = "OPEN" /\ Bound(s, "Q1") /\ Bound(s, "K1") /\ s.eligible = None
    THEN [s EXCEPT !.eligible = Later(s.Q1, s.K1)] ELSE s

AsksForReturn(s) ==
    s.status = "OPEN" /\ Bound(s, "Q1") /\ Completes("M5") /\ at > s.Q1

\* Wrong on purpose: the candle that makes the gap eligible counts as well.
EligibleAtOnce(s) == s.eligible # None

OpensEligible(s) == s.eligible # None /\ at - Span["M5"] >= s.eligible

\* Wrong on purpose: each return into the gap replaces the one before.
ReturnsAgain(s, own) ==
    OpensEligible(s) /\ own.q \in {"PARTIAL", "FULL", "THROUGH"}

ReturnsNow(s, own) ==
    /\ OpensEligible(s) /\ ~Bound(s, "RT1")
    /\ own.q \in {"PARTIAL", "FULL", "THROUGH"}

\* The M5 candle against the gap: away from it, into it, across it (FULL), or
\* closing past its far side, with an overlap (THROUGH) or without (BEYOND).
Returned(s, own) ==
    LET closed == own.q \in {"THROUGH", "BEYOND"}
        filled == IF ~OpensEligible(s) /\ own.q \in {"FULL", "THROUGH", "BEYOND"}
                  THEN Invalid(s, "PRE_ELIGIBILITY_FULL_FILL") ELSE s
    IN  IF ~AsksForReturn(s) THEN s
        ELSE IF closed /\ ReturnsNow(s, own)
        THEN Unknown(s, "RT1_INVALIDATION_ORDER_UNPROVEN")
        ELSE IF closed THEN Invalid(filled, "Q1_CLOSE_THROUGH")
        ELSE IF ReturnsNow(s, own) THEN [s EXCEPT !.RT1 = at]
        ELSE filled

Triggered(s, facts) ==
    LET asked == /\ s.status = "OPEN" /\ Bound(s, "RT1")
                 /\ Completes("M1") /\ at - Span["M1"] >= s.RT1
    IN  IF ~asked \/ facts.trigger = "FALSE" THEN s
        ELSE IF facts.trigger = "UNKNOWN" THEN Unknown(s, "DISPLACEMENT_BASELINE")
        ELSE [s EXCEPT !.T1 = at]

\* The outcome of the boundary, and after it the deadline, inclusive.
Settled(s) ==
    IF s.status # "OPEN" THEN s
    ELSE IF s.reason # "NONE"
    THEN IF Bound(s, "T1") THEN Unknown(s, "COMPLETION_INVALIDATION_ORDER_UNPROVEN")
         ELSE [s EXCEPT !.status = "INVALIDATED", !.boundary = at]
    ELSE IF Bound(s, "T1")
    THEN [s EXCEPT !.status = "COMPLETE", !.reason = "FIRST_CANONICAL_COMPLETION", !.boundary = at]
    ELSE IF HasDeadline(s) /\ at >= Deadline(s) THEN Expired(s)
    ELSE s

Stepped(s, facts, own) ==
    LET reacted == Reacted(Swept(Context(s, own), own), facts)
        formed == Eligible(Formed(Broken(reacted, own), facts))
    IN  Settled(Triggered(Returned(formed, own), facts))
-----------------------------------------------------------------------------
(* The replay of all setups *)

Init ==
    /\ requested \in Requests /\ now \in AsOfs
    /\ at = FoundingStart /\ pc = "found"
    /\ h4 \in {"SAME", "OPPOSITE", "UNRESOLVED"}
    /\ setups = <<>>
    /\ report = <<"NONE", "NONE", None>>

\* The setup asked for is the last one founded, if it is founded at all.
Asked == setups[requested]
AskedIsFounded == requested \in DOMAIN setups

Outcome(s) == <<s.status, s.reason, s.boundary>>

\* The replay stops as soon as the setup asked for has its outcome.
ReportOr(next) ==
    IF requested \in DOMAIN setups' /\ setups'[requested].status # "OPEN"
    THEN /\ pc' = "reported"
         /\ report' = Outcome(setups'[requested])
    ELSE /\ pc' = next
         /\ UNCHANGED report

\* Wrong on purpose: a deadline between two boundaries is left for the next.
ExpiredBefore(s, t) == s

Overdue(s, t) ==
    IF s.status = "OPEN" /\ HasDeadline(s) /\ Deadline(s) < t THEN Expired(s) ELSE s

\* The next boundary, and the deadlines that fell before it.
NextBoundary ==
    /\ pc = "boundary"
    /\ \E t \in Boundaries :
        /\ t > at /\ \A u \in Boundaries : u > at => t <= u
        /\ at' = t
        /\ setups' = [i \in DOMAIN setups |-> Overdue(setups[i], t)]
        /\ h4' \in IF (t - Starts["H4"]) % Span["H4"] = 0
                   THEN {"SAME", "OPPOSITE", "UNRESOLVED"} ELSE {h4}
    /\ ReportOr("found")
    /\ UNCHANGED <<requested, now>>

\* A candle that should have completed is missing, before founding starts or now.
CoverageMissing ==
    /\ pc = "found"
    /\ at = FoundingStart \/ \E tf \in Timeframes : Completes(tf)
    /\ pc' = "reported"
    /\ report' = <<"UNKNOWN", "MISSING_CONTIGUOUS", at>>
    /\ UNCHANGED <<requested, now, at, h4, setups>>

Founding == Len(setups) < requested /\ at <= FoundingEnd

\* Founding reads H4, H1 and M15: between their completions it cannot answer
\* anything new.
HasNewFacts == at = FoundingStart \/ Completes("H4") \/ Completes("H1") \/ Completes("M15")

\* Wrong on purpose: an exhausted tuple may found a setup again.
AnyTuple(tuple) == tuple \in Tuples

Free(tuple) == \A i \in DOMAIN setups : setups[i].tuple # tuple

Found ==
    /\ pc = "found" /\ Founding /\ HasNewFacts /\ h4 = "SAME"
    /\ \E tuple \in Tuples : Free(tuple) /\ setups' = Append(setups, Birth(tuple))
    /\ pc' = "step"
    /\ UNCHANGED <<requested, now, at, h4, report>>

NothingFounded ==
    /\ pc = "found"
    /\ Founding => h4 # "UNRESOLVED"
    /\ pc' = "step"
    /\ UNCHANGED <<requested, now, at, h4, setups, report>>

FoundingUnknown ==
    /\ pc = "found" /\ Founding /\ HasNewFacts /\ h4 # "OPPOSITE"
    /\ pc' = "reported"
    /\ report' = <<"UNKNOWN", "FOUNDING", at>>
    /\ UNCHANGED <<requested, now, at, h4, setups>>

\* What the detectors say of the candles that complete now, the same for all
\* setups.
Facts ==
    LET answer(tf) == IF Completes(tf) THEN {"TRUE", "FALSE", "UNKNOWN"} ELSE {"FALSE"}
    IN  [reaction : answer("M5"), trigger : answer("M1"),
         gap : IF Completes("M5") THEN BOOLEAN ELSE {FALSE}]

\* And what they say about the levels of one setup, where it is read.
OwnFacts(s) ==
    LET open == s.status = "OPEN"
        inM5 == open /\ Completes("M5")
        lost == IF at > s.birth THEN {"L1_CONTINUITY_UNPROVEN"} ELSE {}
    IN  [h1 : IF open /\ Completes("H1") /\ at > s.birth
              THEN {"CLEAR", "CA1_CLOSE_THROUGH", "P1_CLOSE_THROUGH"} ELSE {"CLEAR"},
         m15 : IF ~open \/ Bound(s, "E1") THEN {"NONE"}
               ELSE IF Completes("M15")
               THEN {"NONE", "TOUCH", "SWEEP", "CLOSE_BEYOND", "TRUNCATED_E1_EVIDENCE"} \cup lost
               ELSE IF at = s.birth THEN {"NONE", "TRUNCATED_E1_EVIDENCE"} ELSE {"NONE"},
         pivot : IF open /\ ~Bound(s, "E1") THEN BOOLEAN ELSE {FALSE},
         breaks : IF inM5 /\ s.B1 THEN BOOLEAN ELSE {FALSE},
         q : IF inM5 /\ Bound(s, "Q1")
             THEN {"AWAY", "PARTIAL", "FULL", "THROUGH", "BEYOND"} ELSE {"AWAY"}]

StepSetups ==
    /\ pc = "step"
    /\ \E facts \in Facts :
        \E own \in {f \in [DOMAIN setups -> UNION {OwnFacts(setups[i]) : i \in DOMAIN setups}] :
                        \A i \in DOMAIN setups : f[i] \in OwnFacts(setups[i])} :
            setups' = [i \in DOMAIN setups |->
                         IF setups[i].status = "OPEN" THEN Stepped(setups[i], facts, own[i])
                         ELSE setups[i]]
    /\ ReportOr("boundary")
    /\ UNCHANGED <<requested, now, at, h4>>

\* The as-of instant has been replayed and nothing has ended.
Waits ==
    /\ pc = "boundary"
    /\ \A t \in Boundaries : t <= at
    /\ pc' = "reported"
    /\ report' = <<"WAITING",
                   IF AskedIsFounded THEN "NEXT_PREREQUISITE_ABSENT" ELSE "NO_NEW_FOUNDING_TUPLE",
                   now>>
    /\ UNCHANGED <<requested, now, at, h4, setups>>

Next ==
    \/ NextBoundary \/ CoverageMissing
    \/ Found \/ NothingFounded \/ FoundingUnknown
    \/ StepSetups \/ Waits

Spec == Init /\ [][Next]_vars

-----------------------------------------------------------------------------
(* What the replay has to get right *)

Statuses == {"OPEN", "COMPLETE", "INVALIDATED", "EXPIRED", "UNKNOWN"}
Moment == Int \cup {None}

\* The stage whose window ended, the evidence that failed, or the completion.
Reasons ==
    WindowStages \cup
    {"NONE", "UNRESOLVED_H4", "OPPOSITE_H4", "CA1_CLOSE_THROUGH", "P1_CLOSE_THROUGH",
     "L1_CONTINUITY_UNPROVEN", "TRUNCATED_E1_EVIDENCE", "E1_SELECTION_ORDER_UNPROVEN",
     "L1_CLOSE_BEFORE_SWEEP", "ABSENT_PRE_E1_B1", "DISPLACEMENT_BASELINE", "ABSENT_FIXED_Q1",
     "PRE_ELIGIBILITY_FULL_FILL", "RT1_INVALIDATION_ORDER_UNPROVEN", "Q1_CLOSE_THROUGH",
     "COMPLETION_INVALIDATION_ORDER_UNPROVEN", "FIRST_CANONICAL_COMPLETION"}

SetupType ==
    [tuple : Tuples, birth : Int, status : Statuses, reason : Reasons, boundary : Moment,
     E1 : Moment, B1 : BOOLEAN, R1 : Moment, K1 : Moment, Q1 : Moment,
     eligible : Moment, RT1 : Moment, T1 : Moment]

Reports ==
    (Statuses \cup {"NONE", "WAITING"}) \X
    (Reasons \cup {"MISSING_CONTIGUOUS", "FOUNDING", "NEXT_PREREQUISITE_ABSENT",
                  "NO_NEW_FOUNDING_TUPLE"}) \X
    Moment

\* Every variable has its type; no two setups share a founding tuple.
TypeOK ==
    /\ requested \in Requests /\ now \in AsOfs
    /\ at \in FoundingStart..now
    /\ pc \in {"boundary", "found", "step", "reported"}
    /\ h4 \in {"SAME", "OPPOSITE", "UNRESOLVED"}
    /\ setups \in Seq(SetupType) /\ Len(setups) <= requested
    /\ \A i, j \in DOMAIN setups : setups[i].tuple = setups[j].tuple => i = j
    /\ report \in Reports

Causal(s) ==
    /\ Bound(s, "E1") => s.E1 - Span["M15"] >= s.birth
    /\ Bound(s, "R1") => Bound(s, "E1") /\ s.R1 - Span["M5"] >= s.E1
    /\ Bound(s, "K1") => Bound(s, "R1") /\ s.K1 >= s.R1
    /\ Bound(s, "Q1") => Bound(s, "R1") /\ s.Q1 = s.R1 + Span["M5"]
    /\ Bound(s, "RT1") => /\ Bound(s, "Q1") /\ Bound(s, "K1")
                          /\ s.RT1 - Span["M5"] >= Later(s.Q1, s.K1)
    /\ Bound(s, "T1") => Bound(s, "RT1") /\ s.T1 - Span["M1"] >= s.RT1

\* No stage is bound to a candle that had opened before the stage in front of
\* it was known, and none is skipped; the break may share the reaction's candle.
StagesAreCausal == \A i \in DOMAIN setups : Causal(setups[i])

InTime(s) ==
    /\ Bound(s, "E1") => s.E1 <= s.birth + Windows["E1"]
    /\ Bound(s, "R1") => s.R1 <= s.E1 + Windows["R1"]
    /\ Bound(s, "K1") => s.K1 <= s.R1 + Windows["K1"]
    /\ Bound(s, "RT1") => s.RT1 <= s.eligible + Windows["RT1"]
    /\ Bound(s, "T1") => s.T1 <= s.RT1 + Windows["T1"]
    /\ s.status = "EXPIRED" =>
          HasDeadline(s) /\ s.reason = Waiting(s)[1] /\ s.boundary = Deadline(s)

\* No stage is bound after its window, wherever the window ends between two
\* boundaries, and a setup that expired did so at the end of the window of the
\* stage it lacks.
WithinWindows == \A i \in DOMAIN setups : InTime(setups[i])

\* A setup does not live longer than its windows, though one stage has none.
Lifetime ==
    Windows["E1"] + Windows["R1"] + Later(Windows["K1"], Span["M5"])
        + Windows["RT1"] + Windows["T1"]

LifeIsBounded ==
    \A i \in DOMAIN setups :
        pc = "boundary" /\ setups[i].status = "OPEN" => at - setups[i].birth < Lifetime

\* A setup reported as waiting can still go on: its deadline lies beyond the
\* as-of instant.  Any other report is the outcome of the setup, or says that
\* nothing can be known.
ReportIsJustified ==
    pc = "reported" =>
        \/ report[1] = "UNKNOWN"
        \/ AskedIsFounded /\ report = Outcome(Asked) /\ Asked.boundary <= now
        \/ /\ report[1] = "WAITING"
           /\ AskedIsFounded => /\ Asked.status = "OPEN"
                                /\ HasDeadline(Asked) => now < Deadline(Asked)

\* What is bound stays bound to the same candle, and an outcome is final.
BindingsAreFixed ==
    [][\A i \in DOMAIN setups :
        /\ i \in DOMAIN setups'
        /\ \A stage \in {"E1", "R1", "K1", "Q1", "eligible", "RT1", "T1"} :
              Bound(setups[i], stage) => setups'[i][stage] = setups[i][stage]
        /\ setups[i].status # "OPEN" => setups'[i] = setups[i]]_vars
=============================================================================
