---------------------------- MODULE CausalSource ----------------------------
(* One timeframe's candle history as it is admitted to an evaluation:         *)
(* validation.py (prices and order) and causal_snapshot_availability.py (what *)
(* was completed by the requested instant).  Times are whole numbers; a       *)
(* candle is labelled with its opening and is complete one duration later.    *)
(* A candle that does not parse or lacks a field is left out of the model.    *)
EXTENDS Integers, Sequences, FiniteSets, FiniteSetsExt

CONSTANT Duration          \* timeframe -> the length of its candles

Completion(candle, tf) == candle.at + Duration[tf]

\* Prices are positive and the extremes enclose the body.
PossiblePrices(candle) ==
    /\ \A price \in {candle.open, candle.high, candle.low, candle.close} : price > 0
    /\ candle.high >= candle.open /\ candle.high >= candle.close
    /\ candle.low <= candle.open /\ candle.low <= candle.close

ValidHistory(candles) ==
    /\ \A i \in DOMAIN candles : PossiblePrices(candles[i])
    /\ \A i \in 2..Len(candles) : candles[i - 1].at < candles[i].at

\* A rejected source exposes neither candles nor a cutoff.
Rejected(tf, requested, availability, completion, supplied, incomplete) ==
    [tf |-> tf, requested |-> requested, availability |-> availability,
     completion |-> completion, approved |-> << >>, cutoff |-> 0,
     supplied |-> supplied, incomplete |-> incomplete]

\* What an evaluation at `requested` may see of the supplied candles: a candle
\* still forming is set aside and makes the completion INCOMPLETE, a candle that
\* opens later makes the whole history INVALID.
Snapshot(tf, candles, requested) ==
    LET future == {i \in DOMAIN candles : candles[i].at > requested}
        complete == {i \in DOMAIN candles : Completion(candles[i], tf) <= requested}
        incomplete == Cardinality((DOMAIN candles \ future) \ complete)
        approved == SubSeq(candles, 1, Max({0} \cup complete))
    IN  IF ~ValidHistory(candles) \/ future # {}
          THEN Rejected(tf, requested, "INVALID", "UNKNOWN", Len(candles), incomplete)
        ELSE IF approved = << >>
          THEN Rejected(tf, requested, "UNAVAILABLE",
                        IF incomplete > 0 THEN "INCOMPLETE" ELSE "UNKNOWN",
                        Len(candles), incomplete)
        ELSE [tf |-> tf, requested |-> requested, availability |-> "AVAILABLE",
              completion |-> IF incomplete > 0 THEN "INCOMPLETE" ELSE "COMPLETED",
              approved |-> approved,
              cutoff |-> Max({Completion(approved[i], tf) : i \in DOMAIN approved}),
              supplied |-> Len(candles), incomplete |-> incomplete]

\* What every later stage demands of a source handed to it.
ValidSource(source) ==
    IF source.availability # "AVAILABLE"
      THEN source.approved = << >> /\ source.cutoff = 0
      ELSE /\ source.approved # << >>
           /\ ValidHistory(source.approved)
           /\ source.cutoff = Max({Completion(source.approved[i], source.tf) :
                                      i \in DOMAIN source.approved})
           /\ source.cutoff <= source.requested
           /\ source.supplied = Len(source.approved) + source.incomplete
           /\ source.completion \in
                {"UNKNOWN", IF source.incomplete > 0 THEN "INCOMPLETE" ELSE "COMPLETED"}
=============================================================================
