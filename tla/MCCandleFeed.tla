---------------------------- MODULE MCCandleFeed ----------------------------
(* Two timeframes and prices around fourteen.  The first opening leaves two    *)
(* swing highs within the tolerance of each other and a swing low; the second  *)
(* is a falling market that ends in a gap.  The shapes surge through the highs *)
(* of the first, rest above them, plunge through everything, or only prick the *)
(* highs.                                                                      *)
EXTENDS FeedTruth

Bar(o, h, l, c) == [open |-> o, high |-> h, low |-> l, close |-> c]

Surge == Bar(16, 22, 15, 21)
Rest == Bar(20, 22, 17, 18)
Plunge == Bar(18, 19, 5, 6)
Prick == Bar(13, 18, 12, 14)

MCOpenings ==
  { << Bar(10, 12, 9, 11), Bar(11, 16, 10, 15), Bar(15, 15, 11, 12),
       Bar(12, 13, 8, 9), Bar(9, 13, 9, 13), Bar(13, 17, 12, 14),
       Bar(14, 14, 11, 12) >>,
    << Bar(16, 17, 14, 15), Bar(15, 16, 10, 11), Bar(11, 15, 11, 14),
       Bar(14, 18, 13, 17), Bar(17, 17, 13, 13), Bar(13, 14, 9, 12),
       Bar(12, 15, 12, 14), Bar(13, 14, 4, 5), Bar(6, 9, 4, 8) >> }

MCShapes == {Surge, Rest, Plunge, Prick}

Wide ==
  [liquidity |-> [lookback |-> 6, tolerance |-> 1, members |-> 2, reach |-> 0,
                  singles |-> TRUE, maximum |-> 20, touches |-> TRUE],
   gaps |-> [lookback |-> 4, reach |-> 1, minimum |-> 1, full |-> TRUE],
   displacement |-> [lookback |-> 3, baseline |-> 3, body |-> 60, expansion |-> 120,
                     bullish |-> 70, bearish |-> 30, sequence |-> 2],
   blocks |-> [lookback |-> 4, search |-> 2, blocks |-> 3, interactions |-> 3],
   ranges |-> 3]

\* Filters and limits that leave things out.
Narrow ==
  [Wide EXCEPT !.liquidity.maximum = 2, !.liquidity.touches = FALSE, !.gaps.full = FALSE,
               !.gaps.minimum = 2, !.displacement.baseline = 1, !.blocks.blocks = 1,
               !.blocks.interactions = 1, !.ranges = 1]

Contradictory == [Wide EXCEPT !.displacement.bearish = 70]

MCProfiles == {Wide, Narrow, Contradictory}

How(slow, fast) == [slow |-> slow, fast |-> fast]

MCDeliveries ==
  {How("closed", "closed"), How("forming", "forming"), How("late", "closed"),
   How("closed", "kept"), How("repeated", "closed"), How("nothing", "ahead")}

Atom(reads, tf, target, equal, expected, filters) ==
  [reads |-> reads, tf |-> tf, target |-> target, equal |-> equal, expected |-> expected,
   filters |-> filters, of |-> << >>]
Filter(field, expected) == [field |-> field, equal |-> TRUE, expected |-> expected]

OpenGap == Atom("OBJECT", "fast", "fair_value_gaps", TRUE, "",
                {Filter("side", "bullish"), Filter("current_status", "open")})
Downward == Atom("OBJECT", "fast", "displacement_events", TRUE, "", {Filter("direction", "bearish")})
Bullish == Atom("SCALAR", "fast", "structure_state", TRUE, "bullish_structure", {})
AnyBlock == Atom("OBJECT", "slow", "order_blocks", TRUE, "", {})

MCConditions ==
  {OpenGap, Downward, Bullish, AnyBlock,
   [Atom("ALL", "fast", "", TRUE, "", {}) EXCEPT !.of = <<OpenGap, Downward>>]}

MCOrder == <<"slow", "fast">>
MCDuration == [slow |-> 2, fast |-> 1]
=============================================================================
