------------------------- MODULE MCTradeManagement -------------------------
(* A risk of two ticks, five minutes, structural candles of two minutes.   *)
EXTENDS TradePaths

Shape(o, f, a) == [open |-> o, fav |-> f, adv |-> a]

\* Quiet, one and two R reached with and without coming back, the target with
\* each subset of the stops, and openings beyond a barrier.
MCShapes ==
    {Shape(1, 3, 1), Shape(1, 5, 1), Shape(1, 3, -1),
     Shape(3, 5, 3), Shape(3, 6, 1), Shape(3, 6, -2), Shape(1, 6, -1),
     Shape(-1, 1, -1), Shape(-3, 0, -4), Shape(7, 8, 5)}

MCExtremes == {-1, 1}

Everything == [baseFrom |-> 0, m5From |-> 0, m1End |-> Missing, m5End |-> Missing,
               m5Span |-> <<-4, 5>>, phase |-> 0]

MCEvidences ==
    {Everything,
     [Everything EXCEPT !.baseFrom = 2],
     [Everything EXCEPT !.m5From = 5, !.phase = 1],
     [Everything EXCEPT !.m1End = 3, !.m5End = 2],
     [Everything EXCEPT !.m5Span = <<-4, 2>>]}
=============================================================================
