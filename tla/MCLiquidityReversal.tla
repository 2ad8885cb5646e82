------------------------ MODULE MCLiquidityReversal ------------------------
(* Two units of time are an M1 candle: a window may end between candles.   *)
EXTENDS LiquidityReversal

MCSpan ==
    [tf \in Timeframes |->
        CASE tf = "M1" -> 2 [] tf = "M5" -> 4 [] tf = "M15" -> 8 [] tf = "H1" -> 16 [] tf = "H4" -> 32]

\* The H4 candle in progress completes in the middle of the replay.
MCStarts ==
    [tf \in Timeframes |->
        CASE tf = "M1" -> -8 [] tf = "M5" -> -12 [] tf = "M15" -> -24 [] tf = "H1" -> -48
          [] tf = "H4" -> -108]

MCWindows ==
    [stage \in WindowStages |->
        CASE stage = "E1" -> 13 [] stage = "R1" -> 5 [] stage = "K1" -> 9 [] stage = "RT1" -> 4
          [] stage = "T1" -> 5]
=============================================================================
