------------------------------ MODULE FeedTruth ------------------------------
(* What the reports of a feed promise: no later report rewrites what an        *)
(* earlier one could know, and what a report claims of the market is so.       *)
EXTENDS CandleFeed, MarketTruth

IssuedReports == {k \in DOMAIN log : log[k].status = "issued"}

Reads(report, tf) == report.sources[tf].approved
-------------------------------------------------------------------------------
(* Nothing is rewritten.                                                       *)

InLookback(index, report, tf, lookback) == index > Len(Reads(report, tf)) - lookback

\* A fact's subject is among what the report still speaks of.
StillTold(fact, report, tf) ==
    CASE fact.family \in Families.events ->
           report.keptBack[tf].events = 0
      [] fact.family \in Families.gaps ->
           /\ InLookback(fact.object.middle, report, tf, profile.gaps.lookback)
           /\ report.keptBack[tf].gaps = 0
      [] fact.family \in Families.displacement ->
           InLookback(fact.candle, report, tf, profile.displacement.lookback)
      [] OTHER ->
           /\ InLookback(fact.object.confirmed, report, tf, profile.blocks.lookback)
           /\ report.keptBack[tf].blocks = 0

CapabilityOf(fact) == CHOOSE c \in EventCapabilities : fact.family \in Families[c]

\* A block may be confirmed by a later move once its first one left the lookback.
SameBlock(f, g) ==
    /\ g.family = "order_block_created"
    /\ f.object.origin = g.object.origin /\ f.object.direction = g.object.direction

\* Structural ranges are redrawn as swings of one side follow each other.
Lasting(report, tf) == {f \in report.facts[tf] : f.family \notin Families.ranges}

\* Of two reports on a timeframe, the second having read at least as much.
Agree(earlier, later, tf) ==
    /\ \A f \in Lasting(earlier, tf) : StillTold(f, later, tf) => f \in later.facts[tf]
    /\ \A f \in Lasting(later, tf) :
          /\ f.available <= earlier.sources[tf].cutoff
          /\ earlier.keptBack[tf][CapabilityOf(f)] = 0
          => IF f.family \in Families.blocks
               THEN \E g \in earlier.facts[tf] : g.family \in Families.blocks /\ SameBlock(f, g)
               ELSE f \in earlier.facts[tf]

\* Whatever two reports say of one timeframe agrees on what both could know: a
\* published fact is found again, unchanged, in every report that read more and
\* still covers it, and a fact that a longer history dates before the cutoff of a
\* shorter one was told by the shorter one already (no look-ahead, no repainting).
\* And what was produced together is never refused; what was not, always is.
KnownAsPublished ==
    /\ \A a \in IssuedReports, b \in IssuedReports : \A tf \in Timeframes :
          /\ Usable(log[a].sources[tf]) /\ Usable(log[b].sources[tf])
          /\ Len(Reads(log[a], tf)) <= Len(Reads(log[b], tf))
          => Agree(log[a], log[b], tf)
    /\ \A k \in DOMAIN log :
          LET kept == {tf \in Timeframes : log[k].how[tf] = "kept"}
          IN  /\ log[k].status = "refused" => kept # {}
              /\ kept # {} /\ log[k - 1].requested # log[k].requested
                    => log[k].status = "refused"
-------------------------------------------------------------------------------
(* What is claimed is so.                                                      *)

\* A report that says a thing was seen, or that it was not there, is right about
\* the candles it read: an absence is claimed only when nothing was filtered out,
\* cut off or left unevaluated, and a condition is denied only on such an absence.
\* Of a timeframe without a usable source nothing is claimed.
ClaimsAreTrue ==
    log # << >> /\ Len(log) \in IssuedReports =>
        LET report == log[Len(log)]
        IN  \A tf \in Timeframes :
              IF Usable(report.sources[tf])
                THEN /\ HistoryIsTrue(report.claims.history[tf], Reads(report, tf), profile)
                     /\ CurrentIsTrue(report.claims.current[tf], Reads(report, tf), profile)
                     /\ \A o \in report.outcomes :
                           o[1].tf = tf => OutcomeIsTrue(o[1], o[2], Reads(report, tf), profile)
                ELSE /\ \A field \in DOMAIN Owner :
                           report.claims.current[tf][field].support = "UNKNOWN"
                     /\ \A o \in report.outcomes : o[1].tf = tf => o[2] = "UNKNOWN"
=============================================================================
