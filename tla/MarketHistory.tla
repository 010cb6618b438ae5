--------------------------- MODULE MarketHistory ----------------------------
(***************************************************************************)
(* What a strategy may see of the market (akadro-engine's market.rs and    *)
(* series.rs): the bars and signals observed so far, oldest first, and the *)
(* accessors of a Series, which reach only backward.  An option is << >>   *)
(* or <<value>>.                                                           *)
(***************************************************************************)
EXTENDS Integers, SequencesExt

\* Market::with_instruments: a series for each instrument, and no signal yet.
EmptyMarket(instruments) ==
  [bars |-> [i \in instruments |-> << >>], signals |-> [key \in {} |-> << >>]]

\* A bar of an instrument outside the catalogue is dropped.
ObserveBar(m, bar) ==
  IF bar.instrument \in DOMAIN m.bars
  THEN [m EXCEPT !.bars[bar.instrument] = Append(@, bar)] ELSE m

\* Signals are kept for any pair of instrument and channel.
ObserveSignal(m, instrument, channel, value) ==
  LET key == <<instrument, channel>>
      old == IF key \in DOMAIN m.signals THEN m.signals[key] ELSE << >>
  IN  [m EXCEPT !.signals = (key :> Append(old, value)) @@ @]

ClosesOf(m, instrument) ==
  [n \in DOMAIN m.bars[instrument] |-> m.bars[instrument][n].close]

SignalOf(m, instrument, channel) ==
  IF <<instrument, channel>> \in DOMAIN m.signals
  THEN m.signals[<<instrument, channel>>] ELSE << >>

Latest(series) == IF series = << >> THEN << >> ELSE <<Last(series)>>

\* The value n bars ago; ago(0) is the latest.
Ago(series, n) == IF n >= Len(series) THEN << >> ELSE <<series[Len(series) - n]>>

\* The last n values, as many as there are, newest first.
LastN(series, n) ==
  [k \in 1..(IF n < Len(series) THEN n ELSE Len(series)) |-> series[Len(series) + 1 - k]]
=============================================================================
