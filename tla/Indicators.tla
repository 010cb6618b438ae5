----------------------------- MODULE Indicators -----------------------------
(***************************************************************************)
(* The streaming indicators of akadro-indicators.  Each is a state and an  *)
(* update with the next input; a reading is << >> while it warms up and    *)
(* <<value>> after.  The code's sums and products are i128 and the narrow  *)
(* results saturate, so within a feed's range the arithmetic is that of    *)
(* Int, with division that truncates.                                      *)
(***************************************************************************)
EXTENDS FixedPoint, FiniteSets, Functions, SequencesExt

CONSTANTS
  Inputs,         \* the bars fed: records of high, low and close
  Periods,        \* the periods and windows the indicators are made with
  SignalPeriod,   \* Macd's signal period; its slow one is its fast one plus 1
  BandWidth,      \* Bollinger's k
  MaxInputs       \* bound on the bars fed

ASSUME IndicatorAssumption ==
  /\ \A b \in Inputs : {b.high, b.low, b.close} \subseteq Int /\ b.low <= b.high
  /\ Periods \subseteq Nat \ {0}
  /\ {SignalPeriod, BandWidth} \subseteq Nat \ {0}
  /\ MaxInputs \in Nat

NoReading == << >>

Sum(s) == SumFunctionOnSet(s, DOMAIN s)

-----------------------------------------------------------------------------
(* Sma and Bollinger: a window of inputs and its sum                        *)

NewWindow == [buf |-> << >>, sum |-> 0]

Slide(w, input, window) ==
  LET buf == Append(w.buf, input)
  IN  IF Len(buf) > window
      THEN [buf |-> Tail(buf), sum |-> w.sum + input - Head(buf)]
      ELSE [buf |-> buf, sum |-> w.sum + input]

SmaReading(w, window) ==
  IF Len(w.buf) = window THEN <<TruncDiv(w.sum, window)>> ELSE NoReading

\* isqrt.
Root(n) == CHOOSE r \in 0..n : r * r <= n /\ n < (r + 1) * (r + 1)

BollingerReading(w, window) ==
  LET mid      == TruncDiv(w.sum, window)
      variance == Sum([n \in DOMAIN w.buf |-> (w.buf[n] - mid) * (w.buf[n] - mid)]) \div window
      spread   == BandWidth * Root(variance)
  IN  IF Len(w.buf) < window THEN NoReading
      ELSE <<[mid |-> mid, upper |-> mid + spread, lower |-> mid - spread]>>

-----------------------------------------------------------------------------
(* Ema and Macd                                                             *)

NewEma == [seedSum |-> 0, count |-> 0, reading |-> NoReading]

EmaUpdate(e, input, period) ==
  LET sum   == e.seedSum + input
      count == e.count + 1
      prev  == Head(e.reading)
  IN  IF e.reading = NoReading
      THEN [seedSum |-> sum, count |-> count,
            reading |-> IF count = period THEN <<TruncDiv(sum, period)>> ELSE NoReading]
      ELSE [e EXCEPT !.reading = <<prev + TruncDiv((input - prev) * 2, period + 1)>>]

NewMacd == [fast |-> NewEma, slow |-> NewEma, signal |-> NewEma, reading |-> NoReading]

\* The signal line is fed once both averages have a reading.
MacdUpdate(m, input, period) ==
  LET fast   == EmaUpdate(m.fast, input, period)
      slow   == EmaUpdate(m.slow, input, period + 1)
      macd   == Head(fast.reading) - Head(slow.reading)
      signal == EmaUpdate(m.signal, macd, SignalPeriod)
  IN  IF fast.reading = NoReading \/ slow.reading = NoReading
      THEN [m EXCEPT !.fast = fast, !.slow = slow, !.reading = NoReading]
      ELSE [fast |-> fast, slow |-> slow, signal |-> signal,
            reading |-> IF signal.reading = NoReading THEN NoReading
                        ELSE <<[macd |-> macd, signal |-> Head(signal.reading),
                                histogram |-> macd - Head(signal.reading)]>>]

-----------------------------------------------------------------------------
(* RollingMax and RollingMin: a monotonic deque of places and values        *)

NewRolling == [count |-> 0, deque |-> << >>]

\* Seeded fault: an entry stays one update too long.
SlidOutLate(place, i, window) == place + window < i

SlidOut(place, i, window) == place + window <= i

\* What is left of a deque popped at the back, or at the front, while an entry
\* is to be dropped.
PopBack(deque, dropped) == SubSeq(deque, 1, Max({0} \cup (DOMAIN deque \ dropped)))
PopFront(deque, dropped) ==
  SubSeq(deque, Min({Len(deque) + 1} \cup (DOMAIN deque \ dropped)), Len(deque))

\* `beaten` are the entries than which the input is at least as extreme.
RollingUpdate(r, input, window, beaten) ==
  LET pushed  == Append(PopBack(r.deque, beaten), [place |-> r.count, value |-> input])
      expired == {n \in DOMAIN pushed : SlidOut(pushed[n].place, r.count, window)}
  IN  [count |-> r.count + 1, deque |-> PopFront(pushed, expired)]

RollingMaxUpdate(r, input, window) ==
  RollingUpdate(r, input, window, {n \in DOMAIN r.deque : r.deque[n].value <= input})
RollingMinUpdate(r, input, window) ==
  RollingUpdate(r, input, window, {n \in DOMAIN r.deque : r.deque[n].value >= input})

RollingReading(r, window) ==
  IF r.count >= window THEN <<Head(r.deque).value>> ELSE NoReading

-----------------------------------------------------------------------------
(* Rsi and Atr: Wilder's smoothing                                          *)

Smoothed(avg, next, period) == TruncDiv(avg * (period - 1) + next, period)

NewRsi == [prev |-> << >>, avgGain |-> 0, avgLoss |-> 0, seedGain |-> 0, seedLoss |-> 0,
           count |-> 0, seeded |-> FALSE, reading |-> NoReading]

AllGains == 10000
Balanced == 5000

Level(gain, loss) ==
  IF gain + loss = 0 THEN Balanced ELSE TruncDiv(AllGains * gain, gain + loss)

\* The first input is only a baseline; `period` differences seed the averages.
RsiUpdate(r, input, period) ==
  LET delta == input - Head(r.prev)
      gain  == IF delta >= 0 THEN delta ELSE 0
      loss  == IF delta >= 0 THEN 0 ELSE -delta
      seedGain == r.seedGain + gain
      seedLoss == r.seedLoss + loss
      Read(avgGain, avgLoss) ==
        [r EXCEPT !.prev = <<input>>, !.avgGain = avgGain, !.avgLoss = avgLoss,
                  !.seeded = TRUE, !.reading = <<Level(avgGain, avgLoss)>>]
  IN  IF r.prev = << >> THEN [r EXCEPT !.prev = <<input>>]
      ELSE IF r.seeded
      THEN Read(Smoothed(r.avgGain, gain, period), Smoothed(r.avgLoss, loss, period))
      ELSE IF r.count + 1 = period
      THEN Read(TruncDiv(seedGain, period), TruncDiv(seedLoss, period))
      ELSE [r EXCEPT !.prev = <<input>>, !.seedGain = seedGain, !.seedLoss = seedLoss,
                     !.count = @ + 1]

NewAtr == [prevClose |-> << >>, sum |-> 0, count |-> 0, reading |-> NoReading]

TrueRange(bar, prevClose) ==
  IF prevClose = << >> THEN bar.high - bar.low
  ELSE Max({bar.high - bar.low, Abs(bar.high - Head(prevClose)), Abs(bar.low - Head(prevClose))})

AtrUpdate(a, bar, period) ==
  LET range == TrueRange(bar, a.prevClose)
      sum   == a.sum + range
      count == a.count + 1
  IN  IF a.reading = NoReading
      THEN [prevClose |-> <<bar.close>>, sum |-> sum, count |-> count,
            reading |-> IF count = period THEN <<TruncDiv(sum, period)>> ELSE NoReading]
      ELSE [a EXCEPT !.prevClose = <<bar.close>>,
                     !.reading = <<Smoothed(Head(a.reading), range, period)>>]

-----------------------------------------------------------------------------
VARIABLES
  period,     \* of every indicator
  inputs,     \* history: the bars fed
  window,     \* the state of Sma and Bollinger, which are alike,
  ema, macd, highest, lowest, rsi, atr   \* and of the others

indicatorVars == <<period, inputs, window, ema, macd, highest, lowest, rsi, atr>>

IndicatorInit ==
  /\ period \in Periods
  /\ inputs = << >>
  /\ window = NewWindow /\ ema = NewEma /\ macd = NewMacd
  /\ highest = NewRolling /\ lowest = NewRolling
  /\ rsi = NewRsi /\ atr = NewAtr

\* A strategy feeds each bar to the indicators it keeps.
Update ==
  /\ Len(inputs) < MaxInputs
  /\ \E bar \in Inputs :
       /\ inputs' = Append(inputs, bar)
       /\ window' = Slide(window, bar.close, period)
       /\ ema' = EmaUpdate(ema, bar.close, period)
       /\ macd' = MacdUpdate(macd, bar.close, period)
       /\ highest' = RollingMaxUpdate(highest, bar.close, period)
       /\ lowest' = RollingMinUpdate(lowest, bar.close, period)
       /\ rsi' = RsiUpdate(rsi, bar.close, period)
       /\ atr' = AtrUpdate(atr, bar, period)
  /\ UNCHANGED period

IndicatorSpec == IndicatorInit /\ [][Update]_indicatorVars

-----------------------------------------------------------------------------
(* Properties *)

Closes == [n \in DOMAIN inputs |-> inputs[n].close]

\* The last inputs, as many as the window holds.
Recent == SubSeq(Closes, Len(Closes) - period + 1, Len(Closes))

\* A reading is there from the update that warm_up_bars names, and not before.
WarmUpsHold ==
  LET ReadsFrom(reading, bars) == (reading # NoReading) <=> (Len(inputs) >= bars)
  IN  /\ ReadsFrom(SmaReading(window, period), period)
      /\ ReadsFrom(BollingerReading(window, period), period)
      /\ ReadsFrom(ema.reading, period)
      /\ ReadsFrom(macd.reading, (period + 1) + SignalPeriod - 1)
      /\ ReadsFrom(RollingReading(highest, period), period)
      /\ ReadsFrom(RollingReading(lowest, period), period)
      /\ ReadsFrom(rsi.reading, period + 1)
      /\ ReadsFrom(atr.reading, period)

\* The window's readings are those of a scan of the last inputs.
WindowsScan ==
  Len(inputs) >= period =>
    LET mean == TruncDiv(Sum(Recent), period)
        band == Head(BollingerReading(window, period))
        deviation == Sum([n \in 1..period |-> (Recent[n] - mean) * (Recent[n] - mean)])
    IN  /\ SmaReading(window, period) = <<mean>>
        /\ RollingReading(highest, period) = <<Max(ToSet(Recent))>>
        /\ RollingReading(lowest, period) = <<Min(ToSet(Recent))>>
        /\ band.mid = mean /\ band.upper - mean = mean - band.lower
        /\ band.upper >= mean
        /\ (band.upper - mean) * (band.upper - mean) * period <= BandWidth * BandWidth * deviation

\* The recursive ones, truncation and all, stay among what they average, and an
\* Rsi sides with a series that only rises or only falls.
SmoothedStayInside ==
  LET ranges == {TrueRange(inputs[n], IF n = 1 THEN << >> ELSE <<Closes[n - 1]>>) :
                   n \in DOMAIN inputs}
      steps  == {Closes[n + 1] - Closes[n] : n \in 1..(Len(inputs) - 1)}
  IN  /\ ema.reading # NoReading =>
           Head(ema.reading) \in Min(ToSet(Closes))..Max(ToSet(Closes))
      /\ atr.reading # NoReading => Head(atr.reading) \in Min(ranges)..Max(ranges)
      /\ rsi.reading # NoReading =>
           /\ Head(rsi.reading) \in 0..AllGains
           /\ (\A s \in steps : s >= 0) => Head(rsi.reading) >= Balanced
           /\ (\A s \in steps : s <= 0) => Head(rsi.reading) <= Balanced

\* An indicator that is updated bar by bar reads what its definition gives for
\* the bars so far, and from the bar it says: warm_up_bars, the monotonic
\* deques, the running sums and the smoothing of akadro-indicators.
IndicatorsAgree == WarmUpsHold /\ WindowsScan /\ SmoothedStayInside
=============================================================================
