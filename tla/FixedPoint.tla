----------------------------- MODULE FixedPoint -----------------------------
(***************************************************************************)
(* The fixed-point arithmetic of akadro-core/src/fixed.rs and the          *)
(* weighted-average position arithmetic that the venue's shadow position   *)
(* and the engine's portfolio both perform.                                *)
(*                                                                         *)
(* Prices, quantities and money are raw scaled integers, as in the code.   *)
(* The code widens every product to i128 and saturates every i64 sum, so   *)
(* within the ranges a real feed produces the arithmetic is that of Int.   *)
(***************************************************************************)
EXTENDS Integers

Abs(n)  == IF n < 0 THEN -n ELSE n
Sign(n) == IF n = 0 THEN 0 ELSE IF n < 0 THEN -1 ELSE 1

Lesser(a, b)  == IF a <= b THEN a ELSE b
Greater(a, b) == IF a <= b THEN b ELSE a

\* Rust's integer division truncates toward zero; \div rounds down.
TruncDiv(n, d) == IF n >= 0 THEN n \div d ELSE -((-n) \div d)

\* Division rounded half away from zero, for a positive divisor.
RoundDiv(n, d) ==
  IF n >= 0 THEN (n + d \div 2) \div d ELSE -((-n + d \div 2) \div d)

Notional(price, qty) == price * qty
MulBps(amount, bps)  == TruncDiv(amount * bps, 10000)

(***************************************************************************)
(* A position is a signed net quantity and the average entry price of what *)
(* is open.  A fill on the side of the position (or on a flat one) averages*)
(* its price in; one against it closes, and a fill larger than the position*)
(* flips it, the remainder opening at the fill's price.                    *)
(***************************************************************************)
Opens(net, signed) == net = 0 \/ (net > 0) = (signed > 0)

AvgAfter(net, avg, signed, price) ==
  LET size == Abs(net) + Abs(signed)
  IN  IF Opens(net, signed)
      THEN IF size = 0 THEN avg
           ELSE RoundDiv(Abs(net) * avg + Abs(signed) * price, size)
      ELSE IF net + signed = 0 THEN 0
           ELSE IF Sign(net + signed) # Sign(net) THEN price
           ELSE avg

\* Seeded fault: a fill that flips the position realizes on all of its size.
RealizedOnWholeFill(net, avg, signed, price) ==
  IF signed = 0 \/ Opens(net, signed) THEN 0 ELSE Abs(signed) * (price - avg) * Sign(net)

\* Profit realized by the part of the fill that closes the position.
RealizedBy(net, avg, signed, price) ==
  IF signed = 0 \/ Opens(net, signed) THEN 0
  ELSE Lesser(Abs(net), Abs(signed)) * (price - avg) * Sign(net)
=============================================================================
