----------------------------- MODULE KlineFeed ------------------------------
(***************************************************************************)
(* The back-fill loops of the venue connectors: how each pages through its *)
(* candle endpoint to cover a window of open times [start, end), and what  *)
(* it makes of an answer.  Answer is the venue itself, outside the         *)
(* repository, as the loops take it to behave; the rest is theirs.         *)
(*                                                                         *)
(* A candle is [open, done]: its open time and whether its interval was    *)
(* over when it was fetched.  Prices and volumes matter to nothing here.   *)
(* A loop's state is a record [start, end, cursor, all, over].  A retried  *)
(* 429 changes none of it; a request that fails for good is the loader's   *)
(* FetchFails.                                                             *)
(***************************************************************************)
EXTENDS BarManifest

CONSTANT Limit    \* candles in a page

ASSUME LimitAssumption == Limit \in Nat \ {0, 1}

Venues == {"okx", "bybit", "kucoin", "binance", "mexc", "mexcFutures"}

\* Binance stamps a bar at the last millisecond of its interval, the others
\* at the first of the next.
Stamp(venue, candle) == candle.open + (IF venue = "binance" THEN BAR - 1 ELSE BAR)

OldestOpen(page) == Min({c.open : c \in page})
NewestOpen(page) == Max({c.open : c \in page})

Opens(candles) == {c.open : c \in candles}

\* The venue's candles at a time: of those it will ever have (their open times
\* are history), the ones that have begun.
CandlesAt(history, now) ==
  {[open |-> o, done |-> o + BAR <= now] : o \in {h \in history : h <= now}}

Newest(candles) ==
  {c \in candles : Cardinality({d \in candles : d.open > c.open}) < Limit}
Oldest(candles) ==
  {c \in candles : Cardinality({d \in candles : d.open < c.open}) < Limit}

\* What each connector's fetch_page asks for: the open times from..to, newest
\* first or oldest first.  OKX's `after` is exclusive and has no other end; MEXC's
\* futures endpoint ignores the start.
OkxAsks(f)         == [from |-> 0, to |-> f.cursor - 1, newest |-> TRUE]
BybitAsks(f)       == [from |-> f.start, to |-> f.cursor, newest |-> TRUE]
KucoinAsks(f)      == [from |-> f.start, to |-> f.cursor, newest |-> TRUE]
MexcFuturesAsks(f) == [from |-> 0, to |-> f.cursor, newest |-> TRUE]
BinanceAsks(f)     == [from |-> f.cursor, to |-> f.end, newest |-> FALSE]
MexcAsks(f)        == [from |-> f.cursor, to |-> f.end - 1, newest |-> FALSE]

Asked(venue, f) ==
  CASE venue = "okx"         -> OkxAsks(f)
    [] venue = "bybit"       -> BybitAsks(f)
    [] venue = "kucoin"      -> KucoinAsks(f)
    [] venue = "mexcFutures" -> MexcFuturesAsks(f)
    [] venue = "binance"     -> BinanceAsks(f)
    [] venue = "mexc"        -> MexcAsks(f)

\* What the endpoint answers: up to a page of those candles.  MEXC's has nothing
\* for a page's span before its first candle.
Answer(venue, candles, f) ==
  LET asked == Asked(venue, f)
      found == {c \in candles : c.open \in asked.from..asked.to}
  IN  IF venue = "mexc" /\ \A c \in candles : f.cursor + Limit * BAR <= c.open THEN {}
      ELSE IF asked.newest THEN Newest(found) ELSE Oldest(found)

\* A page joins those before it; of two candles of one time the first stays.
AddPage(all, page) == all \cup {c \in page : c.open \notin Opens(all)}

-----------------------------------------------------------------------------
(* The loops that move their cursor backward                                *)

\* What they share: a page joins the rest, and the loop is over when it
\* reaches the start of the window or the cursor would not move.
PagedBack(f, page, next) ==
  IF page = {} THEN [f EXCEPT !.over = TRUE]
  ELSE [f EXCEPT !.all = AddPage(@, page),
                 !.cursor = next,
                 !.over = OldestOpen(page) <= f.start \/ next >= f.cursor]

\* Seeded fault: the confirm column is not looked at.
OkxParsedAll(page) == page

\* parse_candles of OKX leaves out the candle still forming; the other
\* connectors return it.
OkxParsed(page) == {c \in page : c.done}

\* `after` is exclusive.
OkxPaged(f, page) == PagedBack(f, page, OldestOpen(page))

\* `end` is inclusive: strictly older than the oldest candle of the page.
BybitPaged(f, page) == PagedBack(f, page, OldestOpen(page) - 1)

\* The same in seconds.
KucoinPaged(f, page) == PagedBack(f, page, OldestOpen(page) - 1)

MexcFuturesPaged(f, page) == PagedBack(f, page, OldestOpen(page) - BAR)

-----------------------------------------------------------------------------
(* The loops that move it forward                                           *)

\* To the millisecond after the last close; an empty page ends the loop.
BinancePaged(f, page) ==
  LET close == NewestOpen(page) + BAR - 1
  IN  IF page = {} THEN [f EXCEPT !.over = TRUE]
      ELSE [f EXCEPT !.all = AddPage(@, page),
                     !.cursor = close + 1,
                     !.over = close <= f.cursor \/ close + 1 >= f.end]

\* Seeded fault: an empty page is skipped without moving the cursor.
MexcPagedStalled(f, page) ==
  LET close == NewestOpen(page) + BAR
  IN  CASE page # {} ->
             [f EXCEPT !.all = AddPage(@, page),
                       !.cursor = close,
                       !.over = close <= f.cursor \/ close >= f.end]
        [] page = {} /\ f.all = {} -> f
        [] OTHER                   -> [f EXCEPT !.over = TRUE]

\* To the last close; empty pages before the first candle are skipped.
MexcPaged(f, page) ==
  LET close == NewestOpen(page) + BAR
      past  == f.cursor + Limit * BAR
  IN  CASE page # {} ->
             [f EXCEPT !.all = AddPage(@, page),
                       !.cursor = close,
                       !.over = close <= f.cursor \/ close >= f.end]
        [] page = {} /\ f.all = {} -> [f EXCEPT !.cursor = past, !.over = past >= f.end]
        [] OTHER                   -> [f EXCEPT !.over = TRUE]

-----------------------------------------------------------------------------
(* One connector or another                                                 *)

OpenFeed(venue, start, end) ==
  [start |-> start, end |-> end, all |-> {}, over |-> FALSE,
   cursor |-> IF venue \in {"binance", "mexc"} THEN start ELSE end]

Parsed(venue, page) == IF venue = "okx" THEN OkxParsed(page) ELSE page

Paged(venue, f, page) ==
  CASE venue = "okx"         -> OkxPaged(f, page)
    [] venue = "bybit"       -> BybitPaged(f, page)
    [] venue = "kucoin"      -> KucoinPaged(f, page)
    [] venue = "mexcFutures" -> MexcFuturesPaged(f, page)
    [] venue = "binance"     -> BinancePaged(f, page)
    [] venue = "mexc"        -> MexcPaged(f, page)

\* The feed yields what the loop collected; the backward loops clip it to the
\* window of open times.
Yielded(venue, f) ==
  IF venue \in {"binance", "mexc"} THEN f.all
  ELSE {c \in f.all : f.start <= c.open /\ c.open < f.end}

\* An error reported inside a successful answer leaves the field the rows are
\* read from absent; where that defaults to empty, it reads as an empty page.
ReadsErrorAsEmpty(venue) == venue \in {"okx", "bybit", "kucoin"}
=============================================================================
