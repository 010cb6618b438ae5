------------------------------ MODULE PerpData ------------------------------
(***************************************************************************)
(* A perpetual's funding history: the connectors' loops that page through  *)
(* it, the file it is cached in, and load_perp, which refuses a perpetual  *)
(* without one.                                                            *)
(*                                                                         *)
(* A settlement is its time; its rate is whatever the venue says.  The     *)
(* venue goes on settling between two pages.  A file is written beside its *)
(* place and renamed, so a crash leaves what there was and is not          *)
(* modelled.  The bars of the same call are the module BarCache.           *)
(***************************************************************************)
EXTENDS Integers, FiniteSets, FiniteSetsExt

CONSTANTS
  Fetchers,        \* the connectors' entry points that are used, of those below
  PageSize,        \* settlements in a page of each
  Hundred,         \* the divisor of pages_for, 100 in the code
  Day,             \* ticks in a day
  DefaultPeriod,   \* eight hours
  CallerPages,     \* max_pages where the caller chooses it
  FirstSettled,    \* the venue's history may hold any of these at the start,
  LastSettling,        \*   and the clock stops here
  Windows,         \* the windows asked for
  MaxCalls,        \* bound on load_perp calls
  MaxFaults        \*   and on requests that fail

\* "okx" is fetch_funding_history of OKX, which the umbrella crate calls; the
\* paged ones of OKX and KuCoin are for a caller of load_or_cache_perp.
Loops == {"okx", "okxPaged", "mexc", "binance", "bybit", "kucoin"}

ASSUME PerpAssumption ==
  /\ Fetchers \subseteq Loops
  /\ PageSize \in [Loops -> Nat \ {0}]
  /\ {Hundred, Day, DefaultPeriod, CallerPages} \subseteq Nat \ {0}
  /\ FirstSettled \subseteq Nat
  /\ \E newest \in FirstSettled : \A t \in FirstSettled : t <= newest
  /\ {LastSettling, MaxCalls, MaxFaults} \subseteq Nat
  /\ \A w \in Windows : {w.lo, w.hi} \subseteq Nat

VARIABLES
  fetcher,   \* the connector in use
  settled,   \* the venue's settlements so far
  tick,      \* the time
  file,      \* the cached schedule, or NoFile
  job,       \* the call under way: what is asked, and the loop's locals
  calls,     \* calls made (bounds the run)
  faults     \* requests that failed (bounds the run)

perpVars == <<fetcher, settled, tick, file, job, calls, faults>>

NoFile == {-1}
NoCursor == -1

\* `opened` is history: what the venue had settled when the call was made;
\* so are `fresh`, whether the schedule comes from the venue rather than the
\* file, `ranOut`, whether the loop ended at its last page, and `hidden`,
\* whether an answer with an error in its body was read as an empty page.
NoJob ==
  [stage |-> "idle", lo |-> 0, hi |-> 0, cursor |-> NoCursor, page |-> 1, got |-> {},
   barsPerFunding |-> 0, opened |-> {}, fresh |-> FALSE, ranOut |-> FALSE, hidden |-> FALSE]

PerpInit ==
  /\ fetcher \in Fetchers
  /\ settled \in SUBSET FirstSettled
  /\ tick = Max(FirstSettled)
  /\ file = NoFile /\ job = NoJob
  /\ calls = 0 /\ faults = 0

\* The venue settles, or a tick passes without.
VenueSettles ==
  /\ tick < LastSettling
  /\ tick' = tick + 1
  /\ settled' \in {settled, settled \cup {tick'}}
  /\ UNCHANGED <<fetcher, file, job, calls, faults>>

-----------------------------------------------------------------------------
(* One page                                                                 *)

NewestOf(times, n) == {t \in times : Cardinality({u \in times : u > t}) < n}
OldestOf(times, n) == {t \in times : Cardinality({u \in times : u < t}) < n}

\* What the venues answer to the page each loop asks for: the newest settlements,
\* or the newest before a cursor; those of a page number; the newest of the window
\* up to the cursor; forward, the oldest from the cursor on.
OkxPage      == NewestOf(settled, PageSize["okx"])
OkxPagedPage == NewestOf({t \in settled : job.cursor = NoCursor \/ t < job.cursor},
                         PageSize["okxPaged"])
MexcPage     == LET n == PageSize["mexc"]
                IN  NewestOf(settled, job.page * n) \ NewestOf(settled, (job.page - 1) * n)
BybitPage    == NewestOf({t \in settled : t \in job.lo..job.cursor}, PageSize["bybit"])
KucoinPage   == NewestOf({t \in settled : t \in job.lo..job.cursor}, PageSize["kucoin"])
BinancePage  == OldestOf({t \in settled : t \in job.cursor..job.hi}, PageSize["binance"])

Page ==
  CASE fetcher = "okx"      -> OkxPage
    [] fetcher = "okxPaged" -> OkxPagedPage
    [] fetcher = "mexc"     -> MexcPage
    [] fetcher = "bybit"    -> BybitPage
    [] fetcher = "kucoin"   -> KucoinPage
    [] fetcher = "binance"  -> BinancePage

\* fetch_funding's pages_for(3), which presumes three settlements a day.
PagesFor == (((job.hi - job.lo) \div Day + 1) * 3) \div Hundred + 2

MaxPages ==
  CASE fetcher = "okx" -> 1
    [] fetcher \in {"okxPaged", "kucoin"} -> CallerPages
    [] OTHER -> PagesFor

FirstCursor(lo, hi) ==
  CASE fetcher = "binance"            -> lo
    [] fetcher \in {"bybit", "kucoin"} -> hi
    [] OTHER                          -> NoCursor

\* Seeded fault: the next page begins one settlement time too far back.
SkippingCursor(page) ==
  CASE fetcher = "binance"            -> Max(page) + 1
    [] fetcher \in {"bybit", "kucoin"} -> Min(page) - 2
    [] fetcher = "okxPaged"           -> Min(page)
    [] OTHER                          -> NoCursor

\* Where the loop turns to after a page that is not empty.
NextCursor(page) ==
  CASE fetcher = "binance"            -> Max(page) + 1
    [] fetcher \in {"bybit", "kucoin"} -> Min(page) - 1
    [] fetcher = "okxPaged"           -> Min(page)
    [] OTHER                          -> NoCursor

\* Whether there is a page after one that is not empty: a repeated one ends the
\* loop, and so does one that reaches the end of the window, or is short.
OkxPagedGoesOn(page) == job.cursor = NoCursor \/ Min(page) < job.cursor
BybitGoesOn(page)    == job.lo < Min(page) /\ NextCursor(page) < job.cursor
KucoinGoesOn(page)   == job.lo < Min(page) /\ NextCursor(page) < job.cursor
BinanceGoesOn(page)  ==
  /\ Cardinality(page) = PageSize["binance"] /\ Max(page) < job.hi
  /\ job.cursor < NextCursor(page)

GoesOn(page) ==
  /\ page # {}
  /\ CASE fetcher = "okx"      -> FALSE
       [] fetcher = "okxPaged" -> OkxPagedGoesOn(page)
       [] fetcher = "mexc"     -> TRUE
       [] fetcher = "bybit"    -> BybitGoesOn(page)
       [] fetcher = "kucoin"   -> KucoinGoesOn(page)
       [] fetcher = "binance"  -> BinanceGoesOn(page)

\* The three that are given a window keep to it.
Clipped(times) ==
  IF fetcher \in {"binance", "bybit", "kucoin"}
  THEN {t \in times : t \in job.lo..job.hi} ELSE times

\* The next page joins the others, or the loop is over: sorted and without
\* repetition, which a set is.
TakePage(page, isHidden) ==
  LET got == job.got \cup page
      last == ~GoesOn(page) \/ job.page = MaxPages
  IN  job' = IF last
             THEN [job EXCEPT !.stage = "fetched", !.got = Clipped(got),
                              !.ranOut = GoesOn(page), !.hidden = isHidden]
             ELSE [job EXCEPT !.got = got, !.page = @ + 1, !.cursor = NextCursor(page)]

FetchPage ==
  /\ job.stage = "paging"
  /\ TakePage(Page, FALSE)
  /\ UNCHANGED <<fetcher, settled, tick, file, calls, faults>>

\* An error in the body of a successful answer: the list it lacks defaults to
\* empty.  Binance's parser fails on it, MEXC's on `success`.
ReadErrorAsEmpty ==
  /\ job.stage = "paging" /\ faults < MaxFaults
  /\ fetcher \in {"okx", "okxPaged", "bybit", "kucoin"}
  /\ TakePage({}, TRUE)
  /\ faults' = faults + 1
  /\ UNCHANGED <<fetcher, settled, tick, file, calls>>

\* A transport error, a status that is not a success or a body that does not
\* parse fails the call; the pages there were are dropped.
FetchFails ==
  /\ job.stage = "paging" /\ faults < MaxFaults
  /\ job' = [NoJob EXCEPT !.stage = "failed"]
  /\ faults' = faults + 1
  /\ UNCHANGED <<fetcher, settled, tick, file, calls>>

-----------------------------------------------------------------------------
(* load_perp, and load_or_cache_funding under it                            *)

\* The bars are loaded first; without them there is no call for funding.
CallLoadPerp ==
  /\ job.stage \in {"idle", "failed", "unfunded", "ready"}
  /\ calls < MaxCalls
  /\ \E w \in Windows, hasBars \in BOOLEAN :
       job' = IF hasBars
              THEN [NoJob EXCEPT !.stage = "funding", !.lo = w.lo, !.hi = w.hi,
                                 !.opened = settled]
              ELSE [NoJob EXCEPT !.stage = "failed"]
  /\ calls' = calls + 1
  /\ UNCHANGED <<fetcher, settled, tick, file, faults>>

\* A file that exists is the answer, whatever window it was fetched for.
ReadFile ==
  /\ job.stage = "funding" /\ file # NoFile
  /\ job' = [job EXCEPT !.stage = "read", !.got = file]
  /\ UNCHANGED <<fetcher, settled, tick, file, calls, faults>>

BeginFetch ==
  /\ job.stage = "funding" /\ file = NoFile
  /\ job' = [job EXCEPT !.stage = "paging", !.cursor = FirstCursor(job.lo, job.hi),
                        !.fresh = TRUE]
  /\ UNCHANGED <<fetcher, settled, tick, file, calls, faults>>

\* What was fetched is stored, an empty schedule too.
WriteFile ==
  /\ job.stage = "fetched"
  /\ file' = job.got
  /\ job' = [job EXCEPT !.stage = "read"]
  /\ UNCHANGED <<fetcher, settled, tick, calls, faults>>

\* infer_funding_period_ms: the shortest time between two settlements.
Period(times) ==
  LET After(t) == {u \in times : u > t}
      gaps == {Min(After(t)) - t : t \in {s \in times : After(s) # {}}}
  IN  IF gaps = {} THEN DefaultPeriod ELSE Min(gaps)

\* A bar is a tick long.
ReturnPerp ==
  /\ job.stage = "read"
  /\ job' = IF job.got = {} THEN [job EXCEPT !.stage = "unfunded"]
            ELSE [job EXCEPT !.stage = "ready", !.barsPerFunding = Period(job.got)]
  /\ UNCHANGED <<fetcher, settled, tick, file, calls, faults>>

PerpNext ==
  \/ VenueSettles \/ CallLoadPerp \/ ReadFile \/ BeginFetch \/ FetchPage
  \/ ReadErrorAsEmpty \/ FetchFails \/ WriteFile \/ ReturnPerp

PerpSpec == PerpInit /\ [][PerpNext]_perpVars

-----------------------------------------------------------------------------
(* Properties *)

InWindow(times) == {t \in times : t \in job.lo..job.hi}

\* A schedule fetched for a call has no hole, however its pages fell and
\* whatever the venue settled meanwhile: between its first and its last
\* settlement it has all the venue had, so the rate in force and the period
\* inferred from it are the venue's.  And unless the pages ran out, or an error
\* was read as an empty one, it covers the window (the paging loops; OKX's
\* single page aside).
FundingWhole ==
  (job.stage = "ready" /\ job.fresh) =>
    /\ \A t \in job.opened : t \in Min(job.got)..Max(job.got) => t \in job.got
    /\ job.barsPerFunding = Period({t \in settled : t \in Min(job.got)..Max(job.got)})
    /\ ~(job.ranOut \/ job.hidden \/ fetcher = "okx") => InWindow(job.opened) \subseteq job.got
=============================================================================
