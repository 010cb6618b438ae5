------------------------------ MODULE Umbrella ------------------------------
(***************************************************************************)
(* What a program takes from the umbrella crate around its backtests       *)
(* (akadro/src/lib.rs): market data first, or a study of what it has.      *)
(* Each call and each tool is the module that models it.                   *)
(***************************************************************************)
EXTENDS Catalog, BatchFeed, PerpData, Resample, Indicators, WalkForward, Trips, SwapSession

VARIABLES
  request,   \* the data call that is made, if any
  study      \* the tool that is at work, if any

-----------------------------------------------------------------------------
(* The data calls (akadro/src/data/venues.rs): one series, many at once, a  *)
(* perpetual with its funding, or a coarse series rolled up from a finer    *)
(* one                                                                      *)

marketVars == <<request, catalogVars, feedVars, perpVars, resampleVars>>

DataCalls == {"load", "load_many", "load_perp", "load_aggregated"}

\* The parts a call does not use begin anywhere.
MarketInit ==
  /\ request \in DataCalls \cup {"none"}
  /\ request # "load" =>
       source = (CHOOSE s \in Sources : TRUE) /\ listing = (CHOOSE l \in Listings : TRUE)
  /\ request # "load_many" => interval = CHOOSE i \in Intervals : TRUE
  /\ request # "load_perp" =>
       settled = {} /\ fetcher = CHOOSE f \in Fetchers : TRUE
  /\ request # "load_aggregated" => coarse = CHOOSE c \in CoarseWidths : TRUE
  /\ CatalogInit /\ FeedInit /\ PerpInit /\ ResampleInit

LoadOne     == request = "load" /\ CatalogNext /\ UNCHANGED <<feedVars, perpVars, resampleVars>>
LoadMany    == request = "load_many" /\ FeedNext /\ UNCHANGED <<catalogVars, perpVars, resampleVars>>
LoadPerp    == request = "load_perp" /\ PerpNext /\ UNCHANGED <<catalogVars, feedVars, resampleVars>>
LoadCoarser ==
  request = "load_aggregated" /\ ResampleNext /\ UNCHANGED <<catalogVars, feedVars, perpVars>>

MarketNext == (LoadOne \/ LoadMany \/ LoadPerp \/ LoadCoarser) /\ UNCHANGED request

-----------------------------------------------------------------------------
(* The tools around a backtest, which share no state: a strategy's          *)
(* indicators, the out-of-sample runner, the split generator, and what is   *)
(* made of a fill log.  Those not at work rest at their first arguments     *)

researchVars == <<study, indicatorVars, splitVars, cscvVars, tripVars, sessionVars>>

Studies == {"indicators", "folds", "splits", "trips", "session"}

ResearchInit ==
  /\ study \in Studies \cup {"none"}
  /\ study # "indicators" => period = CHOOSE p \in Periods : TRUE
  /\ study # "folds" =>
       plan = (CHOOSE p \in Plans : TRUE) /\ bars = (CHOOSE t \in Timelines : TRUE)
  /\ study # "splits" => grouping = CHOOSE g \in Groupings : TRUE
  /\ study # "session" => trader = CHOOSE t \in Traders : TRUE
  /\ IndicatorInit /\ FoldInit /\ SplitInit /\ TripInit /\ SessionInit

Indicate == study = "indicators" /\ Update /\ UNCHANGED <<splitVars, cscvVars, tripVars, sessionVars>>
Validate == study = "folds" /\ FoldNext /\ UNCHANGED <<indicatorVars, cscvVars, tripVars, sessionVars>>
Combine  == study = "splits" /\ NextSplit /\ UNCHANGED <<indicatorVars, splitVars, tripVars, sessionVars>>
Trade    == study = "trips" /\ Fill /\ UNCHANGED <<indicatorVars, splitVars, cscvVars, sessionVars>>
Backtest ==
  study = "session" /\ SessionNext /\ UNCHANGED <<indicatorVars, splitVars, cscvVars, tripVars>>

ResearchNext == (Indicate \/ Validate \/ Combine \/ Trade \/ Backtest) /\ UNCHANGED study

-----------------------------------------------------------------------------

umbrellaVars == <<marketVars, researchVars>>

UmbrellaInit ==
  /\ MarketInit
  /\ request # "none" => study = "none"
  /\ ResearchInit
  /\ request = "none" => study # "none"

UmbrellaNext ==
  \/ MarketNext /\ UNCHANGED researchVars
  \/ ResearchNext /\ UNCHANGED marketVars

UmbrellaSpec == UmbrellaInit /\ [][UmbrellaNext]_umbrellaVars
=============================================================================
