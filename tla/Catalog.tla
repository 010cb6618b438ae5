------------------------------ MODULE Catalog ------------------------------
(***************************************************************************)
(* load (akadro/src/data/venues.rs): a symbol is looked up in the venue's  *)
(* listing, which gives the specs, the dense id and the scale a backtest   *)
(* needs, and its bars are then taken from the cache directory, whose      *)
(* files carry an id and a scale too.  The listing changes between calls.  *)
(*                                                                         *)
(* The steps of the cache are BarCache's; here a file is one bar, of one   *)
(* chunk's tag: assemble refuses every chunk that reaches into the window. *)
(* `scale` stands for the pair of price and quantity scales.               *)
(***************************************************************************)
EXTENDS SequencesExt, Integers, FiniteSetsExt, Filtering

CONSTANTS
  Sources,         \* the listings a request may name
  Symbol,          \* the symbol it asks for
  Listings,        \* what the venue may list at first,
  Rows,            \*   and the rows it may list later
  BarCount,        \* the series' bars are 1..BarCount
  MaxSeriesLoads,  \* bounds on the calls
  MaxRelistings    \*   and on the changes of the listing

\* A row says what it trades, whether it is open ("unsaid" when the venue
\* leaves it out), its contract, its precision, and whether it gives a tick
\* and a lot to trade on.
RowType ==
  [symbol : STRING, base : STRING, quote : STRING, state : {"open", "halted", "unsaid"},
   dated : BOOLEAN, scale : Nat, grid : BOOLEAN]

ASSUME CatalogAssumption ==
  /\ Sources \subseteq {"mexc", "mexcFutures", "okx", "okxSwap", "binance", "binanceFutures",
                        "bybit", "bybitPerp", "kucoin"}
  /\ \A row \in Rows : row \in RowType
  /\ \A list \in Listings : list \in Seq(RowType)
  /\ BarCount \in Nat /\ MaxSeriesLoads \in Nat /\ MaxRelistings \in Nat

VARIABLES
  source,       \* the venue and market of the request
  listing,      \* what the venue lists, in its order
  archive,      \* the cached bars: [bar, instrument, scale], the tag of their
                \*   chunk, and [units, rescued]: the scale their integers are
                \*   at, and whether they came by a journal
  journal,      \* the bars of an interrupted download: [bar, units]
  loaded,       \* what the last call returned
  seriesLoads, relistings

catalogVars == <<source, listing, archive, journal, loaded, seriesLoads, relistings>>

NotLoaded == [status |-> "none", specs |-> << >>, instrument |-> 0, scale |-> 0,
              window |-> {}, files |-> {}]

CatalogInit ==
  /\ source \in Sources /\ listing \in Listings
  /\ (\E n \in DOMAIN listing : listing[n].dated) => source \in {"binanceFutures", "bybitPerp"}
  /\ archive = {} /\ journal = {}
  /\ loaded = NotLoaded
  /\ seriesLoads = 0 /\ relistings = 0

-----------------------------------------------------------------------------
(* The connectors' catalogues                                               *)

\* Coins are numbered as they first appear, a row's base before its quote.
Intern(assets, coin) == IF Contains(assets, coin) THEN assets ELSE Append(assets, coin)
InternedPrefix(rows) ==
  LET assets[n \in 0..Len(rows)] ==
        IF n = 0 THEN << >>
        ELSE Intern(Intern(assets[n - 1], rows[n].base), rows[n].quote)
  IN  assets

Interned(rows) == InternedPrefix(rows)[Len(rows)]

AssetId(assets, coin) == (CHOOSE n \in DOMAIN assets : assets[n] = coin) - 1

\* A spec has its coins' numbers; `coins`, their names, is history.
SpecOf(row, id, base, quote) ==
  [id |-> id, base |-> base, quote |-> quote, coins |-> <<row.base, row.quote>>]

\* A catalogue: the rows kept, with a spec for each.
Numbered(rows) ==
  LET assets == Interned(rows)
  IN  [rows |-> rows,
       specs |-> [n \in DOMAIN rows |-> SpecOf(rows[n], n - 1, AssetId(assets, rows[n].base),
                                               AssetId(assets, rows[n].quote))]]

\* An answer that does not parse is no catalogue.
Unparsed == Numbered(<< >>)

\* OKX and KuCoin fail on a row without a tick or a lot, Bybit and Binance
\* leave it out, and MEXC takes 1 for it.
Gridded(rows) == \A n \in DOMAIN rows : rows[n].grid

OkxCatalog(rows) ==
  LET live == Keep(rows, {row \in ToSet(rows) : row.state # "halted"})
  IN  IF Gridded(live) THEN Numbered(live) ELSE Unparsed

KucoinCatalog(rows) ==
  LET enabled == Keep(rows, {row \in ToSet(rows) : row.state # "halted"})
  IN  IF Gridded(enabled) THEN Numbered(enabled) ELSE Unparsed

BybitCatalog(rows) ==
  Numbered(Keep(rows, {row \in ToSet(rows) : row.state # "halted" /\ row.grid}))

BinanceCatalog(rows, perpetualOnly) ==
  LET Listed(row) == row.state = "open" /\ (perpetualOnly => ~row.dated) /\ row.grid
  IN  Numbered(Keep(rows, {row \in ToSet(rows) : Listed(row)}))

\* MEXC is asked for the one symbol, the others for all they list.
MexcAnswer == Keep(listing, {row \in ToSet(listing) : row.symbol = Symbol})
MexcCatalog(rows) == Numbered(Keep(rows, {row \in ToSet(rows) : row.state = "open"}))

\* Contracts have no ids until one is chosen.
MexcContracts(rows) == Numbered(Keep(rows, {row \in ToSet(rows) : row.state # "halted"}))

Catalogue ==
  CASE source \in {"okx", "okxSwap"}     -> OkxCatalog(listing)
    [] source \in {"bybit", "bybitPerp"} -> BybitCatalog(listing)
    [] source = "binance"                -> BinanceCatalog(listing, FALSE)
    [] source = "binanceFutures"         -> BinanceCatalog(listing, TRUE)
    [] source = "kucoin"                 -> KucoinCatalog(listing)
    [] source = "mexc"                   -> MexcCatalog(MexcAnswer)
    [] source = "mexcFutures"            -> MexcContracts(listing)

Resolves == \E n \in DOMAIN Catalogue.rows : Catalogue.rows[n].symbol = Symbol

IdOf(rows) == (CHOOSE n \in DOMAIN rows : rows[n].symbol = Symbol) - 1

SingleInstrument(specs, id) ==
  [specs |-> <<[specs[id + 1] EXCEPT !.id = 0]>>, instrument |-> 0]

\* MEXC's futures are looked up by symbol and given ids of their own.
ContractSpec(row) == [specs |-> <<SpecOf(row, 0, 0, 1)>>, instrument |-> 0]

Market(catalogue, id) ==
  CASE source = "mexcFutures" -> ContractSpec(catalogue.rows[id + 1])
    [] source \in {"binanceFutures", "bybitPerp"} -> SingleInstrument(catalogue.specs, id)
    [] OTHER -> [specs |-> catalogue.specs, instrument |-> id]

ResolvedIn(catalogue) ==
  LET id     == IdOf(catalogue.rows)
      market == Market(catalogue, id)
  IN  [specs |-> market.specs, instrument |-> market.instrument,
       scale |-> catalogue.rows[id + 1].scale]

Resolved == ResolvedIn(Catalogue)

-----------------------------------------------------------------------------
(* The cache of the series                                                  *)

\* write_partition: the file is tagged with the key of the load that writes it.
Filed(key, bar, units, rescued) ==
  [bar |-> bar, instrument |-> key.instrument, scale |-> key.scale,
   units |-> units, rescued |-> rescued]

BarsIn(files) == {f.bar : f \in files}

\* recover_orphans: a journal's bars are filed, unless they are already.
Recovered(key) ==
  archive \cup {Filed(key, j.bar, j.units, TRUE) :
                  j \in {j \in journal : j.bar \notin BarsIn(archive)}}

Downloaded(key, bars) == {Filed(key, b, key.scale, FALSE) : b \in bars}

\* Seeded fault: the scales of a chunk are not compared.
MistaggedId(file, key) == file.instrument # key.instrument

Mistagged(file, key) == file.instrument # key.instrument \/ file.scale # key.scale

\* The missing bars up to the first that is not missing.
FirstGap(missing) == {b \in missing : Min(missing)..b \subseteq missing}

Calls == seriesLoads < MaxSeriesLoads /\ seriesLoads' = seriesLoads + 1

\* The catalogue cannot be read, or does not have the symbol.
RefuseSeries ==
  /\ Calls /\ ~Resolves
  /\ loaded' = [NotLoaded EXCEPT !.status = "unknown"]
  /\ UNCHANGED <<source, listing, archive, journal, relistings>>

\* Journals first, then what the window still lacks, then all of it is read
\* back; what was downloaded stays filed if a chunk is refused.
LoadBars(key, window) ==
  LET found == Recovered(key)
      files == found \cup Downloaded(key, window \ BarsIn(found))
      read  == {f \in files : f.bar \in window}
  IN  /\ archive' = files
      /\ loaded' = IF \E f \in read : Mistagged(f, key)
                   THEN [NotLoaded EXCEPT !.status = "stale"]
                   ELSE [status |-> "ok", specs |-> key.specs, window |-> window,
                         instrument |-> key.instrument, scale |-> key.scale, files |-> read]

LoadSeries ==
  /\ Calls /\ Resolves
  /\ \E first, last \in 1..BarCount :
       first <= last /\ LoadBars(Resolved, first..last)
  /\ journal' = {}
  /\ UNCHANGED <<source, listing, relistings>>

\* The download of the first gap breaks off, or the process dies in it: the
\* pages it flushed are in the journal.  (Of a later gap: a load of the window
\* before it, then this.)
BreakOff(key, window) ==
  LET found   == Recovered(key)
      missing == window \ BarsIn(found)
  IN  /\ missing # {}
      /\ archive' = found
      /\ \E from, to \in FirstGap(missing) :
           journal' = {[bar |-> b, units |-> key.scale] : b \in from..to}

InterruptSeries ==
  /\ Calls /\ Resolves
  /\ \E first, last \in 1..BarCount : BreakOff(Resolved, first..last)
  /\ loaded' = NotLoaded
  /\ UNCHANGED <<source, listing, relistings>>

-----------------------------------------------------------------------------
(* The venue                                                                *)

Symbols == {listing[n].symbol : n \in DOMAIN listing}

\* A row appears anywhere, goes, or changes.
Relist ==
  /\ relistings < MaxRelistings /\ relistings' = relistings + 1
  /\ \/ \E n \in 1..Len(listing) + 1, row \in {r \in Rows : r.symbol \notin Symbols} :
          listing' = InsertAt(listing, n, row)
     \/ \E n \in DOMAIN listing : listing' = RemoveAt(listing, n)
     \/ \E n \in DOMAIN listing, row \in {r \in Rows : r.symbol \in Symbols} :
          /\ row.symbol = listing[n].symbol
          /\ listing' = ReplaceAt(listing, n, row)
  /\ UNCHANGED <<source, archive, journal, loaded, seriesLoads>>

CatalogNext == RefuseSeries \/ LoadSeries \/ InterruptSeries \/ Relist

CatalogSpec == CatalogInit /\ [][CatalogNext]_catalogVars

-----------------------------------------------------------------------------
(* Properties                                                               *)

Returned == loaded.status = "ok"

\* The specs number their instruments from 0 in order and give a coin one
\* number wherever it is traded, base or quote: the ids that an engine and a
\* portfolio index by (the connectors' from_instruments).
SpecsSound ==
  LET specs    == loaded.specs
      numbered == UNION {{<<specs[n].coins[1], specs[n].base>>,
                          <<specs[n].coins[2], specs[n].quote>>} : n \in DOMAIN specs}
  IN  /\ \A n \in DOMAIN specs : specs[n].id = n - 1
      /\ loaded.instrument + 1 \in DOMAIN specs
      /\ \A p, q \in numbered : p[1] = q[1] <=> p[2] = q[2]

\* A perpetual comes alone, so that its funding is all the venue asks for
\* (validate_perp_funding) - but for OKX's, see below.
IsPerp == source \in {"mexcFutures", "okxSwap", "binanceFutures", "bybitPerp"}
PerpAlone == IsPerp /\ source # "okxSwap" => Len(loaded.specs) = 1

\* Whatever was listed, delisted, repriced, cached or interrupted before, a
\* load that succeeds returns every bar of its window, once, in the id and
\* the units of the specs it returns with them - but for bars saved from an
\* interrupted download, which take the units of the load that saves them.
SeriesTrue ==
  Returned =>
    /\ SpecsSound /\ PerpAlone
    /\ BarsIn(loaded.files) = loaded.window
    /\ Cardinality(loaded.files) = Cardinality(loaded.window)
    /\ \A f \in loaded.files :
         f.instrument = loaded.instrument /\ (f.units = loaded.scale \/ f.rescued)

\* What the comment on the cache's metadata check promises (bars.rs): integers
\* at another scale are never returned as if they were at this one.
UnitsAgree == Returned => \A f \in loaded.files : f.units = loaded.scale
=============================================================================
