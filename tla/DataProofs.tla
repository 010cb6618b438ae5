----------------------------- MODULE DataProofs -----------------------------
(***************************************************************************)
(* The umbrella crate's data calls, for any number of them.                *)
(*                                                                         *)
(* load returns the series it was asked for: SeriesTrue.  Its ids are      *)
(* sound because all coins are numbered from one table (TableSound), and   *)
(* its bars because the cache holds each once, in the units of its tag     *)
(* (FilesTrue), and every tag is compared when it is read.                 *)
(*                                                                         *)
(* load_many is paced by a limiter, whatever the series and however the    *)
(* workers interleave.  Paced alone is not inductive: that the next grant  *)
(* is far enough from the last is because nextFree already is, and that    *)
(* no worker wakes early is because the clock it read, before it waited    *)
(* for the lock, can only have been behind the clock it sleeps by.         *)
(*                                                                         *)
(* What was loaded is merged into one stream.  The tree's root beats every *)
(* slot as long as every node holds the better of the two below it         *)
(* (Settled), and set() keeps that though it recomputes one path only: a   *)
(* node off the path has no node below it that holds the slot.  The stream *)
(* is then what precedes the heads (Delivered, InOrder).                   *)
(*                                                                         *)
(* load_perp pages through a funding history while the venue goes on       *)
(* settling.  SoFar says of each connector's loop where it stands; that no *)
(* page leaves a hole behind it follows from what it asks for (BackPage,   *)
(* ForwardPage, NumberedPage).                                             *)
(***************************************************************************)
EXTENDS Catalog, BatchFeed, PerpData, OperatorProofs

-----------------------------------------------------------------------------
(* Looking a symbol up in a listing                                         *)

\* To intern a coin makes sure that it is there, and keeps what is.
LEMMA InternKeeps ==
  ASSUME NEW Coins, NEW assets \in Seq(Coins), NEW coin \in Coins
  PROVE  /\ Intern(assets, coin) \in Seq(Coins)
         /\ Elements(assets) \subseteq Elements(Intern(assets, coin))
         /\ coin \in Elements(Intern(assets, coin))
<1>1. CASE Contains(assets, coin)
  <2>1. coin \in Elements(assets)
    BY <1>1 DEF Contains, Elements
  <2>2. Intern(assets, coin) = assets
    BY <1>1 DEF Intern
  <2> QED
    BY <2>1, <2>2
<1>2. CASE ~Contains(assets, coin)
  <2>1. Elements(Append(assets, coin)) = Elements(assets) \cup {coin}
    BY AppendElements
  <2>2. Intern(assets, coin) = Append(assets, coin)
    BY <1>2 DEF Intern
  <2>3. Append(assets, coin) \in Seq(Coins)
    OBVIOUS
  <2> QED
    BY <2>1, <2>2, <2>3
<1> QED
  BY <1>1, <1>2

\* InternedPrefix solves its equation.
LEMMA InternedEquation ==
  ASSUME NEW rows \in Seq(RowType)
  PROVE  \A n \in 0..Len(rows) :
           InternedPrefix(rows)[n] =
             IF n = 0 THEN << >>
             ELSE Intern(Intern(InternedPrefix(rows)[n - 1], rows[n].base), rows[n].quote)
<1> DEFINE E(g) == [n \in 0..Len(rows) |->
                      IF n = 0 THEN << >>
                      ELSE Intern(Intern(g[n - 1], rows[n].base), rows[n].quote)]
           Lists == Seq(STRING)
           step  == [n \in 1..Len(rows) |-> [v \in Lists |->
                       Intern(Intern(v, rows[n].base), rows[n].quote)]]
<1>1. \E g : g = E(g)
  <2>1. ASSUME NEW n \in 1..Len(rows), NEW v \in Lists
        PROVE  /\ step[n][v] = Intern(Intern(v, rows[n].base), rows[n].quote)
               /\ step[n][v] \in Lists
    <3>1. rows[n].base \in STRING /\ rows[n].quote \in STRING
      <4>1. rows[n] \in RowType
        OBVIOUS
      <4> QED
        BY <4>1 DEF RowType
    <3>2. Intern(v, rows[n].base) \in Lists
      BY <3>1, InternKeeps
    <3>3. Intern(Intern(v, rows[n].base), rows[n].quote) \in Lists
      BY <3>1, <3>2, InternKeeps
    <3> QED
      BY <2>1, <3>3
  <2> HIDE DEF step
  <2> DEFINE none == << >>
             N    == Len(rows)
  <2>2. N \in Nat /\ none \in Lists
    OBVIOUS
  <2> HIDE DEF Lists, none, N
  <2>3. StaysIn(Lists, N, step)
    BY <2>1 DEF N, StaysIn
  <2>4. PICK f : Solves(f, Lists, N, none, step)
    BY <2>2, <2>3, RecursionExists
  <2> USE DEF none, N, Solves
  <2>5. ASSUME NEW n \in 0..Len(rows)
        PROVE  f[n] = IF n = 0 THEN << >>
                      ELSE Intern(Intern(f[n - 1], rows[n].base), rows[n].quote)
    <3>1. CASE n = 0
      BY <2>4, <3>1
    <3>2. CASE n # 0
      <4>1. n \in 1..Len(rows) /\ n - 1 \in 0..Len(rows)
        BY <2>2, <2>5, <3>2
      <4>2. f[n - 1] \in Lists
        BY <2>4, <4>1
      <4> QED
        BY <2>1, <2>4, <3>2, <4>1, <4>2
    <3> QED
      BY <3>1, <3>2
  <2>6. f = E(f)
    BY <2>4, <2>5
  <2> HIDE DEF E
  <2> QED
    BY <2>6
<1>2. InternedPrefix(rows) = CHOOSE g : g = E(g)
  BY DEF InternedPrefix
<1>3. InternedPrefix(rows) = E(InternedPrefix(rows))
  <2> HIDE DEF E
  <2> QED
    BY <1>1, <1>2
<1> QED
  BY <1>3

\* Every coin of a listing is interned.
LEMMA AllInterned ==
  ASSUME NEW rows \in Seq(RowType)
  PROVE  /\ Interned(rows) \in Seq(STRING)
         /\ \A n \in DOMAIN rows : {rows[n].base, rows[n].quote} \subseteq Elements(Interned(rows))
<1> DEFINE f == InternedPrefix(rows)
           Holds(j) == /\ f[j] \in Seq(STRING)
                       /\ \A n \in 1..j : {rows[n].base, rows[n].quote} \subseteq Elements(f[j])
           Fails == {j \in 0..Len(rows) : ~Holds(j)}
<1>1. Len(rows) \in Nat /\ DOMAIN rows = 1..Len(rows)
  OBVIOUS
<1>2. ASSUME Fails # {} PROVE FALSE
  <2>1. Fails \subseteq Nat
    BY <1>1
  <2>2. PICK j \in Fails : \A i \in Fails : j <= i
    BY <1>2, <2>1, LeastNat
  <2>3. j \in 0..Len(rows) /\ ~Holds(j)
    BY <2>2
  <2>4. f[j] = IF j = 0 THEN << >> ELSE Intern(Intern(f[j - 1], rows[j].base), rows[j].quote)
    BY <2>3, InternedEquation
  <2>5. CASE j = 0
    BY <2>3, <2>4, <2>5
  <2>6. CASE j # 0
    <3>1. j - 1 \in 0..Len(rows) /\ j \in 1..Len(rows) /\ j - 1 < j /\ j \in Nat
      BY <1>1, <2>3, <2>6
    <3>2. Holds(j - 1)
      <4> HIDE DEF Holds
      <4>1. j - 1 \notin Fails
        BY <2>1, <2>2, <3>1
      <4> QED
        BY <4>1, <3>1
    <3>3. rows[j].base \in STRING /\ rows[j].quote \in STRING
      <4>1. rows[j] \in RowType
        BY <3>1
      <4> QED
        BY <4>1 DEF RowType
    <3> DEFINE once == Intern(f[j - 1], rows[j].base)
    <3>4. /\ once \in Seq(STRING) /\ Elements(f[j - 1]) \subseteq Elements(once)
          /\ rows[j].base \in Elements(once)
      BY <3>2, <3>3, InternKeeps
    <3> HIDE DEF once
    <3>5. f[j] = Intern(once, rows[j].quote)
      BY <2>4, <2>6 DEF once
    <3>6. /\ f[j] \in Seq(STRING) /\ Elements(once) \subseteq Elements(f[j])
          /\ rows[j].quote \in Elements(f[j])
      BY <3>3, <3>4, <3>5, InternKeeps
    <3>7. ASSUME NEW n \in 1..j PROVE {rows[n].base, rows[n].quote} \subseteq Elements(f[j])
      <4>1. CASE n = j
        BY <3>4, <3>6, <4>1
      <4>2. CASE n # j
        <5>1. n \in 1..j - 1
          BY <3>1, <3>7, <4>2
        <5> QED
          BY <3>2, <3>4, <3>6, <5>1
      <4> QED
        BY <4>1, <4>2
    <3> QED
      BY <2>3, <3>6, <3>7
  <2> QED
    BY <2>5, <2>6
<1> HIDE DEF Holds
<1>3. Holds(Len(rows))
  BY <1>1, <1>2
<1>4. Interned(rows) = f[Len(rows)]
  BY DEF Interned
<1> QED
  BY <1>1, <1>3, <1>4 DEF Holds

\* A row names two coins.
TradedRow == {row \in RowType : row.base # row.quote}

\* What an engine and a portfolio index by: SpecsSound, of any specs.
Sound(specs, instrument) ==
  LET numbered == UNION {{<<specs[n].coins[1], specs[n].base>>,
                          <<specs[n].coins[2], specs[n].quote>>} : n \in DOMAIN specs}
  IN  /\ \A n \in DOMAIN specs : specs[n].id = n - 1
      /\ instrument + 1 \in DOMAIN specs
      /\ \A p, q \in numbered : p[1] = q[1] <=> p[2] = q[2]

\* A coin's number is its own.
LEMMA AssetIdOwn ==
  ASSUME NEW assets \in Seq(STRING), NEW a \in Elements(assets), NEW b \in Elements(assets)
  PROVE  a = b <=> AssetId(assets, a) = AssetId(assets, b)
<1> DEFINE At(coin) == CHOOSE n \in DOMAIN assets : assets[n] = coin
<1>1. \A coin \in Elements(assets) : At(coin) \in DOMAIN assets /\ assets[At(coin)] = coin
  BY DEF Elements
<1>2. \A coin \in Elements(assets) : At(coin) \in Nat /\ AssetId(assets, coin) = At(coin) - 1
  <2>1. DOMAIN assets \subseteq Nat
    OBVIOUS
  <2> QED
    BY <1>1, <2>1 DEF AssetId
<1> HIDE DEF At
<1>3. AssetId(assets, a) = AssetId(assets, b) => At(a) = At(b)
  BY <1>2
<1> QED
  BY <1>1, <1>3

\* The specs of a catalogue, row by row.
LEMMA NumberedRows ==
  ASSUME NEW rows \in Seq(TradedRow)
  PROVE  LET specs == Numbered(rows).specs
         IN  /\ Numbered(rows).rows = rows /\ DOMAIN specs = DOMAIN rows
             /\ \A n \in DOMAIN rows :
                  specs[n] = SpecOf(rows[n], n - 1, AssetId(Interned(rows), rows[n].base),
                                    AssetId(Interned(rows), rows[n].quote))
BY DEF Numbered

\* Numbers taken from one table of coins are sound.
LEMMA TableSound ==
  ASSUME NEW assets \in Seq(STRING), NEW specs, NEW instrument,
         \A n \in DOMAIN specs :
           /\ specs[n].id = n - 1
           /\ specs[n].coins[1] \in Elements(assets) /\ specs[n].coins[2] \in Elements(assets)
           /\ specs[n].base = AssetId(assets, specs[n].coins[1])
           /\ specs[n].quote = AssetId(assets, specs[n].coins[2]),
         instrument + 1 \in DOMAIN specs
  PROVE  Sound(specs, instrument)
<1> DEFINE numbered == UNION {{<<specs[n].coins[1], specs[n].base>>,
                               <<specs[n].coins[2], specs[n].quote>>} : n \in DOMAIN specs}
<1>1. ASSUME NEW p \in numbered
      PROVE  p[1] \in Elements(assets) /\ p[2] = AssetId(assets, p[1])
  <2>1. PICK n \in DOMAIN specs : p \in {<<specs[n].coins[1], specs[n].base>>,
                                         <<specs[n].coins[2], specs[n].quote>>}
    BY <1>1
  <2>2. CASE p = <<specs[n].coins[1], specs[n].base>>
    BY <2>2
  <2>3. CASE p = <<specs[n].coins[2], specs[n].quote>>
    BY <2>3
  <2> QED
    BY <2>1, <2>2, <2>3
<1> HIDE DEF numbered
<1>2. \A p, q \in numbered : p[1] = q[1] <=> p[2] = q[2]
  BY <1>1, AssetIdOwn
<1> QED
  BY <1>2 DEF Sound, numbered

\* Whatever the venue, its catalogue is made of rows of its listing.
LEMMA CatalogueOfRows ==
  ASSUME source \in Sources, listing \in Seq(TradedRow)
  PROVE  \E rows \in Seq(TradedRow) : Catalogue = Numbered(rows)
<1>1. \A rows \in Seq(TradedRow) : \A K : Keep(rows, K) \in Seq(TradedRow)
  BY KeepFacts
<1>2. << >> \in Seq(TradedRow)
  OBVIOUS
<1>3. CASE source \in {"okx", "okxSwap"}
  <2>1. Catalogue = OkxCatalog(listing)
    BY <1>3 DEF Catalogue
  <2> QED
    BY <1>1, <1>2, <2>1 DEF OkxCatalog, Unparsed
<1>4. CASE source \in {"bybit", "bybitPerp"}
  <2>1. Catalogue = BybitCatalog(listing)
    BY <1>4 DEF Catalogue
  <2> QED
    BY <1>1, <2>1 DEF BybitCatalog
<1>5. CASE source \in {"binance", "binanceFutures"}
  <2>1. PICK perpetualOnly : Catalogue = BinanceCatalog(listing, perpetualOnly)
    BY <1>5 DEF Catalogue
  <2> QED
    BY <1>1, <2>1 DEF BinanceCatalog
<1>6. CASE source = "kucoin"
  <2>1. Catalogue = KucoinCatalog(listing)
    BY <1>6 DEF Catalogue
  <2> QED
    BY <1>1, <1>2, <2>1 DEF KucoinCatalog, Unparsed
<1>7. CASE source = "mexc"
  <2>1. Catalogue = MexcCatalog(MexcAnswer)
    BY <1>7 DEF Catalogue
  <2>2. MexcAnswer \in Seq(TradedRow)
    BY <1>1 DEF MexcAnswer
  <2> QED
    BY <1>1, <2>1, <2>2 DEF MexcCatalog
<1>8. CASE source = "mexcFutures"
  <2>1. Catalogue = MexcContracts(listing)
    BY <1>8 DEF Catalogue
  <2> QED
    BY <1>1, <2>1 DEF MexcContracts
<1> QED
  BY <1>3, <1>4, <1>5, <1>6, <1>7, <1>8, CatalogAssumption

\* What a symbol resolves to is sound, and a perpetual but OKX's comes alone.
LEMMA ResolvedSound ==
  ASSUME source \in Sources, listing \in Seq(TradedRow), Resolves
  PROVE  /\ Sound(Resolved.specs, Resolved.instrument)
         /\ IsPerp /\ source # "okxSwap" => Len(Resolved.specs) = 1
<1>1. PICK rows \in Seq(TradedRow) : Catalogue = Numbered(rows)
  BY CatalogueOfRows
<1> DEFINE assets == Interned(rows)
           all    == Numbered(rows).specs
           id     == IdOf(rows)
<1>2. /\ Numbered(rows).rows = rows /\ DOMAIN all = DOMAIN rows
      /\ \A n \in DOMAIN rows :
           all[n] = SpecOf(rows[n], n - 1, AssetId(assets, rows[n].base),
                           AssetId(assets, rows[n].quote))
  BY NumberedRows
<1>3. rows \in Seq(RowType)
  BY DEF TradedRow
<1>4. /\ assets \in Seq(STRING)
      /\ \A n \in DOMAIN rows : {rows[n].base, rows[n].quote} \subseteq Elements(assets)
  BY <1>3, AllInterned
<1>5. id \in Nat /\ id + 1 \in DOMAIN rows
  <2>1. \E n \in DOMAIN rows : rows[n].symbol = Symbol
    BY <1>1, <1>2 DEF Resolves
  <2>2. (CHOOSE n \in DOMAIN rows : rows[n].symbol = Symbol) \in DOMAIN rows
    BY <2>1
  <2> QED
    BY <2>2 DEF IdOf
<1>6. /\ Resolved.specs = Market(Catalogue, id).specs
      /\ Resolved.instrument = Market(Catalogue, id).instrument
  BY <1>1, <1>2 DEF Resolved, ResolvedIn
<1> HIDE DEF assets, all, id
<1>7. /\ Catalogue.specs = all /\ Catalogue.rows = rows
  BY <1>1, <1>2 DEF all
<1>8. \A n \in DOMAIN all :
        /\ all[n].id = n - 1
        /\ all[n].coins[1] \in Elements(assets) /\ all[n].coins[2] \in Elements(assets)
        /\ all[n].base = AssetId(assets, all[n].coins[1])
        /\ all[n].quote = AssetId(assets, all[n].coins[2])
  <2>1. ASSUME NEW n \in DOMAIN rows
        PROVE  /\ all[n].id = n - 1 /\ all[n].coins = <<rows[n].base, rows[n].quote>>
               /\ all[n].base = AssetId(assets, rows[n].base)
               /\ all[n].quote = AssetId(assets, rows[n].quote)
    BY <1>2, <2>1 DEF SpecOf
  <2>2. ASSUME NEW n \in DOMAIN rows
        PROVE  all[n].coins[1] = rows[n].base /\ all[n].coins[2] = rows[n].quote
    BY <2>1, <2>2
  <2>3. DOMAIN all = DOMAIN rows
    BY <1>2 DEF all
  <2> QED
    BY <1>4, <2>1, <2>2, <2>3
<1>9. CASE source = "mexcFutures"
  <2> DEFINE row  == rows[id + 1]
             spec == SpecOf(row, 0, 0, 1)
  <2>1. Resolved.specs = <<spec>> /\ Resolved.instrument = 0
    BY <1>6, <1>7, <1>9 DEF Market, ContractSpec
  <2>2. row.base # row.quote
    BY <1>5 DEF TradedRow
  <2>3. UNION {{<<<<spec>>[n].coins[1], <<spec>>[n].base>>,
                <<<<spec>>[n].coins[2], <<spec>>[n].quote>>} : n \in DOMAIN <<spec>>}
          = {<<row.base, 0>>, <<row.quote, 1>>}
    BY DEF SpecOf
  <2>4. spec.id = 0
    BY DEF SpecOf
  <2> HIDE DEF row, spec
  <2>5. Sound(<<spec>>, 0)
    BY <2>2, <2>3, <2>4 DEF Sound
  <2> QED
    BY <2>1, <2>5
<1>10. CASE source \in {"binanceFutures", "bybitPerp"}
  <2> DEFINE spec == [all[id + 1] EXCEPT !.id = 0]
  <2>1. Resolved.specs = <<spec>> /\ Resolved.instrument = 0
    BY <1>6, <1>7, <1>10 DEF Market, SingleInstrument
  <2>2. /\ spec.id = 0 /\ spec.coins = all[id + 1].coins
        /\ spec.base = all[id + 1].base /\ spec.quote = all[id + 1].quote
    BY <1>2, <1>5 DEF SpecOf
  <2> HIDE DEF spec
  <2>3. Sound(<<spec>>, 0)
    BY <1>2, <1>4, <1>5, <1>8, <2>2, TableSound
  <2> QED
    BY <2>1, <2>3
<1>11. CASE source \notin {"mexcFutures", "binanceFutures", "bybitPerp"}
  <2>1. Resolved.specs = all /\ Resolved.instrument = id
    BY <1>6, <1>7, <1>11 DEF Market
  <2>2. Sound(all, id)
    BY <1>2, <1>4, <1>5, <1>8, TableSound
  <2> QED
    BY <1>11, <2>1, <2>2 DEF IsPerp
<1> QED
  BY <1>9, <1>10, <1>11

-----------------------------------------------------------------------------
(* The bars of a series                                                     *)

\* No bar is held twice, and one that was not saved from an interrupted
\* download is in the units that its tag says.
FilesTrue(files) ==
  /\ \A f, g \in files : f.bar = g.bar => f = g
  /\ \A f \in files : f.units = f.scale \/ f.rescued

CatalogInv ==
  /\ source \in Sources /\ listing \in Seq(TradedRow)
  /\ FilesTrue(archive)
  /\ \A i, j \in journal : i.bar = j.bar => i = j
  /\ SeriesTrue

\* The venue's listings name two different coins in each row: a market trades
\* one for another.  (A MEXC contract numbers its two coins without looking.)
TwoCoins == Rows \subseteq TradedRow /\ \A list \in Listings : list \in Seq(TradedRow)

\* Nothing is cached at first.
LEMMA CatalogStarts == TwoCoins /\ CatalogInit => CatalogInv
BY DEF TwoCoins, CatalogInit, CatalogInv, FilesTrue, SeriesTrue, Returned, NotLoaded

\* What the steps that load nothing keep.
LEMMA NothingReturned ==
  ASSUME loaded'.status # "ok"
  PROVE  SeriesTrue'
BY DEF SeriesTrue, Returned

\* A listing goes on naming two coins in each row.
LEMMA RelistKeeps ==
  ASSUME TwoCoins, CatalogInv, Relist
  PROVE  CatalogInv'
<1>1. listing \in Seq(TradedRow)
  BY DEF CatalogInv
<1>2. listing' \in Seq(TradedRow)
  <2>1. ASSUME NEW n \in 1..Len(listing) + 1, NEW row \in Rows, listing' = InsertAt(listing, n, row)
        PROVE  listing' \in Seq(TradedRow)
    <3>1. row \in TradedRow
      BY DEF TwoCoins
    <3>2. /\ SubSeq(listing, 1, n - 1) \in Seq(TradedRow) /\ <<row>> \in Seq(TradedRow)
          /\ SubSeq(listing, n, Len(listing)) \in Seq(TradedRow)
      BY <1>1, <3>1
    <3> QED
      BY <2>1, <3>2 DEF InsertAt
  <2>2. ASSUME NEW n \in DOMAIN listing, listing' = RemoveAt(listing, n)
        PROVE  listing' \in Seq(TradedRow)
    <3>1. /\ SubSeq(listing, 1, n - 1) \in Seq(TradedRow)
          /\ SubSeq(listing, n + 1, Len(listing)) \in Seq(TradedRow)
      BY <1>1
    <3> QED
      BY <2>2, <3>1 DEF RemoveAt
  <2>3. ASSUME NEW n \in DOMAIN listing, NEW row \in Rows, listing' = ReplaceAt(listing, n, row)
        PROVE  listing' \in Seq(TradedRow)
    <3>1. row \in TradedRow
      BY DEF TwoCoins
    <3>2. [listing EXCEPT ![n] = row] \in Seq(TradedRow)
      BY <1>1, <3>1
    <3> QED
      BY <2>3, <3>2 DEF ReplaceAt
  <2> QED
    BY <2>1, <2>2, <2>3 DEF Relist
<1>3. UNCHANGED <<source, archive, journal, loaded>>
  BY DEF Relist
<1>4. SeriesTrue'
  BY <1>3 DEF CatalogInv, SeriesTrue, Returned, SpecsSound, PerpAlone, IsPerp, BarsIn
<1> QED
  BY <1>2, <1>3, <1>4 DEF CatalogInv, FilesTrue

\* A journal adds each bar once, in the units it was downloaded in.
LEMMA RecoveredTrue ==
  ASSUME CatalogInv, NEW key
  PROVE  FilesTrue(Recovered(key))
<1> DEFINE new == {j \in journal : j.bar \notin BarsIn(archive)}
           Saved(j) == Filed(key, j.bar, j.units, TRUE)
<1>1. \A j : Saved(j).bar = j.bar /\ Saved(j).rescued
  BY DEF Filed
<1>2. Recovered(key) = archive \cup {Saved(j) : j \in new}
  BY DEF Recovered
<1>3. \A i, j \in new : i.bar = j.bar => i = j
  BY DEF CatalogInv
<1>4. \A f \in archive, j \in new : f.bar # j.bar
  BY DEF BarsIn
<1> HIDE DEF Saved, new
<1>5. \A f, g \in Recovered(key) : f.bar = g.bar => f = g
  BY <1>1, <1>2, <1>3, <1>4 DEF CatalogInv, FilesTrue
<1>6. \A f \in Recovered(key) : f.units = f.scale \/ f.rescued
  BY <1>1, <1>2 DEF CatalogInv, FilesTrue
<1> QED
  BY <1>5, <1>6 DEF FilesTrue

\* A download adds what is missing, in the units of its own tag.
LEMMA DownloadedTrue ==
  ASSUME NEW files, FilesTrue(files), NEW key, NEW span
  PROVE  LET all == files \cup Downloaded(key, span \ BarsIn(files))
         IN  FilesTrue(all) /\ span \subseteq BarsIn(all)
<1> DEFINE New(b) == Filed(key, b, key.scale, FALSE)
           missing == span \ BarsIn(files)
           all == files \cup Downloaded(key, missing)
<1>1. \A b : New(b).bar = b /\ New(b).units = New(b).scale
  BY DEF Filed
<1>2. all = files \cup {New(b) : b \in missing}
  BY DEF Downloaded
<1>3. \A f \in files, b \in missing : f.bar # b
  BY DEF BarsIn
<1>4. span \subseteq BarsIn(files) \cup missing
  OBVIOUS
<1> HIDE DEF New, missing, all
<1>5. \A f, g \in all : f.bar = g.bar => f = g
  BY <1>1, <1>2, <1>3 DEF FilesTrue
<1>6. \A f \in all : f.units = f.scale \/ f.rescued
  BY <1>1, <1>2 DEF FilesTrue
<1>7. span \subseteq BarsIn(all)
  BY <1>1, <1>2, <1>4 DEF BarsIn
<1> QED
  BY <1>5, <1>6, <1>7 DEF FilesTrue, all, missing

\* As many files are read as the window has bars.
LEMMA OneFileABar ==
  ASSUME NEW files, FilesTrue(files), NEW span \in SUBSET Int, IsFiniteSet(span),
         span \subseteq BarsIn(files)
  PROVE  LET taken == {f \in files : f.bar \in span}
         IN  BarsIn(taken) = span /\ Cardinality(taken) = Cardinality(span)
<1> DEFINE taken == {f \in files : f.bar \in span}
           of   == [b \in span |-> CHOOSE f \in taken : f.bar = b]
<1>1. BarsIn(taken) = span
  BY DEF BarsIn
<1>2. \A b \in span : of[b] \in taken /\ of[b].bar = b
  BY <1>1 DEF BarsIn
<1>3. \A f \in taken : f.bar \in span /\ of[f.bar] = f
  BY <1>2 DEF FilesTrue
<1>4. of \in [span -> taken]
  BY <1>2
<1> HIDE DEF taken, of
<1>5. of \in Bijection(span, taken)
  <2>1. \A a, b \in span : of[a] = of[b] => a = b
    BY <1>2
  <2>2. \A f \in taken : \E b \in span : of[b] = f
    BY <1>3
  <2>3. DOMAIN of = span
    BY <1>4
  <2> QED
    BY <1>4, <2>1, <2>2, <2>3 DEF Bijection, Injection, Surjection, IsInjective
<1>6. ExistsBijection(span, taken)
  BY <1>5 DEF ExistsBijection
<1>7. Cardinality(taken) = Cardinality(span)
  BY <1>6, FS_Bijection
<1> QED
  BY <1>1, <1>7 DEF taken

\* A load returns what it asked for, or nothing.
LEMMA LoadKeeps ==
  ASSUME CatalogInv, LoadSeries
  PROVE  CatalogInv'
<1> DEFINE key == Resolved
<1>1. PICK first \in 1..BarCount, last \in 1..BarCount : LoadBars(Resolved, first..last)
  BY DEF LoadSeries
<1>2. /\ Resolves /\ journal' = {} /\ UNCHANGED <<source, listing>>
  BY DEF LoadSeries
<1> DEFINE span == first..last
           found  == Recovered(key)
           files  == found \cup Downloaded(key, span \ BarsIn(found))
           taken  == {f \in files : f.bar \in span}
<1>3. /\ archive' = files
      /\ loaded' = IF \E f \in taken : Mistagged(f, key)
                   THEN [NotLoaded EXCEPT !.status = "stale"]
                   ELSE [status |-> "ok", specs |-> key.specs, window |-> span,
                         instrument |-> key.instrument, scale |-> key.scale, files |-> taken]
  BY <1>1 DEF LoadBars
<1>4. /\ Sound(key.specs, key.instrument)
      /\ IsPerp /\ source # "okxSwap" => Len(key.specs) = 1
  BY <1>2, ResolvedSound DEF CatalogInv
<1> HIDE DEF key
<1>5. FilesTrue(found)
  BY RecoveredTrue
<1> HIDE DEF found
<1>6. first \in Int /\ last \in Int /\ span \in SUBSET Int /\ IsFiniteSet(span)
  BY FS_Interval, CatalogAssumption
<1> HIDE DEF span
<1>7. FilesTrue(files) /\ span \subseteq BarsIn(files)
  BY <1>5, DownloadedTrue
<1> HIDE DEF files
<1>8. BarsIn(taken) = span /\ Cardinality(taken) = Cardinality(span)
  BY <1>6, <1>7, OneFileABar
<1>9. SeriesTrue'
  <2>1. CASE \E f \in taken : Mistagged(f, key)
    <3>1. loaded'.status # "ok"
      BY <1>3, <2>1 DEF NotLoaded
    <3> QED
      BY <3>1, NothingReturned
  <2>2. CASE ~\E f \in taken : Mistagged(f, key)
    <3>1. /\ loaded'.specs = key.specs /\ loaded'.window = span /\ loaded'.files = taken
          /\ loaded'.instrument = key.instrument /\ loaded'.scale = key.scale
      BY <1>3, <2>2
    <3>2. \A f \in taken : /\ f.instrument = key.instrument
                           /\ f.units = key.scale \/ f.rescued
      BY <1>7, <2>2 DEF Mistagged, FilesTrue
    <3>3. SpecsSound'
      BY <1>4, <3>1 DEF SpecsSound, Sound
    <3>4. PerpAlone'
      BY <1>2, <1>4, <3>1 DEF PerpAlone, IsPerp
    <3> QED
      BY <1>8, <3>1, <3>2, <3>3, <3>4 DEF SeriesTrue, BarsIn
  <2> QED
    BY <2>1, <2>2
<1>10. FilesTrue(archive)'
  BY <1>3, <1>7 DEF FilesTrue
<1> QED
  BY <1>2, <1>9, <1>10 DEF CatalogInv

\* An interrupted download leaves each bar once in its journal.
LEMMA InterruptKeeps ==
  ASSUME CatalogInv, InterruptSeries
  PROVE  CatalogInv'
<1>1. PICK first \in 1..BarCount, last \in 1..BarCount : BreakOff(Resolved, first..last)
  BY DEF InterruptSeries
<1>2. loaded' = NotLoaded /\ UNCHANGED <<source, listing>>
  BY DEF InterruptSeries
<1>3. archive' = Recovered(Resolved)
  BY <1>1 DEF BreakOff
<1>4. PICK kept, units : journal' = {[bar |-> b, units |-> units] : b \in kept}
  BY <1>1 DEF BreakOff
<1>5. FilesTrue(archive)'
  BY <1>3, RecoveredTrue DEF FilesTrue
<1>6. SeriesTrue'
  BY <1>2, NothingReturned DEF NotLoaded
<1> QED
  BY <1>2, <1>4, <1>5, <1>6 DEF CatalogInv

\* Every step keeps the cache, the listing and what was returned true.
LEMMA CatalogStep ==
  ASSUME TwoCoins, CatalogInv, [CatalogNext]_catalogVars
  PROVE  CatalogInv'
<1>1. CASE RefuseSeries
  <2>1. loaded'.status # "ok" /\ UNCHANGED <<source, listing, archive, journal>>
    BY <1>1 DEF RefuseSeries, NotLoaded
  <2> QED
    BY <2>1, NothingReturned DEF CatalogInv, FilesTrue
<1>2. CASE UNCHANGED catalogVars
  <2>1. UNCHANGED <<source, listing, archive, journal, loaded>>
    BY <1>2 DEF catalogVars
  <2> QED
    BY <2>1 DEF CatalogInv, FilesTrue, SeriesTrue, Returned, SpecsSound, PerpAlone, IsPerp, BarsIn
<1> QED
  BY <1>1, <1>2, LoadKeeps, InterruptKeeps, RelistKeeps DEF CatalogNext

\* Whatever is listed, delisted, repriced, cached or interrupted, for any
\* number of bars and calls: a load that succeeds returns each bar of its
\* window once, under ids that an engine and a portfolio can index by, in the
\* units it says, but for those saved from an interrupted download.
THEOREM SeriesIsTrue ==
  ASSUME TwoCoins
  PROVE  CatalogSpec => []SeriesTrue
<1>1. CatalogInit => CatalogInv
  BY CatalogStarts
<1>2. CatalogInv /\ [CatalogNext]_catalogVars => CatalogInv'
  BY CatalogStep
<1>3. CatalogInv => SeriesTrue
  BY DEF CatalogInv
<1> QED
  BY <1>1, <1>2, <1>3, PTL DEF CatalogSpec
-----------------------------------------------------------------------------
(* The shared limiter                                                       *)

PaceTypes ==
  /\ interval \in Nat /\ nextFree \in Int /\ clock \in Nat
  /\ at \in [Workers -> {"ready", "reserving", "sleeping", "loading"}]
  /\ read \in [Workers -> Int] /\ granted \in [Workers -> Int] /\ wake \in [Workers -> Int]
  /\ schedule \in Seq(Int)

\* Grants are an interval apart, and the next will be, too.
GrantsApart ==
  /\ \A m, n \in DOMAIN schedule : m < n => schedule[m] + interval <= schedule[n]
  /\ \A m \in DOMAIN schedule : schedule[m] + interval <= nextFree

\* No worker is, or will be, let through before its grant.
NoneEarly ==
  \A w \in Workers :
    /\ at[w] = "reserving" => read[w] <= clock
    /\ at[w] = "sleeping"  => granted[w] <= wake[w]
    /\ at[w] = "loading"   => granted[w] <= clock

PaceInv == PaceTypes /\ (interval # 0 => GrantsApart /\ NoneEarly)

-----------------------------------------------------------------------------
\* Nothing has been granted at first.
LEMMA PaceInit == FeedInit => PaceInv
<1> SUFFICES ASSUME FeedInit PROVE PaceInv
  OBVIOUS
<1>1. PaceTypes
  BY BatchAssumption DEF FeedInit, BatchInit, PaceTypes
<1>2. GrantsApart
  BY DEF FeedInit, BatchInit, GrantsApart
<1>3. NoneEarly
  BY DEF FeedInit, BatchInit, NoneEarly
<1> QED
  BY <1>1, <1>2, <1>3 DEF PaceInv

\* The invariant speaks of the limiter, the clock and the workers only.
LEMMA PaceStutter ==
  ASSUME PaceInv,
         UNCHANGED <<interval, nextFree, clock, at, read, granted, wake, schedule>>
  PROVE  PaceInv'
BY DEF PaceInv, PaceTypes, GrantsApart, NoneEarly

\* A reservation: behind the last one, or at the clock as it was read.
LEMMA PaceReserve ==
  ASSUME PaceInv, NEW w \in Workers, Reserve(w)
  PROVE  PaceInv'
<1> DEFINE now   == read[w]
           grant == IF nextFree > now THEN nextFree ELSE now
<1>1. /\ at[w] = "reserving" /\ interval' = interval /\ clock' = clock /\ read' = read
      /\ nextFree' = grant + interval
      /\ granted' = [granted EXCEPT ![w] = grant]
      /\ wake' = [wake EXCEPT ![w] = clock + (grant - now)]
      /\ schedule' = Append(schedule, grant)
      /\ at' = [at EXCEPT ![w] = "sleeping"]
  BY DEF Reserve, FreeAfter
<1>2. now \in Int /\ grant \in Int /\ nextFree <= grant /\ now <= grant
      /\ interval \in Nat /\ clock \in Nat /\ nextFree \in Int
  BY DEF PaceInv, PaceTypes
<1> HIDE DEF now, grant
<1>3. PaceTypes'
  BY <1>1, <1>2 DEF PaceInv, PaceTypes
<1>4. ASSUME interval # 0 PROVE GrantsApart'
  <2>1. schedule \in Seq(Int)
    BY DEF PaceInv, PaceTypes
  <2>2. /\ DOMAIN schedule' = 1..(Len(schedule) + 1)
        /\ \A m \in DOMAIN schedule : schedule'[m] = schedule[m]
        /\ schedule'[Len(schedule) + 1] = grant
        /\ DOMAIN schedule = 1..Len(schedule) /\ Len(schedule) \in Nat
    BY <1>1, <1>2, <2>1
  <2>3. \A m \in DOMAIN schedule : schedule[m] \in Int /\ schedule[m] + interval <= grant
    BY <1>2, <1>4, <2>1 DEF PaceInv, GrantsApart
  <2>4. ASSUME NEW m \in DOMAIN schedule', NEW n \in DOMAIN schedule', m < n
        PROVE  schedule'[m] + interval' <= schedule'[n]
    <3>1. m \in DOMAIN schedule
      BY <2>2, <2>4
    <3>2. CASE n \in DOMAIN schedule
      BY <1>1, <1>4, <2>2, <2>4, <3>1, <3>2 DEF PaceInv, GrantsApart
    <3>3. CASE n = Len(schedule) + 1
      BY <1>1, <2>2, <2>3, <3>1, <3>3
    <3> QED
      BY <2>2, <2>4, <3>2, <3>3
  <2>5. ASSUME NEW m \in DOMAIN schedule' PROVE schedule'[m] + interval' <= nextFree'
    <3>1. CASE m \in DOMAIN schedule
      BY <1>1, <1>2, <2>2, <2>3, <3>1
    <3>2. CASE m = Len(schedule) + 1
      BY <1>1, <1>2, <2>2, <3>2
    <3> QED
      BY <2>2, <2>5, <3>1, <3>2
  <2> QED
    BY <2>4, <2>5 DEF GrantsApart
<1>5. ASSUME interval # 0 PROVE NoneEarly'
  <2>1. now <= clock
    BY <1>1, <1>5 DEF PaceInv, NoneEarly, now
  <2>2. ASSUME NEW v \in Workers
        PROVE  /\ at'[v] = "reserving" => read'[v] <= clock'
               /\ at'[v] = "sleeping"  => granted'[v] <= wake'[v]
               /\ at'[v] = "loading"   => granted'[v] <= clock'
    <3>1. CASE v = w
      BY <1>1, <1>2, <2>1, <3>1 DEF PaceInv, PaceTypes
    <3>2. CASE v # w
      BY <1>1, <1>5, <3>2 DEF PaceInv, PaceTypes, NoneEarly
    <3> QED
      BY <3>1, <3>2
  <2> QED
    BY <2>2 DEF NoneEarly
<1> QED
  BY <1>1, <1>3, <1>4, <1>5 DEF PaceInv

\* Every other step of a worker leaves the schedule alone.
LEMMA PaceWorker ==
  ASSUME PaceInv, NEW w \in Workers, Worker(w)
  PROVE  PaceInv'
<1>1. CASE AcquireUnpaced(w)
  BY <1>1 DEF AcquireUnpaced, PaceInv, PaceTypes
<1>2. CASE ReadClock(w)
  <2>1. PaceTypes'
    BY <1>2 DEF ReadClock, PaceInv, PaceTypes
  <2>2. interval # 0 => GrantsApart'
    BY <1>2 DEF ReadClock, PaceInv, GrantsApart
  <2>3. interval # 0 => NoneEarly'
    BY <1>2 DEF ReadClock, PaceInv, PaceTypes, NoneEarly
  <2> QED
    BY <1>2, <2>1, <2>2, <2>3 DEF ReadClock, PaceInv
<1>3. CASE Reserve(w)
  BY <1>3, PaceReserve
<1>4. CASE Wake(w)
  <2>1. PaceTypes'
    BY <1>4 DEF Wake, PaceInv, PaceTypes
  <2>2. interval # 0 => GrantsApart'
    BY <1>4 DEF Wake, PaceInv, GrantsApart
  <2>3. interval # 0 => NoneEarly'
    BY <1>4 DEF Wake, PaceInv, PaceTypes, NoneEarly
  <2> QED
    BY <1>4, <2>1, <2>2, <2>3 DEF Wake, PaceInv
<1>5. CASE Load(w)
  <2>1. PaceTypes'
    BY <1>5 DEF Load, PaceInv, PaceTypes
  <2>2. interval # 0 => GrantsApart'
    BY <1>5 DEF Load, PaceInv, GrantsApart
  <2>3. interval # 0 => NoneEarly'
    BY <1>5 DEF Load, PaceInv, PaceTypes, NoneEarly
  <2> QED
    BY <1>5, <2>1, <2>2, <2>3 DEF Load, PaceInv
<1> QED
  BY <1>1, <1>2, <1>3, <1>4, <1>5 DEF Worker

\* Time goes forward.
LEMMA PaceTick == ASSUME PaceInv, Tick PROVE PaceInv'
<1>1. PaceTypes'
  BY DEF Tick, PaceInv, PaceTypes
<1>2. interval # 0 => GrantsApart'
  BY DEF Tick, PaceInv, GrantsApart
<1>3. interval # 0 => NoneEarly'
  BY DEF Tick, PaceInv, PaceTypes, NoneEarly
<1> QED
  BY <1>1, <1>2, <1>3 DEF Tick, PaceInv

\* The merge leaves the loading alone.
LEMMA PaceStep == ASSUME PaceInv, [FeedNext]_feedVars PROVE PaceInv'
<1>1. CASE Merging
  BY <1>1, PaceStutter DEF Merging, Build, Prime, Emit, End, batchVars
<1>2. CASE BatchNext
  BY <1>2, PaceWorker, PaceTick DEF BatchNext
<1>3. CASE UNCHANGED feedVars
  BY <1>3, PaceStutter DEF feedVars, batchVars
<1> QED
  BY <1>1, <1>2, <1>3 DEF FeedNext

\* RateLimiter::acquire hands out instants an interval apart, and lets no
\* worker of load_many go on before the one it was given.
THEOREM PacingHolds == FeedSpec => []Paced
<1>1. PaceInv => Paced
  BY DEF PaceInv, GrantsApart, NoneEarly, Paced
<1> QED
  BY <1>1, PaceInit, PaceStep, PTL DEF FeedSpec

-----------------------------------------------------------------------------
(* The tournament                                                           *)

\* PowersUpTo solves its equation.
LEMMA PowersEquation ==
  ASSUME NEW n \in Nat
  PROVE  \A k \in 0..n :
           PowersUpTo(n)[k] = IF k = 0 THEN 1 ELSE 2 * PowersUpTo(n)[k - 1]
<1> DEFINE E(g)   == [k \in 0..n |-> IF k = 0 THEN 1 ELSE 2 * g[k - 1]]
           twice  == [k \in 1..n |-> [v \in Nat |-> 2 * v]]
<1>1. \E g : g = E(g)
  <2>1. StaysIn(Nat, n, twice)
    BY DEF StaysIn
  <2>2. \A k \in 1..n, v \in Nat : twice[k][v] = 2 * v
    OBVIOUS
  <2> HIDE DEF twice
  <2>3. PICK f : Solves(f, Nat, n, 1, twice)
    BY <2>1, RecursionExists
  <2>4. ASSUME NEW k \in 0..n PROVE f[k] = IF k = 0 THEN 1 ELSE 2 * f[k - 1]
    <3>1. CASE k = 0
      BY <2>3, <3>1 DEF Solves
    <3>2. CASE k # 0
      <4>1. k \in 1..n /\ k - 1 \in 0..n
        BY <2>4, <3>2
      <4> QED
        BY <2>2, <2>3, <3>2, <4>1 DEF Solves
    <3> QED
      BY <3>1, <3>2
  <2>5. f = E(f)
    BY <2>3, <2>4 DEF Solves
  <2> HIDE DEF E
  <2> QED
    BY <2>5
<1>2. PowersUpTo(n) = CHOOSE g : g = E(g)
  BY DEF PowersUpTo
<1>3. PowersUpTo(n) = E(PowersUpTo(n))
  <2> HIDE DEF E
  <2> QED
    BY <1>1, <1>2
<1> QED
  BY <1>3

\* There is room for every slot.
LEMMA PaddedEnough ==
  ASSUME NEW n \in Nat
  PROVE  PaddedSize(n) \in Nat /\ 1 <= PaddedSize(n) /\ n <= PaddedSize(n)
<1> DEFINE power      == PowersUpTo(n)
           IsAhead(k) == power[k] \in Nat /\ k + 1 <= power[k]
           Small      == {k \in 0..n : ~IsAhead(k)}
           Roomy      == {m \in {power[k] : k \in 0..n} : n <= m}
<1>1. \A k \in 0..n : power[k] = IF k = 0 THEN 1 ELSE 2 * power[k - 1]
  BY PowersEquation
<1> HIDE DEF power
<1>2. ASSUME Small # {} PROVE FALSE
  <2>1. Small \subseteq Nat
    OBVIOUS
  <2>2. PICK k \in Small : \A j \in Small : k <= j
    BY <1>2, <2>1, LeastNat
  <2>3. k \in 0..n /\ ~IsAhead(k)
    BY <2>2
  <2>4. CASE k = 0
    BY <1>1, <2>3, <2>4
  <2>5. CASE k # 0
    <3>1. k - 1 \in 0..n /\ ~(k <= k - 1)
      BY <2>3, <2>5
    <3>2. IsAhead(k - 1)
      BY <2>2, <3>1
    <3>3. power[k] = 2 * power[k - 1]
      BY <1>1, <2>3, <2>5
    <3> QED
      BY <2>3, <3>1, <3>2, <3>3
  <2> QED
    BY <2>4, <2>5
<1>3. \A k \in 0..n : IsAhead(k)
  BY <1>2
<1>4. Roomy \subseteq Nat /\ Roomy # {}
  <2>1. power[n] \in Roomy
    BY <1>3
  <2> QED
    BY <1>3, <2>1
<1>5. PICK m \in Roomy : \A j \in Roomy : m <= j
  BY <1>4, LeastNat
<1>6. PaddedSize(n) = CHOOSE x \in Roomy : \A y \in Roomy : x <= y
  BY DEF PaddedSize, Min, power
<1>7. PaddedSize(n) \in Roomy
  BY <1>5, <1>6
<1>8. \A m2 \in Roomy : m2 \in Nat /\ 1 <= m2 /\ n <= m2
  BY <1>3
<1> QED
  BY <1>7, <1>8

\* Halves may be defined so.
LEMMA HalvesExist ==
  ASSUME NEW N \in Nat
  PROVE  \E f : f = [m \in 0..N |-> IF m <= 1 THEN {} ELSE {m \div 2} \cup f[m \div 2]]
<1> DEFINE Value(g, m) == IF m <= 1 THEN {} ELSE {m \div 2} \cup g[m \div 2]
           Solved(k)   == \E g : g = [m \in 0..k |-> Value(g, m)]
           Unsolved    == {k \in 0..N : ~Solved(k)}
<1>1. ASSUME Unsolved # {} PROVE FALSE
  <2>1. Unsolved \subseteq Nat
    OBVIOUS
  <2>2. PICK k \in Unsolved : \A j \in Unsolved : k <= j
    BY <1>1, <2>1, LeastNat
  <2>3. k \in 0..N /\ ~Solved(k)
    BY <2>2
  <2>4. CASE k = 0
    <3> DEFINE g == [m \in 0..0 |-> {}]
    <3>1. g = [m \in 0..0 |-> Value(g, m)]
      OBVIOUS
    <3>2. Solved(0)
      <4> HIDE DEF g
      <4> QED
        BY <3>1
    <3> QED
      BY <2>3, <2>4, <3>2
  <2>5. CASE k # 0
    <3>1. k - 1 \in 0..N /\ ~(k <= k - 1)
      BY <2>3, <2>5
    <3>2. Solved(k - 1)
      <4> HIDE DEF Solved
      <4> QED
        BY <2>2, <3>1
    <3>3. PICK g : g = [m \in 0..k - 1 |-> Value(g, m)]
      BY <3>2
    <3>4. \A m \in 0..k - 1 : g[m] = Value(g, m)
      BY <3>3
    <3> DEFINE h == [m \in 0..k |-> IF m < k THEN g[m] ELSE Value(g, k)]
    <3>5. ASSUME NEW m \in 0..k PROVE h[m] = Value(h, m)
      <4>1. m \in 0..k - 1 \/ m = k
        BY <2>3, <3>5
      <4>2. m > 1 => m \div 2 \in 0..k - 1 /\ m \div 2 < k
        BY <2>3, <3>5
      <4>3. h[m] = Value(g, m)
        <5>1. CASE m \in 0..k - 1
          <6>1. m < k
            BY <2>3, <5>1
          <6>2. h[m] = g[m]
            BY <3>5, <6>1
          <6> QED
            BY <3>4, <5>1, <6>2
        <5>2. CASE m = k
          BY <2>3, <3>5, <5>2
        <5> QED
          BY <4>1, <5>1, <5>2
      <4>4. ASSUME m > 1 PROVE h[m \div 2] = g[m \div 2]
        <5> DEFINE half == m \div 2
        <5>1. half \in 0..k /\ half < k
          BY <2>3, <4>2, <4>4
        <5> HIDE DEF half
        <5>2. h[half] = g[half]
          BY <5>1
        <5> QED
          BY <5>2 DEF half
      <4> HIDE DEF h
      <4>5. CASE m <= 1
        BY <4>3, <4>5
      <4>6. CASE ~(m <= 1)
        <5>1. m > 1
          BY <2>3, <4>6
        <5>2. h[m \div 2] = g[m \div 2]
          BY <4>4, <5>1
        <5> QED
          BY <4>3, <4>6, <5>2
      <4> QED
        BY <4>5, <4>6
    <3>6. h = [m \in 0..k |-> Value(h, m)]
      BY <3>5
    <3>7. Solved(k)
      <4> HIDE DEF h
      <4> QED
        BY <3>6
    <3> QED
      BY <2>3, <3>7
  <2> QED
    BY <2>4, <2>5
<1> HIDE DEF Solved
<1>2. Solved(N)
  BY <1>1
<1> QED
  BY <1>2 DEF Solved

\* The way to the root holds the parent of each of its nodes but the root, and
\* of the node it starts from; it begins at that node's parent.
LEMMA HalvesClosed ==
  ASSUME NEW N \in Nat
  PROVE  /\ Halves(N) \subseteq 1..(N \div 2)
         /\ \A c \in Halves(N) \cup {N} : c >= 2 => c \div 2 \in Halves(N)
<1> DEFINE E(g)    == [m \in 0..N |-> IF m <= 1 THEN {} ELSE {m \div 2} \cup g[m \div 2]]
           halves  == CHOOSE g : g = E(g)
           Good(m) == /\ halves[m] \subseteq 1..(m \div 2)
                      /\ \A c \in halves[m] \cup {m} : c >= 2 => c \div 2 \in halves[m]
           Bad     == {m \in 0..N : ~Good(m)}
<1>1. \E g : g = E(g)
  BY HalvesExist
<1>2. halves = E(halves)
  <2> HIDE DEF E
  <2> QED
    BY <1>1
<1>3. \A m \in 0..N : halves[m] = IF m <= 1 THEN {} ELSE {m \div 2} \cup halves[m \div 2]
  BY <1>2
<1>4. Halves(N) = halves[N]
  BY DEF Halves
<1> HIDE DEF halves
<1>5. ASSUME Bad # {} PROVE FALSE
  <2>1. Bad \subseteq Nat
    OBVIOUS
  <2>2. PICK m \in Bad : \A j \in Bad : m <= j
    BY <1>5, <2>1, LeastNat
  <2>3. m \in 0..N /\ ~Good(m)
    BY <2>2
  <2>4. CASE m <= 1
    <3>1. halves[m] = {}
      BY <1>3, <2>3, <2>4
    <3>2. Good(m)
      BY <2>3, <2>4, <3>1
    <3> QED
      BY <2>3, <3>2
  <2>5. CASE m > 1
    <3>1. PICK half \in 0..N : half = m \div 2 /\ 1 <= half /\ half < m
      BY <2>3, <2>5
    <3>2. Good(half)
      <4>1. half \notin Bad
        BY <2>2, <2>3, <3>1
      <4> HIDE DEF Good
      <4> QED
        BY <3>1, <4>1
    <3>3. halves[m] = {half} \cup halves[half]
      <4>1. m \in 0..N /\ ~(m <= 1)
        BY <2>3, <2>5
      <4>2. halves[m] = IF m <= 1 THEN {} ELSE {m \div 2} \cup halves[m \div 2]
        BY <1>3, <4>1
      <4>3. halves[m] = {m \div 2} \cup halves[m \div 2]
        BY <4>1, <4>2
      <4> QED
        BY <3>1, <4>3
    <3>4. half \in Nat /\ half \div 2 \in Int /\ half \div 2 <= half
      BY <3>1
    <3>5. halves[m] \subseteq 1..(m \div 2)
      BY <3>1, <3>2, <3>3, <3>4
    <3>6. ASSUME NEW c \in halves[m] \cup {m}, c >= 2 PROVE c \div 2 \in halves[m]
      BY <3>1, <3>2, <3>3, <3>6
    <3> QED
      BY <2>3, <3>5, <3>6
  <2> QED
    BY <2>3, <2>4, <2>5
<1>6. Good(N)
  BY <1>5
<1> QED
  BY <1>4, <1>6

\* One of the two is the better, and it beats both: in time, then by its slot,
\* and an exhausted slot is beaten by all that are not.
Beats(key, a, b) ==
  \/ key[b] = Exhausted /\ (key[a] # Exhausted \/ a <= b)
  \/ key[b] # Exhausted /\ key[a] # Exhausted /\ (key[a] < key[b] \/ (key[a] = key[b] /\ a <= b))

\* Better chooses one of two slots.
LEMMA BetterIsOne == ASSUME NEW key, NEW a, NEW b PROVE Better(key, a, b) \in {a, b}
BY DEF Better

\* Better's choice beats both.
LEMMA BetterBeats ==
  ASSUME NEW last \in Int, NEW key \in [0..last -> Int], NEW a \in 0..last, NEW b \in 0..last
  PROVE  Beats(key, Better(key, a, b), a) /\ Beats(key, Better(key, a, b), b)
<1>1. key[a] \in Int /\ key[b] \in Int /\ a \in Int /\ b \in Int
  OBVIOUS
<1>2. CASE key[a] = Exhausted
  BY <1>1, <1>2 DEF Beats, Better, Exhausted
<1>3. CASE key[a] # Exhausted /\ key[b] = Exhausted
  BY <1>1, <1>3 DEF Beats, Better, Exhausted
<1>4. CASE key[a] # Exhausted /\ key[b] # Exhausted
  BY <1>1, <1>4 DEF Beats, Better, Exhausted
<1> QED
  BY <1>2, <1>3, <1>4

\* Beating is transitive.
LEMMA BeatsOn ==
  ASSUME NEW last \in Int, NEW key \in [0..last -> Int],
         NEW a \in 0..last, NEW b \in 0..last, NEW c \in 0..last,
         Beats(key, a, b), Beats(key, b, c)
  PROVE  Beats(key, a, c)
<1>1. /\ key[a] \in Int /\ key[b] \in Int /\ key[c] \in Int
      /\ a \in Int /\ b \in Int /\ c \in Int
  OBVIOUS
<1> QED
  BY <1>1 DEF Beats, Exhausted

\* A heap may be defined from its leaves up, or from any values it keeps.
HeapValue(P, kept, key, win, node) ==
  IF node \in P THEN Better(key, win[2 * node], win[2 * node + 1]) ELSE kept[node]

\* The equation of a heap.
Heaped(f, N, P, kept, key) == f = [node \in 1..N |-> HeapValue(P, kept, key, f, node)]

\* It has a solution.
LEMMA HeapExists ==
  ASSUME NEW N \in Nat, NEW P, NEW kept, NEW key,
         \A p \in P : p \in Nat /\ 1 <= p /\ 2 * p + 1 <= N
  PROVE  \E f : Heaped(f, N, P, kept, key)
<1> DEFINE Value(g, node) == HeapValue(P, kept, key, g, node)
           Solved(k)      == \E g : g = [node \in k..N |-> Value(g, node)]
           Unsolved       == {j \in 0..N : ~Solved(N + 1 - j)}
<1>1. ASSUME Unsolved # {} PROVE FALSE
  <2>1. Unsolved \subseteq Nat
    OBVIOUS
  <2>2. PICK j \in Unsolved : \A i \in Unsolved : j <= i
    BY <1>1, <2>1, LeastNat
  <2>3. j \in 0..N /\ ~Solved(N + 1 - j)
    BY <2>2
  <2>4. CASE j = 0
    <3> DEFINE g == [node \in N + 1..N |-> 0]
    <3>1. N + 1 - 0 = N + 1
      OBVIOUS
    <3>2. g = [node \in N + 1..N |-> Value(g, node)]
      OBVIOUS
    <3>3. Solved(N + 1)
      <4> HIDE DEF g, Value
      <4> QED
        BY <3>2
    <3> HIDE DEF Solved
    <3> QED
      BY <2>3, <2>4, <3>1, <3>3
  <2>5. CASE j # 0
    <3> DEFINE i == j - 1
               k == N + 1 - j
    <3>1. i \in 0..N /\ ~(j <= i) /\ N + 1 - i = k + 1 /\ k \in 1..N
      BY <2>3, <2>5
    <3> HIDE DEF i, k
    <3>2. Solved(k + 1)
      <4> HIDE DEF Solved
      <4>1. i \notin Unsolved
        BY <2>2, <3>1
      <4>2. Solved(N + 1 - i)
        BY <3>1, <4>1
      <4> QED
        BY <3>1, <4>2
    <3>3. PICK g : g = [node \in k + 1..N |-> Value(g, node)]
      <4> HIDE DEF Value
      <4> QED
        BY <3>2
    <3>4. \A node \in k + 1..N : g[node] = Value(g, node)
      <4> HIDE DEF Value
      <4> QED
        BY <3>3
    <3> DEFINE h == [node \in k..N |-> IF node = k THEN Value(g, k) ELSE g[node]]
    <3>5. ASSUME NEW node \in k..N PROVE h[node] = Value(h, node)
      <4>1. node = k \/ (node # k /\ node \in k + 1..N)
        BY <3>1, <3>5
      <4>2. h[node] = Value(g, node)
        <5> HIDE DEF Value
        <5> QED
          BY <3>4, <3>5, <4>1
      <4>3. CASE node \in P
        <5>1. 2 * node \in k + 1..N /\ 2 * node + 1 \in k + 1..N
          BY <3>1, <3>5, <4>3
        <5> DEFINE l == 2 * node
                   r == 2 * node + 1
        <5>2. l \in k..N /\ l # k /\ r \in k..N /\ r # k
          BY <3>1, <5>1
        <5> HIDE DEF l, r
        <5>3. h[l] = g[l] /\ h[r] = g[r]
          BY <5>2
        <5>4. Value(g, node) = Better(key, g[l], g[r]) /\ Value(h, node) = Better(key, h[l], h[r])
          BY <4>3 DEF l, r, HeapValue
        <5> QED
          BY <4>2, <5>3, <5>4
      <4>4. CASE node \notin P
        <5>1. Value(g, node) = kept[node] /\ Value(h, node) = kept[node]
          BY <4>4 DEF HeapValue
        <5> QED
          BY <4>2, <5>1
      <4> QED
        BY <4>3, <4>4
    <3> HIDE DEF Value
    <3>6. h = [node \in k..N |-> Value(h, node)]
      BY <3>5
    <3>7. Solved(k)
      <4> HIDE DEF h
      <4> QED
        BY <3>6
    <3> HIDE DEF Solved
    <3> QED
      BY <2>3, <3>7 DEF k
  <2> QED
    BY <2>4, <2>5
<1>2. N \in 0..N /\ N + 1 - N = 1
  OBVIOUS
<1> HIDE DEF Solved
<1>3. Solved(1)
  BY <1>1, <1>2
<1> QED
  BY <1>3 DEF Solved, Heaped

\* What every tree satisfies: a leaf points at its slot, and a node above holds
\* the better of the two below it.
Settled(tt) ==
  /\ tt.size \in Nat /\ 1 <= tt.size
  /\ tt.key \in [0..tt.size - 1 -> Int]
  /\ \A node \in 1..2 * tt.size - 1 :
       tt.win[node] = IF node >= tt.size THEN node - tt.size
                      ELSE Better(tt.key, tt.win[2 * node], tt.win[2 * node + 1])

\* A tree holds slots.
LEMMA WinIsSlot ==
  ASSUME NEW tt, Settled(tt), NEW node \in 1..2 * tt.size - 1
  PROVE  tt.win[node] \in 0..tt.size - 1
<1> DEFINE N        == 2 * tt.size - 1
           Held(n)  == tt.win[n] \in 0..tt.size - 1
           Stray    == {j \in 0..N - 1 : ~Held(N - j)}
<1>1. tt.size \in Nat /\ 1 <= tt.size /\ N \in Nat
  BY DEF Settled
<1>2. \A n \in 1..N :
        tt.win[n] = IF n >= tt.size THEN n - tt.size
                    ELSE Better(tt.key, tt.win[2 * n], tt.win[2 * n + 1])
  BY DEF Settled
<1>3. ASSUME Stray # {} PROVE FALSE
  <2>1. Stray \subseteq Nat
    BY <1>1
  <2>2. PICK j \in Stray : \A i \in Stray : j <= i
    BY <1>3, <2>1, LeastNat
  <2>3. PICK n \in 1..N : n = N - j /\ ~Held(n) /\ j \in 0..N - 1
    BY <1>1, <2>2
  <2>4. CASE n >= tt.size
    BY <1>1, <1>2, <2>3, <2>4
  <2>5. CASE ~(n >= tt.size)
    <3>1. PICK l \in 1..N, r \in 1..N : l = 2 * n /\ r = 2 * n + 1 /\ n < l /\ n < r
      BY <1>1, <2>3, <2>5
    <3>2. Held(l) /\ Held(r)
      <4>0. /\ N \in Nat /\ l \in 1..N /\ r \in 1..N /\ n \in 1..N /\ j = N - n
            /\ n < l /\ n < r
        BY <1>1, <2>3, <3>1
      <4> HIDE DEF N
      <4>1. N - l \in 0..N - 1 /\ ~(j <= N - l) /\ N - (N - l) = l
        BY <4>0
      <4>2. N - r \in 0..N - 1 /\ ~(j <= N - r) /\ N - (N - r) = r
        BY <4>0
      <4>3. N - l \notin Stray /\ N - r \notin Stray
        BY <2>2, <4>1, <4>2
      <4> HIDE DEF Held, N
      <4>4. Held(N - (N - l)) /\ Held(N - (N - r))
        BY <4>1, <4>2, <4>3
      <4> QED
        BY <4>1, <4>2, <4>4
    <3>3. tt.win[n] = Better(tt.key, tt.win[l], tt.win[r])
      BY <1>2, <2>3, <2>5, <3>1
    <3>4. tt.win[n] \in {tt.win[l], tt.win[r]}
      BY <3>3, BetterIsOne
    <3> QED
      BY <2>3, <3>2, <3>4
  <2> QED
    BY <2>4, <2>5
<1>4. N - node \in 0..N - 1 /\ N - (N - node) = node
  BY <1>1
<1> HIDE DEF Held, N
<1>5. Held(N - (N - node))
  BY <1>3, <1>4
<1> QED
  BY <1>4, <1>5 DEF Held

\* The node at the root beats every slot: what a node holds beats the slots
\* its children's winners beat, so the least node whose winner beats a slot is
\* the root.
LEMMA WinnerBeats ==
  ASSUME NEW tt, Settled(tt), NEW s \in 0..tt.size - 1
  PROVE  Winner(tt) \in 0..tt.size - 1 /\ Beats(tt.key, Winner(tt), s)
<1> DEFINE N      == 2 * tt.size - 1
           last   == tt.size - 1
           Good   == {node \in 1..N : Beats(tt.key, tt.win[node], s)}
<1>1. tt.size \in Nat /\ 1 <= tt.size /\ N \in Nat /\ last \in Int /\ tt.key \in [0..last -> Int]
  BY DEF Settled
<1>2. \A n \in 1..N :
        tt.win[n] = IF n >= tt.size THEN n - tt.size
                    ELSE Better(tt.key, tt.win[2 * n], tt.win[2 * n + 1])
  BY DEF Settled
<1>3. \A n \in 1..N : tt.win[n] \in 0..last
  BY WinIsSlot
<1>4. tt.size + s \in Good
  <2> DEFINE leaf == tt.size + s
  <2>1. leaf \in 1..N /\ leaf >= tt.size /\ leaf - tt.size = s
    BY <1>1
  <2> HIDE DEF leaf
  <2>2. tt.win[leaf] = s
    BY <1>2, <2>1
  <2>3. tt.key[s] \in Int /\ s \in Int
    BY <1>1
  <2>4. Beats(tt.key, s, s)
    BY <2>3 DEF Beats
  <2> QED
    BY <2>1, <2>2, <2>4 DEF leaf
<1>5. Good \subseteq Nat
  OBVIOUS
<1>6. PICK c \in Good : \A d \in Good : c <= d
  BY <1>4, <1>5, LeastNat
<1>7. ASSUME c # 1 PROVE FALSE
  <2>1. c \in 1..N /\ Beats(tt.key, tt.win[c], s)
    BY <1>6
  <2>2. PICK p \in 1..N : /\ p < c /\ p < tt.size
                          /\ 2 * p \in 1..N /\ 2 * p + 1 \in 1..N
                          /\ (c = 2 * p \/ c = 2 * p + 1)
    <3>1. /\ c \div 2 \in 1..N /\ c \div 2 < c /\ c \div 2 < tt.size
          /\ 2 * (c \div 2) \in 1..N /\ 2 * (c \div 2) + 1 \in 1..N
          /\ (c = 2 * (c \div 2) \/ c = 2 * (c \div 2) + 1)
      BY <1>1, <1>7, <2>1
    <3> QED
      BY <3>1
  <2>3. tt.win[p] = Better(tt.key, tt.win[2 * p], tt.win[2 * p + 1])
    BY <1>1, <1>2, <2>2
  <2>4. tt.win[2 * p] \in 0..last /\ tt.win[2 * p + 1] \in 0..last /\ tt.win[p] \in 0..last
        /\ tt.win[c] \in 0..last /\ s \in 0..last
    BY <1>3, <2>1, <2>2
  <2>5. Beats(tt.key, tt.win[p], tt.win[c])
    <3> HIDE DEF last
    <3>1. /\ Beats(tt.key, tt.win[p], tt.win[2 * p])
          /\ Beats(tt.key, tt.win[p], tt.win[2 * p + 1])
      BY <1>1, <2>3, <2>4, BetterBeats
    <3> QED
      BY <2>2, <3>1
  <2>6. Beats(tt.key, tt.win[p], s)
    <3> HIDE DEF last
    <3> QED
      BY <1>1, <2>1, <2>4, <2>5, BeatsOn
  <2>7. p \in Good /\ ~(c <= p)
    BY <2>1, <2>2, <2>6
  <2> QED
    BY <1>6, <2>7
<1>8. 1 \in Good
  BY <1>6, <1>7
<1>9. 1 \in 1..N
  BY <1>1
<1> QED
  BY <1>3, <1>8, <1>9 DEF Winner

\* Winners solves its equation.
LEMMA WinnersEquation ==
  ASSUME NEW size \in Nat, 1 <= size, NEW key
  PROVE  \A node \in 1..2 * size - 1 :
           Winners(size, key)[node] =
             IF node >= size THEN node - size
             ELSE Better(key, Winners(size, key)[2 * node], Winners(size, key)[2 * node + 1])
<1> DEFINE N     == 2 * size - 1
           E(g)  == [node \in 1..(2 * size - 1) |->
                       IF node >= size THEN node - size
                       ELSE Better(key, g[2 * node], g[2 * node + 1])]
           inner == 1..size - 1
           slot  == [node \in 1..N |-> node - size]
<1>1. \E g : g = E(g)
  <2>1. N \in Nat /\ \A p \in inner : p \in Nat /\ 1 <= p /\ 2 * p + 1 <= N
    OBVIOUS
  <2>2. PICK f : Heaped(f, N, inner, slot, key)
    <3> HIDE DEF N, inner, slot
    <3> QED
      BY <2>1, HeapExists
  <2>3. ASSUME NEW node \in 1..N
        PROVE  HeapValue(inner, slot, key, f, node) =
                 IF node >= size THEN node - size ELSE Better(key, f[2 * node], f[2 * node + 1])
    <3>1. CASE node >= size
      <4>1. node \notin inner /\ slot[node] = node - size
        BY <3>1
      <4> QED
        BY <3>1, <4>1 DEF HeapValue
    <3>2. CASE ~(node >= size)
      <4>1. node \in inner
        BY <3>2
      <4> QED
        BY <3>2, <4>1 DEF HeapValue
    <3> QED
      BY <3>1, <3>2
  <2>4. f = E(f)
    <3> HIDE DEF inner, slot
    <3> QED
      BY <2>2, <2>3 DEF Heaped
  <2> HIDE DEF E
  <2> QED
    BY <2>4
<1>2. Winners(size, key) = CHOOSE g : g = E(g)
  BY DEF Winners
<1>3. Winners(size, key) = E(Winners(size, key))
  <2> HIDE DEF E
  <2> QED
    BY <1>1, <1>2
<1> QED
  BY <1>3

\* A new tree is settled, and has the keys it is given; the rest is exhausted.
LEMMA NewTreeSettled ==
  ASSUME NEW n \in Nat, NEW keys \in [0..n - 1 -> Int]
  PROVE  /\ Settled(NewTree(keys, n)) /\ n <= NewTree(keys, n).size
         /\ \A s \in 0..NewTree(keys, n).size - 1 :
              NewTree(keys, n).key[s] = IF s < n THEN keys[s] ELSE Exhausted
<1> DEFINE size == PaddedSize(n)
           key  == [s \in 0..(size - 1) |-> IF s < n THEN keys[s] ELSE Exhausted]
<1>1. NewTree(keys, n) = [size |-> size, key |-> key, win |-> Winners(size, key)]
  BY DEF NewTree
<1>2. size \in Nat /\ 1 <= size /\ n <= size
  BY PaddedEnough
<1> HIDE DEF size
<1>3. ASSUME NEW s \in 0..size - 1 PROVE key[s] = IF s < n THEN keys[s] ELSE Exhausted
  OBVIOUS
<1>4. key \in [0..size - 1 -> Int]
  <2>1. ASSUME NEW s \in 0..size - 1 PROVE (IF s < n THEN keys[s] ELSE Exhausted) \in Int
    <3>1. CASE s < n
      <4>1. s \in 0..n - 1
        BY <1>2, <2>1, <3>1
      <4> QED
        BY <3>1, <4>1
    <3>2. CASE ~(s < n)
      BY <3>2 DEF Exhausted
    <3> QED
      BY <3>1, <3>2
  <2> QED
    BY <2>1
<1> HIDE DEF key
<1>5. \A node \in 1..2 * size - 1 :
        Winners(size, key)[node] =
          IF node >= size THEN node - size
          ELSE Better(key, Winners(size, key)[2 * node], Winners(size, key)[2 * node + 1])
  BY <1>2, WinnersEquation
<1>6. Settled(NewTree(keys, n))
  BY <1>1, <1>2, <1>4, <1>5 DEF Settled
<1> QED
  BY <1>1, <1>2, <1>3, <1>6

\* A node that holds a slot is above its leaf, or is that leaf.
LEMMA HolderIsAbove ==
  ASSUME NEW tt, Settled(tt), NEW node \in 1..2 * tt.size - 1
  PROVE  node \in Above(tt.size, tt.win[node]) \cup {tt.size + tt.win[node]}
<1> DEFINE N       == 2 * tt.size - 1
           Held(n) == n \in Halves(tt.size + tt.win[n]) \cup {tt.size + tt.win[n]}
           Stray   == {j \in 0..N - 1 : ~Held(N - j)}
<1>1. tt.size \in Nat /\ 1 <= tt.size /\ N \in Nat
  BY DEF Settled
<1>2. \A n \in 1..N :
        tt.win[n] = IF n >= tt.size THEN n - tt.size
                    ELSE Better(tt.key, tt.win[2 * n], tt.win[2 * n + 1])
  BY DEF Settled
<1>3. ASSUME Stray # {} PROVE FALSE
  <2>1. Stray \subseteq Nat
    BY <1>1
  <2>2. PICK j \in Stray : \A i \in Stray : j <= i
    BY <1>3, <2>1, LeastNat
  <2>3. PICK n \in 1..N : n = N - j /\ ~Held(n) /\ j \in 0..N - 1
    <3>1. N - j \in 1..N /\ j \in 0..N - 1
      BY <1>1, <2>2
    <3> HIDE DEF Held
    <3> QED
      BY <2>2, <3>1
  <2>4. CASE n >= tt.size
    <3>1. tt.win[n] = n - tt.size /\ tt.size + (n - tt.size) = n
      BY <1>1, <1>2, <2>3, <2>4
    <3> QED
      BY <2>3, <3>1
  <2>5. CASE ~(n >= tt.size)
    <3>1. PICK l \in 1..N, r \in 1..N :
            /\ l = 2 * n /\ r = 2 * n + 1 /\ n < l /\ n < r
            /\ l >= 2 /\ r >= 2 /\ l \div 2 = n /\ r \div 2 = n
      <4>1. 2 * n \in 1..N /\ 2 * n + 1 \in 1..N
        BY <1>1, <2>3, <2>5
      <4>2. (2 * n) \div 2 = n /\ (2 * n + 1) \div 2 = n
        BY <2>3
      <4>3. n < 2 * n /\ n < 2 * n + 1 /\ 2 * n >= 2 /\ 2 * n + 1 >= 2
        BY <2>3
      <4> QED
        BY <4>1, <4>2, <4>3
    <3>2. Held(l) /\ Held(r)
      <4>0. /\ N \in Nat /\ l \in 1..N /\ r \in 1..N /\ n \in 1..N /\ j = N - n
            /\ n < l /\ n < r
        BY <1>1, <2>3, <3>1
      <4> HIDE DEF N
      <4>1. N - l \in 0..N - 1 /\ ~(j <= N - l) /\ N - (N - l) = l
        BY <4>0
      <4>2. N - r \in 0..N - 1 /\ ~(j <= N - r) /\ N - (N - r) = r
        BY <4>0
      <4> HIDE DEF Held, N
      <4>3. N - l \notin Stray /\ N - r \notin Stray
        BY <2>2, <4>1, <4>2
      <4>4. Held(N - (N - l)) /\ Held(N - (N - r))
        BY <4>1, <4>2, <4>3
      <4> QED
        BY <4>1, <4>2, <4>4
    <3>3. tt.win[n] = Better(tt.key, tt.win[l], tt.win[r])
      BY <1>2, <2>3, <2>5, <3>1
    <3>4. PICK c \in {l, r} : tt.win[n] = tt.win[c]
      BY <3>3, BetterIsOne
    <3>5. c \in Halves(tt.size + tt.win[n]) \cup {tt.size + tt.win[n]} /\ c >= 2 /\ c \div 2 = n
      BY <3>1, <3>2, <3>4
    <3>6. tt.win[n] \in 0..tt.size - 1
      BY <2>3, WinIsSlot
    <3>7. tt.size + tt.win[n] \in Nat
      BY <1>1, <3>6
    <3>8. c \div 2 \in Halves(tt.size + tt.win[n])
      BY <3>5, <3>7, HalvesClosed
    <3> QED
      BY <2>3, <3>5, <3>8
  <2> QED
    BY <2>4, <2>5
<1>4. N - node \in 0..N - 1 /\ N - (N - node) = node
  BY <1>1
<1> HIDE DEF Held, N
<1>5. Held(N - (N - node))
  BY <1>3, <1>4
<1> QED
  BY <1>4, <1>5 DEF Held, Above

\* set() leaves a settled tree, with one key changed: a node that it does not
\* recompute is not above the slot, so neither of its children is, and neither
\* holds the slot whose key has changed.
LEMMA SetKeySettled ==
  ASSUME NEW tt, Settled(tt), NEW s \in 0..tt.size - 1, NEW k \in Int
  PROVE  /\ Settled(SetKey(tt, s, k)) /\ SetKey(tt, s, k).size = tt.size
         /\ SetKey(tt, s, k).key = [tt.key EXCEPT ![s] = k]
<1> DEFINE N    == 2 * tt.size - 1
           key  == [tt.key EXCEPT ![s] = k]
           path == Above(tt.size, s)
           E(g) == [node \in 1..(2 * tt.size - 1) |->
                      IF node \in path THEN Better(key, g[2 * node], g[2 * node + 1])
                      ELSE tt.win[node]]
           win  == CHOOSE g : g = E(g)
<1>1. SetKey(tt, s, k) = [size |-> tt.size, key |-> key, win |-> win]
  BY DEF SetKey
<1>2. tt.size \in Nat /\ 1 <= tt.size /\ tt.key \in [0..tt.size - 1 -> Int] /\ N \in Nat
  BY DEF Settled
<1>3. \A n \in 1..N :
        tt.win[n] = IF n >= tt.size THEN n - tt.size
                    ELSE Better(tt.key, tt.win[2 * n], tt.win[2 * n + 1])
  BY DEF Settled
<1>4. path \subseteq 1..tt.size - 1
  <2>1. PICK leaf \in Nat : leaf = tt.size + s /\ leaf \div 2 \in Int /\ leaf \div 2 <= tt.size - 1
    BY <1>2
  <2>2. Halves(leaf) \subseteq 1..(leaf \div 2)
    BY <2>1, HalvesClosed
  <2>3. path = Halves(leaf)
    BY <2>1 DEF Above
  <2> HIDE DEF path
  <2> QED
    BY <1>2, <2>1, <2>2, <2>3
<1>5. \A c \in path \cup {tt.size + s} : c >= 2 => c \div 2 \in path
  <2>1. tt.size + s \in Nat
    BY <1>2
  <2> QED
    BY <2>1, HalvesClosed DEF Above
<1> HIDE DEF path
<1>6. \E g : g = E(g)
  <2>1. \A p \in path : p \in Nat /\ 1 <= p /\ 2 * p + 1 <= N
    BY <1>2, <1>4
  <2>2. PICK f : Heaped(f, N, path, tt.win, key)
    <3> HIDE DEF N, key
    <3> QED
      BY <1>2, <2>1, HeapExists
  <2>3. f = E(f)
    <3> HIDE DEF key
    <3> QED
      BY <2>2 DEF Heaped, HeapValue
  <2> HIDE DEF E
  <2> QED
    BY <2>3
<1>7. win = E(win)
  <2> HIDE DEF E
  <2> QED
    BY <1>6
<1> HIDE DEF win
<1>8. \A n \in 1..N : win[n] = IF n \in path THEN Better(key, win[2 * n], win[2 * n + 1])
                               ELSE tt.win[n]
  BY <1>7
<1>9. key \in [0..tt.size - 1 -> Int]
  BY <1>2
<1>10. ASSUME NEW n \in 1..N
       PROVE  win[n] = IF n >= tt.size THEN n - tt.size
                       ELSE Better(key, win[2 * n], win[2 * n + 1])
  <2>1. CASE n >= tt.size
    <3>1. n \notin path
      BY <1>2, <1>4, <2>1
    <3> QED
      BY <1>3, <1>8, <2>1, <3>1
  <2>2. CASE ~(n >= tt.size) /\ n \in path
    BY <1>8, <2>2
  <2>3. CASE ~(n >= tt.size) /\ n \notin path
    <3>1. PICK l \in 1..N, r \in 1..N :
            /\ l = 2 * n /\ r = 2 * n + 1
            /\ l >= 2 /\ r >= 2 /\ l \div 2 = n /\ r \div 2 = n
      <4>1. 2 * n \in 1..N /\ 2 * n + 1 \in 1..N
        BY <1>2, <1>10, <2>3
      <4>2. (2 * n) \div 2 = n /\ (2 * n + 1) \div 2 = n
        BY <1>10
      <4>3. 2 * n >= 2 /\ 2 * n + 1 >= 2
        BY <1>10
      <4> QED
        BY <4>1, <4>2, <4>3
    <3>2. l \notin path \cup {tt.size + s} /\ r \notin path \cup {tt.size + s}
      BY <1>5, <2>3, <3>1
    <3>3. tt.win[l] # s /\ tt.win[r] # s
      BY <3>1, <3>2, HolderIsAbove DEF path
    <3>4. tt.win[l] \in 0..tt.size - 1 /\ tt.win[r] \in 0..tt.size - 1
      BY <3>1, WinIsSlot
    <3>5. key[tt.win[l]] = tt.key[tt.win[l]] /\ key[tt.win[r]] = tt.key[tt.win[r]]
      BY <1>2, <3>3, <3>4
    <3>6. win[l] = tt.win[l] /\ win[r] = tt.win[r] /\ win[n] = tt.win[n]
      BY <1>8, <2>3, <3>1, <3>2
    <3>7. win[n] = Better(tt.key, tt.win[l], tt.win[r])
      BY <1>3, <2>3, <3>1, <3>6
    <3>8. Better(tt.key, tt.win[l], tt.win[r]) = Better(key, tt.win[l], tt.win[r])
      <4> HIDE DEF key
      <4> QED
        BY <3>5 DEF Better
    <3> QED
      BY <2>3, <3>1, <3>6, <3>7, <3>8
  <2> QED
    BY <2>1, <2>2, <2>3
<1>11. Settled(SetKey(tt, s, k))
  <2> HIDE DEF key
  <2> QED
    BY <1>1, <1>2, <1>9, <1>10 DEF Settled
<1> QED
  BY <1>1, <1>11

-----------------------------------------------------------------------------
(* The shares of the workers                                                *)

\* What a load returns, and a signal series, is in the order of time.
Streams == {s \in Seq(Nat) : \A p, q \in DOMAIN s : p <= q => s[p] <= s[q]}
ChildrenSorted == Series \subseteq Streams /\ Signals \subseteq Streams

\* The workers are numbered from 0.
LEMMA WorkersNumbered ==
  /\ Cardinality(Workers) \in Nat /\ 1 <= Cardinality(Workers)
  /\ Workers = 0..Cardinality(Workers) - 1
<1> DEFINE last == IF Wanted <= Count THEN Wanted - 1 ELSE Count - 1
<1>1. Wanted \in Nat /\ 1 <= Wanted /\ Count \in Nat /\ 1 <= Count
  BY BatchAssumption DEF Wanted
<1>2. last \in Nat
  BY <1>1
<1>3. Workers = 0..last
  BY <1>1 DEF Workers, Indices
<1> HIDE DEF last
<1>4. Cardinality(0..last) = last - 0 + 1
  BY <1>2, FS_Interval
<1>5. Cardinality(Workers) = last + 1
  BY <1>2, <1>3, <1>4
<1> QED
  BY <1>2, <1>3, <1>5

\* A request that no worker has come to is still in the share of one.
Dealt ==
  /\ next \in [Workers -> Nat]
  /\ results \in [Indices -> Outcomes \cup {Pending}]
  /\ \A i \in Indices :
       \/ results[i] \in Outcomes
       \/ \E w \in Workers, k \in Nat : i = next[w] + k * Cardinality(Workers)

\* At first every request is.
LEMMA DealtInit == BatchInit => Dealt
<1> SUFFICES ASSUME BatchInit PROVE Dealt
  OBVIOUS
<1>1. next = [w \in Workers |-> w] /\ results = [i \in Indices |-> Pending]
  BY DEF BatchInit
<1> DEFINE W == Cardinality(Workers)
<1>2. W \in Nat /\ 1 <= W /\ Workers = 0..W - 1
  BY WorkersNumbered
<1> HIDE DEF W
<1>3. next \in [Workers -> Nat] /\ results \in [Indices -> Outcomes \cup {Pending}]
  BY <1>1, <1>2
<1>4. ASSUME NEW i \in Indices
      PROVE  \E w \in Workers, k \in Nat : i = next[w] + k * W
  <2>1. i \in Nat
    BY <1>4, BatchAssumption DEF Indices
  <2>2. i % W \in Workers /\ i \div W \in Nat /\ i = (i % W) + (i \div W) * W
    BY <1>2, <2>1
  <2>3. next[i % W] = i % W
    BY <1>1, <2>2
  <2> QED
    BY <2>2, <2>3
<1> QED
  BY <1>3, <1>4 DEF Dealt, W

\* A worker that has loaded a request goes on to the next of its share.
LEMMA LoadDeals ==
  ASSUME Dealt, NEW w \in Workers, Load(w)
  PROVE  Dealt'
<1> DEFINE W == Cardinality(Workers)
<1>1. PICK outcome \in Outcomes : results' = [results EXCEPT ![next[w]] = outcome]
  BY DEF Load
<1>2. next' = [next EXCEPT ![w] = next[w] + W]
  BY DEF Load, NextOf
<1>3. W \in Nat /\ 1 <= W
  BY WorkersNumbered
<1>4. /\ next \in [Workers -> Nat]
      /\ results \in [Indices -> Outcomes \cup {Pending}]
      /\ \A i \in Indices :
           \/ results[i] \in Outcomes
           \/ \E v \in Workers, k \in Nat : i = next[v] + k * W
  BY DEF Dealt
<1> HIDE DEF W
<1>5. next' \in [Workers -> Nat]
  BY <1>2, <1>3, <1>4
<1>6. results' \in [Indices -> Outcomes \cup {Pending}]
  BY <1>1, <1>4
<1>7. ASSUME NEW i \in Indices, results'[i] \notin Outcomes
      PROVE  \E v \in Workers, k \in Nat : i = next'[v] + k * W
  <2>1. i # next[w] /\ results[i] \notin Outcomes
    BY <1>1, <1>4, <1>7
  <2>2. PICK v \in Workers, k \in Nat : i = next[v] + k * W
    BY <1>4, <2>1
  <2>3. CASE v # w
    <3>1. next'[v] = next[v]
      BY <1>2, <1>4, <2>3
    <3> QED
      BY <2>2, <3>1
  <2>4. CASE v = w
    <3>1. k # 0
      BY <1>3, <1>4, <2>1, <2>2, <2>4
    <3>2. k - 1 \in Nat /\ next'[w] = next[w] + W /\ next[w] \in Nat
      BY <1>2, <1>4, <3>1
    <3>3. k * W = W + (k - 1) * W
      BY <1>3, <3>1
    <3>4. (k - 1) * W \in Nat /\ k * W \in Nat
      BY <1>3, <3>2
    <3>5. i = next'[w] + (k - 1) * W
      BY <1>3, <2>2, <2>4, <3>2, <3>3, <3>4
    <3> QED
      BY <3>2, <3>5
  <2> QED
    BY <2>3, <2>4
<1> QED
  BY <1>5, <1>6, <1>7 DEF Dealt, W

\* No other step of the batch deals or loads.
LEMMA BatchDeals ==
  ASSUME Dealt, BatchNext
  PROVE  Dealt'
<1>1. CASE Tick
  BY <1>1 DEF Tick, Dealt
<1>2. ASSUME NEW w \in Workers, Worker(w) PROVE Dealt'
  <2>1. CASE Load(w)
    BY <2>1, LoadDeals
  <2>2. CASE ~Load(w)
    BY <1>2, <2>2 DEF Worker, AcquireUnpaced, ReadClock, Reserve, Wake, Dealt
  <2> QED
    BY <2>1, <2>2
<1> QED
  BY <1>1, <1>2 DEF BatchNext

\* When all workers are done, every request has come to something.
LEMMA JoinedAll ==
  ASSUME Dealt, Joined, NEW i \in Indices
  PROVE  results[i] \in Outcomes
<1> DEFINE W == Cardinality(Workers)
<1>1. ASSUME NEW w \in Workers, NEW k \in Nat, i = next[w] + k * W PROVE FALSE
  <2>1. W \in Nat /\ next[w] \in Nat /\ next[w] \notin Indices
    BY WorkersNumbered DEF Dealt, Joined
  <2>2. i \in Nat /\ i < Count /\ Count \in Nat
    BY BatchAssumption DEF Indices
  <2>3. next[w] >= Count
    BY <2>1, <2>2 DEF Indices
  <2>4. k * W \in Nat
    BY <2>1
  <2> QED
    BY <1>1, <2>1, <2>2, <2>3, <2>4
<1> QED
  BY <1>1 DEF Dealt

-----------------------------------------------------------------------------
(* The merge                                                                *)

Kids == DOMAIN opened

\* What child `c` has left of the series `o`, with `h` buffered.
Feeds(o, c, h) ==
  /\ Len(c) <= Len(o)
  /\ \A i \in DOMAIN c : c[i] = o[Len(o) - Len(c) + i]
  /\ h = Exhausted => c = << >>
  /\ h # Exhausted => Len(c) < Len(o) /\ h = o[Len(o) - Len(c)]

\* The first place of a child that has not been sent.
Unsent(n) == IF heads[n] = Exhausted THEN Len(opened[n]) + 1 ELSE Place(n)

EventAt(n, p) == [ts |-> opened[n][p], child |-> n, place |-> p]

Fed ==
  /\ children \in [Kids -> Seq(Nat)] /\ heads \in [Kids -> Nat \cup {Exhausted}]
  /\ \A n \in Kids : Feeds(opened[n], children[n], heads[n])

\* What has been sent of every child is what precedes its first unsent place.
Delivered ==
  /\ \A m \in DOMAIN stream :
       \E n \in Kids : \E p \in DOMAIN opened[n] : p < Unsent(n) /\ stream[m] = EventAt(n, p)
  /\ \A n \in Kids : \A p \in DOMAIN opened[n] :
       p < Unsent(n) => \E m \in DOMAIN stream : stream[m] = EventAt(n, p)

\* The stream is in order, and what is buffered comes after it.
InOrder ==
  /\ \A m, n \in DOMAIN stream : m < n => Before(stream[m], stream[n])
  /\ \A m \in DOMAIN stream, n \in Kids :
       heads[n] # Exhausted => Before(stream[m], EventAt(n, Unsent(n)))

\* The tree is of the heads.
TreeKept ==
  /\ Settled(tree) /\ Len(opened) <= tree.size
  /\ \A s \in 0..tree.size - 1 :
       tree.key[s] = IF s < Len(opened) THEN heads[s + 1] ELSE Exhausted

Opened == opened \in Seq(Streams) /\ opened # << >>

Streaming == stream \in Seq([ts : Nat, child : Kids, place : Nat]) /\ Fed /\ Delivered /\ InOrder /\ TreeKept

MergeInv ==
  /\ Dealt
  /\ merging \in {"no", "unprimed", "primed", "ended"}
  /\ merging = "no" => stream = << >>
  /\ merging # "no" => Opened
  /\ merging = "unprimed" => children = opened /\ stream = << >>
  /\ merging \in {"primed", "ended"} => Streaming
  /\ merging = "ended" => \A n \in Kids : heads[n] = Exhausted

-----------------------------------------------------------------------------
\* Nothing has been merged at first.
LEMMA MergeInit == FeedInit => MergeInv
BY DealtInit DEF FeedInit, MergeInv

\* The loading leaves the merge alone.
LEMMA MergeStutter ==
  ASSUME MergeInv, Dealt', UNCHANGED mergeVars
  PROVE  MergeInv'
<1>1. Opened' = Opened /\ Kids' = Kids
  BY DEF mergeVars, Opened, Kids
<1>2. Streaming' = Streaming
  BY DEF mergeVars, Streaming, Fed, Delivered, InOrder, TreeKept, Unsent, EventAt, Place, Kids
<1> QED
  BY <1>1, <1>2 DEF MergeInv, mergeVars

\* The children are the series that loaded, and the signals.
LEMMA BuildKeeps ==
  ASSUME ChildrenSorted, MergeInv, Build
  PROVE  MergeInv'
<1> DEFINE inOrder == [n \in 1..Count |-> results[n - 1]]
           Known   == Outcomes \cup {Pending}
<1>1. \A i \in Indices : results[i] \in Outcomes
  BY JoinedAll DEF MergeInv, Build
<1>2. inOrder \in Seq(Known)
  <2>1. ASSUME NEW n \in 1..Count PROVE results[n - 1] \in Known
    <3>1. n - 1 \in Indices
      BY <2>1, BatchAssumption DEF Indices
    <3> QED
      BY <1>1, <3>1
  <2>2. Count \in Nat
    BY BatchAssumption
  <2> HIDE DEF Known
  <2> QED
    BY <2>1, <2>2
<1> HIDE DEF inOrder
<1>3. /\ Keep(inOrder, Series) \in Seq(Known)
      /\ Elements(Keep(inOrder, Series)) = Elements(inOrder) \cap Series
  BY <1>2, KeepFacts
<1>4. Keep(inOrder, Series) \in Seq(Streams)
  <2>1. ASSUME NEW n \in DOMAIN Keep(inOrder, Series) PROVE Keep(inOrder, Series)[n] \in Streams
    <3>1. Keep(inOrder, Series)[n] \in Elements(Keep(inOrder, Series))
      BY <2>1 DEF Elements
    <3> QED
      BY <1>3, <3>1 DEF ChildrenSorted
  <2> QED
    BY <1>3, <2>1
<1>5. LoadedSeries = Keep(inOrder, Series)
  BY DEF LoadedSeries, inOrder
<1>6. PICK signal \in Signals : children' = Append(LoadedSeries, signal)
  BY DEF Build
<1>7. signal \in Streams
  BY <1>6 DEF ChildrenSorted
<1>8. opened' \in Seq(Streams) /\ opened' # << >>
  BY <1>4, <1>5, <1>6, <1>7 DEF Build
<1>9. merging' = "unprimed" /\ children' = opened' /\ stream' = << >>
  BY DEF Build, MergeInv
<1>10. Dealt'
  BY DEF Build, MergeInv, batchVars, Dealt
<1> QED
  BY <1>8, <1>9, <1>10 DEF MergeInv, Opened

\* A child's next event becomes its head.
LEMMA PullFeeds ==
  ASSUME NEW o \in Seq(Nat), NEW c \in Seq(Nat), Len(c) <= Len(o),
         \A i \in DOMAIN c : c[i] = o[Len(o) - Len(c) + i]
  PROVE  /\ RestOf(c) \in Seq(Nat) /\ HeadOf(c) \in Nat \cup {Exhausted}
         /\ Feeds(o, RestOf(c), HeadOf(c))
         /\ HeadOf(c) = Exhausted <=> c = << >>
         /\ c # << >> => Len(RestOf(c)) = Len(c) - 1
<1>1. CASE c = << >>
  BY <1>1 DEF RestOf, HeadOf, Feeds, Exhausted
<1>2. CASE c # << >>
  <2>1. /\ Tail(c) \in Seq(Nat) /\ Len(Tail(c)) = Len(c) - 1
        /\ \A i \in 1..Len(c) - 1 : Tail(c)[i] = c[i + 1]
        /\ DOMAIN Tail(c) = 1..Len(c) - 1 /\ DOMAIN c = 1..Len(c)
        /\ Head(c) = c[1] /\ Head(c) \in Nat /\ Len(c) \in Nat /\ 1 <= Len(c)
    BY <1>2
  <2>2. RestOf(c) = Tail(c) /\ HeadOf(c) = Head(c) /\ Head(c) # Exhausted
    BY <1>2, <2>1 DEF RestOf, HeadOf, Exhausted
  <2>3. Len(o) \in Nat
    OBVIOUS
  <2>4. \A i \in 1..Len(c) - 1 : Tail(c)[i] = o[Len(o) - (Len(c) - 1) + i]
    <3> SUFFICES ASSUME NEW i \in 1..Len(c) - 1 PROVE Tail(c)[i] = o[Len(o) - (Len(c) - 1) + i]
      OBVIOUS
    <3>1. i + 1 \in DOMAIN c /\ Len(o) - Len(c) + (i + 1) = Len(o) - (Len(c) - 1) + i
      BY <2>1, <2>3
    <3>2. c[i + 1] = o[Len(o) - Len(c) + (i + 1)]
      BY <3>1
    <3> QED
      BY <2>1, <3>1, <3>2
  <2>5. Head(c) = o[Len(o) - (Len(c) - 1)]
    <3>1. 1 \in DOMAIN c /\ Len(o) - Len(c) + 1 = Len(o) - (Len(c) - 1)
      BY <2>1, <2>3
    <3>2. c[1] = o[Len(o) - Len(c) + 1]
      BY <3>1
    <3> QED
      BY <2>1, <3>1, <3>2
  <2>6. Feeds(o, Tail(c), Head(c))
    <3> DEFINE rest == Tail(c)
               h    == Head(c)
    <3>1. Len(rest) = Len(c) - 1 /\ Len(rest) < Len(o) /\ Len(rest) <= Len(o)
      BY <2>1, <2>3
    <3>2. \A i \in DOMAIN rest : rest[i] = o[Len(o) - Len(rest) + i]
      BY <2>1, <2>4, <3>1
    <3>3. h # Exhausted /\ h = o[Len(o) - Len(rest)]
      BY <2>2, <2>5, <3>1
    <3> HIDE DEF rest, h
    <3>4. Feeds(o, rest, h)
      BY <3>1, <3>2, <3>3 DEF Feeds
    <3> QED
      BY <3>4 DEF rest, h
  <2> QED
    BY <1>2, <2>1, <2>2, <2>6
<1> QED
  BY <1>1, <1>2

\* The tree is made of the first heads.
LEMMA PrimeKeeps ==
  ASSUME MergeInv, Prime
  PROVE  MergeInv'
<1> DEFINE K    == Len(opened)
           keys == [s \in 0..(Len(children) - 1) |-> HeadOf(children[s + 1])]
<1>1. /\ opened \in Seq(Streams) /\ opened # << >> /\ children = opened
      /\ stream = << >> /\ stream' = << >> /\ opened' = opened
      /\ merging' = "primed"
      /\ heads' = [n \in DOMAIN children |-> HeadOf(children[n])]
      /\ children' = [n \in DOMAIN children |-> RestOf(children[n])]
      /\ tree' = NewTree(keys, Len(children))
  BY DEF MergeInv, Prime, Opened
<1>2. /\ K \in Nat /\ 1 <= K /\ Kids = 1..K /\ Kids' = 1..K
      /\ DOMAIN children = Kids /\ Len(children) = K
  BY <1>1 DEF Kids
<1>3. ASSUME NEW n \in Kids
      PROVE  /\ opened[n] \in Seq(Nat) /\ children[n] = opened[n]
             /\ RestOf(children[n]) \in Seq(Nat)
             /\ HeadOf(children[n]) \in Nat \cup {Exhausted}
             /\ Feeds(opened[n], RestOf(children[n]), HeadOf(children[n]))
             /\ HeadOf(children[n]) = Exhausted <=> children[n] = << >>
             /\ children[n] # << >> => Len(RestOf(children[n])) = Len(children[n]) - 1
  <2>1. opened[n] \in Seq(Nat)
    BY <1>1, <1>2, <1>3 DEF Streams
  <2> DEFINE o == opened[n]
  <2>2. o \in Seq(Nat)
    BY <2>1
  <2> HIDE DEF o
  <2>3. Len(o) <= Len(o) /\ \A i \in DOMAIN o : o[i] = o[Len(o) - Len(o) + i]
    BY <2>2
  <2>4. /\ RestOf(o) \in Seq(Nat) /\ HeadOf(o) \in Nat \cup {Exhausted}
        /\ Feeds(o, RestOf(o), HeadOf(o))
        /\ HeadOf(o) = Exhausted <=> o = << >>
        /\ o # << >> => Len(RestOf(o)) = Len(o) - 1
    BY <2>2, <2>3, PullFeeds
  <2> QED
    BY <1>1, <2>2, <2>4 DEF o
<1>4. Fed'
  BY <1>1, <1>2, <1>3 DEF Fed
<1>5. \A n \in Kids : Unsent(n)' = 1
  <2> SUFFICES ASSUME NEW n \in Kids PROVE Unsent(n)' = 1
    OBVIOUS
  <2>1. Unsent(n)' = IF HeadOf(children[n]) = Exhausted THEN Len(opened[n]) + 1
                     ELSE Len(opened[n]) - Len(RestOf(children[n]))
    BY <1>1, <1>2 DEF Unsent, Place
  <2>2. opened[n] \in Seq(Nat) /\ children[n] = opened[n]
    BY <1>3
  <2>3. CASE opened[n] = << >>
    BY <1>3, <2>1, <2>2, <2>3
  <2>4. CASE opened[n] # << >>
    BY <1>3, <2>1, <2>2, <2>4
  <2> QED
    BY <2>3, <2>4
<1>6. Delivered'
  <2>1. \A n \in Kids : \A p \in DOMAIN opened[n] : ~(p < 1)
    BY <1>3
  <2> QED
    BY <1>1, <1>2, <1>5, <2>1 DEF Delivered
<1>7. InOrder'
  BY <1>1 DEF InOrder
<1>8. TreeKept'
  <2>1. \A s \in 0..K - 1 : s + 1 \in Kids /\ s \in Int
    BY <1>2
  <2>2. keys \in [0..K - 1 -> Int] /\ \A s \in 0..K - 1 : keys[s] = HeadOf(children[s + 1])
    <3>1. \A s \in 0..K - 1 : HeadOf(children[s + 1]) \in Int
      BY <1>3, <2>1 DEF Exhausted
    <3> QED
      BY <1>2, <3>1
  <2> HIDE DEF keys
  <2>3. /\ Settled(tree') /\ K <= tree'.size
        /\ \A s \in 0..tree'.size - 1 :
             tree'.key[s] = IF s < K THEN keys[s] ELSE Exhausted
    BY <1>1, <1>2, <2>2, NewTreeSettled
  <2>4. ASSUME NEW s \in 0..tree'.size - 1
        PROVE  tree'.key[s] = IF s < K THEN heads'[s + 1] ELSE Exhausted
    <3>1. CASE s < K
      <4>1. s \in 0..K - 1
        BY <1>2, <2>4, <3>1
      <4>2. heads'[s + 1] = HeadOf(children[s + 1])
        BY <1>1, <1>2, <2>1, <4>1
      <4> QED
        BY <2>2, <2>3, <3>1, <4>1, <4>2
    <3>2. CASE ~(s < K)
      BY <2>3, <3>2
    <3> QED
      BY <3>1, <3>2
  <2> QED
    BY <1>1, <2>3, <2>4 DEF TreeKept
<1>9. stream' \in Seq([ts : Nat, child : Kids', place : Nat])
  BY <1>1
<1>10. Dealt' /\ Opened'
  BY <1>1 DEF Prime, MergeInv, batchVars, Dealt, Opened
<1> QED
  BY <1>1, <1>4, <1>6, <1>7, <1>8, <1>9, <1>10 DEF MergeInv, Streaming

\* The winner's head comes before every other.
LEMMA WinnerLeads ==
  ASSUME Opened, Streaming, NEW w, w = Winner(tree) + 1, w \in Kids, heads[w] # Exhausted,
         NEW n \in Kids, n # w, heads[n] # Exhausted
  PROVE  heads[w] < heads[n] \/ (heads[w] = heads[n] /\ w < n)
<1>1. /\ Settled(tree) /\ Len(opened) <= tree.size
      /\ \A s \in 0..tree.size - 1 :
           tree.key[s] = IF s < Len(opened) THEN heads[s + 1] ELSE Exhausted
  BY DEF Streaming, TreeKept
<1>2. Kids = 1..Len(opened) /\ Len(opened) \in Nat
  BY DEF Opened, Kids
<1>3. tree.size \in Nat
  BY <1>1 DEF Settled
<1> DEFINE a == w - 1
           b == n - 1
<1>4. /\ a \in 0..tree.size - 1 /\ b \in 0..tree.size - 1 /\ a < Len(opened) /\ b < Len(opened)
      /\ a + 1 = w /\ b + 1 = n /\ w \in Int /\ n \in Int /\ a = Winner(tree)
  <2>1. w \in Int /\ n \in Int /\ 1 <= w /\ w <= Len(opened) /\ 1 <= n /\ n <= Len(opened)
    BY <1>2
  <2>2. 0 \in 0..tree.size - 1
    BY <1>1, <1>2, <1>3, <2>1
  <2>3. Winner(tree) \in 0..tree.size - 1
    BY <1>1, <2>2, WinnerBeats
  <2>4. Winner(tree) \in Int /\ a = Winner(tree)
    BY <1>3, <2>1, <2>3
  <2>5. Len(opened) \in Int /\ Len(opened) <= tree.size
    BY <1>1, <1>2
  <2>6. a \in 0..tree.size - 1 /\ b \in 0..tree.size - 1
    BY <1>3, <2>1, <2>5
  <2>7. a < Len(opened) /\ b < Len(opened) /\ a + 1 = w /\ b + 1 = n
    BY <2>1, <2>5
  <2> QED
    BY <2>1, <2>4, <2>6, <2>7
<1>5. Beats(tree.key, a, b)
  <2> HIDE DEF a, b
  <2> QED
    BY <1>1, <1>4, WinnerBeats
<1>6. tree.key[a] = heads[w] /\ tree.key[b] = heads[n]
  <2> HIDE DEF a, b
  <2> QED
    BY <1>1, <1>4
<1>7. heads[w] \in Int /\ heads[n] \in Int
  BY DEF Streaming, Fed, Exhausted
<1> HIDE DEF a, b
<1> QED
  BY <1>4, <1>5, <1>6, <1>7 DEF Beats

\* The order of the stream is transitive.
LEMMA BeforeOn ==
  ASSUME NEW S, NEW a \in [ts : Int, child : Int, place : Int],
         NEW b \in [ts : Int, child : Int, place : Int],
         NEW c \in [ts : Int, child : Int, place : Int], Before(a, b), Before(b, c)
  PROVE  Before(a, c)
BY DEF Before

\* What a child has left, of what it had.
LEMMA UnsentFacts ==
  ASSUME Opened, Fed, NEW n \in Kids
  PROVE  /\ opened[n] \in Streams /\ opened[n] \in Seq(Nat) /\ Len(opened[n]) \in Nat
         /\ DOMAIN opened[n] = 1..Len(opened[n]) /\ n \in Int
         /\ children[n] \in Seq(Nat) /\ Len(children[n]) \in Nat
         /\ heads[n] \in Int /\ Unsent(n) \in Nat
         /\ heads[n] # Exhausted =>
              /\ Unsent(n) \in DOMAIN opened[n] /\ heads[n] = opened[n][Unsent(n)]
              /\ Unsent(n) = Place(n)
<1>1. opened[n] \in Streams /\ opened[n] \in Seq(Nat) /\ n \in Int
  BY DEF Opened, Kids, Streams
<1>2. children[n] \in Seq(Nat) /\ heads[n] \in Int /\ Feeds(opened[n], children[n], heads[n])
  BY DEF Fed, Exhausted
<1>3. Len(opened[n]) \in Nat /\ DOMAIN opened[n] = 1..Len(opened[n]) /\ Len(children[n]) \in Nat
  BY <1>1, <1>2
<1>4. heads[n] # Exhausted => Unsent(n) = Place(n) /\ Place(n) = Len(opened[n]) - Len(children[n])
  BY DEF Unsent, Place
<1>5. heads[n] = Exhausted => Unsent(n) = Len(opened[n]) + 1
  BY DEF Unsent
<1>6. heads[n] # Exhausted => Len(children[n]) < Len(opened[n])
                              /\ heads[n] = opened[n][Len(opened[n]) - Len(children[n])]
  BY <1>2 DEF Feeds
<1> DEFINE lo == Len(opened[n])
           lc == Len(children[n])
<1>7. lo \in Nat /\ lc \in Nat
  BY <1>3
<1>8. heads[n] # Exhausted => Unsent(n) = lo - lc /\ lc < lo
  BY <1>4, <1>6
<1>9. heads[n] = Exhausted => Unsent(n) = lo + 1
  BY <1>5
<1>10. heads[n] # Exhausted => heads[n] = opened[n][Unsent(n)]
  BY <1>4, <1>6
<1>11. DOMAIN opened[n] = 1..lo
  BY <1>3
<1> HIDE DEF lo, lc
<1>12. Unsent(n) \in Nat /\ (heads[n] # Exhausted => Unsent(n) \in 1..lo)
  BY <1>7, <1>8, <1>9
<1> QED
  BY <1>1, <1>2, <1>3, <1>4, <1>10, <1>11, <1>12

\* The same of the state after a step.
LEMMA UnsentNext ==
  ASSUME Opened', Fed', NEW n \in Kids', heads'[n] # Exhausted
  PROVE  Unsent(n)' \in DOMAIN opened'[n]
<1>1. opened'[n] \in Seq(Nat)
  BY DEF Opened, Kids, Streams
<1>2. children'[n] \in Seq(Nat) /\ Feeds(opened'[n], children'[n], heads'[n])
  BY DEF Fed
<1>3. Len(opened'[n]) \in Nat /\ DOMAIN opened'[n] = 1..Len(opened'[n])
      /\ Len(children'[n]) \in Nat
  BY <1>1, <1>2
<1>4. Unsent(n)' = Len(opened'[n]) - Len(children'[n])
  BY DEF Unsent, Place
<1>5. Len(children'[n]) < Len(opened'[n])
  BY <1>2 DEF Feeds
<1> DEFINE lo == Len(opened'[n])
           lc == Len(children'[n])
<1>6. lo \in Nat /\ lc \in Nat /\ Unsent(n)' = lo - lc /\ lc < lo /\ DOMAIN opened'[n] = 1..lo
  BY <1>3, <1>4, <1>5
<1> HIDE DEF lo, lc
<1> QED
  BY <1>6

\* One event goes out, and one is pulled in its place.
LEMMA EmitMoves ==
  ASSUME Opened, Streaming, Emit
  PROVE  \E w \in Kids :
           /\ w = Winner(tree) + 1 /\ heads[w] # Exhausted
           /\ stream' = Append(stream, EventAt(w, Unsent(w)))
           /\ opened' = opened /\ Kids' = Kids /\ merging' = merging /\ merging = "primed"
           /\ heads' = [heads EXCEPT ![w] = HeadOf(children[w])]
           /\ children' = [children EXCEPT ![w] = RestOf(children[w])]
           /\ tree' = SetKey(tree, w - 1, HeadOf(children[w]))
           /\ HeadOf(children[w]) \in Int
           /\ Fed'
           /\ \A n \in Kids : Unsent(n)' = IF n = w THEN Unsent(n) + 1 ELSE Unsent(n)
<1> DEFINE w == Winner(tree) + 1
<1>1. /\ w \in DOMAIN heads /\ heads[w] # Exhausted
      /\ stream' = Append(stream, [ts |-> heads[w], child |-> w, place |-> Place(w)])
      /\ heads' = [heads EXCEPT ![w] = HeadOf(children[w])]
      /\ children' = [children EXCEPT ![w] = RestOf(children[w])]
      /\ tree' = SetKey(tree, w - 1, HeadOf(children[w]))
      /\ opened' = opened /\ merging' = merging /\ merging = "primed"
  BY DEF Emit
<1> HIDE DEF w
<1>2. Fed
  BY DEF Streaming
<1>3. w \in Kids /\ Kids' = Kids
  BY <1>1, <1>2 DEF Fed, Kids
<1>4. /\ Unsent(w) \in DOMAIN opened[w] /\ heads[w] = opened[w][Unsent(w)]
      /\ Unsent(w) = Place(w) /\ opened[w] \in Seq(Nat) /\ children[w] \in Seq(Nat)
      /\ Len(opened[w]) \in Nat /\ Len(children[w]) \in Nat
  BY <1>1, <1>2, <1>3, UnsentFacts
<1>5. stream' = Append(stream, EventAt(w, Unsent(w)))
  BY <1>1, <1>4 DEF EventAt
<1>6. Feeds(opened[w], children[w], heads[w])
  BY <1>2, <1>3 DEF Fed
<1>7. /\ RestOf(children[w]) \in Seq(Nat) /\ HeadOf(children[w]) \in Nat \cup {Exhausted}
      /\ Feeds(opened[w], RestOf(children[w]), HeadOf(children[w]))
      /\ HeadOf(children[w]) = Exhausted <=> children[w] = << >>
      /\ children[w] # << >> => Len(RestOf(children[w])) = Len(children[w]) - 1
  <2> DEFINE o == opened[w]
             c == children[w]
  <2>1. o \in Seq(Nat) /\ c \in Seq(Nat) /\ Len(c) <= Len(o)
        /\ \A i \in DOMAIN c : c[i] = o[Len(o) - Len(c) + i]
    BY <1>4, <1>6 DEF Feeds
  <2> HIDE DEF o, c
  <2>2. /\ RestOf(c) \in Seq(Nat) /\ HeadOf(c) \in Nat \cup {Exhausted}
        /\ Feeds(o, RestOf(c), HeadOf(c))
        /\ HeadOf(c) = Exhausted <=> c = << >>
        /\ c # << >> => Len(RestOf(c)) = Len(c) - 1
    BY <2>1, PullFeeds
  <2> QED
    BY <2>2 DEF o, c
<1>8. children \in [Kids -> Seq(Nat)] /\ heads \in [Kids -> Nat \cup {Exhausted}]
  BY <1>2 DEF Fed
<1>9. /\ \A n \in Kids : n # w => heads'[n] = heads[n] /\ children'[n] = children[n]
      /\ heads'[w] = HeadOf(children[w]) /\ children'[w] = RestOf(children[w])
  BY <1>1, <1>3, <1>8
<1>10. Fed'
  <2>1. children' \in [Kids -> Seq(Nat)] /\ heads' \in [Kids -> Nat \cup {Exhausted}]
    BY <1>1, <1>3, <1>7, <1>8
  <2>2. ASSUME NEW n \in Kids PROVE Feeds(opened[n], children'[n], heads'[n])
    <3>1. CASE n = w
      BY <1>7, <1>9, <3>1
    <3>2. CASE n # w
      BY <1>2, <1>9, <3>2 DEF Fed
    <3> QED
      BY <3>1, <3>2
  <2> QED
    BY <1>1, <1>3, <2>1, <2>2 DEF Fed
<1>11. ASSUME NEW n \in Kids
       PROVE  Unsent(n)' = IF n = w THEN Unsent(n) + 1 ELSE Unsent(n)
  <2>1. Unsent(n)' = IF heads'[n] = Exhausted THEN Len(opened[n]) + 1
                     ELSE Len(opened[n]) - Len(children'[n])
    BY <1>1 DEF Unsent, Place
  <2>2. CASE n # w
    BY <1>9, <2>1, <2>2 DEF Unsent, Place
  <2>3. CASE n = w
    <3>1. Unsent(w) = Len(opened[w]) - Len(children[w])
      BY <1>4 DEF Place
    <3>2. CASE children[w] = << >>
      <4>1. heads'[w] = Exhausted /\ Len(children[w]) = 0
        BY <1>7, <1>9, <3>2
      <4> QED
        BY <1>4, <2>1, <2>3, <3>1, <4>1
    <3>3. CASE children[w] # << >>
      <4>1. heads'[w] # Exhausted /\ Len(children'[w]) = Len(children[w]) - 1
        BY <1>7, <1>9, <3>3
      <4> QED
        BY <1>4, <2>1, <2>3, <3>1, <4>1
    <3> QED
      BY <3>2, <3>3
  <2> QED
    BY <2>2, <2>3
<1>12. HeadOf(children[w]) \in Int
  BY <1>7 DEF Exhausted
<1> QED
  BY <1>1, <1>3, <1>5, <1>10, <1>11, <1>12 DEF w

\* The winner's head was the next of all, and what is pulled comes later.
LEMMA EmitKeeps ==
  ASSUME MergeInv, Emit
  PROVE  MergeInv'
<1>1. Opened /\ Streaming /\ Dealt /\ Dealt'
  <2>1. Dealt /\ Dealt'
    BY DEF MergeInv, Emit, batchVars, Dealt
  <2> QED
    BY <2>1 DEF MergeInv, Emit
<1>2. Fed /\ Delivered /\ InOrder /\ TreeKept /\ stream \in Seq([ts : Nat, child : Kids, place : Nat])
  BY <1>1 DEF Streaming
<1>3. PICK w \in Kids :
           /\ w = Winner(tree) + 1 /\ heads[w] # Exhausted
           /\ stream' = Append(stream, EventAt(w, Unsent(w)))
           /\ opened' = opened /\ Kids' = Kids /\ merging' = merging /\ merging = "primed"
           /\ heads' = [heads EXCEPT ![w] = HeadOf(children[w])]
           /\ children' = [children EXCEPT ![w] = RestOf(children[w])]
           /\ tree' = SetKey(tree, w - 1, HeadOf(children[w]))
           /\ HeadOf(children[w]) \in Int
           /\ Fed'
           /\ \A n \in Kids : Unsent(n)' = IF n = w THEN Unsent(n) + 1 ELSE Unsent(n)
  BY <1>1, EmitMoves
<1> DEFINE L == Unsent(w)
           e == EventAt(w, L)
<1>4. ASSUME NEW n \in Kids
      PROVE  /\ opened[n] \in Seq(Nat) /\ Len(opened[n]) \in Nat
             /\ DOMAIN opened[n] = 1..Len(opened[n]) /\ n \in Int /\ Unsent(n) \in Nat
             /\ heads[n] # Exhausted =>
                  Unsent(n) \in DOMAIN opened[n] /\ heads[n] = opened[n][Unsent(n)]
  BY <1>1, <1>2, UnsentFacts
<1>5. Opened'
  BY <1>1, <1>3 DEF Opened
<1>6. \A n \in Kids : \A p : EventAt(n, p)' = EventAt(n, p)
  BY <1>3 DEF EventAt
<1>7. L \in DOMAIN opened[w] /\ heads[w] = opened[w][L] /\ L \in Nat
  BY <1>3, <1>4
<1>8. ASSUME NEW n \in Kids, NEW p \in DOMAIN opened[n]
      PROVE  EventAt(n, p) \in [ts : Nat, child : Kids, place : Nat]
  BY <1>4 DEF EventAt
<1>9. e \in [ts : Nat, child : Kids, place : Nat]
  BY <1>7, <1>8
<1> HIDE DEF e
<1>10. /\ DOMAIN stream = 1..Len(stream) /\ Len(stream) \in Nat
       /\ DOMAIN stream' = 1..Len(stream) + 1
       /\ \A m \in 1..Len(stream) : stream'[m] = stream[m]
       /\ stream'[Len(stream) + 1] = e
       /\ stream' \in Seq([ts : Nat, child : Kids, place : Nat])
  <2>1. stream' = Append(stream, e)
    BY <1>3 DEF e
  <2> QED
    BY <1>2, <1>9, <2>1
<1>11. \A m \in DOMAIN stream : m \in DOMAIN stream' /\ stream'[m] = stream[m]
  BY <1>10
<1>12. \A m \in DOMAIN stream' : m \in DOMAIN stream \/ m = Len(stream) + 1
  BY <1>10
<1>13. Delivered'
  <2>1. ASSUME NEW m \in DOMAIN stream'
        PROVE  \E n \in Kids : \E p \in DOMAIN opened[n] :
                 p < Unsent(n)' /\ stream'[m] = EventAt(n, p)
    <3>1. CASE m \in DOMAIN stream
      <4>1. PICK n \in Kids : \E p \in DOMAIN opened[n] : p < Unsent(n) /\ stream[m] = EventAt(n, p)
        BY <1>2, <3>1 DEF Delivered
      <4>2. PICK p \in DOMAIN opened[n] : p < Unsent(n) /\ stream[m] = EventAt(n, p)
        BY <4>1
      <4>3. p < Unsent(n)'
        <5>1. p \in Int /\ Unsent(n) \in Int
          BY <1>4
        <5>2. Unsent(n)' = Unsent(n) \/ Unsent(n)' = Unsent(n) + 1
          BY <1>3
        <5> QED
          BY <4>2, <5>1, <5>2
      <4> QED
        BY <1>11, <3>1, <4>2, <4>3
    <3>2. CASE m = Len(stream) + 1
      <4>1. L < Unsent(w)'
        BY <1>3, <1>7
      <4> QED
        BY <1>7, <1>10, <3>2, <4>1 DEF e
    <3> QED
      BY <1>12, <3>1, <3>2
  <2>2. ASSUME NEW n \in Kids, NEW p \in DOMAIN opened[n], p < Unsent(n)'
        PROVE  \E m \in DOMAIN stream' : stream'[m] = EventAt(n, p)
    <3>1. CASE p < Unsent(n)
      <4>1. PICK m \in DOMAIN stream : stream[m] = EventAt(n, p)
        BY <1>2, <3>1 DEF Delivered
      <4> QED
        BY <1>11, <4>1
    <3>2. CASE ~(p < Unsent(n))
      <4>1. n = w /\ p = L
        <5>1. p \in Int /\ Unsent(n) \in Int
          BY <1>4
        <5> QED
          BY <1>3, <2>2, <3>2, <5>1
      <4>2. Len(stream) + 1 \in DOMAIN stream'
        BY <1>10
      <4> QED
        BY <1>10, <4>1, <4>2 DEF e
    <3> QED
      BY <3>1, <3>2
  <2> QED
    BY <1>3, <1>6, <2>1, <2>2 DEF Delivered
<1>14. ASSUME NEW m \in DOMAIN stream PROVE Before(stream[m], e)
  BY <1>2, <1>3 DEF InOrder, e
<1>15. ASSUME NEW n \in Kids, heads'[n] # Exhausted
       PROVE  Before(e, EventAt(n, Unsent(n)'))
  <2>1. CASE n = w
    <3>1. Unsent(w)' = L + 1
      BY <1>3
    <3>2. L + 1 \in DOMAIN opened[w]
      <4>1. Unsent(w)' \in DOMAIN opened'[w]
        BY <1>3, <1>5, <1>15, <2>1, UnsentNext
      <4> QED
        BY <1>3, <3>1, <4>1
    <3>3. opened[w][L] <= opened[w][L + 1] /\ opened[w][L] \in Nat /\ opened[w][L + 1] \in Nat
      <4>1. opened[w] \in Streams
        BY <1>1 DEF Opened, Kids
      <4> QED
        BY <1>7, <3>2, <4>1 DEF Streams
    <3>4. L < L + 1 /\ w \in Int
      BY <1>4, <1>7
    <3> QED
      BY <2>1, <3>1, <3>3, <3>4 DEF Before, EventAt, e
  <2>2. CASE n # w
    <3>1. heads'[n] = heads[n] /\ Unsent(n)' = Unsent(n)
      BY <1>2, <1>3, <2>2 DEF Fed
    <3>2. heads[w] < heads[n] \/ (heads[w] = heads[n] /\ w < n)
      BY <1>1, <1>3, <1>15, <2>2, <3>1, WinnerLeads
    <3>3. heads[n] = opened[n][Unsent(n)]
      BY <1>4, <1>15, <3>1
    <3> QED
      BY <1>7, <3>1, <3>2, <3>3 DEF Before, EventAt, e
  <2> QED
    BY <2>1, <2>2
<1>16. InOrder'
  <2>1. ASSUME NEW m \in DOMAIN stream', NEW n \in DOMAIN stream', m < n
        PROVE  Before(stream'[m], stream'[n])
    <3>1. m \in DOMAIN stream
      BY <1>10, <2>1
    <3>2. CASE n \in DOMAIN stream
      BY <1>2, <1>11, <2>1, <3>1, <3>2 DEF InOrder
    <3>3. CASE n = Len(stream) + 1
      BY <1>10, <1>11, <1>14, <3>1, <3>3
    <3> QED
      BY <1>12, <3>2, <3>3
  <2>2. ASSUME NEW m \in DOMAIN stream', NEW n \in Kids, heads'[n] # Exhausted
        PROVE  Before(stream'[m], EventAt(n, Unsent(n)'))
    <3>1. CASE m = Len(stream) + 1
      BY <1>10, <1>15, <2>2, <3>1
    <3>2. CASE m \in DOMAIN stream
      <4> DEFINE E == [ts : Int, child : Int, place : Int]
      <4>1. Before(stream[m], e) /\ Before(e, EventAt(n, Unsent(n)'))
        BY <1>14, <1>15, <2>2, <3>2
      <4>2. \A r \in [ts : Nat, child : Kids, place : Nat] : r \in E
        <5>1. \A n2 \in Kids : n2 \in Int
          BY <1>4
        <5> QED
          BY <5>1
      <4>3. stream[m] \in E /\ e \in E
        <5>1. stream[m] \in [ts : Nat, child : Kids, place : Nat]
          <6> DEFINE R == [ts : Nat, child : Kids, place : Nat]
          <6>1. stream \in Seq(R)
            BY <1>2
          <6> HIDE DEF R
          <6>2. stream[m] \in R
            BY <3>2, <6>1
          <6> QED
            BY <6>2 DEF R
        <5> HIDE DEF E
        <5> QED
          BY <1>9, <4>2, <5>1
      <4>4. EventAt(n, Unsent(n)') \in E
        <5>1. Unsent(n)' \in DOMAIN opened'[n]
          BY <1>3, <1>5, <2>2, UnsentNext
        <5>2. Unsent(n)' \in DOMAIN opened[n]
          BY <1>3, <5>1
        <5> QED
          BY <1>8, <4>2, <5>2
      <4>5. Before(stream[m], EventAt(n, Unsent(n)'))
        BY <4>1, <4>3, <4>4, BeforeOn
      <4> QED
        BY <1>11, <3>2, <4>5
    <3> QED
      BY <1>12, <3>1, <3>2
  <2> QED
    BY <1>3, <1>6, <2>1, <2>2 DEF InOrder
<1>17. TreeKept'
  <2>1. /\ Settled(tree) /\ Len(opened) <= tree.size
        /\ \A s \in 0..tree.size - 1 :
             tree.key[s] = IF s < Len(opened) THEN heads[s + 1] ELSE Exhausted
    BY <1>2 DEF TreeKept
  <2>2. Kids = 1..Len(opened) /\ Len(opened) \in Nat
    BY <1>1 DEF Opened, Kids
  <2>3. tree.size \in Nat /\ tree.key \in [0..tree.size - 1 -> Int]
    BY <2>1 DEF Settled
  <2> DEFINE a == w - 1
             k == HeadOf(children[w])
  <2>4. a \in 0..tree.size - 1 /\ a + 1 = w /\ k \in Int
    BY <1>3, <2>1, <2>2, <2>3
  <2>5. tree' = SetKey(tree, a, k)
    BY <1>3
  <2> HIDE DEF a, k
  <2>6. Settled(tree') /\ tree'.size = tree.size /\ tree'.key = [tree.key EXCEPT ![a] = k]
    BY <2>1, <2>4, <2>5, SetKeySettled
  <2>7. ASSUME NEW s \in 0..tree.size - 1
        PROVE  tree'.key[s] = IF s < Len(opened) THEN heads'[s + 1] ELSE Exhausted
    <3>1. CASE s = a
      <4>1. tree'.key[s] = k
        BY <2>3, <2>4, <2>6, <3>1
      <4>2. heads'[w] = k
        BY <1>2, <1>3 DEF Fed, k
      <4>3. s < Len(opened) /\ s + 1 = w
        BY <2>2, <2>4, <3>1
      <4> QED
        BY <4>1, <4>2, <4>3
    <3>2. CASE s # a
      <4>1. tree'.key[s] = tree.key[s]
        BY <2>3, <2>6, <3>2
      <4>2. s < Len(opened) => s + 1 \in Kids /\ s + 1 # w
        BY <2>2, <2>3, <2>4, <3>2
      <4>3. s < Len(opened) => heads'[s + 1] = heads[s + 1]
        BY <1>2, <1>3, <4>2 DEF Fed
      <4> QED
        BY <2>1, <4>1, <4>3
    <3> QED
      BY <3>1, <3>2
  <2> QED
    BY <1>3, <2>1, <2>6, <2>7 DEF TreeKept
<1>18. Streaming'
  BY <1>3, <1>10, <1>13, <1>16, <1>17 DEF Streaming
<1> QED
  BY <1>1, <1>3, <1>5, <1>18 DEF MergeInv

\* An exhausted winner means that all are.
LEMMA EndKeeps ==
  ASSUME MergeInv, End
  PROVE  MergeInv'
<1>1. Opened /\ Streaming /\ Dealt /\ Dealt' /\ UNCHANGED <<children, opened, heads, tree, stream>>
      /\ merging' = "ended"
  <2>1. Dealt /\ Dealt'
    BY DEF MergeInv, End, batchVars, Dealt
  <2> QED
    BY <2>1 DEF MergeInv, End
<1>2. Opened' /\ Kids' = Kids
  BY <1>1 DEF Opened, Kids
<1>3. Streaming'
  BY <1>1, <1>2 DEF Streaming, Fed, Delivered, InOrder, TreeKept, Unsent, EventAt, Place, Kids
<1>4. /\ Settled(tree) /\ Len(opened) <= tree.size
      /\ \A s \in 0..tree.size - 1 :
           tree.key[s] = IF s < Len(opened) THEN heads[s + 1] ELSE Exhausted
  BY <1>1 DEF Streaming, TreeKept
<1>5. Kids = 1..Len(opened) /\ Len(opened) \in Nat /\ tree.size \in Nat /\ DOMAIN heads = Kids
  BY <1>1, <1>4 DEF Opened, Kids, Settled, Streaming, Fed
<1> DEFINE w == Winner(tree)
<1>6. ASSUME NEW n \in Kids PROVE heads[n] = Exhausted
  <2> DEFINE b == n - 1
  <2>1. b \in 0..tree.size - 1 /\ b < Len(opened) /\ b + 1 = n
    BY <1>4, <1>5
  <2> HIDE DEF b
  <2>2. w \in 0..tree.size - 1 /\ Beats(tree.key, w, b)
    BY <1>4, <2>1, WinnerBeats
  <2>3. w \in Int /\ 0 <= w /\ w <= tree.size - 1
    BY <1>5, <2>2
  <2>4. tree.key[w] = Exhausted
    <3>1. CASE w < Len(opened)
      <4>1. w + 1 \in DOMAIN heads
        BY <1>5, <2>3, <3>1
      <4>2. heads[w + 1] = Exhausted
        BY <4>1 DEF End
      <4> QED
        BY <1>4, <2>2, <3>1, <4>2
    <3>2. CASE ~(w < Len(opened))
      BY <1>4, <2>2, <3>2
    <3> QED
      BY <3>1, <3>2
  <2>5. tree.key[b] = Exhausted
    BY <2>2, <2>4 DEF Beats
  <2> QED
    BY <1>4, <2>1, <2>5
<1>7. \A n \in Kids' : heads'[n] = Exhausted
  BY <1>1, <1>2, <1>6
<1> QED
  BY <1>1, <1>2, <1>3, <1>7 DEF MergeInv

\* What the invariant says of the stream is what one scan would give.
LEMMA StreamAgrees ==
  ASSUME MergeInv
  PROVE  MergeAgrees
<1>1. CASE merging \in {"no", "unprimed"}
  <2>1. stream = << >> /\ merging # "ended"
    BY <1>1 DEF MergeInv
  <2> QED
    BY <2>1 DEF MergeAgrees
<1>2. CASE merging \in {"primed", "ended"}
  <2>1. Opened /\ Fed /\ Delivered /\ InOrder
    BY <1>2 DEF MergeInv, Streaming
  <2> DEFINE sent == {stream[m] : m \in DOMAIN stream}
  <2>2. \A f \in AllEvents :
          \E n \in Kids : \E p \in DOMAIN opened[n] : f = EventAt(n, p)
    BY DEF AllEvents, EventAt, Kids
  <2>3. \A n \in Kids : \A p \in DOMAIN opened[n] : EventAt(n, p) \in AllEvents
    BY DEF AllEvents, EventAt, Kids
  <2>4. ASSUME NEW n \in Kids
        PROVE  /\ opened[n] \in Streams /\ DOMAIN opened[n] = 1..Len(opened[n])
               /\ Len(opened[n]) \in Nat /\ n \in Int /\ opened[n] \in Seq(Nat)
               /\ Unsent(n) \in Nat
               /\ heads[n] # Exhausted => Unsent(n) \in DOMAIN opened[n]
    BY <2>1, UnsentFacts
  <2>5. sent \subseteq AllEvents
    BY <2>1, <2>3 DEF Delivered
  <2>6. ASSUME NEW e \in sent, NEW f \in AllEvents, Before(f, e) PROVE f \in sent
    <3>1. PICK n \in Kids : \E p \in DOMAIN opened[n] : f = EventAt(n, p)
      BY <2>2
    <3>2. PICK p \in DOMAIN opened[n] : f = EventAt(n, p)
      BY <3>1
    <3>3. PICK m \in DOMAIN stream : e = stream[m]
      BY <2>6
    <3>4. PICK k \in Kids : \E q \in DOMAIN opened[k] : q < Unsent(k) /\ stream[m] = EventAt(k, q)
      BY <2>1, <3>3 DEF Delivered
    <3>5. PICK q \in DOMAIN opened[k] : q < Unsent(k) /\ e = EventAt(k, q)
      BY <3>3, <3>4
    <3>6. CASE p < Unsent(n)
      BY <2>1, <3>2, <3>6 DEF Delivered
    <3>7. CASE ~(p < Unsent(n))
      <4>1. p \in Int /\ Unsent(n) <= p /\ p <= Len(opened[n]) /\ Unsent(n) \in Int
        <5>1. /\ DOMAIN opened[n] = 1..Len(opened[n]) /\ Len(opened[n]) \in Nat
              /\ Unsent(n) \in Nat
          BY <2>4
        <5>2. p \in 1..Len(opened[n])
          BY <5>1
        <5>3. p \in Int /\ p <= Len(opened[n])
          BY <5>1, <5>2
        <5> QED
          BY <3>7, <5>1, <5>3
      <4>2. heads[n] # Exhausted
        BY <2>4, <4>1 DEF Unsent
      <4>3. Unsent(n) \in DOMAIN opened[n]
        BY <2>4, <4>2
      <4> DEFINE u == Unsent(n)
      <4>4. opened[n][u] <= opened[n][p] /\ opened[n][u] \in Nat /\ opened[n][p] \in Nat
        <5>1. opened[n] \in Streams /\ opened[n] \in Seq(Nat)
          BY <2>4
        <5> QED
          BY <4>1, <4>3, <5>1 DEF Streams
      <4>5. Before(e, EventAt(n, u))
        BY <2>1, <3>3, <4>2 DEF InOrder
      <4>6. opened[k][q] \in Nat /\ q \in Int /\ k \in Int /\ n \in Int
        <5>1. k \in Int /\ n \in Int /\ opened[k] \in Seq(Nat) /\ DOMAIN opened[k] = 1..Len(opened[k])
          BY <2>4
        <5> QED
          BY <5>1
      <4> HIDE DEF u
      <4>7. u \in Int /\ u <= p
        BY <4>1 DEF u
      <4> QED
        BY <2>6, <3>2, <3>5, <4>1, <4>4, <4>5, <4>6, <4>7 DEF Before, EventAt
    <3> QED
      BY <3>6, <3>7
  <2>7. ASSUME merging = "ended" PROVE AllEvents \subseteq sent
    <3> SUFFICES ASSUME NEW f \in AllEvents PROVE f \in sent
      OBVIOUS
    <3>1. PICK n \in Kids : \E p \in DOMAIN opened[n] : f = EventAt(n, p)
      BY <2>2
    <3>2. PICK p \in DOMAIN opened[n] : f = EventAt(n, p)
      BY <3>1
    <3>3. heads[n] = Exhausted
      BY <2>7 DEF MergeInv
    <3>4. p < Unsent(n)
      BY <2>4, <3>3 DEF Unsent
    <3> QED
      BY <2>1, <3>2, <3>4 DEF Delivered
  <2>8. \A m, n \in DOMAIN stream : m < n => Before(stream[m], stream[n])
    BY <2>1 DEF InOrder
  <2> HIDE DEF sent
  <2>9. merging = "ended" => sent = AllEvents
    BY <2>5, <2>7
  <2> QED
    BY <2>5, <2>6, <2>8, <2>9 DEF MergeAgrees, sent
<1> QED
  BY <1>1, <1>2 DEF MergeInv

\* Every step keeps the invariant.
LEMMA MergeStep ==
  ASSUME ChildrenSorted, MergeInv, [FeedNext]_feedVars
  PROVE  MergeInv'
<1>1. CASE Build
  BY <1>1, BuildKeeps
<1>2. CASE Prime
  BY <1>2, PrimeKeeps
<1>3. CASE Emit
  BY <1>3, EmitKeeps
<1>4. CASE End
  BY <1>4, EndKeeps
<1>5. CASE BatchNext /\ UNCHANGED mergeVars
  <2>1. Dealt'
    BY <1>5, BatchDeals DEF MergeInv
  <2> QED
    BY <1>5, <2>1, MergeStutter
<1>6. CASE UNCHANGED feedVars
  <2>1. Dealt' /\ UNCHANGED mergeVars
    BY <1>6 DEF MergeInv, feedVars, batchVars, Dealt
  <2> QED
    BY <2>1, MergeStutter
<1> QED
  BY <1>1, <1>2, <1>3, <1>4, <1>5, <1>6 DEF FeedNext, Merging

\* MergeSource hands the engine every event of the loaded series once, in the
\* order of time, then of the requests, then of each series - for any number of
\* series, each in the order of time, as MergeSource requires of its children.
THEOREM MergeIsOneScan == ChildrenSorted => (FeedSpec => []MergeAgrees)
<1> SUFFICES ASSUME ChildrenSorted PROVE FeedSpec => []MergeAgrees
  OBVIOUS
<1>1. FeedInit => MergeInv
  BY MergeInit
<1>2. MergeInv /\ [FeedNext]_feedVars => MergeInv'
  BY MergeStep
<1>3. MergeInv => MergeAgrees
  BY StreamAgrees
<1> QED
  BY <1>1, <1>2, <1>3, PTL DEF FeedSpec

-----------------------------------------------------------------------------
(* A page of settlements                                                    *)

\* The newest k of a set: no newer one is left out, there are no more than k,
\* and no fewer unless it is all.
LEMMA NewestFacts ==
  ASSUME NEW now \in Nat, NEW S \in SUBSET (0..now), NEW k \in Nat
  PROVE  /\ NewestOf(S, k) \subseteq S
         /\ \A t \in NewestOf(S, k), u \in S : t <= u => u \in NewestOf(S, k)
         /\ Cardinality(NewestOf(S, k)) \in Nat /\ Cardinality(NewestOf(S, k)) <= k
         /\ NewestOf(S, k) # S => Cardinality(NewestOf(S, k)) = k
<1> DEFINE N == NewestOf(S, k)
           Newer(t) == {u \in S : u > t}
<1>1. N = {t \in S : Cardinality(Newer(t)) < k}
  BY DEF NewestOf
<1>2. N \subseteq S /\ N \subseteq 0..now
  BY <1>1
<1>a. \A t \in S : t \in Nat
  OBVIOUS
<1>3. \A t : Newer(t) \subseteq S /\ IsFiniteSet(Newer(t)) /\ Cardinality(Newer(t)) \in Nat
  <2> SUFFICES ASSUME NEW t PROVE Newer(t) \subseteq S /\ IsFiniteSet(Newer(t)) /\ Cardinality(Newer(t)) \in Nat
    OBVIOUS
  <2>1. Newer(t) \subseteq S /\ Newer(t) \in SUBSET (0..now)
    OBVIOUS
  <2> HIDE DEF Newer
  <2> QED
    BY <2>1, Extremes
<1>4. ASSUME NEW t \in N, NEW u \in S, t <= u PROVE u \in N
  <2>1. Newer(u) \in SUBSET Newer(t)
    <3>1. t \in Nat /\ u \in Nat /\ t <= u
      BY <1>2, <1>a, <1>4
    <3>2. ASSUME NEW x \in Newer(u) PROVE x \in Newer(t)
      <4>1. x \in S /\ x > u /\ x \in Nat
        BY <1>a
      <4> QED
        BY <3>1, <4>1
    <3> HIDE DEF N, Newer
    <3> QED
      BY <3>2
  <2>2. Cardinality(Newer(u)) <= Cardinality(Newer(t))
    <3> HIDE DEF Newer
    <3> QED
      BY <1>3, <2>1, FS_Subset
  <2>3. Cardinality(Newer(t)) < k
    BY <1>1
  <2>4. Cardinality(Newer(u)) < k
    <3> HIDE DEF Newer
    <3> QED
      BY <1>3, <2>2, <2>3
  <2> QED
    BY <1>1, <2>4
<1>5. IsFiniteSet(N) /\ Cardinality(N) \in Nat
  <2> HIDE DEF N
  <2> QED
    BY <1>2, Extremes
<1>6. Cardinality(N) <= k
  <2>1. CASE N = {}
    BY <2>1, FS_EmptySet
  <2>2. CASE N # {}
    <3> HIDE DEF N
    <3>1. PICK w \in N : \A y \in N : w <= y
      BY <1>2, <2>2, Extremes
    <3>2. N \in SUBSET (Newer(w) \cup {w})
      BY <1>2, <3>1
    <3>3. w \notin Newer(w)
      BY <1>2
    <3> HIDE DEF Newer
    <3>4. Cardinality(Newer(w) \cup {w}) = Cardinality(Newer(w)) + 1 /\ IsFiniteSet(Newer(w) \cup {w})
      BY <1>3, <3>3, FS_AddElement
    <3>5. Cardinality(N) <= Cardinality(Newer(w)) + 1
      BY <3>2, <3>4, FS_Subset
    <3>6. Cardinality(Newer(w)) < k
      BY <1>1, <3>1
    <3> QED
      BY <1>3, <1>5, <3>5, <3>6
  <2> QED
    BY <2>1, <2>2
<1>7. ASSUME N # S PROVE Cardinality(N) >= k
  <2> DEFINE A == S \ N
  <2>1. A # {} /\ A \in SUBSET (0..now) /\ A \subseteq S /\ A \cap N = {}
    BY <1>2, <1>7
  <2> HIDE DEF N
  <2>2. \A u \in S : u \in A \/ u \in N
    OBVIOUS
  <2> HIDE DEF A
  <2>3. PICK m \in A : \A y \in A : y <= m
    BY <2>1, Extremes
  <2>4. Newer(m) \in SUBSET N
    <3>1. m \in Nat
      BY <1>a, <2>1
    <3>2. ASSUME NEW x \in Newer(m) PROVE x \in N
      <4>1. x \in S /\ x > m /\ x \in Nat
        BY <1>a
      <4> QED
        BY <2>2, <2>3, <3>1, <4>1
    <3> HIDE DEF Newer
    <3> QED
      BY <3>2
  <2> HIDE DEF Newer
  <2>5. ~(Cardinality(Newer(m)) < k)
    BY <1>1, <2>1, <2>3
  <2>6. Cardinality(Newer(m)) <= Cardinality(N)
    BY <1>5, <2>4, FS_Subset
  <2> QED
    BY <1>3, <1>5, <2>5, <2>6
<1> QED
  BY <1>2, <1>4, <1>5, <1>6, <1>7
\* The same of the oldest k.
LEMMA OldestFacts ==
  ASSUME NEW now \in Nat, NEW S \in SUBSET (0..now), NEW k \in Nat
  PROVE  /\ OldestOf(S, k) \subseteq S
         /\ \A t \in OldestOf(S, k), u \in S : u <= t => u \in OldestOf(S, k)
         /\ Cardinality(OldestOf(S, k)) \in Nat /\ Cardinality(OldestOf(S, k)) <= k
         /\ OldestOf(S, k) # S => Cardinality(OldestOf(S, k)) = k
<1> DEFINE N == OldestOf(S, k)
           Older(t) == {u \in S : u < t}
<1>1. N = {t \in S : Cardinality(Older(t)) < k}
  BY DEF OldestOf
<1>2. N \subseteq S /\ N \subseteq 0..now
  BY <1>1
<1>a. \A t \in S : t \in Nat
  OBVIOUS
<1>3. \A t : Older(t) \subseteq S /\ IsFiniteSet(Older(t)) /\ Cardinality(Older(t)) \in Nat
  <2> SUFFICES ASSUME NEW t PROVE Older(t) \subseteq S /\ IsFiniteSet(Older(t)) /\ Cardinality(Older(t)) \in Nat
    OBVIOUS
  <2>1. Older(t) \subseteq S /\ Older(t) \in SUBSET (0..now)
    OBVIOUS
  <2> HIDE DEF Older
  <2> QED
    BY <2>1, Extremes
<1>4. ASSUME NEW t \in N, NEW u \in S, u <= t PROVE u \in N
  <2>1. Older(u) \in SUBSET Older(t)
    <3>1. t \in Nat /\ u \in Nat /\ u <= t
      BY <1>2, <1>a, <1>4
    <3>2. ASSUME NEW x \in Older(u) PROVE x \in Older(t)
      <4>1. x \in S /\ x < u /\ x \in Nat
        BY <1>a
      <4> QED
        BY <3>1, <4>1
    <3> HIDE DEF N, Older
    <3> QED
      BY <3>2
  <2>2. Cardinality(Older(u)) <= Cardinality(Older(t))
    <3> HIDE DEF Older
    <3> QED
      BY <1>3, <2>1, FS_Subset
  <2>3. Cardinality(Older(t)) < k
    BY <1>1
  <2>4. Cardinality(Older(u)) < k
    <3> HIDE DEF Older
    <3> QED
      BY <1>3, <2>2, <2>3
  <2> QED
    BY <1>1, <2>4
<1>5. IsFiniteSet(N) /\ Cardinality(N) \in Nat
  <2> HIDE DEF N
  <2> QED
    BY <1>2, Extremes
<1>6. Cardinality(N) <= k
  <2>1. CASE N = {}
    BY <2>1, FS_EmptySet
  <2>2. CASE N # {}
    <3> HIDE DEF N
    <3>1. PICK w \in N : \A y \in N : y <= w
      BY <1>2, <2>2, Extremes
    <3>2. N \in SUBSET (Older(w) \cup {w})
      BY <1>2, <3>1
    <3>3. w \notin Older(w)
      BY <1>2
    <3> HIDE DEF Older
    <3>4. Cardinality(Older(w) \cup {w}) = Cardinality(Older(w)) + 1 /\ IsFiniteSet(Older(w) \cup {w})
      BY <1>3, <3>3, FS_AddElement
    <3>5. Cardinality(N) <= Cardinality(Older(w)) + 1
      BY <3>2, <3>4, FS_Subset
    <3>6. Cardinality(Older(w)) < k
      BY <1>1, <3>1
    <3> QED
      BY <1>3, <1>5, <3>5, <3>6
  <2> QED
    BY <2>1, <2>2
<1>7. ASSUME N # S PROVE Cardinality(N) >= k
  <2> DEFINE A == S \ N
  <2>1. A # {} /\ A \in SUBSET (0..now) /\ A \subseteq S /\ A \cap N = {}
    BY <1>2, <1>7
  <2> HIDE DEF N
  <2>2. \A u \in S : u \in A \/ u \in N
    OBVIOUS
  <2> HIDE DEF A
  <2>3. PICK m \in A : \A y \in A : m <= y
    BY <2>1, Extremes
  <2>4. Older(m) \in SUBSET N
    <3>1. m \in Nat
      BY <1>a, <2>1
    <3>2. ASSUME NEW x \in Older(m) PROVE x \in N
      <4>1. x \in S /\ x < m /\ x \in Nat
        BY <1>a
      <4> QED
        BY <2>2, <2>3, <3>1, <4>1
    <3> HIDE DEF Older
    <3> QED
      BY <3>2
  <2> HIDE DEF Older
  <2>5. ~(Cardinality(Older(m)) < k)
    BY <1>1, <2>1, <2>3
  <2>6. Cardinality(Older(m)) <= Cardinality(N)
    BY <1>5, <2>4, FS_Subset
  <2> QED
    BY <1>3, <1>5, <2>5, <2>6
<1> QED
  BY <1>2, <1>4, <1>5, <1>6, <1>7

\* More of the newest are the newest still.
LEMMA NewestGrow ==
  ASSUME NEW now \in Nat, NEW S \in SUBSET (0..now), NEW k \in Nat, NEW m \in Nat, k <= m
  PROVE  NewestOf(S, k) \subseteq NewestOf(S, m)
<1>1. ASSUME NEW t \in NewestOf(S, k) PROVE t \in NewestOf(S, m)
  <2> DEFINE Newer == {u \in S : u > t}
  <2>1. t \in S /\ Cardinality(Newer) < k
    BY DEF NewestOf
  <2>2. Newer \in SUBSET (0..now)
    OBVIOUS
  <2>3. Cardinality(Newer) < m
    <3> HIDE DEF Newer
    <3>1. Cardinality(Newer) \in Nat
      BY <2>2, Extremes
    <3> QED
      BY <2>1, <3>1
  <2> QED
    BY <2>1, <2>3 DEF NewestOf
<1> QED
  BY <1>1

\* A page by its number is empty only if those before it have all.
LEMMA PageFilled ==
  ASSUME NEW now \in Nat, NEW S \in SUBSET (0..now), NEW k \in Nat, NEW m \in Nat, k < m,
         NewestOf(S, m) \subseteq NewestOf(S, k)
  PROVE  NewestOf(S, k) = S
<1> DEFINE K == NewestOf(S, k)
           M == NewestOf(S, m)
<1>1. K \subseteq S /\ Cardinality(K) \in Nat /\ Cardinality(K) <= k
  BY NewestFacts
<1>2. /\ M \subseteq S /\ Cardinality(M) \in Nat
      /\ M # S => Cardinality(M) = m
  BY NewestFacts
<1>3. M \in SUBSET K
  OBVIOUS
<1>4. IsFiniteSet(K)
  <2>1. K \in SUBSET (0..now)
    BY <1>1
  <2> HIDE DEF K
  <2> QED
    BY <2>1, Extremes
<1> HIDE DEF K, M
<1>5. Cardinality(M) <= Cardinality(K)
  BY <1>3, <1>4, FS_Subset
<1>6. M = S
  BY <1>1, <1>2, <1>5
<1>7. K = S
  BY <1>1, <1>3, <1>6
<1> QED
  BY <1>7 DEF K

\* A page of a set that is not empty is not empty.
LEMMA PageNonempty ==
  ASSUME NEW now \in Nat, NEW S \in SUBSET (0..now), S # {}, NEW k \in Nat \ {0}
  PROVE  NewestOf(S, k) # {}
<1>1. NewestOf(S, k) # S => Cardinality(NewestOf(S, k)) = k
  BY NewestFacts
<1> QED
  BY <1>1, FS_EmptySet

\* What settles later is ahead of the newest.
LEMMA NewestLater ==
  ASSUME NEW now \in Nat, NEW S \in SUBSET (0..now), NEW k \in Nat, NEW t \in S,
         t \in NewestOf(S \cup {now + 1}, k)
  PROVE  t \in NewestOf(S, k)
<1> DEFINE Was == {u \in S : u > t}
           Is  == {u \in S \cup {now + 1} : u > t}
<1>1. Was \in SUBSET (0..now)
  OBVIOUS
<1>a. Is \in SUBSET (0..now + 1)
  <2>1. \A u \in S \cup {now + 1} : u \in 0..now + 1
    OBVIOUS
  <2> QED
    BY <2>1
<1>b. \A u \in Was : u \in Is
  OBVIOUS
<1>2. Cardinality(Is) < k
  BY DEF NewestOf
<1>3. Cardinality(Was) < k
  <2> HIDE DEF Was, Is
  <2>1. IsFiniteSet(Is) /\ Cardinality(Is) \in Nat /\ Cardinality(Was) \in Nat
    <3>1. now + 1 \in Nat
      OBVIOUS
    <3> QED
      BY <1>1, <1>a, <3>1, Extremes
  <2>2. Cardinality(Was) <= Cardinality(Is)
    <3>1. Was \in SUBSET Is
      BY <1>b
    <3> QED
      BY <2>1, <3>1, FS_Subset
  <2> QED
    BY <1>2, <2>1, <2>2
<1> QED
  BY <1>3 DEF NewestOf

-----------------------------------------------------------------------------
(* The loops, each page joined to what there is                             *)

\* A part of a set of times has no hole.
Convex(part, whole) ==
  /\ part \subseteq whole
  /\ \A t \in whole, a, b \in part : a <= t /\ t <= b => t \in part

\* A page asked for back from `edge`, where what there is begins, ...
BackFrom(now, S, lo, edge, k, got, R, page) ==
  /\ now \in Nat /\ S \in SUBSET (0..now) /\ lo \in Nat /\ edge \in Nat /\ k \in Nat \ {0}
  /\ Convex(got, S) /\ (got = {} \/ edge \in got) /\ \A t \in got : edge <= t /\ lo <= t
  /\ R \in SUBSET S /\ \A t \in S : t \in R <=> lo <= t /\ t < edge
  /\ page = NewestOf(R, k)

\* ... and what it brings.
BackTo(S, lo, edge, got, R, page) ==
  /\ Convex(got \cup page, S)
  /\ page \subseteq R
  /\ page = {} => \A t \in S : lo <= t => edge <= t
  /\ page # {} => /\ Min(page) \in page /\ \A t \in page : Min(page) <= t
                  /\ \A t \in S : lo <= t /\ t < edge /\ Min(page) <= t => t \in page

\* It leaves no hole.
LEMMA BackPage ==
  ASSUME NEW now, NEW S, NEW lo, NEW edge, NEW k, NEW got, NEW R, NEW page,
         BackFrom(now, S, lo, edge, k, got, R, page)
  PROVE  BackTo(S, lo, edge, got, R, page)
<1> USE DEF BackFrom
<1>0. \A t \in S : t \in Nat
  OBVIOUS
<1>1. R \in SUBSET (0..now) /\ R \subseteq S /\ \A t \in S : t \in R <=> lo <= t /\ t < edge
  OBVIOUS
<1>2. page = NewestOf(R, k)
  OBVIOUS
<1>3. page \subseteq R /\ \A t \in page, u \in R : t <= u => u \in page
  BY <1>1, <1>2, NewestFacts
<1>4. page = {} => R = {}
  BY <1>1, <1>2, PageNonempty
<1>5. page # {} => Min(page) \in page /\ \A t \in page : Min(page) <= t
  BY <1>1, <1>3, Extremes
<1>6. page = {} => \A t \in S : lo <= t => edge <= t
  BY <1>0, <1>1, <1>4
<1>7. ASSUME NEW t \in S, NEW a \in got \cup page, NEW b \in got \cup page, a <= t, t <= b
      PROVE  t \in got \cup page
  <2>0. a \in Nat /\ b \in Nat /\ t \in Nat /\ a \in S /\ b \in S
    BY <1>0, <1>1, <1>3 DEF Convex
  <2>1. CASE edge <= t
    <3>1. b \in got
      BY <1>1, <1>3, <1>7, <2>0, <2>1
    <3>2. edge \in got
      BY <3>1
    <3> QED
      BY <1>7, <2>1, <3>1, <3>2 DEF Convex
  <2>2. CASE t < edge
    <3>1. a \in page
      BY <1>7, <2>0, <2>2
    <3>2. lo <= t
      BY <1>1, <1>3, <1>7, <2>0, <3>1
    <3>3. t \in R
      BY <1>1, <2>2, <3>2
    <3> QED
      BY <1>3, <1>7, <3>1, <3>3
  <2> QED
    BY <2>0, <2>1, <2>2
<1>8. Convex(got \cup page, S)
  BY <1>1, <1>3, <1>7 DEF Convex
<1>9. page # {} => \A t \in S : lo <= t /\ t < edge /\ Min(page) <= t => t \in page
  BY <1>1, <1>3, <1>5
<1> QED
  BY <1>3, <1>5, <1>6, <1>8, <1>9 DEF BackTo

\* A page asked for on from `cursor`, up to which there is all, ...
OnFrom(now, S, lo, hi, cursor, k, got, R, page) ==
  /\ now \in Nat /\ S \in SUBSET (0..now) /\ lo \in Nat /\ hi \in Nat
  /\ cursor \in Nat /\ lo <= cursor /\ k \in Nat \ {0} /\ got \subseteq S
  /\ \A t \in got : lo <= t /\ t < cursor
  /\ \A t \in S : lo <= t /\ t < cursor => t \in got
  /\ R \in SUBSET S /\ \A t \in S : t \in R <=> t \in cursor..hi
  /\ page = OldestOf(R, k)

\* ... and what it brings.
OnTo(S, lo, hi, k, got, R, page) ==
  /\ Convex(got \cup page, S)
  /\ page \subseteq R
  /\ Cardinality(page) # k => \A t \in S : t \in lo..hi => t \in got \cup page
  /\ page # {} => /\ Max(page) \in page
                  /\ \A t \in page : t <= Max(page)
                  /\ \A t \in S : lo <= t /\ t <= Max(page) => t \in got \cup page

\* Nor does that.
LEMMA ForwardPage ==
  ASSUME NEW now, NEW S, NEW lo, NEW hi, NEW cursor, NEW k, NEW got, NEW R, NEW page,
         OnFrom(now, S, lo, hi, cursor, k, got, R, page)
  PROVE  OnTo(S, lo, hi, k, got, R, page)
<1> USE DEF OnFrom
<1>0. \A t \in S : t \in Nat
  OBVIOUS
<1>1. R \in SUBSET (0..now) /\ R \subseteq S /\ \A t \in S : t \in R <=> cursor <= t /\ t <= hi
  <2>1. R \in SUBSET (0..now) /\ R \subseteq S
    OBVIOUS
  <2>2. \A t \in S : t \in R <=> cursor <= t /\ t <= hi
    BY <1>0
  <2> QED
    BY <2>1, <2>2
<1>2. page = OldestOf(R, k)
  OBVIOUS
<1>3. /\ page \subseteq R /\ \A t \in page, u \in R : u <= t => u \in page
      /\ page # R => Cardinality(page) = k
  BY <1>1, <1>2, OldestFacts
<1>4. page # {} => Max(page) \in page /\ \A t \in page : t <= Max(page)
  BY <1>1, <1>3, Extremes
<1>5. Cardinality(page) # k => \A t \in S : t \in lo..hi => t \in got \cup page
  BY <1>0, <1>1, <1>3
<1>6. ASSUME NEW t \in S, NEW b \in page, lo <= t, t <= b PROVE t \in got \cup page
  <2>1. b <= hi /\ b \in Nat /\ t \in Nat
    BY <1>0, <1>1, <1>3
  <2>2. CASE t < cursor
    BY <1>6, <2>2
  <2>3. CASE cursor <= t
    BY <1>1, <1>3, <1>6, <2>1, <2>3
  <2> QED
    BY <2>1, <2>2, <2>3
<1>7. ASSUME NEW t \in S, NEW a \in got \cup page, NEW b \in got \cup page, a <= t, t <= b
      PROVE  t \in got \cup page
  <2>1. lo <= t
    BY <1>0, <1>1, <1>3, <1>7
  <2>2. CASE b \in page
    BY <1>6, <1>7, <2>1, <2>2
  <2>3. CASE b \in got
    BY <1>0, <1>7, <2>1, <2>3
  <2> QED
    BY <2>2, <2>3
<1>8. Convex(got \cup page, S)
  BY <1>1, <1>3, <1>7 DEF Convex
<1> QED
  BY <1>3, <1>4, <1>5, <1>6, <1>8 DEF OnTo

\* A page of a number, by the count before it and the count with it.
ByNumber(now, S, k, a, b, got, known, page) ==
  /\ now \in Nat /\ S \in SUBSET (0..now) /\ k \in Nat \ {0} /\ a \in Nat /\ b \in Nat
  /\ a + k = b /\ got \in SUBSET S /\ known \in SUBSET S
  /\ a = 0 <=> got = {}
  /\ got # {} => \A t \in known : \E g \in got : t <= g
  /\ \A t \in NewestOf(S, a), g \in got : t <= g => t \in got
  /\ \A t \in known, x, y \in got : x <= t /\ t <= y => t \in got
  /\ \A old \in known, t \in S : t \notin known => old < t
  /\ page = NewestOf(S, b) \ NewestOf(S, a)

\* One more page by number keeps what ByNumber says, and leaves no hole.
LEMMA NumberedPage ==
  ASSUME NEW now, NEW S, NEW k, NEW a, NEW b, NEW got, NEW known, NEW page,
         ByNumber(now, S, k, a, b, got, known, page)
  PROVE  /\ page \subseteq S
         /\ page = {} => known \subseteq got /\ Convex(got, S)
         /\ page # {} => \A t \in known : \E g \in got \cup page : t <= g
         /\ \A t \in NewestOf(S, b), g \in got \cup page : t <= g => t \in got \cup page
         /\ \A t \in known, x, y \in got \cup page : x <= t /\ t <= y => t \in got \cup page
         /\ Cardinality(S \ known) <= b => Convex(got \cup page, S)
<1> USE DEF ByNumber
<1> DEFINE A == NewestOf(S, a)
           B == NewestOf(S, b)
<1>0. \A t \in S : t \in Nat
  OBVIOUS
<1>1. /\ A \subseteq S /\ B \subseteq S /\ A \subseteq B /\ page = B \ A
      /\ \A t \in A, u \in S : t <= u => u \in A
      /\ \A t \in B, u \in S : t <= u => u \in B
  <2>1. A \subseteq S /\ \A t \in A, u \in S : t <= u => u \in A
    BY NewestFacts
  <2>2. B \subseteq S /\ \A t \in B, u \in S : t <= u => u \in B
    BY NewestFacts
  <2>3. A \subseteq B
    <3>1. a <= b
      OBVIOUS
    <3> QED
      BY <3>1, NewestGrow
  <2> QED
    BY <2>1, <2>2, <2>3
<1>2. B \subseteq A => A = S
  <2>1. a < b
    OBVIOUS
  <2> QED
    BY <2>1, PageFilled
<1>3. a = 0 => A = {}
  <2>1. IsFiniteSet(A) /\ Cardinality(A) <= a /\ Cardinality(A) \in Nat
    <3>1. A \in SUBSET (0..now) /\ Cardinality(A) <= a
      BY <1>1, NewestFacts
    <3> HIDE DEF A
    <3> QED
      BY <3>1, Extremes
  <2> HIDE DEF A
  <2> QED
    BY <2>1, FS_EmptySet
<1>4. ASSUME NEW t \in S, t \notin B, Cardinality(S \ known) <= b
      PROVE  t \in known
  <2> SUFFICES ASSUME t \notin known PROVE FALSE
    OBVIOUS
  <2> DEFINE Newer == {u \in S : u > t}
             Late  == S \ known
  <2>1. ~(Cardinality(Newer) < b)
    BY <1>4 DEF NewestOf
  <2>2. ASSUME NEW u \in Newer \cup {t} PROVE u \in Late
    <3>1. u \in S /\ t <= u
      BY <1>0
    <3>2. u \notin known
      BY <1>0, <3>1
    <3> QED
      BY <3>1, <3>2
  <2>3. t \notin Newer
    BY <1>0
  <2>4. Newer \in SUBSET (0..now) /\ Late \in SUBSET (0..now)
    OBVIOUS
  <2>5. Cardinality(Late) <= b
    BY <1>4
  <2> HIDE DEF Newer, Late
  <2>6. IsFiniteSet(Newer) /\ Cardinality(Newer) \in Nat /\ IsFiniteSet(Late)
        /\ Cardinality(Late) \in Nat
    BY <2>4, Extremes
  <2>7. Cardinality(Newer \cup {t}) = Cardinality(Newer) + 1
    BY <2>3, <2>6, FS_AddElement
  <2>8. Cardinality(Newer \cup {t}) <= Cardinality(Late)
    <3>1. Newer \cup {t} \in SUBSET Late
      BY <2>2
    <3> QED
      BY <2>6, <3>1, FS_Subset
  <2> QED
    BY <2>1, <2>5, <2>6, <2>7, <2>8
<1>a. \A t \in A, g \in got : t <= g => t \in got
  OBVIOUS
<1> HIDE DEF A, B
<1>5. ASSUME NEW t \in B, NEW g \in got \cup page, t <= g PROVE t \in got \cup page
  <2>1. CASE t \notin A
    BY <1>1, <2>1
  <2>2. CASE t \in A
    <3>1. g \in A
      BY <1>1, <1>5, <2>2
    <3>2. g \in got
      BY <1>1, <3>1
    <3> QED
      BY <1>5, <1>a, <2>2, <3>2
  <2> QED
    BY <2>1, <2>2
\* What is older than the page, and not older than all there is, is between.
<1>6. ASSUME NEW t \in S, t \notin B, NEW x \in got \cup page, x <= t PROVE x \in got
  BY <1>1, <1>6
<1>7. ASSUME NEW t \in known, NEW x \in got \cup page, NEW y \in got \cup page, x <= t, t <= y
      PROVE  t \in got \cup page
  <2>1. CASE t \in B
    BY <1>5, <1>7, <2>1
  <2>2. CASE t \notin B
    <3>1. x \in got
      BY <1>6, <1>7, <2>2
    <3>2. PICK g \in got : t <= g
      BY <3>1
    <3> QED
      BY <1>7, <3>1, <3>2
  <2> QED
    BY <2>1, <2>2
<1>8. ASSUME Cardinality(S \ known) <= b PROVE Convex(got \cup page, S)
  <2>1. ASSUME NEW t \in S, NEW x \in got \cup page, NEW y \in got \cup page, x <= t, t <= y
        PROVE  t \in got \cup page
    <3>1. CASE t \in B
      BY <1>5, <2>1, <3>1
    <3>2. CASE t \notin B
      BY <1>4, <1>7, <1>8, <2>1, <3>2
    <3> QED
      BY <3>1, <3>2
  <2> QED
    BY <1>1, <2>1 DEF Convex
<1>9. ASSUME page = {} PROVE known \subseteq got /\ Convex(got, S)
  <2>1. A = S
    BY <1>1, <1>2, <1>9
  <2>2. CASE got = {}
    BY <1>3, <2>1, <2>2 DEF Convex
  <2>3. CASE got # {}
    BY <1>a, <2>1, <2>3 DEF Convex
  <2> QED
    BY <2>2, <2>3
<1>10. ASSUME page # {} PROVE \A t \in known : \E g \in got \cup page : t <= g
  <2>1. CASE got # {}
    BY <2>1
  <2>2. CASE got = {}
    <3>1. A = {} /\ page = B /\ S # {}
      BY <1>1, <1>3, <1>10, <2>2
    <3>2. PICK m \in S : \A t \in S : t <= m
      BY <3>1, Extremes
    <3>3. m \in page
      BY <1>1, <1>10, <3>1, <3>2
    <3> QED
      BY <3>2, <3>3
  <2> QED
    BY <2>1, <2>2
<1> QED
  BY <1>1, <1>5, <1>7, <1>8, <1>9, <1>10 DEF B
-----------------------------------------------------------------------------
(* Where a loop stands                                                      *)

\* Back from the oldest settlement so far, or from the newest there is.
PagedSoFar(j) ==
  /\ \/ j.cursor = NoCursor /\ j.got = {}
     \/ j.cursor \in j.got
  /\ \A t \in j.got : j.cursor <= t
  /\ \A t \in j.opened : /\ j.cursor # NoCursor /\ j.cursor <= t
                         /\ t \in j.lo..j.hi
                         => t \in j.got

\* Back from just before the oldest, or from the window's end.
WindowSoFar(j) ==
  /\ \/ j.cursor = j.hi /\ j.got = {}
     \/ j.cursor + 1 \in j.got
  /\ \A t \in j.got : j.cursor < t /\ j.lo <= t
  /\ \A t \in j.opened : j.cursor < t /\ t \in j.lo..j.hi => t \in j.got

\* On from the window's start: nothing is missed, and what settles comes later.
ForwardSoFar(j) ==
  /\ j.lo <= j.cursor /\ (j.cursor = j.lo \/ j.cursor <= tick + 1)
  /\ \A t \in j.got : j.lo <= t /\ t < j.cursor
  /\ \A t \in settled : j.lo <= t /\ t < j.cursor => t \in j.got

\* By number.  What settles meanwhile moves the count, so that between the newest
\* so far and the others there may be holes; but none that a page to come does not
\* count, and none that is as old as the call.
NumberedSoFar(j) ==
  /\ j.page = 1 <=> j.got = {}
  /\ j.got # {} => \A t \in j.opened : \E g \in j.got : t <= g
  /\ \A t \in NewestOf(settled, (j.page - 1) * PageSize["mexc"]), g \in j.got :
       t <= g => t \in j.got
  /\ \A t \in j.opened, a, b \in j.got : a <= t /\ t <= b => t \in j.got

SoFar(j) ==
  /\ fetcher = "okx" => j.got = {}
  /\ fetcher = "okxPaged" => PagedSoFar(j)
  /\ fetcher \in {"bybit", "kucoin"} => WindowSoFar(j)
  /\ fetcher = "binance" => ForwardSoFar(j)
  /\ fetcher = "mexc" => NumberedSoFar(j)

PerpShape ==
  /\ job = [stage |-> job.stage, lo |-> job.lo, hi |-> job.hi, cursor |-> job.cursor,
            page |-> job.page, got |-> job.got, barsPerFunding |-> job.barsPerFunding,
            opened |-> job.opened, fresh |-> job.fresh, ranOut |-> job.ranOut,
            hidden |-> job.hidden]
  /\ fetcher \in Fetchers
  /\ tick \in Nat /\ settled \subseteq 0..tick
  /\ job.lo \in Nat /\ job.hi \in Nat /\ job.cursor \in Int /\ job.page \in Nat \ {0}
  /\ job.opened \subseteq settled
  /\ \A old \in job.opened, t \in settled : t \notin job.opened => old < t

Covers ==
  ~(job.ranOut \/ job.hidden \/ fetcher = "okx") => InWindow(job.opened) \subseteq job.got

PerpInv ==
  /\ PerpShape
  /\ job.stage = "funding" => job.got = {} /\ job.page = 1 /\ ~job.fresh
  /\ job.stage = "paging" => job.fresh /\ SoFar(job)
  /\ job.fresh => job.got \subseteq settled
  /\ job.fresh /\ ~(fetcher = "mexc" /\ job.stage = "paging") => Convex(job.got, settled)
  /\ job.stage \in {"fetched", "read", "ready"} /\ job.fresh => Covers
  /\ job.stage = "ready" /\ job.fresh => /\ job.got # {}
                                         /\ job.barsPerFunding = Period(job.got)

\* MEXC's pages are numbered: while one call pages, the venue settles no more
\* than all its pages hold.
FewSettle ==
  fetcher = "mexc" /\ job.stage = "paging" =>
    Cardinality(settled \ job.opened) <= MaxPages * PageSize["mexc"]

\* What a page must do to the loop.
NextPage(page) ==
  [job EXCEPT !.got = @ \cup page, !.page = @ + 1, !.cursor = NextCursor(page)]

Joins(page) ==
  /\ page \subseteq settled
  /\ GoesOn(page) => SoFar(NextPage(page))
  /\ ~GoesOn(page) \/ job.page = MaxPages \/ fetcher # "mexc" =>
       Convex(job.got \cup page, settled)
  /\ ~GoesOn(page) /\ fetcher # "okx" => InWindow(job.opened) \subseteq job.got \cup page

\* The loop's locals after a page.
LEMMA NextPageFields ==
  ASSUME PerpShape, NEW page
  PROVE  LET g == NextPage(page)
         IN  /\ g.got = job.got \cup page /\ g.page = job.page + 1 /\ g.cursor = NextCursor(page)
             /\ g.lo = job.lo /\ g.hi = job.hi /\ g.opened = job.opened
  BY DEF PerpShape, NextPage

\* What is asked of the venue is past.
LEMMA PerpTypes ==
  ASSUME PerpInv
  PROVE  /\ tick \in Nat /\ settled \in SUBSET (0..tick) /\ settled \subseteq Nat
         /\ job.lo \in Nat /\ job.hi \in Nat /\ job.cursor \in Int /\ job.page \in Nat \ {0}
         /\ job.opened \in SUBSET settled
         /\ \A l \in Loops : PageSize[l] \in Nat \ {0}
         /\ fetcher \in Loops
  BY PerpAssumption DEF PerpInv, PerpShape

\* OKX's one page is the newest there is.
LEMMA OkxJoins ==
  ASSUME PerpInv, job.stage = "paging", fetcher = "okx"
  PROVE  Joins(OkxPage)
<1> USE PerpTypes
<1>1. PageSize["okx"] \in Nat
  BY DEF Loops
<1>2. /\ OkxPage \subseteq settled
      /\ \A t \in OkxPage, u \in settled : t <= u => u \in OkxPage
  BY <1>1, NewestFacts DEF OkxPage
<1>3. job.got = {}
  BY DEF PerpInv, SoFar
<1>4. Convex(job.got \cup OkxPage, settled)
  BY <1>2, <1>3 DEF Convex
<1>5. ~GoesOn(OkxPage)
  BY DEF GoesOn
<1> QED
  BY <1>2, <1>4, <1>5 DEF Joins

\* OKX by cursor: back from the oldest so far.
LEMMA PagedJoins ==
  ASSUME PerpInv, job.stage = "paging", fetcher = "okxPaged"
  PROVE  Joins(OkxPagedPage)
<1> USE PerpTypes DEF NoCursor
<1>1. /\ (job.cursor = NoCursor /\ job.got = {}) \/ job.cursor \in job.got
      /\ \A t \in job.got : job.cursor <= t
      /\ \A t \in job.opened : /\ job.cursor # NoCursor /\ job.cursor <= t
                               /\ t \in job.lo..job.hi
                               => t \in job.got
      /\ Convex(job.got, settled) /\ job.got \subseteq settled
  BY DEF PerpInv, SoFar, PagedSoFar
<1>2. PICK edge \in Nat : edge = IF job.cursor = NoCursor THEN tick + 1 ELSE job.cursor
  <2>1. job.cursor # NoCursor => job.cursor \in Nat
    BY <1>1
  <2> QED
    BY <2>1
<1>3. PICK page : page = OkxPagedPage
  OBVIOUS
<1>4. PICK R \in SUBSET settled :
        /\ \A t \in settled : t \in R <=> 0 <= t /\ t < edge
        /\ page = NewestOf(R, PageSize["okxPaged"])
  <2> DEFINE R == {t \in settled : job.cursor = NoCursor \/ t < job.cursor}
  <2>1. \A t \in settled : t \in R <=> 0 <= t /\ t < edge
    BY <1>2
  <2>2. page = NewestOf(R, PageSize["okxPaged"])
    BY <1>3 DEF OkxPagedPage
  <2>3. R \in SUBSET settled
    OBVIOUS
  <2> HIDE DEF R
  <2> QED
    BY <2>1, <2>2, <2>3
<1>5. /\ Convex(job.got \cup page, settled)
      /\ page \subseteq R
      /\ page = {} => \A t \in settled : 0 <= t => edge <= t
      /\ page # {} => /\ Min(page) \in page /\ \A t \in page : Min(page) <= t
                      /\ \A t \in settled : 0 <= t /\ t < edge /\ Min(page) <= t => t \in page
  <2>1. job.got = {} \/ edge \in job.got
    BY <1>1, <1>2
  <2>2. \A t \in job.got : edge <= t /\ 0 <= t
    BY <1>1, <1>2
  <2>3. PageSize["okxPaged"] \in Nat \ {0}
    <3>1. "okxPaged" \in Loops
      BY DEF Loops
    <3> QED
      BY <3>1
  <2> QED
    <3>1. PICK now, S, got, n :
            now = tick /\ S = settled /\ got = job.got /\ n = PageSize["okxPaged"]
      OBVIOUS
    <3>2. BackFrom(now, S, 0, edge, n, got, R, page)
      BY <1>1, <1>4, <2>1, <2>2, <2>3, <3>1 DEF BackFrom, Convex
    <3>3. BackTo(S, 0, edge, got, R, page)
      BY <3>2, BackPage
    <3> QED
      BY <3>1, <3>3 DEF BackTo, Convex
<1>6. page # {} => Min(page) \in Nat /\ Min(page) < edge /\ Min(page) \in settled
  BY <1>4, <1>5
<1>7. \A t \in job.opened : edge <= t /\ t \in job.lo..job.hi => t \in job.got
  BY <1>1, <1>2
<1>8. page # {} => OkxPagedGoesOn(page)
  BY <1>2, <1>6 DEF OkxPagedGoesOn
<1>9. GoesOn(page) <=> page # {}
  BY <1>8 DEF GoesOn
<1>10. ASSUME page = {} PROVE InWindow(job.opened) \subseteq job.got
  BY <1>5, <1>7, <1>10 DEF InWindow
<1>11. ASSUME page # {} PROVE SoFar(NextPage(page))
  <2>1. PICK g : g = NextPage(page)
    OBVIOUS
  <2>2. /\ g.got = job.got \cup page /\ g.cursor = Min(page)
        /\ g.lo = job.lo /\ g.hi = job.hi /\ g.opened = job.opened
    BY <2>1, NextPageFields DEF PerpInv, NextCursor
  <2>3. g.cursor \in g.got
    BY <1>5, <1>11, <2>2
  <2>4. \A t \in g.got : g.cursor <= t
    <3>1. \A t \in job.got : edge <= t /\ t \in Nat
      BY <1>1, <1>2
    <3> QED
      BY <1>5, <1>6, <1>11, <2>2, <3>1
  <2>5. ASSUME NEW t \in job.opened, Min(page) <= t, t \in job.lo..job.hi
        PROVE  t \in job.got \cup page
    <3>1. t \in settled /\ t \in Nat
      OBVIOUS
    <3>2. CASE t < edge
      BY <1>5, <1>11, <2>5, <3>1, <3>2
    <3>3. CASE edge <= t
      BY <1>7, <2>5, <3>3
    <3> QED
      BY <3>1, <3>2, <3>3
  <2>6. PagedSoFar(g)
    BY <2>2, <2>3, <2>4, <2>5 DEF PagedSoFar
  <2> QED
    BY <2>1, <2>6 DEF SoFar
<1> QED
  BY <1>3, <1>5, <1>9, <1>10, <1>11 DEF Joins

\* Bybit and KuCoin: back from before the oldest, down to the window's start.
LEMMA WindowJoins ==
  ASSUME PerpInv, job.stage = "paging", fetcher \in {"bybit", "kucoin"}, NEW page,
         page = NewestOf({t \in settled : t \in job.lo..job.cursor}, PageSize[fetcher])
  PROVE  Joins(page)
<1> USE PerpTypes
<1>1. /\ (job.cursor = job.hi /\ job.got = {}) \/ job.cursor + 1 \in job.got
      /\ \A t \in job.got : job.cursor < t /\ job.lo <= t
      /\ \A t \in job.opened : job.cursor < t /\ t \in job.lo..job.hi => t \in job.got
      /\ Convex(job.got, settled) /\ job.got \subseteq settled
  BY DEF PerpInv, SoFar, WindowSoFar
<1>2. PICK edge \in Nat : edge = job.cursor + 1
  BY <1>1
<1>4. PICK R \in SUBSET settled :
        /\ \A t \in settled : t \in R <=> job.lo <= t /\ t < edge
        /\ page = NewestOf(R, PageSize[fetcher])
  <2> DEFINE R == {t \in settled : t \in job.lo..job.cursor}
  <2>1. \A t \in settled : t \in R <=> job.lo <= t /\ t < edge
    BY <1>2
  <2>2. page = NewestOf(R, PageSize[fetcher]) /\ R \in SUBSET settled
    OBVIOUS
  <2> HIDE DEF R
  <2> QED
    BY <2>1, <2>2
<1>5. /\ Convex(job.got \cup page, settled)
      /\ page \subseteq R
      /\ page = {} => \A t \in settled : job.lo <= t => edge <= t
      /\ page # {} => /\ Min(page) \in page /\ \A t \in page : Min(page) <= t
                      /\ \A t \in settled : job.lo <= t /\ t < edge /\ Min(page) <= t => t \in page
  <2>1. job.got = {} \/ edge \in job.got
    BY <1>1, <1>2
  <2>2. \A t \in job.got : edge <= t /\ job.lo <= t
    BY <1>1, <1>2
  <2> QED
    <3>1. PICK now, S, lo, got, n :
            /\ now = tick /\ S = settled /\ lo = job.lo /\ got = job.got
            /\ n = PageSize[fetcher]
      OBVIOUS
    <3>2. BackFrom(now, S, lo, edge, n, got, R, page)
      BY <1>1, <1>4, <2>1, <2>2, <3>1 DEF BackFrom, Convex
    <3>3. BackTo(S, lo, edge, got, R, page)
      BY <3>2, BackPage
    <3> QED
      BY <3>1, <3>3 DEF BackTo, Convex
<1>6. page # {} => Min(page) \in Nat /\ Min(page) < edge /\ Min(page) \in settled /\ job.lo <= Min(page)
  BY <1>4, <1>5
<1>7. \A t \in job.opened : edge <= t /\ t \in job.lo..job.hi => t \in job.got
  BY <1>1, <1>2
<1>8. GoesOn(page) <=> page # {} /\ job.lo < Min(page)
  <2>1. NextCursor(page) = Min(page) - 1
    BY DEF NextCursor
  <2>3. ASSUME page # {} PROVE NextCursor(page) < job.cursor
    BY <1>2, <1>6, <2>1, <2>3
  <2> QED
    BY <2>3 DEF GoesOn, BybitGoesOn, KucoinGoesOn
<1>9. ASSUME NEW t \in job.opened, page # {}, Min(page) <= t, t \in job.lo..job.hi
      PROVE  t \in job.got \cup page
  <2>1. t \in settled /\ t \in Nat /\ job.lo <= t
    BY <1>9
  <2>2. CASE t < edge
    BY <1>5, <1>9, <2>1, <2>2
  <2>3. CASE edge <= t
    BY <1>7, <1>9, <2>3
  <2> QED
    BY <2>1, <2>2, <2>3
<1>10. ASSUME ~GoesOn(page) PROVE InWindow(job.opened) \subseteq job.got \cup page
  <2>1. CASE page = {}
    BY <1>5, <1>7, <2>1 DEF InWindow
  <2>2. CASE page # {}
    <3>1. Min(page) = job.lo
      BY <1>6, <1>8, <1>10, <2>2
    <3> QED
      BY <1>9, <2>2, <3>1 DEF InWindow
  <2> QED
    BY <2>1, <2>2
<1>11. ASSUME GoesOn(page) PROVE SoFar(NextPage(page))
  <2>0. page # {}
    BY <1>8, <1>11
  <2>1. PICK g : g = NextPage(page)
    OBVIOUS
  <2>2. /\ g.got = job.got \cup page /\ g.cursor = Min(page) - 1
        /\ g.lo = job.lo /\ g.hi = job.hi /\ g.opened = job.opened
    BY <2>1, NextPageFields DEF PerpInv, NextCursor
  <2>3. g.cursor + 1 \in g.got
    BY <1>5, <1>6, <2>0, <2>2
  <2>4. \A t \in g.got : g.cursor < t /\ g.lo <= t
    <3>1. \A t \in job.got : edge <= t /\ t \in Nat /\ job.lo <= t
      BY <1>1, <1>2
    <3>2. \A t \in page : Min(page) <= t /\ t \in Nat /\ job.lo <= t
      BY <1>4, <1>5, <2>0
    <3> QED
      BY <1>6, <2>0, <2>2, <3>1, <3>2
  <2>5. ASSUME NEW t \in g.opened, g.cursor < t, t \in g.lo..g.hi PROVE t \in g.got
    <3>1. t \in Nat /\ Min(page) \in Nat
      BY <1>6, <2>0, <2>2
    <3>2. Min(page) <= t
      BY <2>2, <2>5, <3>1
    <3> QED
      BY <1>9, <2>0, <2>2, <2>5, <3>2
  <2>6. WindowSoFar(g)
    BY <2>2, <2>3, <2>4, <2>5 DEF WindowSoFar
  <2> QED
    BY <2>1, <2>6 DEF SoFar
<1> QED
  BY <1>5, <1>10, <1>11 DEF Joins

\* Binance: on from after the newest, up to the window's end.
LEMMA ForwardJoins ==
  ASSUME PerpInv, job.stage = "paging", fetcher = "binance"
  PROVE  Joins(BinancePage)
<1> USE PerpTypes
<1>1. /\ job.lo <= job.cursor /\ (job.cursor = job.lo \/ job.cursor <= tick + 1)
      /\ \A t \in job.got : job.lo <= t /\ t < job.cursor
      /\ \A t \in settled : job.lo <= t /\ t < job.cursor => t \in job.got
      /\ job.got \subseteq settled
  BY DEF PerpInv, SoFar, ForwardSoFar
<1>2. job.cursor \in Nat
  BY <1>1
<1>3. PICK page : page = BinancePage
  OBVIOUS
<1>4. PageSize["binance"] \in Nat \ {0}
  BY DEF Loops
<1>a. PICK R \in SUBSET settled :
        /\ \A t \in settled : t \in R <=> t \in job.cursor..job.hi
        /\ page = OldestOf(R, PageSize["binance"])
  <2> DEFINE R == {t \in settled : t \in job.cursor..job.hi}
  <2>1. \A t \in settled : t \in R <=> t \in job.cursor..job.hi
    OBVIOUS
  <2>2. page = OldestOf(R, PageSize["binance"]) /\ R \in SUBSET settled
    BY <1>3 DEF BinancePage
  <2> HIDE DEF R
  <2> QED
    BY <2>1, <2>2
<1>5. /\ Convex(job.got \cup page, settled)
      /\ page \subseteq R
      /\ Cardinality(page) # PageSize["binance"] =>
           \A t \in settled : t \in job.lo..job.hi => t \in job.got \cup page
      /\ page # {} => /\ Max(page) \in page
                      /\ \A t \in page : t <= Max(page)
                      /\ \A t \in settled : job.lo <= t /\ t <= Max(page) => t \in job.got \cup page
  <2>1. PICK now, S, lo, hi, cursor, got, n :
          /\ now = tick /\ S = settled /\ lo = job.lo /\ hi = job.hi /\ cursor = job.cursor
          /\ got = job.got /\ n = PageSize["binance"]
    OBVIOUS
  <2>2. OnFrom(now, S, lo, hi, cursor, n, got, R, page)
    BY <1>1, <1>2, <1>4, <1>a, <2>1 DEF OnFrom
  <2>3. OnTo(S, lo, hi, n, got, R, page)
    BY <2>2, ForwardPage
  <2> QED
    BY <2>1, <2>3 DEF OnTo, Convex
<1>6. page # {} => /\ Max(page) \in Nat /\ Max(page) <= job.hi /\ job.cursor <= Max(page)
                   /\ Max(page) <= tick
  BY <1>2, <1>a, <1>5
<1>7. GoesOn(page) <=> /\ page # {} /\ Cardinality(page) = PageSize["binance"]
                       /\ Max(page) < job.hi
  <2>1. NextCursor(page) = Max(page) + 1
    BY DEF NextCursor
  <2>2. page # {} => job.cursor < NextCursor(page)
    BY <1>2, <1>6, <2>1
  <2> QED
    BY <2>2 DEF GoesOn, BinanceGoesOn
<1>8. ASSUME ~GoesOn(page) PROVE InWindow(job.opened) \subseteq job.got \cup page
  <2>1. CASE Cardinality(page) # PageSize["binance"]
    BY <1>5, <2>1 DEF InWindow
  <2>2. CASE Cardinality(page) = PageSize["binance"]
    <3>1. page # {}
      BY <1>4, <2>2, FS_EmptySet
    <3>2. Max(page) = job.hi
      BY <1>6, <1>7, <1>8, <2>2, <3>1
    <3> QED
      BY <1>5, <3>1, <3>2 DEF InWindow
  <2> QED
    BY <2>1, <2>2
<1>9. ASSUME GoesOn(page) PROVE SoFar(NextPage(page))
  <2>0. page # {}
    BY <1>7, <1>9
  <2>1. PICK g : g = NextPage(page)
    OBVIOUS
  <2>2. /\ g.got = job.got \cup page /\ g.cursor = Max(page) + 1
        /\ g.lo = job.lo /\ g.hi = job.hi /\ g.opened = job.opened
    BY <2>1, NextPageFields DEF PerpInv, NextCursor
  <2>3. g.lo <= g.cursor /\ g.cursor <= tick + 1
    BY <1>1, <1>2, <1>6, <2>0, <2>2
  <2>4. \A t \in g.got : g.lo <= t /\ t < g.cursor
    <3>1. ASSUME NEW t \in job.got PROVE job.lo <= t /\ t < Max(page) + 1
      <4>1. job.lo <= t /\ t < job.cursor /\ t \in Nat
        BY <1>1
      <4> QED
        BY <1>2, <1>6, <2>0, <4>1
    <3>2. ASSUME NEW t \in page PROVE job.lo <= t /\ t < Max(page) + 1
      <4>1. t <= Max(page) /\ t \in Nat /\ job.cursor <= t
        BY <1>2, <1>a, <1>5, <2>0
      <4> QED
        BY <1>1, <1>2, <1>6, <2>0, <4>1
    <3> QED
      BY <2>2, <3>1, <3>2
  <2>5. ASSUME NEW t \in settled, g.lo <= t, t < g.cursor PROVE t \in g.got
    <3>1. t <= Max(page)
      BY <1>6, <2>0, <2>2, <2>5
    <3> QED
      BY <1>5, <2>0, <2>2, <2>5, <3>1
  <2>6. ForwardSoFar(g)
    BY <2>3, <2>4, <2>5 DEF ForwardSoFar
  <2> QED
    BY <2>1, <2>6 DEF SoFar
<1> QED
  BY <1>3, <1>5, <1>8, <1>9 DEF Joins

\* One page more.
LEMMA PageMore ==
  ASSUME NEW p \in Nat \ {0}, NEW n \in Nat \ {0}
  PROVE  /\ (p - 1) * n \in Nat /\ p * n \in Nat /\ (p - 1) * n + n = p * n
         /\ (p - 1) * n = 0 <=> p = 1
<1>1. PICK q \in Nat : p = q + 1
  <2>1. p - 1 \in Nat /\ p = (p - 1) + 1
    OBVIOUS
  <2> QED
    BY <2>1
<1>2. q * n \in Nat /\ (q + 1) * n = q * n + n
  OBVIOUS
<1>3. q * n = 0 <=> q = 0
  <2>1. q # 0 => q * n >= n
    <3>1. ASSUME q # 0 PROVE q * n >= n
      <4>1. PICK r \in Nat : q = r + 1
        <5>1. q - 1 \in Nat /\ q = (q - 1) + 1
          BY <3>1
        <5> QED
          BY <5>1
      <4>2. q * n = r * n + n /\ r * n \in Nat
        BY <4>1
      <4> QED
        BY <4>2
    <3> QED
      BY <3>1
  <2> QED
    BY <1>2, <2>1
<1>4. p - 1 = q
  BY <1>1
<1> QED
  BY <1>1, <1>2, <1>3, <1>4

\* MEXC: the next number.
LEMMA NumberedJoins ==
  ASSUME PerpInv, job.stage = "paging", fetcher = "mexc", FewSettle
  PROVE  Joins(MexcPage)
<1> USE PerpTypes
<1>1. PICK n \in Nat \ {0} : n = PageSize["mexc"]
  BY DEF Loops
<1>a. PICK p \in Nat \ {0} : p = job.page
  OBVIOUS
<1>2. PICK a \in Nat : a = (p - 1) * n
  BY PageMore
<1>3. PICK b \in Nat : b = p * n
  BY PageMore
<1>4. a + n = b /\ (a = 0 <=> p = 1)
  BY <1>2, <1>3, PageMore
<1>5. PICK page : page = MexcPage
  OBVIOUS
<1>6. page = NewestOf(settled, b) \ NewestOf(settled, a)
  BY <1>1, <1>a, <1>2, <1>3, <1>5 DEF MexcPage
<1>7. /\ job.page = 1 <=> job.got = {}
      /\ job.got # {} => \A t \in job.opened : \E g \in job.got : t <= g
      /\ \A t \in NewestOf(settled, a), g \in job.got : t <= g => t \in job.got
      /\ \A t \in job.opened, x, y \in job.got : x <= t /\ t <= y => t \in job.got
      /\ \A old \in job.opened, t \in settled : t \notin job.opened => old < t
      /\ job.got \in SUBSET settled
  BY <1>1, <1>a, <1>2 DEF PerpInv, PerpShape, SoFar, NumberedSoFar
<1>8. /\ page \subseteq settled
      /\ page = {} => job.opened \subseteq job.got /\ Convex(job.got, settled)
      /\ page # {} => \A t \in job.opened : \E g \in job.got \cup page : t <= g
      /\ \A t \in NewestOf(settled, b), g \in job.got \cup page :
           t <= g => t \in job.got \cup page
      /\ \A t \in job.opened, x, y \in job.got \cup page :
           x <= t /\ t <= y => t \in job.got \cup page
      /\ Cardinality(settled \ job.opened) <= b => Convex(job.got \cup page, settled)
  <2>1. PICK now, S, got, known :
          now = tick /\ S = settled /\ got = job.got /\ known = job.opened
    OBVIOUS
  <2>2. NewestOf(S, a) = NewestOf(settled, a) /\ NewestOf(S, b) = NewestOf(settled, b)
    BY <2>1
  <2>3. ByNumber(now, S, n, a, b, got, known, page)
    BY <1>a, <1>4, <1>6, <1>7, <2>1, <2>2 DEF ByNumber
  <2>4. /\ page \subseteq S
        /\ page = {} => known \subseteq got /\ Convex(got, S)
        /\ page # {} => \A t \in known : \E g \in got \cup page : t <= g
        /\ \A t \in NewestOf(S, b), g \in got \cup page : t <= g => t \in got \cup page
        /\ \A t \in known, x, y \in got \cup page : x <= t /\ t <= y => t \in got \cup page
        /\ Cardinality(S \ known) <= b => Convex(got \cup page, S)
    BY ONLY <2>3, NumberedPage
  <2> QED
    BY <2>1, <2>2, <2>4 DEF Convex
<1>9. GoesOn(page) <=> page # {}
  BY DEF GoesOn
<1>10. job.page = MaxPages => Cardinality(settled \ job.opened) <= b
  BY <1>1, <1>a, <1>3 DEF FewSettle
<1>11. ASSUME page # {} PROVE SoFar(NextPage(page))
  <2>1. PICK g : g = NextPage(page)
    OBVIOUS
  <2>2. g.got = job.got \cup page /\ g.page = job.page + 1 /\ g.opened = job.opened
    BY <2>1, NextPageFields DEF PerpInv
  <2>3. (g.page - 1) * PageSize["mexc"] = b
    <3>1. g.page - 1 = p
      BY <1>a, <2>2
    <3> QED
      BY <1>1, <1>3, <3>1
  <2>4. NumberedSoFar(g)
    BY <1>8, <1>11, <2>2, <2>3 DEF NumberedSoFar
  <2> QED
    BY <2>1, <2>4 DEF SoFar
<1> QED
  BY <1>5, <1>8, <1>9, <1>10, <1>11 DEF Joins, InWindow

-----------------------------------------------------------------------------
(* The steps                                                                *)

\* There is no call at first.
LEMMA PerpInitInv == PerpInit => PerpInv
<1> SUFFICES ASSUME PerpInit PROVE PerpInv
  OBVIOUS
<1>1. Max(FirstSettled) \in FirstSettled /\ \A t \in FirstSettled : t <= Max(FirstSettled)
  <2>1. /\ FirstSettled \subseteq Nat
        /\ \E newest \in FirstSettled : \A t \in FirstSettled : t <= newest
    BY PerpAssumption
  <2>2. \E newest \in FirstSettled : \A t \in FirstSettled : newest >= t
    BY <2>1
  <2>3. Max(FirstSettled) \in FirstSettled /\ \A t \in FirstSettled : Max(FirstSettled) >= t
    BY <2>2 DEF Max
  <2> QED
    BY <2>1, <2>3
<1>2. tick \in Nat /\ settled \subseteq 0..tick
  <2>1. FirstSettled \subseteq Nat
    BY PerpAssumption
  <2>2. tick = Max(FirstSettled) /\ settled \subseteq FirstSettled
    BY DEF PerpInit
  <2>3. PICK newest \in Nat : newest = Max(FirstSettled)
    BY <1>1, <2>1
  <2>4. \A t \in settled : t \in Nat /\ t <= newest
    BY <1>1, <2>1, <2>2, <2>3
  <2> QED
    BY <2>2, <2>3, <2>4
<1>3. job = NoJob /\ fetcher \in Fetchers
  BY DEF PerpInit
<1>4. PerpShape
  BY <1>2, <1>3 DEF PerpShape, NoJob, NoCursor
<1> QED
  BY <1>3, <1>4 DEF PerpInv, NoJob

\* What settles is newer than all there is.
LEMMA VenueSettlesKeeps == PerpInv /\ VenueSettles => PerpInv'
<1> SUFFICES ASSUME PerpInv, VenueSettles PROVE PerpInv'
  OBVIOUS
<1>1. /\ tick \in Nat /\ settled \in SUBSET (0..tick) /\ settled \subseteq Nat
      /\ job.lo \in Nat /\ job.hi \in Nat /\ job.cursor \in Int /\ job.page \in Nat \ {0}
      /\ job.opened \in SUBSET settled
      /\ \A l \in Loops : PageSize[l] \in Nat \ {0}
      /\ fetcher \in Loops
  BY PerpTypes
<1>2. /\ tick' = tick + 1 /\ settled' \in {settled, settled \cup {tick + 1}}
      /\ job' = job /\ fetcher' = fetcher
  BY DEF VenueSettles
<1>3. settled \subseteq settled' /\ \A t \in settled' : t \in settled \/ t = tick + 1
  BY <1>2
<1>4. \A t \in settled : t <= tick /\ t \in Nat
  BY <1>1
<1>5. PerpShape'
  <2>1. PerpShape
    BY DEF PerpInv
  <2>2. settled' \subseteq 0..tick'
    BY <1>1, <1>2, <1>3, <1>4
  <2>3. \A old \in job.opened, t \in settled' : t \notin job.opened => old < t
    <3> SUFFICES ASSUME NEW old \in job.opened, NEW t \in settled', t \notin job.opened
                 PROVE  old < t
      OBVIOUS
    <3>1. CASE t \in settled
      BY <2>1, <3>1 DEF PerpShape
    <3>2. CASE t = tick + 1
      <4>1. old \in settled
        BY <1>1
      <4> QED
        BY <1>1, <1>4, <3>2, <4>1
    <3> QED
      BY <1>3, <3>1, <3>2
  <2> QED
    BY <1>1, <1>2, <1>3, <2>1, <2>2, <2>3 DEF PerpShape
<1>6. ASSUME Convex(job.got, settled) PROVE Convex(job.got, settled')
  <2>1. ASSUME NEW t \in settled', NEW a \in job.got, NEW b \in job.got, a <= t, t <= b
        PROVE  t \in job.got
    <3>1. t # tick + 1
      <4>1. b \in settled
        BY <1>6 DEF Convex
      <4> QED
        BY <1>1, <1>4, <2>1, <4>1
    <3>2. t \in settled
      BY <1>3, <3>1
    <3> QED
      BY <1>6, <2>1, <3>2 DEF Convex
  <2> QED
    BY <1>3, <1>6, <2>1 DEF Convex
<1>7. ASSUME job.stage = "paging" PROVE SoFar(job)'
  <2>1. SoFar(job) /\ job.got \subseteq settled
    BY <1>7 DEF PerpInv
  <2>2. ASSUME fetcher = "binance" PROVE ForwardSoFar(job)'
    <3>1. ForwardSoFar(job)
      BY <2>1, <2>2 DEF SoFar
    <3>2. ASSUME NEW t \in settled', job.lo <= t, t < job.cursor PROVE t \in job.got
      <4>1. t # tick + 1
        BY <1>1, <3>1, <3>2 DEF ForwardSoFar
      <4> QED
        BY <1>3, <3>1, <3>2, <4>1 DEF ForwardSoFar
    <3>3. job.cursor = job.lo \/ job.cursor <= tick' + 1
      BY <1>1, <1>2, <3>1 DEF ForwardSoFar
    <3> QED
      BY <1>2, <3>1, <3>2, <3>3 DEF ForwardSoFar
  <2>3. ASSUME fetcher = "mexc" PROVE NumberedSoFar(job)'
    <3>1. NumberedSoFar(job)
      BY <2>1, <2>3 DEF SoFar
    <3>2. PICK m \in Nat : m = (job.page - 1) * PageSize["mexc"]
      <4>1. PageSize["mexc"] \in Nat /\ job.page - 1 \in Nat
        BY <1>1, <2>3
      <4> QED
        BY <4>1
    <3>3. ASSUME NEW t \in NewestOf(settled', m), NEW g \in job.got, t <= g
          PROVE  t \in job.got
      <4>0. t \in settled'
        BY DEF NewestOf
      <4>1. t # tick + 1
        <5>1. g \in settled
          BY <2>1
        <5>2. g <= tick /\ g \in Nat
          BY <1>4, <5>1
        <5> QED
          BY <1>1, <3>3, <5>2
      <4>2. t \in settled
        BY <1>3, <4>0, <4>1
      <4>3. t \in NewestOf(settled, m)
        <5>1. CASE settled' = settled
          BY <3>3, <5>1
        <5>2. CASE settled' = settled \cup {tick + 1}
          <6>1. t \in NewestOf(settled \cup {tick + 1}, m)
            BY <3>3, <5>2
          <6> QED
            BY <1>1, <4>2, <6>1, NewestLater
        <5> QED
          BY <1>2, <5>1, <5>2
      <4> QED
        BY <3>1, <3>2, <3>3, <4>3 DEF NumberedSoFar
    <3> QED
      BY <1>2, <3>1, <3>2, <3>3 DEF NumberedSoFar
  <2>4. fetcher = "okxPaged" => PagedSoFar(job)'
    BY <1>2, <2>1 DEF SoFar, PagedSoFar
  <2>5. fetcher \in {"bybit", "kucoin"} => WindowSoFar(job)'
    BY <1>2, <2>1 DEF SoFar, WindowSoFar
  <2> QED
    BY <1>2, <2>1, <2>2, <2>3, <2>4, <2>5 DEF SoFar
<1>8. job.stage \in {"fetched", "read", "ready"} /\ job.fresh => Covers'
  BY <1>2 DEF PerpInv, Covers, InWindow
<1>9. job.fresh => job.got \subseteq settled'
  BY <1>3 DEF PerpInv
<1>10. job.fresh /\ ~(fetcher = "mexc" /\ job.stage = "paging") => Convex(job.got, settled')
  BY <1>6 DEF PerpInv
<1>11. job.stage = "ready" /\ job.fresh => job.got # {} /\ job.barsPerFunding = Period(job.got)
  BY DEF PerpInv
<1>12. /\ job.stage = "funding" => job.got = {} /\ job.page = 1 /\ ~job.fresh
       /\ job.stage = "paging" => job.fresh
  BY DEF PerpInv
<1>13. (job.stage = "paging" => job.fresh /\ SoFar(job))'
  BY <1>2, <1>7, <1>12
<1>14. (job.fresh => job.got \subseteq settled)'
  BY <1>2, <1>9
<1>15. (job.fresh /\ ~(fetcher = "mexc" /\ job.stage = "paging") => Convex(job.got, settled))'
  BY <1>2, <1>10
<1>16. (job.stage = "ready" /\ job.fresh => job.got # {} /\ job.barsPerFunding = Period(job.got))'
  BY <1>2, <1>11
<1> QED
  BY <1>2, <1>5, <1>8, <1>12, <1>13, <1>14, <1>15, <1>16 DEF PerpInv

\* A page that joins keeps the invariant, the loop's last as well.
LEMMA TakePageKeeps ==
  ASSUME PerpInv, job.stage = "paging", UNCHANGED <<fetcher, settled, tick>>,
         NEW page, NEW isHidden \in BOOLEAN, TakePage(page, isHidden),
         page \subseteq settled,
         GoesOn(page) => SoFar(NextPage(page)),
         ~GoesOn(page) \/ job.page = MaxPages \/ fetcher # "mexc" =>
           Convex(job.got \cup page, settled),
         ~GoesOn(page) /\ fetcher # "okx" /\ ~isHidden =>
           InWindow(job.opened) \subseteq job.got \cup page
  PROVE  PerpInv'
<1>1. /\ tick \in Nat /\ settled \in SUBSET (0..tick) /\ settled \subseteq Nat
      /\ job.lo \in Nat /\ job.hi \in Nat /\ job.cursor \in Int /\ job.page \in Nat \ {0}
  BY PerpTypes
<1>2. PerpShape /\ job.fresh /\ job.got \subseteq settled
  BY DEF PerpInv
<1>3. fetcher' = fetcher /\ settled' = settled /\ tick' = tick
  OBVIOUS
<1>4. PICK got : got = job.got \cup page
  OBVIOUS
<1>5. CASE ~GoesOn(page) \/ job.page = MaxPages
  <2>1. job' = [job EXCEPT !.stage = "fetched", !.got = Clipped(got),
                           !.ranOut = GoesOn(page), !.hidden = isHidden]
    BY <1>4, <1>5 DEF TakePage
  <2>2. PICK kept : kept = Clipped(got)
    OBVIOUS
  <2>3. /\ kept \subseteq got
        /\ \A t \in got :
             ~(fetcher \in {"binance", "bybit", "kucoin"} /\ t \notin job.lo..job.hi) => t \in kept
        /\ fetcher \in {"binance", "bybit", "kucoin"} => \A t \in kept : t \in job.lo..job.hi
    BY <2>2 DEF Clipped
  <2>4. PerpShape' /\ job'.stage = "fetched" /\ job'.got = kept /\ job'.fresh = job.fresh
        /\ job'.ranOut = GoesOn(page) /\ job'.hidden = isHidden
        /\ job'.opened = job.opened /\ job'.lo = job.lo /\ job'.hi = job.hi
    BY <1>2, <1>3, <2>1, <2>2 DEF PerpShape
  <2>5. Convex(got, settled)
    BY <1>4, <1>5
  <2>6. Convex(kept, settled)
    <3>1. ASSUME NEW t \in settled, NEW a \in kept, NEW b \in kept, a <= t, t <= b
          PROVE  t \in kept
      <4>1. t \in got
        BY <2>3, <2>5, <3>1 DEF Convex
      <4>2. fetcher \in {"binance", "bybit", "kucoin"} => t \in job.lo..job.hi
        <5>1. a \in Nat /\ b \in Nat /\ t \in Nat
          BY <1>1, <2>3, <2>5 DEF Convex
        <5> QED
          BY <1>1, <2>3, <3>1, <5>1
      <4> QED
        BY <2>3, <4>1, <4>2
    <3> QED
      BY <2>3, <2>5, <3>1 DEF Convex
  <2>7. Covers'
    <3>1. ASSUME ~GoesOn(page), ~isHidden, fetcher # "okx"
          PROVE  {t \in job.opened : t \in job.lo..job.hi} \subseteq kept
      BY <1>4, <2>3, <3>1 DEF InWindow
    <3> QED
      BY <1>3, <2>4, <3>1 DEF Covers, InWindow
  <2>8. kept \subseteq settled
    BY <2>6 DEF Convex
  <2> QED
    BY <1>3, <2>4, <2>6, <2>7, <2>8 DEF PerpInv
<1>6. CASE GoesOn(page) /\ job.page # MaxPages
  <2>1. job' = NextPage(page)
    <3>1. job' = [job EXCEPT !.got = got, !.page = @ + 1, !.cursor = NextCursor(page)]
      BY <1>4, <1>6 DEF TakePage
    <3> QED
      BY <1>4, <3>1 DEF NextPage
  <2>2. NextCursor(page) \in Int
    <3>1. page # {}
      BY <1>6 DEF GoesOn
    <3>2. Min(page) \in Int /\ Max(page) \in Int
      <4>1. page \in SUBSET (0..tick)
        BY <1>1
      <4>2. Min(page) \in page /\ Max(page) \in page
        BY <1>1, <3>1, <4>1, Extremes
      <4>3. \A t \in page : t \in Int
        BY <1>1, <4>1
      <4> QED
        BY ONLY <4>2, <4>3
    <3>3. PICK least \in Int, most \in Int : least = Min(page) /\ most = Max(page)
      BY <3>2
    <3>4. least - 1 \in Int /\ most + 1 \in Int /\ NoCursor \in Int
      BY DEF NoCursor
    <3>5. NextCursor(page) \in {least, least - 1, most + 1, NoCursor}
      BY <3>3 DEF NextCursor
    <3> QED
      BY <3>4, <3>5
  <2>3. PerpShape' /\ job'.stage = "paging" /\ job'.got = got /\ job'.fresh = job.fresh
    <3>1. PICK c \in Int : c = NextCursor(page)
      BY <2>2
    <3>2. job' = [job EXCEPT !.got = got, !.page = @ + 1, !.cursor = c]
      BY <1>4, <2>1, <3>1 DEF NextPage
    <3>3. job.page + 1 \in Nat \ {0}
      BY <1>1
    <3> QED
      BY <1>2, <1>3, <3>1, <3>2, <3>3 DEF PerpShape
  <2>4. SoFar(job)'
    <3>1. SoFar(NextPage(page))
      BY <1>6
    <3>2. PICK g : g = NextPage(page)
      OBVIOUS
    <3>3. SoFar(g) /\ job' = g
      BY <2>1, <3>1, <3>2
    <3> QED
      BY <1>3, <3>3 DEF SoFar, PagedSoFar, WindowSoFar, ForwardSoFar, NumberedSoFar
  <2>5. fetcher # "mexc" => Convex(got, settled)
    BY <1>4
  <2>6. got \subseteq settled
    BY <1>2, <1>4
  <2> QED
    BY <1>2, <1>3, <2>3, <2>4, <2>5, <2>6 DEF PerpInv
<1> QED
  BY <1>5, <1>6

\* Every connector's page joins.
LEMMA FetchPageKeeps == PerpInv /\ FewSettle /\ FetchPage => PerpInv'
<1> SUFFICES ASSUME PerpInv, FewSettle, FetchPage PROVE PerpInv'
  OBVIOUS
<1>1. job.stage = "paging" /\ TakePage(Page, FALSE) /\ UNCHANGED <<fetcher, settled, tick>>
  BY DEF FetchPage
<1>2. Joins(Page)
  <2>1. CASE fetcher = "okx"
    BY <1>1, <2>1, OkxJoins DEF Page
  <2>2. CASE fetcher = "okxPaged"
    BY <1>1, <2>2, PagedJoins DEF Page
  <2>3. CASE fetcher = "mexc"
    BY <1>1, <2>3, NumberedJoins DEF Page
  <2>4. CASE fetcher = "bybit"
    <3>1. Page = NewestOf({t \in settled : t \in job.lo..job.cursor}, PageSize[fetcher])
      BY <2>4 DEF Page, BybitPage
    <3> QED
      BY <1>1, <2>4, <3>1, WindowJoins
  <2>5. CASE fetcher = "kucoin"
    <3>1. Page = NewestOf({t \in settled : t \in job.lo..job.cursor}, PageSize[fetcher])
      BY <2>5 DEF Page, KucoinPage
    <3> QED
      BY <1>1, <2>5, <3>1, WindowJoins
  <2>6. CASE fetcher = "binance"
    BY <1>1, <2>6, ForwardJoins DEF Page
  <2> QED
    BY <2>1, <2>2, <2>3, <2>4, <2>5, <2>6, PerpTypes DEF Loops
<1>3. PICK page : page = Page
  OBVIOUS
<1>4. TakePage(page, FALSE) /\ Joins(page)
  BY <1>1, <1>2, <1>3
<1> QED
  BY <1>1, <1>4, TakePageKeeps DEF Joins

\* An error read as an empty page ends the loop where it stands.
LEMMA ReadErrorKeeps == PerpInv /\ ReadErrorAsEmpty => PerpInv'
<1> SUFFICES ASSUME PerpInv, ReadErrorAsEmpty PROVE PerpInv'
  OBVIOUS
<1>1. /\ job.stage = "paging" /\ TakePage({}, TRUE) /\ UNCHANGED <<fetcher, settled, tick>>
      /\ fetcher # "mexc"
  BY DEF ReadErrorAsEmpty
<1>2. ~GoesOn({})
  BY DEF GoesOn
<1>3. Convex(job.got \cup {}, settled)
  <2>1. Convex(job.got, settled) /\ job.got \cup {} = job.got
    BY <1>1 DEF PerpInv
  <2> QED
    BY <2>1
<1>4. PICK page : page = {}
  OBVIOUS
<1>5. /\ TakePage(page, TRUE) /\ ~GoesOn(page) /\ page \subseteq settled
      /\ Convex(job.got \cup page, settled)
  BY <1>1, <1>2, <1>3, <1>4
<1> QED
  BY <1>1, <1>5, TakePageKeeps

\* What begins or fails a call, and what ends it.
LEMMA CallKeeps == PerpInv /\ (FetchFails \/ CallLoadPerp) => PerpInv'
<1> SUFFICES ASSUME PerpInv, FetchFails \/ CallLoadPerp PROVE PerpInv'
  OBVIOUS
<1>1. PerpShape /\ UNCHANGED <<fetcher, settled, tick>>
  BY DEF PerpInv, FetchFails, CallLoadPerp
<1>2. CASE job' = [NoJob EXCEPT !.stage = "failed"]
  <2>1. PerpShape'
    <3>1. job' = [stage |-> "failed", lo |-> 0, hi |-> 0, cursor |-> -1, page |-> 1,
                  got |-> {}, barsPerFunding |-> 0, opened |-> {}, fresh |-> FALSE,
                  ranOut |-> FALSE, hidden |-> FALSE]
      BY <1>2 DEF NoJob, NoCursor
    <3> QED
      BY <1>1, <3>1 DEF PerpShape
  <2> QED
    BY <1>2, <2>1 DEF PerpInv, NoJob
<1>3. ASSUME NEW w \in Windows,
             job' = [NoJob EXCEPT !.stage = "funding", !.lo = w.lo, !.hi = w.hi,
                                  !.opened = settled]
      PROVE  PerpInv'
  <2>1. w.lo \in Nat /\ w.hi \in Nat
    BY PerpAssumption
  <2>2. PerpShape'
    <3>1. job' = [stage |-> "funding", lo |-> w.lo, hi |-> w.hi, cursor |-> -1, page |-> 1,
                  got |-> {}, barsPerFunding |-> 0, opened |-> settled, fresh |-> FALSE,
                  ranOut |-> FALSE, hidden |-> FALSE]
      BY <1>3 DEF NoJob, NoCursor
    <3> QED
      BY <1>1, <2>1, <3>1 DEF PerpShape
  <2> QED
    BY <1>3, <2>2 DEF PerpInv, NoJob
<1> QED
  BY <1>2, <1>3 DEF FetchFails, CallLoadPerp

\* Nothing is claimed of a schedule that comes from the file.
LEMMA ReadFileKeeps == PerpInv /\ ReadFile => PerpInv'
<1> SUFFICES ASSUME PerpInv, ReadFile PROVE PerpInv'
  OBVIOUS
<1>1. PerpShape /\ UNCHANGED <<fetcher, settled, tick>> /\ ~job.fresh
      /\ job' = [job EXCEPT !.stage = "read", !.got = file]
  BY DEF PerpInv, ReadFile
<1>2. PerpShape' /\ job'.stage = "read" /\ ~job'.fresh
  BY <1>1 DEF PerpShape
<1> QED
  BY <1>2 DEF PerpInv

\* A loop stands where it begins.
LEMMA BeginFetchKeeps == PerpInv /\ BeginFetch => PerpInv'
<1> SUFFICES ASSUME PerpInv, BeginFetch PROVE PerpInv'
  OBVIOUS
<1>1. PerpShape /\ UNCHANGED <<fetcher, settled, tick>> /\ job.got = {} /\ job.page = 1
  BY DEF PerpInv, BeginFetch
<1>2. PICK c : c = FirstCursor(job.lo, job.hi)
  OBVIOUS
<1>3. /\ fetcher = "binance" => c = job.lo
      /\ fetcher \in {"bybit", "kucoin"} => c = job.hi
      /\ fetcher = "okxPaged" => c = NoCursor
      /\ c \in Int
  BY <1>1, <1>2 DEF FirstCursor, PerpShape, NoCursor
<1>4. job' = [job EXCEPT !.stage = "paging", !.cursor = c, !.fresh = TRUE]
  BY <1>2 DEF BeginFetch
<1>5. /\ PerpShape' /\ job'.stage = "paging" /\ job'.cursor = c /\ job'.fresh
      /\ job'.got = {} /\ job'.page = 1 /\ job'.lo = job.lo /\ job'.hi = job.hi
      /\ job'.opened = job.opened
  BY <1>1, <1>3, <1>4 DEF PerpShape
<1>6. job.lo \in Nat /\ job.hi \in Nat /\ job.opened \subseteq settled /\ tick \in Nat
      /\ settled \subseteq 0..tick
  BY <1>1 DEF PerpShape
<1>7. SoFar(job)'
  <2>1. fetcher = "okxPaged" => PagedSoFar(job)'
    BY <1>3, <1>5 DEF PagedSoFar
  <2>2. fetcher \in {"bybit", "kucoin"} => WindowSoFar(job)'
    BY <1>3, <1>5, <1>6 DEF WindowSoFar
  <2>3. fetcher = "binance" => ForwardSoFar(job)'
    BY <1>1, <1>3, <1>5, <1>6 DEF ForwardSoFar
  <2>4. fetcher = "mexc" => NumberedSoFar(job)'
    BY <1>5 DEF NumberedSoFar
  <2> QED
    BY <1>1, <1>5, <2>1, <2>2, <2>3, <2>4 DEF SoFar
<1>8. Convex({}, settled')
  BY DEF Convex
<1> QED
  BY <1>5, <1>7, <1>8 DEF PerpInv

\* To store a schedule and to return it leave it as it is.
LEMMA WriteFileKeeps == PerpInv /\ WriteFile => PerpInv'
<1> SUFFICES ASSUME PerpInv, WriteFile PROVE PerpInv'
  OBVIOUS
<1>1. PerpShape /\ UNCHANGED <<fetcher, settled, tick>> /\ job.stage = "fetched"
      /\ job' = [job EXCEPT !.stage = "read"]
  BY DEF PerpInv, WriteFile
<1>2. /\ PerpShape' /\ job'.stage = "read" /\ job'.fresh = job.fresh
      /\ job'.got = job.got /\ job'.lo = job.lo /\ job'.hi = job.hi
      /\ job'.opened = job.opened /\ job'.ranOut = job.ranOut /\ job'.hidden = job.hidden
  BY <1>1 DEF PerpShape
<1>3. job.fresh => Covers'
  BY <1>1, <1>2 DEF PerpInv, Covers, InWindow
<1> QED
  BY <1>1, <1>2, <1>3 DEF PerpInv

\* The same of its return, with the period inferred from it.
LEMMA ReturnPerpKeeps == PerpInv /\ ReturnPerp => PerpInv'
<1> SUFFICES ASSUME PerpInv, ReturnPerp PROVE PerpInv'
  OBVIOUS
<1>1. PerpShape /\ UNCHANGED <<fetcher, settled, tick>> /\ job.stage = "read"
  BY DEF PerpInv, ReturnPerp
<1>2. /\ PerpShape' /\ job'.stage \in {"unfunded", "ready"} /\ job'.fresh = job.fresh
      /\ job'.got = job.got /\ job'.lo = job.lo /\ job'.hi = job.hi
      /\ job'.opened = job.opened /\ job'.ranOut = job.ranOut /\ job'.hidden = job.hidden
      /\ job'.stage = "ready" => job.got # {} /\ job'.barsPerFunding = Period(job.got)
  <2>1. CASE job.got = {}
    BY <1>1, <2>1 DEF ReturnPerp, PerpShape
  <2>2. CASE job.got # {}
    <3>1. PICK p : p = Period(job.got)
      OBVIOUS
    <3>2. job' = [job EXCEPT !.stage = "ready", !.barsPerFunding = p]
      BY <2>2, <3>1 DEF ReturnPerp
    <3> QED
      BY <1>1, <2>2, <3>1, <3>2 DEF PerpShape
  <2> QED
    BY <2>1, <2>2
<1>3. job.fresh => Covers'
  BY <1>1, <1>2 DEF PerpInv, Covers, InWindow
<1> QED
  BY <1>1, <1>2, <1>3 DEF PerpInv

\* Every step keeps the invariant.
LEMMA PerpStep == PerpInv /\ FewSettle /\ [PerpNext]_perpVars => PerpInv'
<1> SUFFICES ASSUME PerpInv, FewSettle, [PerpNext]_perpVars PROVE PerpInv'
  OBVIOUS
<1>1. CASE UNCHANGED perpVars
  BY <1>1 DEF perpVars, PerpInv, PerpShape, SoFar, PagedSoFar, WindowSoFar, ForwardSoFar,
              NumberedSoFar, Covers, InWindow
<1>2. CASE PerpNext
  BY <1>2, VenueSettlesKeeps, CallKeeps, ReadFileKeeps, BeginFetchKeeps, FetchPageKeeps,
     ReadErrorKeeps, WriteFileKeeps, ReturnPerpKeeps DEF PerpNext
<1> QED
  BY <1>1, <1>2

\* Between its ends a schedule without a hole is what the venue settled there.
LEMMA PerpInvWhole == PerpInv => FundingWhole
<1> SUFFICES ASSUME PerpInv, job.stage = "ready", job.fresh PROVE
      /\ \A t \in job.opened : t \in Min(job.got)..Max(job.got) => t \in job.got
      /\ job.barsPerFunding = Period({t \in settled : t \in Min(job.got)..Max(job.got)})
      /\ ~(job.ranOut \/ job.hidden \/ fetcher = "okx") => InWindow(job.opened) \subseteq job.got
  BY DEF FundingWhole
<1>1. /\ tick \in Nat /\ settled \in SUBSET (0..tick) /\ settled \subseteq Nat
      /\ job.opened \in SUBSET settled
  BY PerpTypes
<1>2. /\ Convex(job.got, settled) /\ job.got # {} /\ job.got \in SUBSET settled
      /\ job.barsPerFunding = Period(job.got) /\ Covers
  BY DEF PerpInv
<1>3. /\ Min(job.got) \in job.got /\ \A y \in job.got : Min(job.got) <= y
      /\ Max(job.got) \in job.got /\ \A y \in job.got : y <= Max(job.got)
  <2>1. job.got \in SUBSET (0..tick)
    BY <1>1, <1>2
  <2> QED
    BY <1>1, <1>2, <2>1, Extremes
<1>4. PICK least \in Nat, most \in Nat :
        least = Min(job.got) /\ most = Max(job.got)
  BY <1>1, <1>2, <1>3
<1>5. ASSUME NEW t \in settled PROVE t \in least..most <=> t \in job.got
  <2>1. t \in least..most => t \in job.got
    BY <1>1, <1>2, <1>3, <1>4 DEF Convex
  <2>2. t \in job.got => t \in least..most
    BY <1>1, <1>3, <1>4
  <2> QED
    BY <2>1, <2>2
<1>6. {t \in settled : t \in least..most} = job.got
  BY <1>2, <1>5
<1>7. {t \in settled : t \in Min(job.got)..Max(job.got)} = job.got
  BY <1>4, <1>6
<1>8. \A t \in job.opened : t \in Min(job.got)..Max(job.got) => t \in job.got
  BY <1>1, <1>4, <1>5
<1> QED
  BY <1>2, <1>7, <1>8 DEF Covers

\* A funding schedule that load_perp fetches has no hole and covers its window,
\* for each connector's paging loop and however the venue settles meanwhile, and
\* infer_funding_period_ms finds the venue's period in it.
THEOREM FundingIsWhole == PerpSpec /\ []FewSettle => []FundingWhole
<1>1. PerpInit => PerpInv
  BY PerpInitInv
<1>2. PerpInv /\ FewSettle /\ [PerpNext]_perpVars => PerpInv'
  BY PerpStep
<1>3. PerpInv => FundingWhole
  BY PerpInvWhole
<1> QED
  BY <1>1, <1>2, <1>3, PTL DEF PerpSpec
=============================================================================
