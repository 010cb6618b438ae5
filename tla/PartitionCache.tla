--------------------------- MODULE PartitionCache ---------------------------
(***************************************************************************)
(* The other cache: load_or_cache_many (bars.rs), and load_or_cache, which *)
(* is its body for one spec.  A file that exists is the answer; otherwise  *)
(* a connector's feed is drained into one, over a transport that may fail. *)
(* BarCache lends the venue and the clock; a program uses one or the other *)
(* of the two caches.                                                      *)
(***************************************************************************)
EXTENDS BarCache, SequencesExt

CONSTANTS
  Pulls,        \* the calls: sequences of specs
  MaxPulls,     \* bound on how many
  MaxRetries    \* three or four in a transport, eight in a page loop

ASSUME PullsAssumption ==
  /\ \A call \in Pulls : call \in Seq([path : Nat, instrument : Nat, scale : Nat,
                                       from : Nat, to : Nat, recent : BOOLEAN])
  /\ MaxPulls \in Nat /\ MaxRetries \in Nat

VARIABLES
  used,        \* which of the two caches the program uses
  files,       \* the partitions, by path
  at,          \* where the call stands, "idle" outside
  specs,       \* its argument,
  todo,        \*   and what is left of it
  merged,      \* the bars read so far
  pager,       \* the feed's loop
  retries,     \* how often the request under way has been made again
  answer,      \* what the last call returned
  pulls,       \* calls made (bounds the run)
  \* history: the clock when the feed was opened, and whether an error was
  \* read as an empty page since
  began, spoiled

fetching      == <<pager, retries, began, spoiled>>
partitionVars == <<used, files, at, specs, todo, merged, fetching, answer, pulls>>

\* `began` and `clean` are history: the feed had an answer to every request.
NoSpec      == [path |-> 0, instrument |-> 0, scale |-> 0, from |-> 0, to |-> 0, recent |-> FALSE]
NoPartition == [spec |-> NoSpec, candles |-> {}, began |-> 0, clean |-> FALSE]
NoAnswer    == [status |-> "none", specs |-> << >>, bars |-> {}]

Paths == UNION {{spec.path : spec \in Range(call)} : call \in Pulls}

PartitionInit ==
  /\ used \in {"ranges", "partitions"}
  /\ files = [p \in Paths |-> NoPartition]
  /\ at = "idle" /\ specs = << >> /\ todo = << >> /\ merged = {}
  /\ pager = NoFeed /\ retries = 0 /\ began = 0 /\ spoiled = FALSE
  /\ answer = NoAnswer /\ pulls = 0

Wanted == Head(todo)
Cached(path) == files[path] # NoPartition

LoadOrCacheMany(call) ==
  /\ at = "idle" /\ pulls < MaxPulls
  /\ pulls' = pulls + 1
  /\ at' = "next" /\ specs' = call /\ todo' = call /\ merged' = {}
  /\ answer' = NoAnswer
  /\ UNCHANGED <<used, files, fetching>>

Idle == at' = "idle" /\ specs' = << >> /\ todo' = << >> /\ merged' = {}
NotFetching == pager' = NoFeed /\ retries' = 0 /\ began' = 0 /\ spoiled' = FALSE

Returns(status, bars) ==
  /\ answer' = [status |-> status, specs |-> specs, bars |-> bars]
  /\ Idle
  /\ UNCHANGED <<used, files, fetching, pulls>>

-----------------------------------------------------------------------------
(* A file that exists                                                       *)

\* Seeded fault: a file is taken for what its path was meant for.
FitsAnyway(file, spec) == TRUE

\* validate_cache_meta
Fits(file, spec) == file.spec.instrument = spec.instrument /\ file.spec.scale = spec.scale

BarsOf(file) ==
  {[instrument |-> file.spec.instrument, scale |-> file.spec.scale, open |-> c.open] :
     c \in file.candles}

\* A file just written is read here as well, and fits.
ReadPartition ==
  /\ at = "next" /\ todo # << >> /\ Cached(Wanted.path)
  /\ Fits(files[Wanted.path], Wanted)
  /\ merged' = merged \cup BarsOf(files[Wanted.path])
  /\ todo' = Tail(todo)
  /\ UNCHANGED <<used, files, at, specs, fetching, answer, pulls>>

\* The first error ends the call; what it cached stays.
RejectPartition ==
  /\ at = "next" /\ todo # << >> /\ Cached(Wanted.path)
  /\ ~Fits(files[Wanted.path], Wanted)
  /\ Returns("schema", {})

ReturnMerged ==
  /\ at = "next" /\ todo = << >>
  /\ Returns("ok", merged)

-----------------------------------------------------------------------------
(* One that does not                                                        *)

OpenPartitionFeed ==
  /\ at = "next" /\ todo # << >> /\ ~Cached(Wanted.path)
  /\ pager' = OpenFeed(venue, Wanted.from, Wanted.to)
  /\ began' = now
  /\ at' = "paging"
  /\ UNCHANGED <<used, files, specs, todo, merged, retries, spoiled, answer, pulls>>

\* Without a range a feed asks for one page, of the newest candles.
PagerAfter(page) ==
  IF Wanted.recent THEN [pager EXCEPT !.all = page, !.over = TRUE]
  ELSE Paged(venue, pager, page)

PageOf(candles) == IF Wanted.recent THEN Newest(candles) ELSE Answer(venue, candles, pager)

PageArrives ==
  /\ at = "paging" /\ ~pager.over
  /\ pager' = PagerAfter(Parsed(venue, PageOf(CandlesAt(history, now))))
  /\ retries' = 0
  /\ UNCHANGED <<used, files, at, specs, todo, merged, began, spoiled, answer, pulls>>

\* An error inside a successful answer.
PageIsAnError ==
  /\ at = "paging" /\ ~pager.over
  /\ ReadsErrorAsEmpty(venue)
  /\ pager' = PagerAfter({})
  /\ retries' = 0
  /\ spoiled' = TRUE
  /\ UNCHANGED <<used, files, at, specs, todo, merged, began, answer, pulls>>

\* What may befall a request: a refusal (429), another status that is not a
\* success, or no answer that can be read.
Troubles == {"refused", "denied", "lost"}

\* Who makes a public request again, and after what: the transports of Binance
\* and of MEXC, and Binance's page loop as well; the page loops of the others,
\* of which OKX's for the newest candles has none.
BinanceTriesAgain == {"refused", "lost"}
MexcTriesAgain    == {"refused", "lost"}
BybitTriesAgain   == {"refused"}
KucoinTriesAgain  == {"refused"}
OkxTriesAgain     == IF Wanted.recent THEN {} ELSE {"refused"}

TriesAgain ==
  CASE venue = "binance" -> BinanceTriesAgain
    [] venue \in {"mexc", "mexcFutures"} -> MexcTriesAgain
    [] venue = "bybit"   -> BybitTriesAgain
    [] venue = "kucoin"  -> KucoinTriesAgain
    [] venue = "okx"     -> OkxTriesAgain

\* Seeded fault: the page that was refused is passed over.
AskForTheNext ==
  /\ at = "paging" /\ ~pager.over /\ retries < MaxRetries
  /\ TriesAgain # {}
  /\ retries' = retries + 1
  /\ LET next == PagerAfter(Parsed(venue, PageOf(CandlesAt(history, now))))
     IN  pager' = [next EXCEPT !.all = pager.all]
  /\ UNCHANGED <<used, files, at, specs, todo, merged, began, spoiled, answer, pulls>>

AskAgain ==
  /\ at = "paging" /\ ~pager.over /\ retries < MaxRetries
  /\ TriesAgain # {}
  /\ retries' = retries + 1
  /\ UNCHANGED <<used, files, at, specs, todo, merged, pager, began, spoiled, answer, pulls>>

\* What a feed that gives up still yields: MEXC's loop keeps its pages, OKX's
\* those before a status that is no success.  The next_event of the others
\* returns None, though Binance's buffer holds the pages there were.
OkxKeeps(trouble) == IF trouble = "lost" THEN {} ELSE Yielded("okx", pager)
MexcKeeps         == Yielded("mexc", pager)
BinanceKeeps      == {}

KeptBy(trouble) ==
  CASE ~Wanted.recent /\ venue = "okx"  -> OkxKeeps(trouble)
    [] ~Wanted.recent /\ venue = "mexc" -> MexcKeeps
    [] OTHER                            -> BinanceKeeps

WritePartition(candles, clean) ==
  /\ files' = [files EXCEPT ![Wanted.path] =
       [spec |-> Wanted, candles |-> candles, began |-> began, clean |-> clean]]
  /\ at' = "next"
  /\ NotFetching
  /\ UNCHANGED <<used, specs, todo, merged, answer, pulls>>

\* cache_from_source takes the first None for the end, and no page sink is
\* installed that would be told otherwise.
GiveUp ==
  /\ at = "paging" /\ ~pager.over
  /\ \E trouble \in Troubles :
       /\ trouble \in TriesAgain => retries = MaxRetries
       /\ WritePartition(KeptBy(trouble), FALSE)

CacheDrained ==
  /\ at = "paging" /\ pager.over
  /\ WritePartition(IF Wanted.recent THEN pager.all ELSE Yielded(venue, pager), ~spoiled)

\* The process dies: a partition is renamed into its place whole, or never.
Die ==
  /\ at # "idle"
  /\ answer' = NoAnswer
  /\ Idle /\ NotFetching
  /\ UNCHANGED <<used, files, pulls>>

PartitionSteps ==
  \/ ReadPartition \/ RejectPartition \/ ReturnMerged \/ OpenPartitionFeed
  \/ PageArrives \/ PageIsAnError \/ AskAgain \/ GiveUp \/ CacheDrained

-----------------------------------------------------------------------------

cacheVars == <<vars, partitionVars>>

CacheInit == Init /\ PartitionInit

CacheNext ==
  \/ used = "ranges" /\ Next /\ UNCHANGED partitionVars
  \/ used = "partitions" /\ Tick /\ UNCHANGED partitionVars
  \/ /\ used = "partitions" /\ UNCHANGED vars
     /\ \/ \E call \in Pulls : LoadOrCacheMany(call)
        \/ PartitionSteps
        \/ Die

\* A call of either cache runs to its end.
CacheSpec ==
  CacheInit /\ [][CacheNext]_cacheVars /\ WF_vars(Loader) /\ WF_partitionVars(PartitionSteps)

-----------------------------------------------------------------------------
(* Properties                                                               *)

\* A download that breaks off loses an end of its window, never the middle, so
\* that bars which follow one another in a replay did so at the venue.
Unbroken(file) ==
  \A o \in history :
    (\E c, d \in file.candles : c.open < o /\ o < d.open) => o \in Opens(file.candles)

\* One that did not break off has all that was closed of its window when it
\* began, or of the newest page.
Complete(file) ==
  LET closed == {c.open : c \in {d \in CandlesAt(history, file.began) : d.done}}
      wanted == IF file.spec.recent THEN Opens(Newest(CandlesAt(history, LastNow)))
                ELSE file.spec.from..file.spec.to - 1
  IN  closed \cap wanted \subseteq Opens(file.candles)

\* What the first download leaves is replayed for good, so it must be right:
\* refused requests that were made again leave no hole, nor do pages kept from
\* one that failed; OKX's candle still forming is not among them; and no path,
\* whatever it was first used for, answers with another instrument's bars or
\* with another scale (load_or_cache, cache_from_source, validate_cache_meta).
PartitionTrue ==
  /\ \A p \in Paths : Cached(p) =>
       /\ Unbroken(files[p])
       /\ files[p].clean => Complete(files[p])
       /\ venue = "okx" => \A c \in files[p].candles : c.done
  /\ answer.status = "ok" =>
       \A b \in answer.bars : \E spec \in Range(answer.specs) :
         b.instrument = spec.instrument /\ b.scale = spec.scale

\* Every call ends, of either cache: no connector pages forever (the no-progress
\* guards of the back-fill loops), none asks again for ever, and no gap is
\* planned twice.
CallsEnd == LoadEnds /\ (at # "idle" ~> at = "idle")
=============================================================================
