------------------------------ MODULE BarCache ------------------------------
(***************************************************************************)
(* load_bars (load.rs): serve a window of bars of one series from a cache  *)
(* directory, downloading what it lacks.  The directory survives the       *)
(* process, which may die between any two of its writes; every write of a  *)
(* file is atomic (a temporary file and a rename), except the journal of a *)
(* download, which grows by whole flushed batches.                         *)
(***************************************************************************)
EXTENDS KlineFeed

CONSTANTS
  Connectors,    \* the connectors the series may come from
  Histories,     \* the candles the venue may have, as sets of open times
  Windows,       \* the requests, as <<lo, hi>> close stamps
  FirstNow,      \* the wall clock at the start
  LastNow,       \* and where this model stops it
  MaxLoads,      \* bounds on the calls of load_bars,
  MaxCrashes,    \*   on the processes that die in one,
  MaxFaults      \*   and on the requests that fail

ASSUME CacheAssumption ==
  /\ Connectors \subseteq Venues
  /\ \A opens \in Histories :    \* candles of BAR ticks, none over another
       /\ opens \subseteq Nat /\ IsFiniteSet(opens)
       /\ \A o, p \in opens : o < p => o + BAR <= p
  /\ Windows \subseteq Int \X Int
  /\ FirstNow \in Int /\ LastNow \in Int /\ FirstNow <= LastNow
  /\ MaxLoads \in Nat /\ MaxCrashes \in Nat /\ MaxFaults \in Nat

VARIABLES
  \* the venue
  venue, history, now,
  \* the cache directory
  chunks,      \* the chunk files: [lo, hi, bars], named by lo and hi
  saved,       \* the ranges in the manifest file
  journals,    \* the .partial files: [lo, hi, bars], named by the gap
  \* the process
  stage,       \* where load_bars stands, "idle" outside
  request,     \* its arguments: [lo, hi, wall]
  manifest,    \* the manifest it works on
  gaps,        \* the gaps not yet done, <<first, last>>
  feed,        \* the connector's loop
  buffered,    \* candles the journal has not flushed
  outcome,     \* what the last call returned
  \* bookkeeping of the model
  loads, crashes, faults,
  swallowed    \* stamps of the bars hidden behind an error read as an empty page

disk    == <<chunks, saved, journals>>
process == <<request, manifest, gaps, feed, buffered>>
budget  == <<loads, crashes, faults, swallowed>>
vars    == <<venue, history, now, disk, stage, process, outcome, budget>>

NoRequest == [lo |-> 0, hi |-> -1, wall |-> 0]
NoFeed    == [start |-> 0, end |-> 0, cursor |-> 0, all |-> {}, over |-> TRUE]
Nothing   == [status |-> "none", lo |-> 0, hi |-> -1, wall |-> 0, bars |-> {}]

Init ==
  /\ venue \in Connectors
  /\ history \in Histories
  /\ now = FirstNow
  /\ chunks = {} /\ saved = {} /\ journals = {}
  /\ stage = "idle"
  /\ request = NoRequest /\ manifest = {} /\ gaps = {}
  /\ feed = NoFeed /\ buffered = {}
  /\ outcome = Nothing
  /\ loads = 0 /\ crashes = 0 /\ faults = 0 /\ swallowed = {}

-----------------------------------------------------------------------------
(* Files                                                                    *)

Stamps(candles) == {Stamp(venue, c) : c \in candles}

\* write_partition: a file of that name is replaced.
WriteChunk(lo, hi, bars) ==
  chunks' = {f \in chunks : f.lo # lo \/ f.hi # hi} \cup {[lo |-> lo, hi |-> hi, bars |-> bars]}

ChunkOf(r) == {f \in chunks : f.lo = r.lo /\ f.hi = r.hi}

\* The call returns.
Return(status, bars) ==
  /\ stage' = "idle"
  /\ outcome' = [status |-> status, lo |-> request.lo, hi |-> request.hi,
                 wall |-> request.wall, bars |-> bars]
  /\ request' = NoRequest /\ manifest' = {} /\ gaps' = {}
  /\ feed' = NoFeed /\ buffered' = {}

-----------------------------------------------------------------------------
(* load_bars                                                                *)

\* The clock is read by the caller; the manifest is loaded.
Begin(w) ==
  /\ stage = "idle" /\ loads < MaxLoads
  /\ loads' = loads + 1
  /\ stage' = "recover"
  /\ request' = [lo |-> w[1], hi |-> w[2], wall |-> now]
  /\ manifest' = saved
  /\ outcome' = Nothing
  /\ UNCHANGED <<venue, history, now, disk, gaps, feed, buffered, crashes, faults, swallowed>>

\* recover_orphans takes the journals in the order of their names.
NextJournal == CHOOSE j \in journals : \A k \in journals : j.lo <= k.lo

DiscardEmptyJournal ==
  /\ stage = "recover" /\ journals # {}
  /\ NextJournal.bars = {}
  /\ journals' = journals \ {NextJournal}
  /\ UNCHANGED <<venue, history, now, chunks, saved, stage, process, outcome, budget>>

\* Seeded fault: the recovered bars are recorded and never written.
WriteRecoveredUnwritten ==
  /\ stage = "recover" /\ journals # {}
  /\ NextJournal.bars # {}
  /\ stage' = "recovered"
  /\ UNCHANGED <<venue, history, now, disk, process, outcome, budget>>

\* The intact part of a journal becomes a chunk, ...
WriteRecovered ==
  /\ stage = "recover" /\ journals # {}
  /\ LET bars == NextJournal.bars
     IN  /\ bars # {}
         /\ WriteChunk(Min(Stamps(bars)), Max(Stamps(bars)), bars)
  /\ stage' = "recovered"
  /\ UNCHANGED <<venue, history, now, saved, journals, process, outcome, budget>>

\* ... recorded unless it overlaps what is, and is deleted in either case.
RecordRecovered ==
  /\ stage = "recovered"
  /\ LET found == Stamps(NextJournal.bars)
     IN  manifest' = RecordRange(manifest, Span(Min(found), Max(found), "Bars"))
  /\ journals' = journals \ {NextJournal}
  /\ stage' = "recover"
  /\ UNCHANGED <<venue, history, now, chunks, saved, request, gaps, feed, buffered, outcome, budget>>

SaveRecovered ==
  /\ stage = "recover" /\ journals = {}
  /\ saved' = manifest
  /\ gaps' = MissingGaps(manifest, request.lo, request.hi)
  /\ stage' = "gap"
  /\ UNCHANGED <<venue, history, now, chunks, journals, request, manifest, feed, buffered,
                 outcome, budget>>

\* The gaps are fetched from the earliest on; this is the one at hand.
NextGap == CHOOSE g \in gaps : \A h \in gaps : g[1] <= h[1]

\* A journal is created for the gap, and the connector asked for the open
\* times whose bars close in it.
OpenGap ==
  /\ stage = "gap" /\ gaps # {}
  /\ LET gap == NextGap
     IN  /\ journals' = {j \in journals : <<j.lo, j.hi>> # gap}
                          \cup {[lo |-> gap[1], hi |-> gap[2], bars |-> {}]}
         /\ feed' = OpenFeed(venue, Max({gap[1] - BAR, 0}), gap[2] + 1)
  /\ buffered' = {}
  /\ stage' = "fetch"
  /\ UNCHANGED <<venue, history, now, chunks, saved, request, manifest, gaps, outcome, budget>>

JournalGrows(bars) ==
  journals' = {IF <<j.lo, j.hi>> = NextGap THEN [j EXCEPT !.bars = AddPage(@, bars)] ELSE j :
                 j \in journals}

\* A page, journalled before it is buffered.  Whether this one makes a flush
\* due depends on the policy and the clock.
FetchPage ==
  /\ stage = "fetch" /\ ~feed.over
  /\ LET page == Parsed(venue, Answer(venue, CandlesAt(history, now), feed))
     IN  /\ feed' = Paged(venue, feed, page)
         /\ \/ /\ page # {}
               /\ JournalGrows(buffered \cup page)
               /\ buffered' = {}
            \/ /\ buffered' = buffered \cup page
               /\ UNCHANGED journals
  /\ UNCHANGED <<venue, history, now, chunks, saved, stage, request, manifest, gaps, outcome, budget>>

\* An error inside a successful answer is read as an empty page.
SwallowError ==
  /\ stage = "fetch" /\ ~feed.over
  /\ ReadsErrorAsEmpty(venue)
  /\ faults < MaxFaults
  /\ faults' = faults + 1
  /\ feed' = Paged(venue, feed, {})
  /\ swallowed' = swallowed \cup
       {s \in Stamps({[open |-> o, done |-> TRUE] : o \in history \ Opens(feed.all)}) :
          NextGap[1] <= s /\ s <= NextGap[2]}
  /\ UNCHANGED <<venue, history, now, disk, stage, request, manifest, gaps, buffered, outcome,
                 loads, crashes>>

\* Seeded fault: a failed request ends the feed as an exhausted venue does.
FetchFailsUnseen ==
  /\ stage = "fetch" /\ ~feed.over
  /\ faults < MaxFaults
  /\ faults' = faults + 1
  /\ feed' = [feed EXCEPT !.over = TRUE]
  /\ UNCHANGED <<venue, history, now, disk, stage, request, manifest, gaps, buffered, outcome,
                 loads, crashes, swallowed>>

\* A request fails for good: the connector calls on_error, which the loader
\* sees.  The journal stays; the tail it had not flushed goes with the writer.
FetchFails ==
  /\ stage = "fetch" /\ ~feed.over
  /\ faults < MaxFaults
  /\ faults' = faults + 1
  /\ stage' = "failed"
  /\ buffered' = {}
  /\ UNCHANGED <<venue, history, now, disk, request, manifest, gaps, feed, outcome,
                 loads, crashes, swallowed>>

\* Seeded fault: a failed call cleans up its journal.
ReturnFetchErrorCleaning ==
  /\ stage = "failed"
  /\ saved' = manifest
  /\ journals' = {j \in journals : <<j.lo, j.hi>> # NextGap}
  /\ Return("error", {})
  /\ UNCHANGED <<venue, history, now, chunks, budget>>

ReturnFetchError ==
  /\ stage = "failed"
  /\ saved' = manifest
  /\ Return("error", {})
  /\ UNCHANGED <<venue, history, now, chunks, journals, budget>>

\* The bars of the gap itself.
Collected ==
  {c \in Yielded(venue, feed) : NextGap[1] <= Stamp(venue, c) /\ Stamp(venue, c) <= NextGap[2]}

\* What record_fetched_gap records around bars from lo to hi: the hole before
\* them, and of the hole after them the part that is settled.
HolesAround(gap, lo, hi, wall) ==
  {r \in { Span(gap[1], lo - BAR, "EmptyVerified"),
           Span(hi + BAR, Min({gap[2], wall - BAR}), "EmptyVerified") } : r.lo <= r.hi}

\* Bars were fetched: their chunk is written and the ranges recorded.  A range
\* the manifest refuses fails the call, its journal left in place.
RecordGap ==
  /\ stage = "fetch" /\ feed.over /\ Collected # {}
  /\ LET lo    == Min(Stamps(Collected))
         hi    == Max(Stamps(Collected))
         found == Span(lo, hi, "Bars")
         holes == HolesAround(NextGap, lo, hi, request.wall)
     IN  /\ WriteChunk(lo, hi, Collected)
         /\ \/ /\ Accepts(manifest, found)
               /\ \A hole \in holes : Accepts(manifest \cup {found}, hole)
               /\ manifest' = manifest \cup {found} \cup holes
               /\ stage' = "recorded"
               /\ buffered' = {}
               /\ UNCHANGED <<request, gaps, feed, outcome>>
            \/ /\ \/ ~Accepts(manifest, found)
                  \/ \E hole \in holes : ~Accepts(manifest \cup {found}, hole)
               /\ Return("rejected", {})
  /\ UNCHANGED <<venue, history, now, saved, journals, budget>>

\* Nothing was fetched: nothing is recorded.
LeaveGap ==
  /\ stage = "fetch" /\ feed.over /\ Collected = {}
  /\ stage' = "recorded"
  /\ buffered' = {}
  /\ UNCHANGED <<venue, history, now, disk, request, manifest, gaps, feed, outcome, budget>>

DropJournal ==
  /\ stage = "recorded"
  /\ journals' = {j \in journals : <<j.lo, j.hi>> # NextGap}
  /\ stage' = "dropped"
  /\ UNCHANGED <<venue, history, now, chunks, saved, process, outcome, budget>>

SaveGap ==
  /\ stage = "dropped"
  /\ saved' = manifest
  /\ gaps' = gaps \ {NextGap}
  /\ stage' = "gap"
  /\ UNCHANGED <<venue, history, now, chunks, journals, request, manifest, feed, buffered,
                 outcome, budget>>

\* The chunks that touch the window, those of the earlier ranges first.
ChunksRead == {r \in manifest : r.kind = "Bars" /\ r.lo <= request.hi /\ request.lo <= r.hi}

\* Bars of one stamp come from the first chunk that has it.
Assembled ==
  LET read == UNION {UNION {{[from |-> r.lo, bar |-> c] : c \in f.bars} : f \in ChunkOf(r)} :
                       r \in ChunksRead}
  IN  {x.bar : x \in {y \in read :
         /\ Stamp(venue, y.bar) \in request.lo..request.hi
         /\ \A z \in read : z.bar.open = y.bar.open => y.from <= z.from}}

Assemble ==
  /\ stage = "gap" /\ gaps = {}
  /\ IF \A r \in ChunksRead : ChunkOf(r) # {}
     THEN Return("ok", Assembled) ELSE Return("unreadable", {})
  /\ UNCHANGED <<venue, history, now, disk, budget>>

-----------------------------------------------------------------------------

\* The process dies; what it had in memory goes with it.
Crash ==
  /\ stage # "idle" /\ crashes < MaxCrashes
  /\ crashes' = crashes + 1
  /\ stage' = "idle"
  /\ request' = NoRequest /\ manifest' = {} /\ gaps' = {}
  /\ feed' = NoFeed /\ buffered' = {}
  /\ outcome' = Nothing
  /\ UNCHANGED <<venue, history, now, disk, loads, faults, swallowed>>

Tick ==
  /\ now < LastNow
  /\ now' = now + 1
  /\ UNCHANGED <<venue, history, disk, stage, process, outcome, budget>>

Recovery == DiscardEmptyJournal \/ WriteRecovered \/ RecordRecovered \/ SaveRecovered
Fetching == OpenGap \/ FetchPage \/ RecordGap \/ LeaveGap \/ DropJournal \/ SaveGap
Loader   == Recovery \/ Fetching \/ ReturnFetchError \/ Assemble

Next ==
  \/ \E w \in Windows : Begin(w)
  \/ Loader
  \/ SwallowError
  \/ FetchFails
  \/ Crash
  \/ Tick

\* A call runs to its end: nothing in it waits for another.
Spec == Init /\ [][Next]_vars /\ WF_vars(Loader)

-----------------------------------------------------------------------------
(* Properties                                                               *)

StampOf(open) == Stamp(venue, [open |-> open, done |-> TRUE])
Within(s, r)  == r.lo <= s /\ s <= r.hi

\* Whatever the process was doing when it died, a range the manifest calls
\* downloaded has its chunk file, and the chunk has every bar of the range: a
\* bar missing there would never be asked for again (write before record
\* before save, in load.rs).
CoverageBacked ==
  \A r \in saved \cup manifest : r.kind = "Bars" =>
    \E f \in chunks :
      /\ f.lo = r.lo /\ f.hi = r.hi
      /\ \A o \in history : Within(StampOf(o), r) => o \in Opens(f.bars)

\* No two recorded ranges share more than an end, whether they were fetched,
\* recovered from a journal or inferred to be empty (Manifest::validate).
CoverageDisjoint ==
  /\ \A r, s \in saved    : r # s => ~InteriorOverlap(r, s)
  /\ \A r, s \in manifest : r # s => ~InteriorOverlap(r, s)

\* The plan asks for every stamp of the window that is at least a bar away
\* from all that is recorded of the window, for no other, and for none twice;
\* and for nothing of a window that two ranges bridge (missing_gaps).
PlanExact ==
  stage = "gap" =>
    LET gs == MissingGaps(manifest, request.lo, request.hi)
    IN  /\ Ticks(gs) = IF Bridged(manifest, request.lo, request.hi) THEN {}
                       ELSE Unrecorded(manifest, request.lo, request.hi)
        /\ \A g, h \in gs : g # h => g[2] < h[1] \/ h[2] < g[1]

\* A stamp within a bar of a span recorded as empty, but outside of it.  The
\* ends of such a span come from requests and the clock and need not fall on a
\* bar's stamp; missing_gaps leaves the next stamp out with the sliver.
BesideEmptySpan(s) ==
  \E r \in saved : /\ r.kind = "EmptyVerified"
                   /\ ~Within(s, r)
                   /\ r.lo - BAR < s /\ s < r.hi + BAR

\* No call fails for what an earlier one left behind: the manifest never
\* refuses what was planned from it, and no recorded chunk is missing.  Either
\* would fail every later call for that window.
NeverStuck == outcome.status \notin {"rejected", "unreadable"}

\* A call fails for its own download only; one that succeeds returns every bar
\* the venue had closed in the window when it began, after any crashes, failed
\* downloads and earlier windows - but for bars hidden by an error read as an
\* empty page, and for those beside a span recorded as empty whose end is not
\* a bar's stamp (load_bars).
LoadComplete ==
  /\ NeverStuck
  /\ outcome.status = "ok" =>
       \A o \in history :
         LET s == StampOf(o)
         IN  outcome.lo <= s /\ s <= outcome.hi /\ s <= outcome.wall =>
               o \in Opens(outcome.bars) \/ s \in swallowed \/ BesideEmptySpan(s)

\* Nothing the venue has is recorded as empty, nor what it has not closed yet:
\* a failed download, a page limit or a retention horizon never turns into a
\* verified hole (record_fetched_gap) - but for errors read as empty pages.
VerifiedEmptyIsEmpty ==
  \A r \in saved \cup manifest : r.kind = "EmptyVerified" =>
    \A o \in history : Within(StampOf(o), r) => StampOf(o) \in swallowed

\* What the cache records is so, at every step and after every crash: its
\* ranges are disjoint, those it calls downloaded are on disk and whole, those
\* it calls empty are empty.
CoverageTrue == CoverageDisjoint /\ CoverageBacked /\ VerifiedEmptyIsEmpty

\* A connector that leaves out the forming candle never has one cached, nor
\* recovered from a journal that a crash left with it (parse_candles of OKX).
ClosedBarsOnly ==
  venue = "okx" => \A f \in chunks : \A c \in f.bars : c.done

\* A journal is deleted only when every bar of its gap is in a chunk file, so
\* no crash loses a flushed page (recover_orphans; remove_file in load_bars).
JournalOutlived ==
  [][\A j \in journals : \A c \in j.bars :
       Within(Stamp(venue, c), j) =>
         \E f \in journals' \cup chunks' : c.open \in Opens(f.bars)]_vars

\* Every call of load_bars ends.
LoadEnds == stage # "idle" ~> stage = "idle"
=============================================================================
