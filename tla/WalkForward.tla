----------------------------- MODULE WalkForward ----------------------------
(***************************************************************************)
(* Out-of-sample validation: the window generators and slice_window        *)
(* (akadro-analytics/src/walk_forward.rs), the runner that fits on one     *)
(* slice and evaluates on the next (akadro-backtest's walk_forward_run.rs),*)
(* the pooling of what was evaluated, and the combinatorial splits of      *)
(* grid.rs.                                                                *)
(*                                                                         *)
(* A bar is its stamp and its instrument.  fit and the engine's run are    *)
(* the caller's: what counts is which bars each is given.                  *)
(***************************************************************************)
EXTENDS Filtering, Integers, Sequences, FiniteSets, FiniteSetsExt, SequencesExt

CONSTANTS
  Plans,       \* the arguments of a generator: scheme, begin, end, train, test,
               \*   step, purge and embargo
  Timelines,   \* the bars there may be: sequences of [ts, instrument]
  Groupings    \* the arguments of combinatorial_splits: [groups, chosen]

Schemes == {"rolling", "purged", "anchored"}

ASSUME WalkForwardAssumption ==
  /\ \A p \in Plans :
       p.scheme \in Schemes
       /\ {p.begin, p.end, p.train, p.test, p.step, p.purge, p.embargo} \subseteq Int
  /\ \A t \in Timelines : t \in Seq(ToSet(t)) /\ \A n \in DOMAIN t : t[n].ts \in Int
  /\ \A g \in Groupings : {g.groups, g.chosen} \subseteq Nat

VARIABLES
  plan,
  windows,   \* the windows generated
  bars,
  fold,      \* the window the runner is at, counted from 1; 0 before it begins
  stage,     \* "generate", "check", "fit", "evaluate", "pool", "done" or "refused"
  fitted,    \* history: the bars fit has been given, in this fold or earlier;
             \*   state is threaded from fold to fold
  folds,     \* for each fold run, the bars its engine was given and whether its
             \*   equity stayed positive
  summary    \* WalkForwardSummary

splitVars == <<plan, windows, bars, fold, stage, fitted, folds, summary>>

NoSummary == [folds |-> 0, measured |-> 0, unmeasurable |-> 0, periods |-> 0]

FoldInit ==
  /\ plan \in Plans /\ bars \in Timelines
  /\ windows = << >> /\ fold = 0 /\ stage = "generate"
  /\ fitted = {} /\ folds = << >> /\ summary = NoSummary

-----------------------------------------------------------------------------
(* The generators                                                           *)

\* Window k, from 0: the origin advances by the step, or with the anchored
\* scheme the training grows by it.
WindowAt(p, k) ==
  LET trainStart == IF p.scheme = "anchored" THEN p.begin ELSE p.begin + k * p.step
      trainEnd   == p.begin + k * p.step + p.train
      testStart  == trainEnd + (IF p.scheme = "purged" THEN p.purge ELSE 0)
  IN  [trainStart |-> trainStart, trainEnd |-> trainEnd,
       testStart |-> testStart, testEnd |-> testStart + p.test]

IsValid(p) ==
  /\ p.train > 0 /\ p.test > 0 /\ p.step > 0
  /\ p.scheme = "purged" => p.purge >= 0 /\ p.embargo >= 0

Embargo(p) == IF p.scheme = "purged" THEN p.embargo ELSE 0

\* A window's test and the embargo after it end no later than the data.
Fits(p, k) == WindowAt(p, k).testEnd + Embargo(p) <= p.end

\* The loop ends at the first window that does not fit; none after it does.
Generate ==
  /\ stage = "generate"
  /\ LET places == IF IsValid(plan) THEN {k \in 0..(plan.end - plan.begin) : Fits(plan, k)} ELSE {}
     IN  windows' = [n \in 1..Cardinality(places) |-> WindowAt(plan, n - 1)]
  /\ stage' = "check"
  /\ UNCHANGED <<plan, bars, fold, fitted, folds, summary>>

-----------------------------------------------------------------------------
(* WalkForwardBacktest::run                                                 *)

\* check_bars_ordered: stamps never go back, and no instrument has two bars of
\* one stamp next to each other.
IsOrdered(series) ==
  \A n \in 1..(Len(series) - 1) :
    /\ series[n].ts <= series[n + 1].ts
    /\ series[n].ts = series[n + 1].ts => series[n].instrument # series[n + 1].instrument

\* Seeded fault: the training slice takes in its end.
SliceWithEnd(series, lo, hi) == Keep(series, {b \in ToSet(series) : lo <= b.ts /\ b.ts <= hi})

Slice(series, lo, hi) == Keep(series, {b \in ToSet(series) : lo <= b.ts /\ b.ts < hi})

Turn(n) ==
  /\ fold' = n
  /\ stage' = IF n \in DOMAIN windows THEN "fit" ELSE "pool"

CheckOrder ==
  /\ stage = "check"
  /\ IF IsOrdered(bars) THEN Turn(1) ELSE stage' = "refused" /\ UNCHANGED fold
  /\ UNCHANGED <<plan, windows, bars, fitted, folds, summary>>

Fit ==
  /\ stage = "fit"
  /\ LET w == windows[fold]
     IN  fitted' = fitted \cup ToSet(Slice(bars, w.trainStart, w.trainEnd))
  /\ stage' = "evaluate"
  /\ UNCHANGED <<plan, windows, bars, fold, folds, summary>>

\* A fresh engine over the test slice; its equity curve has a point for each bar.
Evaluate ==
  /\ stage = "evaluate"
  /\ LET w == windows[fold]
     IN  \E solvent \in BOOLEAN :
           folds' = Append(folds, [test |-> Slice(bars, w.testStart, w.testEnd),
                                   solvent |-> solvent])
  /\ Turn(fold + 1)
  /\ UNCHANGED <<plan, windows, bars, fitted, summary>>

\* returns_from_equity: None for a curve of fewer than two points or one that is
\* not positive throughout.
IsMeasurable(f) == Len(f.test) >= 2 /\ f.solvent

Pool ==
  /\ stage = "pool"
  /\ LET measured == {n \in DOMAIN folds : IsMeasurable(folds[n])}
         returns  == [n \in DOMAIN folds |-> Len(folds[n].test) - 1]
     IN  summary' = [folds |-> Len(folds), measured |-> Cardinality(measured),
                     unmeasurable |-> Cardinality(DOMAIN folds \ measured),
                     periods |-> SumFunctionOnSet(returns, measured)]
  /\ stage' = "done"
  /\ UNCHANGED <<plan, windows, bars, fold, fitted, folds>>

FoldNext == Generate \/ CheckOrder \/ Fit \/ Evaluate \/ Pool

-----------------------------------------------------------------------------
(* combinatorial_splits: block indices count from 0, places in idx from 1   *)

VARIABLES
  grouping,   \* the arguments
  idx,        \* the current combination, << >> before the first and after the last
  splits      \* the pairs of training and test blocks so far

cscvVars == <<grouping, idx, splits>>

SplitOf(test) == [test |-> test, train |-> (0..(grouping.groups - 1)) \ ToSet(test)]

SplitInit ==
  /\ grouping \in Groupings
  /\ splits = << >>
  /\ idx = IF grouping.chosen = 0 \/ grouping.chosen > grouping.groups THEN << >>
           ELSE [i \in 1..grouping.chosen |-> i - 1]

\* The places that can still advance: block i - 1 + groups - chosen is as far
\* as place i goes.
Movable == {i \in DOMAIN idx : idx[i] # (i - 1) + grouping.groups - grouping.chosen}

\* The split is recorded; the last place that can advances by one, and those
\* after it follow close behind.
NextSplit ==
  /\ idx # << >>
  /\ splits' = Append(splits, SplitOf(idx))
  /\ idx' = IF Movable = {} THEN << >>
            ELSE LET i == Max(Movable)
                 IN  [j \in DOMAIN idx |-> IF j < i THEN idx[j] ELSE idx[i] + 1 + (j - i)]
  /\ UNCHANGED grouping

\* The two share no state.
ValidationSpec ==
  /\ FoldInit /\ SplitInit
  /\ [][\/ FoldNext /\ UNCHANGED cscvVars
        \/ NextSplit /\ UNCHANGED splitVars]_<<splitVars, cscvVars>>

-----------------------------------------------------------------------------
(* Properties *)

\* Nothing a fit has seen, in this fold or an earlier one, is as late as a bar
\* its fold is judged on; the purge lies between.
NoLeak ==
  stage = "evaluate" =>
    LET w == windows[fold]
    IN  \A seen \in fitted, b \in ToSet(Slice(bars, w.testStart, w.testEnd)) :
          seen.ts + (w.testStart - w.trainEnd) < b.ts

\* With a step of one test, every bar from the first window's test to the last
\* one's is judged once, and none beyond; and no window was left out.
TestsTile ==
  stage = "done" /\ windows # << >> /\ plan.step = plan.test =>
    LET judged == FlattenSeq([n \in DOMAIN folds |-> folds[n].test])
        end    == Last(windows).testEnd
    IN  /\ judged = Slice(bars, Head(windows).testStart, end)
        /\ end <= plan.end - Embargo(plan)
        /\ plan.end - Embargo(plan) < end + plan.step

\* Every fold is counted, and no pooled return joins two folds: what is pooled
\* is one short of the bars judged, for each fold that can be measured.
PoolingCounts ==
  stage = "done" =>
    LET judged == FlattenSeq([n \in DOMAIN folds |->
                                IF IsMeasurable(folds[n]) THEN folds[n].test ELSE << >>])
    IN  /\ summary.measured + summary.unmeasurable = Len(windows)
        /\ summary.periods = Len(judged) - summary.measured

\* Lexicographically.
IsBelow(s, t) == \E i \in DOMAIN s : s[i] < t[i] /\ \A j \in 1..(i - 1) : s[j] = t[j]

\* Each choice of blocks comes once, in lexicographic order, with its complement.
SplitsComplete ==
  LET blocks == 0..(grouping.groups - 1)
  IN  /\ \A n \in 1..(Len(splits) - 1) : IsBelow(splits[n].test, splits[n + 1].test)
      /\ \A n \in DOMAIN splits :
           /\ splits[n].train \cap ToSet(splits[n].test) = {}
           /\ splits[n].train \cup ToSet(splits[n].test) = blocks
      /\ (idx = << >> /\ grouping.chosen > 0) =>
           {ToSet(splits[n].test) : n \in DOMAIN splits} = kSubset(grouping.chosen, blocks)

\* Validation is out of sample: walk_forward and its variants, slice_window, the
\* runner, WalkForwardSummary and combinatorial_splits.
FoldsSound == NoLeak /\ TestsTile /\ PoolingCounts /\ SplitsComplete
=============================================================================
