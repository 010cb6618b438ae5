------------------------------ MODULE BatchFeed ------------------------------
(***************************************************************************)
(* From a batch of loaded series to the engine's single source: the series *)
(* that loaded, in the order of the requests, and an auxiliary signal      *)
(* series, merged by a MergeSource (merge.rs).  An event is the child it   *)
(* comes from, its place there, and its stamp.                             *)
(***************************************************************************)
EXTENDS BatchLoad, Tournament, Filtering, TLC

CONSTANT Signals   \* the signal series there may be, as sequences of stamps

ASSUME SignalAssumption == Signals \subseteq Seq(Nat)

VARIABLES
  children,   \* MergeSource.sources: what each has left
  opened,     \* history: what each had
  heads,      \* MergeSource.heads: the stamp at the head, or Exhausted
  tree,
  stream,     \* the events handed to the engine
  merging     \* "no": not built yet; "unprimed"; "primed"; "ended"

mergeVars == <<children, opened, heads, tree, stream, merging>>
feedVars  == <<batchVars, mergeVars>>

FeedInit ==
  /\ BatchInit
  /\ children = << >> /\ opened = << >> /\ heads = << >>
  /\ tree = NewTree(<< >>, 0)
  /\ stream = << >>
  /\ merging = "no"

-----------------------------------------------------------------------------

\* load_many sorts the workers' results by index; those that are Ok become
\* children.  Sequences count from 1, slots of the tree from 0.
LoadedSeries ==
  LET inOrder == [n \in 1..Count |-> results[n - 1]]
  IN  Keep(inOrder, Series)

Build ==
  /\ merging = "no" /\ Joined
  /\ \E signal \in Signals :
       /\ children' = Append(LoadedSeries, signal)
       /\ opened' = children'
  /\ heads' = [n \in DOMAIN children' |-> Exhausted]
  /\ merging' = "unprimed"
  /\ UNCHANGED <<batchVars, tree, stream>>

HeadOf(child) == IF child = << >> THEN Exhausted ELSE Head(child)
RestOf(child) == IF child = << >> THEN << >> ELSE Tail(child)

\* The first pull asks every child for its first event and builds the tree.
Prime ==
  /\ merging = "unprimed"
  /\ heads' = [n \in DOMAIN children |-> HeadOf(children[n])]
  /\ children' = [n \in DOMAIN children |-> RestOf(children[n])]
  /\ tree' = NewTree([s \in 0..(Len(children) - 1) |-> HeadOf(children[s + 1])], Len(children))
  /\ merging' = "primed"
  /\ UNCHANGED <<batchVars, opened, stream>>

Place(n) == Len(opened[n]) - Len(children[n])

\* The winner's head goes out and its child is asked for the next.
Emit ==
  /\ merging = "primed"
  /\ LET n == Winner(tree) + 1
     IN  /\ n \in DOMAIN heads
         /\ heads[n] # Exhausted
         /\ stream' = Append(stream, [ts |-> heads[n], child |-> n, place |-> Place(n)])
         /\ heads' = [heads EXCEPT ![n] = HeadOf(children[n])]
         /\ children' = [children EXCEPT ![n] = RestOf(@)]
         /\ tree' = SetKey(tree, n - 1, HeadOf(children[n]))
  /\ UNCHANGED <<batchVars, opened, merging>>

\* The winner is padding or has nothing: so have all.
End ==
  /\ merging = "primed"
  /\ LET n == Winner(tree) + 1
     IN  n \in DOMAIN heads => heads[n] = Exhausted
  /\ merging' = "ended"
  /\ UNCHANGED <<batchVars, children, opened, heads, tree, stream>>

Merging == Build \/ Prime \/ Emit \/ End

FeedNext == Merging \/ (BatchNext /\ UNCHANGED mergeVars)

FeedSpec == FeedInit /\ [][FeedNext]_feedVars

-----------------------------------------------------------------------------

Before(a, b) ==
  \/ a.ts < b.ts
  \/ a.ts = b.ts /\ a.child < b.child
  \/ a.ts = b.ts /\ a.child = b.child /\ a.place < b.place

AllEvents ==
  UNION {{[ts |-> opened[n][p], child |-> n, place |-> p] : p \in DOMAIN opened[n]} :
           n \in DOMAIN opened}

\* The engine receives what one scan over all loaded events would give: by
\* time, then in the order of the requests, then as each series has them - and
\* all of it, whatever the tree looked like when some children had run dry
\* while others went on (MergeSource::next_event, load_many's input order).
MergeAgrees ==
  /\ \A m, n \in DOMAIN stream : m < n => Before(stream[m], stream[n])
  /\ LET sent == {stream[m] : m \in DOMAIN stream}
     IN  /\ sent \subseteq AllEvents
         /\ \A e \in sent, f \in AllEvents : Before(f, e) => f \in sent
         /\ merging = "ended" => sent = AllEvents
=============================================================================
