------------------------- MODULE SessionLineageProofs -------------------------
(***************************************************************************)
(* Theorems about SessionLineage for every finite set of sessions, every   *)
(* limit and every number of failures.                                     *)
(*                                                                         *)
(* The inductive invariant adds to the properties what the cached lineage  *)
(* is worth: the recorded paths form a forest (Forest), a session the      *)
(* guard or the disk knows has a path (KnownPaths), and a stored session   *)
(* that a start has skipped can never be found by a later one              *)
(* (SkippedStays).  On top of it, FilesInv says of the files what makes a  *)
(* chain of deletions safe to cut anywhere: a session that is open keeps   *)
(* its file (OpenKept), and every stored session below a member of a chain *)
(* comes before it in the same chain (Chains).  It says so of the sessions *)
(* of which every ancestor has had a file or may still get one (Hopeful):  *)
(* a start skips the others, and a later deletion overlooks them.          *)
(***************************************************************************)
EXTENDS SessionLineage, SequenceFacts, FiniteSetTheorems, TLAPS

Types ==
    /\ st \in [Sessions -> {"none", "stored", "live", "deleted"}]
    /\ path \in [Sessions -> SUBSET Sessions]
    /\ active \in [Sessions -> BOOLEAN]
    /\ focused \in Sessions /\ disk \subseteq Sessions

\* Paths contain their own session and the path of each ancestor, without cycles,
\* and end in one root.
Forest ==
    /\ \A s \in Sessions : path[s] # {} => s \in path[s]
    /\ \A s \in Sessions : \A a \in path[s] : path[a] # {} /\ path[a] \subseteq path[s]
    /\ \A s, a \in Sessions : a \in path[s] /\ s \in path[a] => a = s
    /\ \A s \in Sessions : \A r, q \in path[s] : path[r] = {r} /\ path[q] = {q} => r = q

KnownPaths ==
    /\ \A s \in Known : path[s] # {}
    /\ \A s \in disk : path[s] # {}

\* What a start skipped misses an ancestor that will never be written again.
SkippedStays ==
    \A s \in disk : st[s] = "none" => \E a \in path[s] : a \notin disk /\ st[a] = "none"

DepthLimit == \A s \in Sessions : path[s] # {} => Depth(s) <= MaxDepth

ActiveSet(r) == {d \in Descendants(r) : active[d]}
Kept(r)      == Descendants(r) \ revived

CountLimits ==
    \A r \in Sessions : path[r] = {r} =>
        Cardinality(ActiveSet(r)) <= MaxActive /\ Cardinality(Kept(r)) <= MaxTotal

Structure == Types /\ Forest /\ KnownPaths /\ SkippedStays

LineageInv ==
    /\ Structure /\ FocusedLive /\ NoneBelowDeleted
    /\ DepthLimit /\ CountLimits

-----------------------------------------------------------------------------
(* Counting.                                                               *)

\* A part of a set of sessions counts no more than the set.
LEMMA CountSub ==
    ASSUME NEW S \in SUBSET Sessions, NEW T \in SUBSET S
    PROVE  /\ Cardinality(S) \in Nat /\ Cardinality(T) \in Nat
           /\ Cardinality(T) <= Cardinality(S)
<1>1. IsFiniteSet(S)
      BY FS_Subset, LineageAssumption
<1>2. IsFiniteSet(T) /\ Cardinality(T) <= Cardinality(S)
      BY <1>1, FS_Subset
<1> QED BY <1>1, <1>2, FS_CardinalityType

\* One session more counts at most one more.
LEMMA CountAdd ==
    ASSUME NEW S \in SUBSET Sessions, NEW x \in Sessions, NEW T \in SUBSET (S \cup {x})
    PROVE  Cardinality(T) \in Nat /\ Cardinality(S) \in Nat
           /\ Cardinality(T) <= Cardinality(S) + 1
<1>1. Cardinality(S) \in Nat /\ IsFiniteSet(S)
      BY FS_Subset, FS_CardinalityType, LineageAssumption
<1>2. Cardinality(S \cup {x}) <= Cardinality(S) + 1
      BY <1>1, FS_AddElement
<1>3. Cardinality(T) \in Nat /\ Cardinality(T) <= Cardinality(S \cup {x})
           /\ Cardinality(S \cup {x}) \in Nat
      BY CountSub
<1> QED BY <1>1, <1>2, <1>3

\* A step after which every root counts only sessions it counted before keeps the
\* limits; a new root counts none.
LEMMA LimitsShrink ==
    ASSUME Types, CountLimits,
           \A r \in Sessions : path'[r] = {r} =>
               \/ /\ path[r] = {r}
                  /\ ActiveSet(r)' \subseteq ActiveSet(r) /\ Kept(r)' \subseteq Kept(r)
               \/ ActiveSet(r)' = {} /\ Kept(r)' = {}
    PROVE  CountLimits'
<1> SUFFICES ASSUME NEW r \in Sessions, path'[r] = {r}
             PROVE  Cardinality(ActiveSet(r)') <= MaxActive /\ Cardinality(Kept(r)') <= MaxTotal
    BY DEF CountLimits
<1>1. CASE path[r] = {r} /\ ActiveSet(r)' \subseteq ActiveSet(r) /\ Kept(r)' \subseteq Kept(r)
  <2>1. ActiveSet(r) \in SUBSET Sessions /\ Kept(r) \in SUBSET Sessions
        BY DEF ActiveSet, Kept, Descendants, DescendantsForDelete, Known
  <2>2. Cardinality(ActiveSet(r)) <= MaxActive /\ Cardinality(Kept(r)) <= MaxTotal
        BY <1>1 DEF CountLimits
  <2>3. /\ Cardinality(ActiveSet(r)') <= Cardinality(ActiveSet(r))
        /\ Cardinality(ActiveSet(r)') \in Nat /\ Cardinality(ActiveSet(r)) \in Nat
        BY <1>1, <2>1, CountSub
  <2>4. /\ Cardinality(Kept(r)') <= Cardinality(Kept(r))
        /\ Cardinality(Kept(r)') \in Nat /\ Cardinality(Kept(r)) \in Nat
        BY <1>1, <2>1, CountSub
  <2> QED BY <2>2, <2>3, <2>4, LineageAssumption
<1>2. CASE ActiveSet(r)' = {} /\ Kept(r)' = {}
  <2>1. Cardinality({}) = 0
        BY FS_EmptySet
  <2> QED BY <1>2, <2>1, LineageAssumption
<1> QED BY <1>1, <1>2

\* Cached lineage: a root in a session's path is its root (resolve_cached_lineage).
LEMMA RootOf ==
    ASSUME Types, Forest, NEW s \in Sessions, NEW r \in path[s], path[r] = {r}
    PROVE  Root(s) = r
BY DEF Types, Forest, Root

\* An id not yet given out names no session and is in no path.
LEMMA FreshFacts ==
    ASSUME Structure, Unused # {}
    PROVE  /\ Fresh \in Sessions /\ path[Fresh] = {}
           /\ st[Fresh] = "none" /\ Fresh \notin disk
           /\ \A s \in Sessions : Fresh \notin path[s]
<1>1. Fresh \in Unused
      BY DEF Fresh
<1> QED BY <1>1 DEF Unused, Structure, Types, Forest, KnownPaths, Known

-----------------------------------------------------------------------------
(* Steps.                                                                  *)

\* Steps that neither create, open, delete nor forget a session, and start none:
\* turns that end, releases, cancellations, saves and deletions of files.
LEMMA QuietStep ==
    ASSUME LineageInv, UNCHANGED <<st, path, focused, revived>>,
           active' \in [Sessions -> BOOLEAN], \A s \in Sessions : active'[s] => active[s],
           disk' \subseteq disk \cup Live
    PROVE  LineageInv'
<1> USE DEF LineageInv, Structure
<1>1. Types'
      BY DEF Types, Live
<1>2. Forest' /\ DepthLimit' /\ FocusedLive' /\ NoneBelowDeleted'
      BY DEF Forest, DepthLimit, Depth, FocusedLive, Live, NoneBelowDeleted, Known
<1>3. KnownPaths'
      BY DEF KnownPaths, Known, Live
<1>4. SkippedStays'
  <2> SUFFICES ASSUME NEW s \in disk', st[s] = "none"
               PROVE  \E a \in path[s] : a \notin disk' /\ st[a] = "none"
      BY DEF SkippedStays
  <2>1. s \in disk
        BY DEF Live
  <2>2. PICK a \in path[s] : a \notin disk /\ st[a] = "none"
        BY <2>1 DEF SkippedStays
  <2> QED BY <2>2 DEF Live
<1>5. CountLimits'
  <2>1. \A r \in Sessions : ActiveSet(r)' \subseteq ActiveSet(r) /\ Kept(r)' \subseteq Kept(r)
        BY DEF ActiveSet, Kept, Descendants, DescendantsForDelete, Known
  <2> QED BY <2>1, LimitsShrink
<1> QED BY <1>1, <1>2, <1>3, <1>4, <1>5

\* begin_execution counts the session before it lets it start, for its own root and
\* no other.
LEMMA MayBeginCounts ==
    ASSUME Types, Forest, CountLimits, NEW s \in Sessions, MayBegin(s),
           NEW r \in Sessions, path[r] = {r},
           NEW T, T \subseteq ActiveSet(r) \cup {s}, s \in T => s \in Descendants(r)
    PROVE  Cardinality(T) <= MaxActive
<1>1. ActiveSet(r) \in SUBSET Sessions /\ Cardinality(ActiveSet(r)) <= MaxActive
      BY DEF CountLimits, ActiveSet, Descendants, DescendantsForDelete, Known
<1>2. CASE T \subseteq ActiveSet(r)
      BY <1>1, <1>2, CountSub, LineageAssumption
<1>3. CASE ~(T \subseteq ActiveSet(r))
  <2>1. s \in Descendants(r) /\ ~active[s]
        BY <1>3 DEF ActiveSet
  <2>2. r \in path[s] /\ s # r
        BY <2>1 DEF Descendants, DescendantsForDelete
  <2>3. Root(s) = r
        BY <2>2, RootOf
  <2>4. Cardinality(ActiveSet(r)) < MaxActive
        BY <2>1, <2>2, <2>3 DEF MayBegin, Active, ActiveSet
  <2>5. /\ Cardinality(T) \in Nat /\ Cardinality(ActiveSet(r)) \in Nat
        /\ Cardinality(T) <= Cardinality(ActiveSet(r)) + 1
        BY <1>1, CountAdd
  <2> QED BY <2>4, <2>5, LineageAssumption
<1> QED BY <1>2, <1>3

\* The start of a session's execution (begin_execution).
LEMMA BeginStep ==
    ASSUME LineageInv, NEW s \in Sessions, Begin(s)
    PROVE  LineageInv'
<1> USE DEF LineageInv, Structure
<1>1. UNCHANGED <<st, path, focused, revived, disk>>
      BY DEF Begin, NodesOnly
<1>2. active' = [active EXCEPT ![s] = TRUE] /\ MayBegin(s)
      BY DEF Begin
<1>3. Types' /\ Forest' /\ DepthLimit' /\ FocusedLive' /\ NoneBelowDeleted'
           /\ KnownPaths' /\ SkippedStays'
      BY <1>1, <1>2 DEF Types, Forest, DepthLimit, Depth, FocusedLive, Live, NoneBelowDeleted,
                        Known, KnownPaths, SkippedStays
<1>4. CountLimits'
  <2> SUFFICES ASSUME NEW r \in Sessions, path[r] = {r}
               PROVE  Cardinality(ActiveSet(r)') <= MaxActive /\ Cardinality(Kept(r)') <= MaxTotal
      BY <1>1 DEF CountLimits
  <2>1. Kept(r)' = Kept(r) /\ Descendants(r)' = Descendants(r)
        BY <1>1 DEF Kept, Descendants, DescendantsForDelete, Known
  <2>2. ActiveSet(r)' \subseteq ActiveSet(r) \cup {s} /\ ActiveSet(r)' \subseteq Descendants(r)
        BY <1>2, <2>1 DEF ActiveSet, Types
  <2>3. Cardinality(ActiveSet(r)') <= MaxActive
        BY <1>2, <2>2, MayBeginCounts
  <2> QED BY <2>1, <2>3 DEF CountLimits
<1> QED BY <1>3, <1>4

\* A session is focused, and opened if it was only stored (activate_runtime).
LEMMA FocusStep ==
    ASSUME LineageInv, NEW s \in Sessions, NEW work \in BOOLEAN, Focus(s, work)
    PROVE  LineageInv'
<1> USE DEF LineageInv, Structure
<1>0. focused' = s /\ UNCHANGED <<path, disk, revived>>
      BY DEF Focus, NodesOnly
<1>1. CASE s \in Live
  <2>1. UNCHANGED <<st, active>>
        BY <1>1 DEF Focus
  <2>2. Types' /\ Forest' /\ DepthLimit' /\ FocusedLive' /\ NoneBelowDeleted'
             /\ KnownPaths' /\ SkippedStays'
        BY <1>0, <1>1, <2>1 DEF Types, Forest, DepthLimit, Depth, FocusedLive, Live,
           NoneBelowDeleted, Known, KnownPaths, SkippedStays
  <2>3. \A r \in Sessions : ActiveSet(r)' = ActiveSet(r) /\ Kept(r)' = Kept(r)
        BY <1>0, <2>1 DEF ActiveSet, Kept, Descendants, DescendantsForDelete, Known
  <2>4. CountLimits'
        BY <1>0, <2>3 DEF CountLimits
  <2> QED BY <2>2, <2>4
<1>2. CASE s \notin Live
  <2>1. /\ s \in disk /\ st[s] # "deleted" /\ path[s] \subseteq Known
        /\ st' = [st EXCEPT ![s] = "live"]
        /\ active' = [active EXCEPT ![s] = work]
        /\ work => MayBegin(s)
        BY <1>2 DEF Focus, Activate
  <2>2. s \in path[s] /\ st[s] # "none"
        BY <2>1 DEF KnownPaths, Forest, Known, Types
  <2>3. Types' /\ Forest' /\ DepthLimit' /\ FocusedLive' /\ SkippedStays' /\ Known' = Known
        BY <1>0, <2>1, <2>2 DEF Types, Forest, DepthLimit, Depth, FocusedLive, Live, SkippedStays,
                                Known
  <2>4. KnownPaths'
        BY <1>0, <2>1, <2>3 DEF KnownPaths
  <2>5. NoneBelowDeleted'
        BY <1>0, <2>1, <2>2, <2>3 DEF NoneBelowDeleted, Known, Types
  <2>6. CountLimits'
    <3> SUFFICES ASSUME NEW r \in Sessions, path[r] = {r}
                 PROVE  /\ Cardinality(ActiveSet(r)') <= MaxActive
                        /\ Cardinality(Kept(r)') <= MaxTotal
        BY <1>0 DEF CountLimits
    <3>1. Descendants(r)' = Descendants(r) /\ Kept(r)' = Kept(r)
          BY <1>0, <2>1, <2>3 DEF Kept, Descendants, DescendantsForDelete, Types, Known
    <3>2. /\ ActiveSet(r)' \subseteq ActiveSet(r) \cup {s}
          /\ ActiveSet(r)' \subseteq Descendants(r)
          /\ ~work => ActiveSet(r)' \subseteq ActiveSet(r)
          BY <2>1, <3>1 DEF ActiveSet, Types
    <3>3. CASE work
          BY <2>1, <3>1, <3>2, <3>3, MayBeginCounts DEF CountLimits
    <3>4. CASE ~work
      <4>1. ActiveSet(r) \in SUBSET Sessions
            BY DEF ActiveSet, Descendants, DescendantsForDelete, Known
      <4>2. /\ Cardinality(ActiveSet(r)') <= Cardinality(ActiveSet(r))
            /\ Cardinality(ActiveSet(r)') \in Nat /\ Cardinality(ActiveSet(r)) \in Nat
            BY <3>2, <3>4, <4>1, CountSub
      <4> QED BY <3>1, <4>2, LineageAssumption DEF CountLimits
    <3> QED BY <3>3, <3>4
  <2> QED BY <2>3, <2>4, <2>5, <2>6
<1> QED BY <1>1, <1>2

\* A child is created (reserve_new, commit_new).
LEMMA NewStep ==
    ASSUME LineageInv, NEW caller \in Live, NEW execution \in BOOLEAN, NEW focus \in BOOLEAN,
           New(caller, execution, focus)
    PROVE  LineageInv'
<1> USE DEF LineageInv, Structure
<1> DEFINE f == Fresh
<1>0. /\ caller \in Sessions /\ st[caller] = "live" /\ MayReserve(caller, execution)
      /\ st' = [st EXCEPT ![f] = "live"]
      /\ path' = [path EXCEPT ![f] = path[caller] \cup {f}]
      /\ active' = [active EXCEPT ![f] = execution]
      /\ focused' \in {f, focused}
      /\ UNCHANGED <<disk, revived>>
      BY DEF New, NodesOnly, Live
<1>1. /\ f \in Sessions /\ path[f] = {} /\ st[f] = "none" /\ f \notin disk
      /\ \A s \in Sessions : f \notin path[s]
      BY FreshFacts DEF New
<1> HIDE DEF f
<1>2. caller \in path[caller] /\ path[caller] \subseteq Sessions /\ f # caller
           /\ \A a \in path[caller] : st[a] \notin {"none", "deleted"}
      BY <1>0, <1>1 DEF KnownPaths, Known, Forest, Types, NoneBelowDeleted
<1>3. Types' /\ Known' = Known \cup {f}
      BY <1>0, <1>1, <1>2 DEF Types, Known
<1>4. FocusedLive'
      BY <1>0, <1>1 DEF FocusedLive, Live, Types
<1>5. path'[f] = path[caller] \cup {f} /\ \A s \in Sessions \ {f} : path'[s] = path[s]
      BY <1>0, <1>1 DEF Types
<1>6. Forest'
  <2>1. \A s \in Sessions : path'[s] # {} => s \in path'[s]
        BY <1>5 DEF Forest
  <2>2. \A s \in Sessions : \A a \in path'[s] : path'[a] # {} /\ path'[a] \subseteq path'[s]
        BY <1>1, <1>2, <1>5 DEF Forest, Types
  <2>3. \A s, a \in Sessions : a \in path'[s] /\ s \in path'[a] => a = s
        BY <1>1, <1>2, <1>5 DEF Forest
  <2>4. \A s \in Sessions : \A r, q \in path'[s] : path'[r] = {r} /\ path'[q] = {q} => r = q
    <3> SUFFICES ASSUME NEW s \in Sessions, NEW r \in path'[s], NEW q \in path'[s],
                        path'[r] = {r}, path'[q] = {q}
                 PROVE  r = q
        OBVIOUS
    <3>1. r # f /\ q # f
          BY <1>2, <1>5
    <3>2. PICK t \in Sessions : r \in path[t] /\ q \in path[t]
          BY <1>0, <1>5, <3>1
    <3>3. r \in Sessions /\ q \in Sessions
          BY <3>2 DEF Types
    <3> QED BY <1>5, <3>1, <3>2, <3>3 DEF Forest
  <2> QED BY <2>1, <2>2, <2>3, <2>4 DEF Forest
<1>7. KnownPaths'
      BY <1>0, <1>1, <1>3, <1>5 DEF KnownPaths, Known, Types
<1>8. SkippedStays'
  <2> SUFFICES ASSUME NEW s \in disk, st'[s] = "none"
               PROVE  \E a \in path'[s] : a \notin disk /\ st'[a] = "none"
      BY <1>0 DEF SkippedStays
  <2>1. s \in Sessions /\ s # f /\ st[s] = "none" /\ path'[s] = path[s]
        BY <1>0, <1>1, <1>5 DEF Types
  <2>2. PICK a \in path[s] : a \notin disk /\ st[a] = "none"
        BY <2>1 DEF SkippedStays
  <2>3. a # f /\ a \in Sessions
        BY <1>1, <2>1 DEF Types
  <2> QED BY <1>0, <2>1, <2>2, <2>3 DEF Types
<1>9. NoneBelowDeleted'
  <2> SUFFICES ASSUME NEW s \in Known', st'[s] # "deleted", NEW a \in path'[s]
               PROVE  st'[a] \notin {"none", "deleted"}
      BY DEF NoneBelowDeleted
  <2>1. CASE s = f
        BY <1>0, <1>1, <1>2, <1>5, <2>1 DEF Types
  <2>2. CASE s # f
        BY <1>0, <1>1, <1>3, <1>5, <2>2 DEF Types, NoneBelowDeleted, Known
  <2> QED BY <2>1, <2>2
<1>10. DepthLimit'
  <2> SUFFICES ASSUME NEW s \in Sessions, path'[s] # {}
               PROVE  Cardinality(path'[s]) - 1 <= MaxDepth
      BY DEF DepthLimit, Depth
  <2>1. CASE s # f
        BY <1>5, <2>1 DEF DepthLimit, Depth
  <2>2. CASE s = f
    <3>1. /\ Cardinality(path'[f]) \in Nat /\ Cardinality(path[caller]) \in Nat
          /\ Cardinality(path'[f]) <= Cardinality(path[caller]) + 1
          BY <1>1, <1>2, <1>5, CountAdd
    <3>2. Cardinality(path[caller]) <= MaxDepth
      <4>1. Cardinality(path[caller]) - 1 + 1 <= MaxDepth
            BY <1>0 DEF MayReserve, Depth
      <4> QED BY <3>1, <4>1
    <3> QED BY <2>2, <3>1, <3>2, LineageAssumption
  <2> QED BY <2>1, <2>2
<1>11. CountLimits'
  <2> SUFFICES ASSUME NEW r \in Sessions, path'[r] = {r}
               PROVE  Cardinality(ActiveSet(r)') <= MaxActive /\ Cardinality(Kept(r)') <= MaxTotal
      BY DEF CountLimits
  <2>1. r # f /\ path[r] = {r}
        BY <1>2, <1>5
  <2>2. /\ Descendants(r)' \subseteq Descendants(r) \cup {f}
        /\ f \in Descendants(r)' => r \in path[caller]
    <3>1. \A d \in Descendants(r)' : d # f => d \in Descendants(r)
          BY <1>0, <1>1, <1>3, <1>5 DEF Descendants, DescendantsForDelete, Known, Types
    <3>2. f \in Descendants(r)' => r \in path[caller]
          BY <1>5, <2>1 DEF Descendants, DescendantsForDelete
    <3> QED BY <3>1, <3>2
  <2>3. /\ ActiveSet(r)' \subseteq ActiveSet(r) \cup {f}
        /\ Kept(r)' \subseteq Kept(r) \cup {f}
        BY <1>0, <2>2 DEF ActiveSet, Kept, Types, Descendants, DescendantsForDelete, Known
  <2>4. /\ ActiveSet(r) \in SUBSET Sessions /\ Kept(r) \in SUBSET Sessions
        /\ Descendants(r) \in SUBSET Sessions /\ Kept(r) \in SUBSET Descendants(r)
        BY DEF ActiveSet, Kept, Descendants, DescendantsForDelete, Known
  <2>5. Cardinality(ActiveSet(r)) <= MaxActive /\ Cardinality(Kept(r)) <= MaxTotal
        BY <2>1 DEF CountLimits
  <2>6. CASE r \notin path[caller]
    <3>1. ActiveSet(r)' \subseteq ActiveSet(r) /\ Kept(r)' \subseteq Kept(r)
          BY <2>2, <2>3, <2>6 DEF ActiveSet, Kept
    <3> QED BY <2>4, <2>5, <3>1, CountSub, LineageAssumption
  <2>7. CASE r \in path[caller]
    <3>1. Root(caller) = r
          BY <1>0, <2>1, <2>7, RootOf
    <3>2. Cardinality(Descendants(r)) < MaxTotal
          BY <1>0, <3>1 DEF MayReserve, Total
    <3>3. /\ Cardinality(Kept(r)) <= Cardinality(Descendants(r))
          /\ Cardinality(Kept(r)) \in Nat /\ Cardinality(Descendants(r)) \in Nat
          BY <2>4, CountSub
    <3>4. Cardinality(Kept(r)') \in Nat /\ Cardinality(Kept(r)') <= Cardinality(Kept(r)) + 1
          BY <1>1, <2>3, <2>4, CountAdd
    <3>5. Cardinality(Kept(r)') <= MaxTotal
          BY <3>2, <3>3, <3>4, LineageAssumption
    <3>6. CASE execution
      <4>1. Cardinality(ActiveSet(r)) < MaxActive
            BY <1>0, <3>1, <3>6 DEF MayReserve, Active, ActiveSet
      <4>2. /\ Cardinality(ActiveSet(r)') \in Nat /\ Cardinality(ActiveSet(r)) \in Nat
            /\ Cardinality(ActiveSet(r)') <= Cardinality(ActiveSet(r)) + 1
            BY <1>1, <2>3, <2>4, CountAdd
      <4> QED BY <3>5, <4>1, <4>2, LineageAssumption
    <3>7. CASE ~execution
      <4>1. ActiveSet(r)' \subseteq ActiveSet(r)
            BY <1>0, <1>1, <2>3, <3>7 DEF ActiveSet, Types
      <4> QED BY <2>4, <2>5, <3>5, <4>1, CountSub, LineageAssumption
    <3> QED BY <3>6, <3>7
  <2> QED BY <2>6, <2>7
<1> QED BY <1>3, <1>4, <1>6, <1>7, <1>8, <1>9, <1>10, <1>11

\* A new root leaves the forest a forest.
LEMMA NewRoot ==
    ASSUME Types, Forest, NEW f \in Sessions, path[f] = {}, \A s \in Sessions : f \notin path[s],
           path'[f] = {f}, \A s \in Sessions \ {f} : path'[s] = path[s]
    PROVE  Forest'
<1>1. \A s \in Sessions : path'[s] # {} => s \in path'[s]
      BY DEF Forest
<1>2. \A s \in Sessions : \A a \in path'[s] : path'[a] # {} /\ path'[a] \subseteq path'[s]
  <2> SUFFICES ASSUME NEW s \in Sessions, NEW a \in path'[s]
               PROVE  path'[a] # {} /\ path'[a] \subseteq path'[s]
      OBVIOUS
  <2>1. CASE s = f
        BY <2>1
  <2>2. CASE s # f
        BY <2>2 DEF Forest, Types
  <2> QED BY <2>1, <2>2
<1>3. \A s, a \in Sessions : a \in path'[s] /\ s \in path'[a] => a = s
  <2> SUFFICES ASSUME NEW s \in Sessions, NEW a \in Sessions, a \in path'[s], s \in path'[a]
               PROVE  a = s
      OBVIOUS
  <2>1. CASE s = f \/ a = f
        BY <2>1
  <2>2. CASE s # f /\ a # f
        BY <2>2 DEF Forest
  <2> QED BY <2>1, <2>2
<1>4. \A s \in Sessions : \A r, q \in path'[s] : path'[r] = {r} /\ path'[q] = {q} => r = q
  <2> SUFFICES ASSUME NEW s \in Sessions, NEW r \in path'[s], NEW q \in path'[s],
                      path'[r] = {r}, path'[q] = {q}
               PROVE  r = q
      OBVIOUS
  <2>1. CASE s = f
        BY <2>1
  <2>2. CASE s # f
    <3>1. r \in Sessions \ {f} /\ q \in Sessions \ {f} /\ r \in path[s] /\ q \in path[s]
          BY <2>2 DEF Types
    <3> QED BY <3>1 DEF Forest
  <2> QED BY <2>1, <2>2
<1> QED BY <1>1, <1>2, <1>3, <1>4 DEF Forest

\* The focused session makes way for a new root (replace_runtime).
LEMMA ResetStep ==
    ASSUME LineageInv, Reset
    PROVE  LineageInv'
<1> USE DEF LineageInv, Structure
<1> PICK f : f = Fresh
    OBVIOUS
<1>0. /\ st' = [st EXCEPT ![focused] = "stored", ![f] = "live"]
      /\ path' = [path EXCEPT ![f] = {f}]
      /\ active' = [active EXCEPT ![focused] = FALSE]
      /\ focused' = f
      /\ UNCHANGED <<disk, revived>>
      BY DEF Reset, NodesOnly
<1>1. /\ f \in Sessions /\ path[f] = {} /\ st[f] = "none" /\ f \notin disk
      /\ \A s \in Sessions : f \notin path[s]
      BY FreshFacts DEF Reset
<1>2. focused \in Sessions /\ st[focused] = "live" /\ focused # f
      BY <1>1 DEF FocusedLive, Live
<1>3. /\ st'[f] = "live" /\ st'[focused] = "stored"
      /\ \A s \in Sessions \ {f, focused} : st'[s] = st[s]
      /\ path'[f] = {f} /\ \A s \in Sessions \ {f} : path'[s] = path[s]
      /\ \A s \in Sessions : active'[s] => active[s]
      BY <1>0, <1>1, <1>2 DEF Types
<1>4. Types' /\ FocusedLive' /\ Known' = Known \cup {f}
      BY <1>0, <1>1, <1>2, <1>3 DEF Types, FocusedLive, Live, Known
<1>5. Forest'
      BY <1>1, <1>3, NewRoot
<1>6. KnownPaths'
      BY <1>0, <1>1, <1>3, <1>4 DEF KnownPaths, Known, Types
<1>7. SkippedStays'
  <2> SUFFICES ASSUME NEW s \in disk, st'[s] = "none"
               PROVE  \E a \in path'[s] : a \notin disk /\ st'[a] = "none"
      BY <1>0 DEF SkippedStays
  <2>1. s \in Sessions /\ s # f /\ st[s] = "none" /\ path'[s] = path[s]
        BY <1>1, <1>3 DEF Types
  <2>2. PICK a \in path[s] : a \notin disk /\ st[a] = "none"
        BY <2>1 DEF SkippedStays
  <2>3. a # f /\ a # focused /\ a \in Sessions
        BY <1>1, <1>2, <2>1, <2>2 DEF Types
  <2> QED BY <1>3, <2>1, <2>2, <2>3
<1>8. NoneBelowDeleted'
  <2> SUFFICES ASSUME NEW s \in Known', st'[s] # "deleted", NEW a \in path'[s]
               PROVE  st'[a] \notin {"none", "deleted"}
      BY DEF NoneBelowDeleted
  <2>1. CASE s = f
        BY <1>3, <2>1
  <2>2. CASE s # f
    <3>1. s \in Known /\ st[s] # "deleted" /\ a \in path[s]
          BY <1>2, <1>3, <1>4, <2>2 DEF Known
    <3>2. st[a] \notin {"none", "deleted"} /\ a \in Sessions /\ a # f
          BY <1>1, <3>1 DEF NoneBelowDeleted, Known, Types
    <3> QED BY <1>3, <3>2
  <2> QED BY <2>1, <2>2
<1>9. DepthLimit'
  <2>1. Cardinality({f}) = 1
        BY FS_Singleton
  <2>2. ASSUME NEW s \in Sessions, path'[s] # {}
        PROVE  Cardinality(path'[s]) - 1 <= MaxDepth
    <3>1. CASE s = f
          BY <1>3, <2>1, <3>1, LineageAssumption
    <3>2. CASE s # f
          BY <1>3, <2>2, <3>2 DEF DepthLimit, Depth
    <3> QED BY <3>1, <3>2
  <2> QED BY <2>2 DEF DepthLimit, Depth
<1>10. CountLimits'
  <2>1. \A r \in Sessions \ {f} :
            ActiveSet(r)' \subseteq ActiveSet(r) /\ Kept(r)' \subseteq Kept(r)
    <3>1. \A r \in Sessions \ {f} : Descendants(r)' \subseteq Descendants(r)
          BY <1>2, <1>3, <1>4 DEF Descendants, DescendantsForDelete, Known
    <3> QED BY <1>0, <1>3, <3>1 DEF ActiveSet, Kept, Descendants, DescendantsForDelete, Known
  <2>2. ActiveSet(f)' = {} /\ Kept(f)' = {}
        BY <1>1, <1>3 DEF ActiveSet, Kept, Descendants, DescendantsForDelete, Known
  <2> QED BY <1>3, <2>1, <2>2, LimitsShrink
<1> QED BY <1>4, <1>5, <1>6, <1>7, <1>8, <1>9, <1>10

\* Deleting a set of sessions that contains the retained sessions below each of its
\* members and not the focused one (remove_sessions).
LEMMA RemoveStep ==
    ASSUME LineageInv, NEW targets \in SUBSET Sessions, focused \notin targets,
           \A s \in Known : \A a \in path[s] :
               st[s] # "deleted" /\ a \in targets => s \in targets,
           RemoveSessions(targets)
    PROVE  LineageInv'
<1> USE DEF LineageInv, Structure
<1>0. /\ st' = [s \in Sessions |-> IF s \in targets \cap Known THEN "deleted" ELSE st[s]]
      /\ active' = [s \in Sessions |-> active[s] /\ s \notin targets]
      /\ UNCHANGED <<path, focused, disk, revived>>
      BY DEF RemoveSessions
<1>1. Types' /\ FocusedLive' /\ Forest' /\ DepthLimit' /\ Known' = Known
      BY <1>0 DEF Types, FocusedLive, Live, Forest, DepthLimit, Depth, Known
<1>2. KnownPaths' /\ SkippedStays'
      BY <1>0, <1>1 DEF KnownPaths, SkippedStays, Known, Types
<1>3. NoneBelowDeleted'
  <2> SUFFICES ASSUME NEW s \in Known, st'[s] # "deleted", NEW a \in path[s]
               PROVE  st'[a] \notin {"none", "deleted"}
      BY <1>0, <1>1 DEF NoneBelowDeleted
  <2>1. s \in Sessions /\ s \notin targets /\ st[s] # "deleted"
        BY <1>0 DEF Known
  <2>2. a \notin targets /\ a \in Sessions
        BY <2>1 DEF Types
  <2> QED BY <1>0, <2>1, <2>2 DEF NoneBelowDeleted
<1>4. CountLimits'
  <2>1. \A r \in Sessions : ActiveSet(r)' \subseteq ActiveSet(r) /\ Kept(r)' \subseteq Kept(r)
        BY <1>0, <1>1 DEF ActiveSet, Kept, Descendants, DescendantsForDelete, Known
  <2> QED BY <1>0, <2>1, LimitsShrink
<1> QED BY <1>1, <1>2, <1>3, <1>4

\* Delete and Kill take a session with everything below it (descendants_for_delete).
LEMMA SubtreeClosed ==
    ASSUME Types, Forest, NEW t \in Sessions, NEW s \in Known, NEW a \in path[s],
           a \in {t} \cup DescendantsForDelete(t)
    PROVE  s \in {t} \cup DescendantsForDelete(t)
BY DEF Types, Forest, DescendantsForDelete, Known

\* What Reap selects: known sessions below the target, with every retained session below
\* each of them (select_reapable_sessions).
LEMMA ReapClosed ==
    ASSUME Structure, NEW target \in Live, NEW blocked, NEW below,
           below \in {Descendants(target), Descendants(target) \cup {target}}
    PROVE  /\ Selected(below, blocked) \subseteq below /\ below \subseteq Known
           /\ \A s \in Known : \A a \in path[s] :
                 st[s] # "deleted" /\ a \in Selected(below, blocked)
                 => s \in Selected(below, blocked)
<1> USE DEF Structure
<1> DEFINE targets == Selected(below, blocked)
<1>1. target \in Sessions /\ below \subseteq Known /\ Known \subseteq Sessions
           /\ targets \subseteq below
      BY DEF Live, Known, Descendants, DescendantsForDelete, Selected
<1>2. \A s \in Known : \A a \in path[s] : st[s] # "deleted" /\ a \in targets => s \in targets
  <2> SUFFICES ASSUME NEW s \in Known, NEW a \in path[s], st[s] # "deleted", a \in targets
               PROVE  s \in targets
      OBVIOUS
  <2>1. s \in Sessions /\ a \in Sessions /\ a \in below /\ path[a] \subseteq path[s]
        BY <1>1 DEF Forest
  <2>2. target \in path[a]
        BY <1>1, <2>1 DEF Descendants, DescendantsForDelete, KnownPaths, Forest
  <2>3. target \in path[s]
        BY <2>1, <2>2
  <2>4. s \in below
    <3>1. CASE s # target
          BY <2>3, <3>1 DEF Descendants, DescendantsForDelete, Known
    <3>2. CASE s = target
      <4>1. a = target
            BY <1>1, <2>1, <2>2, <3>2 DEF Forest
      <4> QED BY <2>1, <3>2, <4>1
    <3> QED BY <3>1, <3>2
  <2>5. ASSUME NEW e \in below, s \in path[e]
        PROVE  Reapable(e, blocked)
    <3>1. a \in path[e]
          BY <1>1, <2>5 DEF Forest
    <3> QED BY <3>1 DEF Selected
  <2> QED BY <2>4, <2>5 DEF Selected
<1> QED BY <1>1, <1>2

\* Reap takes the sessions all of whose retained descendants may go
\* (select_reapable_sessions), which leaves none behind, and never the focused one.
LEMMA ReapStep ==
    ASSUME LineageInv, NEW caller \in Live, NEW target \in Live, NEW blocked,
           Reap(caller, target, blocked)
    PROVE  LineageInv'
<1> USE DEF LineageInv, Structure
<1> DEFINE below == Descendants(target) \cup (IF caller = target THEN {} ELSE {target})
           targets == Selected(below, blocked)
<1>1. RemoveSessions(targets)
      BY DEF Reap
<1>2. target \in Sessions /\ below \subseteq Known /\ Known \subseteq Sessions
           /\ targets \subseteq below
      BY DEF Live, Known, Descendants, DescendantsForDelete, Selected
<1>3. focused \notin targets
  <2> SUFFICES ASSUME focused \in targets
               PROVE  FALSE
      OBVIOUS
  <2>1. focused \in path[focused]
        BY <1>2 DEF KnownPaths, Forest
  <2>2. Reapable(focused, blocked)
        BY <1>2, <2>1 DEF Selected
  <2> QED BY <2>2 DEF Reapable, FocusedLive
<1>4. \A s \in Known : \A a \in path[s] : st[s] # "deleted" /\ a \in targets => s \in targets
  <2>1. below \in {Descendants(target), Descendants(target) \cup {target}}
        OBVIOUS
  <2> HIDE DEF below
  <2> QED BY <2>1, ReapClosed
<1> QED BY <1>1, <1>2, <1>3, <1>4, RemoveStep

\* A crash, and what a start finds on disk (from_live).
LEMMA RestartStep ==
    ASSUME LineageInv, NEW s \in Sessions, NEW work \in BOOLEAN, Restart(s, work)
    PROVE  LineageInv'
<1> USE DEF LineageInv, Structure
<1> DEFINE found == {d \in disk : path[d] \subseteq disk}
<1>0. /\ s \in found \/ (Unused # {} /\ s = Fresh)
      /\ st' = [d \in Sessions |->
                  IF d = s THEN "live" ELSE IF d \in found THEN "stored" ELSE "none"]
      /\ active' = [d \in Sessions |-> d = s /\ work]
      /\ path' = IF s \in found THEN path ELSE [path EXCEPT ![s] = {s}]
      /\ focused' = s
      /\ revived' = revived \cup {d \in found : st[d] = "deleted"}
      /\ disk' = disk
      BY DEF Restart
<1>1. ~(s \in found) => path[s] = {} /\ s \notin disk /\ \A d \in Sessions : s \notin path[d]
      BY <1>0, FreshFacts
<1>2. /\ \A d \in Sessions \ {s} : path'[d] = path[d]
      /\ path'[s] = IF s \in found THEN path[s] ELSE {s}
      BY <1>0 DEF Types
<1>3. Types' /\ FocusedLive'
      BY <1>0 DEF Types, FocusedLive, Live
<1>4. Forest'
  <2>1. CASE s \in found
        BY <1>0, <2>1 DEF Forest
  <2>2. CASE s \notin found
        BY <1>1, <1>2, <2>2, NewRoot
  <2> QED BY <2>1, <2>2
<1>5. Known' = found \cup {s} /\ found \subseteq Sessions
      BY <1>0 DEF Known, Types
<1>6. \A d \in found : \A a \in path[d] : a \in found
      BY DEF Forest, Types
<1>7. KnownPaths'
      BY <1>0, <1>1, <1>2, <1>5 DEF KnownPaths, Types
<1>8. SkippedStays'
  <2> SUFFICES ASSUME NEW d \in disk, st'[d] = "none"
               PROVE  \E a \in path'[d] : a \notin disk /\ st'[a] = "none"
      BY <1>0 DEF SkippedStays
  <2>1. d \in Sessions /\ d # s /\ d \notin found
        BY <1>0 DEF Types
  <2>2. PICK a \in path[d] : a \notin disk
        BY <2>1
  <2>3. a \in Sessions /\ a # s /\ a \notin found
        BY <1>1, <2>1, <2>2 DEF Types
  <2> QED BY <1>0, <1>2, <2>1, <2>2, <2>3
<1>9. NoneBelowDeleted'
  <2> SUFFICES ASSUME NEW d \in Known', NEW a \in path'[d]
               PROVE  st'[a] \notin {"none", "deleted"}
      BY DEF NoneBelowDeleted
  <2>1. a \in found \cup {s}
        BY <1>2, <1>5, <1>6
  <2> QED BY <1>0, <1>5, <2>1
<1>10. DepthLimit'
  <2>1. Cardinality({s}) = 1
        BY FS_Singleton
  <2> QED BY <1>2, <2>1, LineageAssumption DEF DepthLimit, Depth
<1>11. CountLimits'
  <2> SUFFICES ASSUME NEW r \in Sessions, path'[r] = {r}
               PROVE  Cardinality(ActiveSet(r)') <= MaxActive /\ Cardinality(Kept(r)') <= MaxTotal
      BY DEF CountLimits
  <2>1. Cardinality(ActiveSet(r)') <= MaxActive
    <3>1. ActiveSet(r)' \subseteq {s}
          BY <1>0, <1>3 DEF ActiveSet, Descendants, DescendantsForDelete, Known
    <3>2. /\ Cardinality({s}) = 1
          /\ Cardinality(ActiveSet(r)') \in Nat /\ Cardinality(ActiveSet(r)') <= Cardinality({s})
          BY <3>1, CountSub, FS_Singleton
    <3> QED BY <3>2, LineageAssumption
  <2>2. Kept(r)' \subseteq Kept(r) /\ (path[r] = {r} \/ Kept(r)' = {})
    <3>1. ASSUME NEW d \in Kept(r)'
          PROVE  d \in Kept(r) /\ path[r] = {r}
      <4>1. d \in Known' /\ d # r /\ r \in path'[d] /\ d \notin revived'
            BY <3>1 DEF Kept, Descendants, DescendantsForDelete, Known
      <4>2. d \in found /\ r \in path[d]
            BY <1>2, <1>5, <4>1
      <4>3. st[d] # "deleted" /\ d \notin revived
            BY <1>0, <4>1, <4>2
      <4>4. st[d] # "none"
            BY <4>2 DEF SkippedStays
      <4>5. r \in found
            BY <1>6, <4>2
      <4>6. path[r] = {r}
            BY <1>2, <4>5
      <4> QED BY <1>5, <4>1, <4>2, <4>3, <4>4, <4>6
              DEF Kept, Descendants, DescendantsForDelete, Known
    <3> QED BY <3>1
  <2>3. CASE path[r] = {r}
    <3>1. Kept(r) \in SUBSET Sessions /\ Cardinality(Kept(r)) <= MaxTotal
          BY <2>3 DEF CountLimits, Kept, Descendants, DescendantsForDelete, Known
    <3> QED BY <2>1, <2>2, <3>1, CountSub, LineageAssumption
  <2>4. CASE Kept(r)' = {}
        BY <2>1, <2>4, FS_EmptySet, LineageAssumption
  <2> QED BY <2>2, <2>3, <2>4
<1> QED BY <1>3, <1>4, <1>7, <1>8, <1>9, <1>10, <1>11

-----------------------------------------------------------------------------
(* Theorems.                                                               *)

\* Every request, failure and restart keeps the invariant.
LEMMA NextStep ==
    ASSUME LineageInv, [Next]_vars
    PROVE  LineageInv'
<1> USE DEF LineageInv, Structure
<1>1. ASSUME NEW c \in Live, NEW execution \in BOOLEAN, NEW focus \in BOOLEAN,
             New(c, execution, focus)
      PROVE  LineageInv'
      BY <1>1, NewStep
<1>2. ASSUME NEW s \in Sessions, Begin(s)
      PROVE  LineageInv'
      BY <1>2, BeginStep
<1>3. ASSUME NEW s \in Sessions, TurnDone(s) \/ Release(s) \/ Store(s)
      PROVE  LineageInv'
      BY <1>3, QuietStep DEF TurnDone, Release, Store, NodesOnly, nodes, Types, Live
<1>4. ASSUME NEW c \in Live, NEW t \in Live, Cancel(c, t)
      PROVE  LineageInv'
      BY <1>4, QuietStep DEF Cancel, NodesOnly, Types
<1>5. ASSUME NEW s \in Sessions, Delete(s)
      PROVE  LineageInv'
  <2> DEFINE targets == {s} \cup DescendantsForDelete(s)
  <2>1. targets \in SUBSET Sessions /\ focused \notin targets /\ RemoveSessions(targets)
        BY <1>5 DEF Delete, DescendantsForDelete, Known
  <2>2. \A d \in Known : \A a \in path[d] : a \in targets => d \in targets
        BY SubtreeClosed
  <2> QED BY <2>1, <2>2, RemoveStep
<1>6. ASSUME NEW c \in Live, NEW t \in Live, Kill(c, t)
      PROVE  LineageInv'
  <2> DEFINE targets == {t} \cup DescendantsForDelete(t)
  <2>1. t \in Sessions
        BY DEF Live
  <2>2. targets \in SUBSET Sessions /\ focused \notin targets /\ RemoveSessions(targets)
        BY <1>6, <2>1 DEF Kill, DescendantsForDelete, Known
  <2>3. \A d \in Known : \A a \in path[d] : a \in targets => d \in targets
        BY <2>1, SubtreeClosed
  <2> QED BY <2>2, <2>3, RemoveStep
<1>7. ASSUME NEW c \in Live, NEW t \in Live, NEW blocked, Reap(c, t, blocked)
      PROVE  LineageInv'
      BY <1>7, ReapStep
<1>8. ASSUME NEW s \in Sessions, NEW work \in BOOLEAN, Focus(s, work) \/ Restart(s, work)
      PROVE  LineageInv'
      BY <1>8, FocusStep, RestartStep
<1>9. ASSUME Reset
      PROVE  LineageInv'
      BY <1>9, ResetStep
<1>10. ASSUME DeleteFile \/ DeleteFails
       PROVE  LineageInv'
       BY <1>10, QuietStep DEF DeleteFile, DeleteFails, nodes, Types
<1>11. ASSUME UNCHANGED vars
       PROVE  LineageInv'
       BY <1>11, QuietStep DEF vars, nodes, Types
<1> QED BY <1>1, <1>2, <1>3, <1>4, <1>5, <1>6, <1>7, <1>8, <1>9, <1>10, <1>11 DEF Next

\* The first session is a root of its own.
LEMMA InitInv ==
    ASSUME Init
    PROVE  LineageInv
<1>0. 1 \in Sessions
      BY LineageAssumption
<1>1. Types /\ Forest /\ KnownPaths /\ SkippedStays
      BY <1>0 DEF Init, Types, Forest, KnownPaths, SkippedStays, Known
<1>2. FocusedLive /\ NoneBelowDeleted
      BY <1>0 DEF Init, FocusedLive, NoneBelowDeleted, Live, Known
<1>3. DepthLimit
  <2>1. Cardinality({1}) = 1
        BY FS_Singleton
  <2> QED BY <1>0, <2>1, LineageAssumption DEF Init, DepthLimit, Depth
<1>4. CountLimits
  <2>1. \A r \in Sessions : ActiveSet(r) = {} /\ Kept(r) = {}
        BY <1>0 DEF Init, ActiveSet, Kept, Descendants, DescendantsForDelete, Known
  <2>2. Cardinality({}) = 0
        BY FS_EmptySet
  <2> QED BY <2>1, <2>2, LineageAssumption DEF CountLimits
<1> QED BY <1>1, <1>2, <1>3, <1>4 DEF LineageInv, Structure

\* The inductive invariant holds in every reachable state.
THEOREM LineageInvariant == Spec => []LineageInv
<1>1. Init => LineageInv
      BY InitInv
<1>2. LineageInv /\ [Next]_vars => LineageInv'
      BY NextStep
<1> QED BY <1>1, <1>2, PTL DEF Spec

\* SessionLineageGuard keeps its limits: for any number of sessions, any limits and
\* any mix of requests, resumed work, failed deletions and restarts, no session is
\* below max_depth and no root has more active or retained descendants than allowed.
THEOREM LineageWithinLimits == Spec => []WithinLimits
<1>1. LineageInv => WithinLimits
  <2> SUFFICES ASSUME LineageInv, NEW s \in Known
               PROVE  /\ Depth(s) <= MaxDepth
                      /\ path[s] = {s} => /\ Active(s) <= MaxActive
                                          /\ Cardinality(Descendants(s) \ revived) <= MaxTotal
      BY DEF WithinLimits
  <2>1. s \in Sessions /\ path[s] # {}
        BY DEF LineageInv, Structure, KnownPaths, Known
  <2> QED BY <2>1 DEF LineageInv, DepthLimit, CountLimits, Active, ActiveSet, Kept
<1> QED BY <1>1, LineageInvariant, PTL

\* The event loop's focused session always has a runtime, whatever is deleted, killed,
\* reaped or reset (EventLoop's index of the focused session).
THEOREM LineageFocused == Spec => []FocusedLive
<1>1. LineageInv => FocusedLive
      BY DEF LineageInv
<1> QED BY <1>1, LineageInvariant, PTL

\* No session outlives an ancestor in the guard: Delete, Kill and Reap take along
\* every retained descendant, and none is opened below a deleted one.
THEOREM LineageNoneBelowDeleted == Spec => []NoneBelowDeleted
<1>1. LineageInv => NoneBelowDeleted
      BY DEF LineageInv
<1> QED BY <1>1, LineageInvariant, PTL

-----------------------------------------------------------------------------
(* The files.                                                              *)

\* Every ancestor has had a file or is open and may get one.  Once it is false of a
\* session it stays so.
Hopeful(d) == \A a \in path[d] : a \in written \/ st[a] \in {"stored", "live"}

\* A session that had a file and may be opened or is open still has it.
OpenKept ==
    /\ disk \subseteq written /\ written \subseteq Sessions
    /\ \A s \in written : path[s] # {} /\ (st[s] \in {"stored", "live"} => s \in disk)

\* StoredHaveParents, of an ancestor at a time.
HopefulParents == \A d \in disk \ left : Hopeful(d) => path[d] \cap written \subseteq disk

\* What is left of a chain of deletions: its sessions are closed for good, and the
\* stored sessions below each of them come before it.
Chain(q) ==
    /\ q \in Seq(Sessions) /\ q # <<>>
    /\ \A i \in DOMAIN q :
          /\ st[q[i]] \in {"none", "deleted"} /\ path[q[i]] # {}
          /\ \A d \in disk \ left :
                Hopeful(d) /\ q[i] \in path[d] => \E j \in 1..i : q[j] = d

Chains == jobs \in Seq(Seq(Sessions)) /\ \A q \in Range(jobs) : Chain(q)

FilesInv == OpenKept /\ Chains /\ HopefulParents

\* A chain names each of its sessions, children before parents.
LEMMA OrderedChain ==
    ASSUME NEW targets \in SUBSET Sessions, NEW q \in Ordered(targets)
    PROVE  /\ q \in Seq(Sessions) /\ (targets # {} => q # <<>>)
           /\ \A i \in DOMAIN q : q[i] \in targets
           /\ \A d \in targets : \E j \in DOMAIN q : q[j] = d
           /\ \A i, j \in DOMAIN q : q[i] \in path[q[j]] => j <= i
<1> DEFINE n == Cardinality(targets)
<1>1. IsFiniteSet(targets) /\ n \in Nat
      BY FS_Subset, FS_CardinalityType, LineageAssumption
<1>2. q \in [1..n -> targets] /\ \A i, j \in 1..n : i # j => q[i] # q[j]
      BY DEF Ordered, SetToSeqs
<1>3. q \in Injection(1..n, targets)
      BY <1>2 DEF Injection, IsInjective
<1>4. Cardinality(1..n) = n
      BY <1>1, FS_Interval
<1>5. q \in Surjection(1..n, targets)
      BY <1>1, <1>3, <1>4, FS_Injection
<1> HIDE DEF n
<1>6. q \in Seq(Sessions) /\ DOMAIN q = 1..n
      BY <1>1, <1>2
<1>7. \A d \in targets : \E j \in DOMAIN q : q[j] = d
      BY <1>5, <1>6 DEF Surjection
<1>8. \A i, j \in DOMAIN q : q[i] \in path[q[j]] => j <= i
      BY DEF Ordered
<1>9. targets # {} => q # <<>>
      BY <1>7
<1> QED BY <1>2, <1>6, <1>7, <1>8, <1>9

\* Some session of a set has none of its ancestors in it.
LEMMA SomeRootmost ==
    ASSUME Types, Forest, NEW T \in SUBSET Sessions, T # {}
    PROVE  \E x \in T : \A y \in T : y # x => y \notin path[x]
<1> DEFINE sizes == {Cardinality(path[y]) : y \in T}
<1>1. \A y \in Sessions : IsFiniteSet(path[y]) /\ Cardinality(path[y]) \in Nat
      BY FS_Subset, FS_CardinalityType, LineageAssumption DEF Types
<1>2. sizes \in SUBSET Nat /\ sizes # {}
      BY <1>1
<1>3. PICK n \in sizes : \A m \in sizes : n <= m
      BY <1>2, LeastNumber
<1>4. PICK x \in T : n = Cardinality(path[x])
      BY <1>3
<1>5. ASSUME NEW y \in T, y # x, y \in path[x]
      PROVE  FALSE
  <2>1. path[y] \subseteq path[x] /\ x \notin path[y] /\ x \in path[x]
        BY <1>5 DEF Forest, Types
  <2>2. path[y] # path[x]
        BY <2>1
  <2>3. Cardinality(path[y]) < Cardinality(path[x])
        BY <1>1, <2>1, <2>2, FS_Subset
  <2>4. Cardinality(path[x]) <= Cardinality(path[y])
        BY <1>3, <1>4, <1>5
  <2> QED BY <1>1, <2>3, <2>4
<1> QED BY <1>5

\* Every set of sessions can be put in the order in which they are deleted, so no
\* deletion is refused for want of one.
LEMMA OrderExists ==
    ASSUME Types, Forest, NEW targets \in SUBSET Sessions
    PROVE  Ordered(targets) # {}
<1> DEFINE N == {n \in Nat : \A T \in SUBSET Sessions : Cardinality(T) = n => Ordered(T) # {}}
<1>1. \A T \in SUBSET Sessions : IsFiniteSet(T) /\ Cardinality(T) \in Nat
      BY FS_Subset, FS_CardinalityType, LineageAssumption
<1>2. 0 \in N
  <2> SUFFICES ASSUME NEW T \in SUBSET Sessions, Cardinality(T) = 0
               PROVE  Ordered(T) # {}
      OBVIOUS
  <2>1. <<>> \in [1..0 -> T] /\ DOMAIN <<>> = {}
        OBVIOUS
  <2>2. <<>> \in Ordered(T)
        BY <2>1 DEF Ordered, SetToSeqs
  <2> QED BY <2>2
<1>3. ASSUME NEW n \in Nat, n \in N
      PROVE  n + 1 \in N
  <2> SUFFICES ASSUME NEW T \in SUBSET Sessions, Cardinality(T) = n + 1
               PROVE  Ordered(T) # {}
      BY <1>3
  <2>1. T # {}
        BY FS_EmptySet, <1>3
  <2>2. PICK x \in T : \A y \in T : y # x => y \notin path[x]
        BY <2>1, SomeRootmost
  <2>3. PICK U : U = T \ {x}
        OBVIOUS
  <2>4. U \in SUBSET Sessions /\ Cardinality(U) = n
    <3>1. Cardinality(T \ {x}) = Cardinality(T) - 1
          BY <1>1, <2>2, FS_RemoveElement
    <3> QED BY <2>3, <3>1
  <2>5. PICK q : q \in Ordered(U)
        BY <1>3, <2>4
  <2>6. /\ q \in [1..n -> U]
        /\ \A i, j \in 1..n : i # j => q[i] # q[j]
        /\ \A i, j \in 1..n : q[i] \in path[q[j]] => j <= i
        BY <2>4, <2>5 DEF Ordered, SetToSeqs
  <2> DEFINE r == [i \in 1..(n + 1) |-> IF i = n + 1 THEN x ELSE q[i]]
  <2>7. r \in [1..(n + 1) -> T] /\ DOMAIN r = 1..(n + 1)
        BY <2>2, <2>3, <2>6
  <2>8. \A i, j \in 1..(n + 1) : i # j => r[i] # r[j]
        BY <2>2, <2>3, <2>6
  <2>9. ASSUME NEW i \in 1..(n + 1), NEW j \in 1..(n + 1), r[i] \in path[r[j]]
        PROVE  j <= i
    <3>1. CASE i = n + 1
          BY <3>1
    <3>2. CASE i # n + 1 /\ j = n + 1
      <4>1. r[i] \in U /\ r[j] = x
            BY <2>6, <3>2
      <4> QED BY <2>2, <2>3, <2>9, <4>1
    <3>3. CASE i # n + 1 /\ j # n + 1
      <4>1. i \in 1..n /\ j \in 1..n /\ q[i] \in path[q[j]]
            BY <2>9, <3>3
      <4> QED BY <2>6, <4>1
    <3> QED BY <3>1, <3>2, <3>3
  <2> HIDE DEF r
  <2>10. r \in Ordered(T)
         BY <2>7, <2>8, <2>9 DEF Ordered, SetToSeqs
  <2> QED BY <2>10
<1>4. \A n \in Nat : n \in N
  <2> HIDE DEF N
  <2> QED BY <1>2, <1>3, SetInduction
<1> QED BY <1>1, <1>4

\* A chain stays what it is when no closed session opens and no stored session
\* appears below one.
LEMMA ChainStays ==
    ASSUME NEW q, Chain(q),
           \A x \in Sessions : st[x] \in {"none", "deleted"} /\ path[x] # {}
               => st'[x] \in {"none", "deleted"} /\ path'[x] # {},
           \A d \in disk' \ left' : \A x \in path'[d] :
               Hopeful(d)' /\ x \in Sessions /\ st[x] \in {"none", "deleted"} /\ path[x] # {}
               => d \in disk \ left /\ Hopeful(d) /\ x \in path[d]
    PROVE  Chain(q)'
<1> SUFFICES ASSUME NEW i \in DOMAIN q
             PROVE  /\ st'[q[i]] \in {"none", "deleted"} /\ path'[q[i]] # {}
                    /\ \A d \in disk' \ left' :
                          Hopeful(d)' /\ q[i] \in path'[d] => \E j \in 1..i : q[j] = d
    BY DEF Chain
<1>1. q[i] \in Sessions
      BY DEF Chain
<1>2. st[q[i]] \in {"none", "deleted"} /\ path[q[i]] # {}
      BY DEF Chain
<1>3. ASSUME NEW d \in disk' \ left', Hopeful(d)', q[i] \in path'[d]
      PROVE  \E j \in 1..i : q[j] = d
  <2>1. d \in disk \ left /\ Hopeful(d) /\ q[i] \in path[d]
        BY <1>1, <1>2, <1>3
  <2> QED BY <2>1 DEF Chain
<1> QED BY <1>1, <1>2, <1>3

\* Hope does not return: what closes before it has a file is never written.
LEMMA HopefulBefore ==
    ASSUME Types, Forest, NEW d \in Sessions, path'[d] = path[d], Hopeful(d)',
           written' \subseteq written \cup Live,
           \A x \in Sessions : path[x] # {} /\ st[x] \in {"none", "deleted"}
               => x \in written \/ st'[x] \in {"none", "deleted"}
    PROVE  Hopeful(d)
<1> SUFFICES ASSUME NEW a \in path[d], a \notin written
             PROVE  st[a] \in {"stored", "live"}
    BY DEF Hopeful
<1>1. a \in Sessions /\ path[a] # {} /\ st[a] \in {"none", "stored", "live", "deleted"}
      BY DEF Types, Forest
<1>2. a \in written' \/ st'[a] \in {"stored", "live"}
      BY DEF Hopeful
<1>3. CASE a \in written'
      BY <1>3 DEF Live
<1>4. CASE st'[a] \in {"stored", "live"}
      BY <1>1, <1>4
<1> QED BY <1>2, <1>3, <1>4

\* Steps that change no file and no chain, and open only sessions that are stored and
\* known or new.
LEMMA NoFileStep ==
    ASSUME LineageInv, FilesInv, UNCHANGED <<disk, written, jobs, left>>,
           \A x \in Sessions : path[x] # {} => path'[x] = path[x],
           \A x \in Sessions : st[x] \in {"none", "deleted"} /\ path[x] # {}
               => st'[x] \in {"none", "deleted"}
    PROVE  FilesInv'
<1> USE DEF LineageInv, Structure
<1>1. \A d \in disk : d \in Sessions /\ path[d] # {} /\ path'[d] = path[d]
      BY DEF KnownPaths, Types
<1>2. \A d \in disk : Hopeful(d)' => Hopeful(d)
      BY <1>1, HopefulBefore
<1>3. OpenKept'
  <2> SUFFICES ASSUME NEW x \in written
               PROVE  path'[x] # {} /\ (st'[x] \in {"stored", "live"} => x \in disk)
      BY DEF FilesInv, OpenKept
  <2>1. x \in Sessions /\ path[x] # {} /\ (st[x] \in {"stored", "live"} => x \in disk)
        BY DEF FilesInv, OpenKept
  <2>2. st[x] \in {"none", "stored", "live", "deleted"}
        BY <2>1 DEF Types
  <2> QED BY <2>1, <2>2
<1>4. HopefulParents'
      BY <1>1, <1>2 DEF FilesInv, HopefulParents
<1>5. ASSUME NEW q \in Range(jobs)
      PROVE  Chain(q)'
  <2>1. Chain(q)
        BY DEF FilesInv, Chains
  <2> QED BY <1>1, <1>2, <2>1, ChainStays
<1>6. Chains'
      BY <1>5 DEF FilesInv, Chains
<1> QED BY <1>3, <1>4, <1>6 DEF FilesInv

\* A session a start has skipped misses an ancestor that never had a file, or one that
\* was deleted and will have none again.
LEMMA StoredKnown ==
    ASSUME LineageInv, FilesInv, NEW d \in disk \ left, Hopeful(d)
    PROVE  d \in Known
<1> USE DEF LineageInv, Structure
<1>1. d \in Sessions /\ path[d] \cap written \subseteq disk
      BY DEF FilesInv, HopefulParents, Types
<1>2. ASSUME st[d] = "none"
      PROVE  FALSE
  <2>1. PICK a \in path[d] : a \notin disk /\ st[a] = "none"
        BY <1>2 DEF SkippedStays
  <2>2. a \in written
        BY <2>1 DEF Hopeful
  <2> QED BY <1>1, <2>1, <2>2
<1> QED BY <1>1, <1>2 DEF Known

\* The values of a sequence with one more entry.
LEMMA AppendRange ==
    ASSUME NEW S, NEW s \in Seq(S), NEW x \in S
    PROVE  Append(s, x) \in Seq(S) /\ Range(Append(s, x)) = Range(s) \cup {x}
<1>1. /\ Append(s, x) \in Seq(S) /\ DOMAIN Append(s, x) = DOMAIN s \cup {Len(s) + 1}
      /\ Append(s, x)[Len(s) + 1] = x
      /\ \A k \in DOMAIN s : Append(s, x)[k] = s[k]
      OBVIOUS
<1> QED BY <1>1 DEF Range

\* The values of a tail are values of the sequence.
LEMMA TailRange ==
    ASSUME NEW S, NEW s \in Seq(S), s # <<>>
    PROVE  Tail(s) \in Seq(S) /\ Range(Tail(s)) \subseteq Range(s) /\ Head(s) \in Range(s)
<1>1. /\ Tail(s) \in Seq(S) /\ 1 \in DOMAIN s /\ Head(s) = s[1]
      /\ \A k \in DOMAIN Tail(s) : k + 1 \in DOMAIN s /\ Tail(s)[k] = s[k + 1]
      OBVIOUS
<1> QED BY <1>1 DEF Range

\* A chain that contains every stored session below each of its members is one: those
\* are what Delete, Kill and Reap collect (remove_sessions, delete_sessions_sequentially).
LEMMA RemoveFiles ==
    ASSUME LineageInv, FilesInv, NEW targets \in SUBSET Sessions, targets # {},
           \A x \in targets : path[x] # {},
           left \subseteq left',
           \A d \in disk \ left' : Hopeful(d) /\ path[d] \cap targets # {} => d \in targets,
           RemoveSessions(targets)
    PROVE  FilesInv'
<1> USE DEF LineageInv, Structure
<1>0. /\ st' = [s \in Sessions |-> IF s \in targets \cap Known THEN "deleted" ELSE st[s]]
      /\ UNCHANGED <<path, disk, written>>
      BY DEF RemoveSessions
<1>1. PICK chain \in Ordered(targets) : jobs' = Append(jobs, chain)
      BY DEF RemoveSessions
<1>2. \A d \in disk : Hopeful(d)' => Hopeful(d)
  <2>1. \A x \in Sessions : st[x] \in {"none", "deleted"} => st'[x] \in {"none", "deleted"}
        BY <1>0
  <2> QED BY <1>0, <2>1, HopefulBefore DEF Types
<1>3. OpenKept' /\ HopefulParents'
      BY <1>0, <1>2 DEF FilesInv, OpenKept, HopefulParents
<1>4. ASSUME NEW q \in Range(jobs)
      PROVE  Chain(q)'
  <2>1. Chain(q)
        BY DEF FilesInv, Chains
  <2> QED BY <1>0, <1>2, <2>1, ChainStays
<1>5. Chain(chain)'
  <2>1. /\ chain \in Seq(Sessions) /\ chain # <<>>
        /\ \A i \in DOMAIN chain : chain[i] \in targets
        /\ \A d \in targets : \E j \in DOMAIN chain : chain[j] = d
        /\ \A i, j \in DOMAIN chain : chain[i] \in path[chain[j]] => j <= i
        BY <1>1, OrderedChain
  <2>2. ASSUME NEW i \in DOMAIN chain
        PROVE  st'[chain[i]] \in {"none", "deleted"} /\ path'[chain[i]] # {}
        BY <1>0, <2>1 DEF Known
  <2>3. ASSUME NEW i \in DOMAIN chain, NEW d \in disk \ left', Hopeful(d), chain[i] \in path[d]
        PROVE  \E j \in 1..i : chain[j] = d
    <3>1. d \in targets
          BY <2>1, <2>3
    <3>2. PICK j \in DOMAIN chain : chain[j] = d
          BY <2>1, <3>1
    <3>3. j <= i
          BY <2>1, <2>3, <3>2
    <3>4. i \in Nat /\ j \in 1..i
          BY <2>1, <3>3
    <3> QED BY <3>2, <3>4
  <2> QED BY <1>0, <1>2, <2>1, <2>2, <2>3 DEF Chain
<1>6. Chains'
  <2>1. jobs \in Seq(Seq(Sessions)) /\ chain \in Seq(Sessions)
        BY <1>1, OrderedChain DEF FilesInv, Chains
  <2>2. jobs' \in Seq(Seq(Sessions)) /\ Range(jobs') = Range(jobs) \cup {chain}
        BY <1>1, <2>1, AppendRange
  <2> QED BY <1>4, <1>5, <2>2 DEF Chains
<1> QED BY <1>3, <1>6 DEF FilesInv

\* The writer deletes the first session of a chain, and the rest waits its turn.
LEMMA DeleteFileFiles ==
    ASSUME LineageInv, FilesInv, DeleteFile
    PROVE  FilesInv'
<1> USE DEF LineageInv, Structure
<1>1. /\ jobs # <<>> /\ jobs \in Seq(Seq(Sessions))
      /\ Tail(jobs) \in Seq(Seq(Sessions)) /\ Range(Tail(jobs)) \subseteq Range(jobs)
      /\ Head(jobs) \in Range(jobs)
      BY TailRange DEF FilesInv, Chains, DeleteFile
<1>2. PICK q : q = Head(jobs)
      OBVIOUS
<1>3. Chain(q)
      BY <1>1, <1>2 DEF FilesInv, Chains
<1>4. q \in Seq(Sessions) /\ q # <<>>
      BY <1>3 DEF Chain
<1>5. /\ 1 \in DOMAIN q /\ Head(q) = q[1] /\ Tail(q) \in Seq(Sessions)
      /\ \A i \in DOMAIN Tail(q) : i \in Nat /\ i + 1 \in DOMAIN q /\ Tail(q)[i] = q[i + 1]
      /\ \A j \in DOMAIN q :
            j # 1 => j \in Nat /\ j - 1 \in DOMAIN Tail(q) /\ Tail(q)[j - 1] = q[j]
      BY <1>4
<1>6. /\ UNCHANGED <<st, path, left, written>> /\ \A d : Hopeful(d)' = Hopeful(d)
      /\ disk' = disk \ {q[1]}
      /\ jobs' = Tail(jobs) \o (IF Tail(q) = <<>> THEN <<>> ELSE <<Tail(q)>>)
      BY <1>2, <1>5 DEF DeleteFile, nodes, Hopeful
<1>7. q[1] \in Sessions /\ st[q[1]] \in {"none", "deleted"}
      BY <1>3, <1>4, <1>5 DEF Chain
<1>8. OpenKept'
      BY <1>6, <1>7 DEF FilesInv, OpenKept
<1>9. HopefulParents'
  <2> SUFFICES ASSUME NEW d \in disk' \ left, Hopeful(d)
               PROVE  path[d] \cap written \subseteq disk'
      BY <1>6 DEF HopefulParents
  <2>1. d \in disk \ left /\ d # q[1] /\ path[d] \cap written \subseteq disk
        BY <1>6 DEF FilesInv, HopefulParents
  <2>2. q[1] \in path[d] => \E j \in 1..1 : q[j] = d
        BY <1>3, <1>5, <2>1 DEF Chain
  <2> QED BY <1>6, <2>1, <2>2
<1>10. ASSUME NEW r \in Range(Tail(jobs))
       PROVE  Chain(r)'
  <2>1. Chain(r)
        BY <1>1 DEF FilesInv, Chains
  <2>2. \A d \in disk' \ left' : d \in disk \ left
        BY <1>6
  <2> QED BY <1>6, <2>1, <2>2, ChainStays
<1>11. CASE Tail(q) # <<>>
  <2>1. PICK rest : rest = Tail(q)
        OBVIOUS
  <2>2. rest \in Seq(Sessions) /\ rest # <<>>
        BY <1>5, <1>11, <2>1
  <2>3. jobs' = Append(Tail(jobs), rest)
        BY <1>1, <1>6, <2>1, <2>2
  <2>4. ASSUME NEW i \in DOMAIN rest
        PROVE  st[rest[i]] \in {"none", "deleted"} /\ path[rest[i]] # {}
    <3>1. i + 1 \in DOMAIN q /\ rest[i] = q[i + 1]
          BY <1>5, <2>1
    <3> QED BY <1>3, <3>1 DEF Chain
  <2>5. ASSUME NEW i \in DOMAIN rest, NEW d \in disk' \ left, Hopeful(d), rest[i] \in path[d]
        PROVE  \E j \in 1..i : rest[j] = d
    <3>1. i \in Nat /\ i + 1 \in DOMAIN q /\ rest[i] = q[i + 1]
          BY <1>5, <2>1
    <3>2. q[i + 1] \in path[d] /\ d \in disk \ left /\ Hopeful(d) /\ d # q[1]
          BY <1>6, <2>5, <3>1
    <3>3. PICK j \in 1..(i + 1) : q[j] = d
          BY <1>3, <3>1, <3>2 DEF Chain
    <3>4. j # 1 /\ j \in DOMAIN q /\ j - 1 \in 1..i
          BY <1>4, <3>1, <3>2, <3>3
    <3>5. rest[j - 1] = d
          BY <1>5, <2>1, <3>3, <3>4
    <3> QED BY <3>4, <3>5
  <2>6. Chain(rest)'
        BY <1>6, <2>2, <2>4, <2>5 DEF Chain
  <2>7. jobs' \in Seq(Seq(Sessions)) /\ Range(jobs') = Range(Tail(jobs)) \cup {rest}
    <3>1. PICK waiting : waiting = Tail(jobs)
          OBVIOUS
    <3>2. Append(waiting, rest) \in Seq(Seq(Sessions))
               /\ Range(Append(waiting, rest)) = Range(waiting) \cup {rest}
      <4>1. waiting \in Seq(Seq(Sessions)) /\ rest \in Seq(Sessions)
            BY <1>1, <2>2, <3>1
      <4> QED BY <4>1, AppendRange
    <3> QED BY <2>3, <3>1, <3>2
  <2>8. Chains'
        BY <1>10, <2>6, <2>7 DEF Chains
  <2> QED BY <1>8, <1>9, <2>8 DEF FilesInv
<1>12. CASE Tail(q) = <<>>
  <2>1. jobs' = Tail(jobs)
        BY <1>1, <1>6, <1>12
  <2>2. Chains'
        BY <1>1, <1>10, <2>1 DEF Chains
  <2> QED BY <1>8, <1>9, <2>2 DEF FilesInv
<1> QED BY <1>11, <1>12

\* A deletion fails, and its chain stops where it is.
LEMMA DeleteFailsFiles ==
    ASSUME LineageInv, FilesInv, DeleteFails
    PROVE  FilesInv'
<1> USE DEF LineageInv, Structure
<1>1. /\ UNCHANGED <<st, path, disk, written, left>> /\ jobs' = Tail(jobs)
      /\ \A d : Hopeful(d)' = Hopeful(d)
      BY DEF DeleteFails, nodes, Hopeful
<1>2. jobs' \in Seq(Seq(Sessions)) /\ Range(jobs') \subseteq Range(jobs)
      BY <1>1, TailRange DEF FilesInv, Chains, DeleteFails
<1>3. ASSUME NEW q \in Range(jobs')
      PROVE  Chain(q)'
  <2>1. Chain(q)
        BY <1>2 DEF FilesInv, Chains
  <2> QED BY <1>1, <2>1, ChainStays
<1>4. OpenKept' /\ HopefulParents'
      BY <1>1 DEF FilesInv, OpenKept, HopefulParents
<1> QED BY <1>2, <1>3, <1>4 DEF FilesInv, Chains

\* A live session is written: those of its ancestors that have had a file have it, and
\* none of them is about to be deleted.
LEMMA StoreFiles ==
    ASSUME LineageInv, FilesInv, NEW s \in Sessions, Store(s)
    PROVE  FilesInv'
<1> USE DEF LineageInv, Structure
<1>1. /\ UNCHANGED <<st, path, jobs, left>> /\ st[s] = "live" /\ s \in Live
      /\ disk' = disk \cup {s} /\ written' = written \cup {s}
      BY DEF Store, nodes, Live
<1>2. OpenKept'
      BY <1>1 DEF FilesInv, OpenKept, KnownPaths, Known
<1>3. \A x \in path[s] : st[x] \notin {"none", "deleted"}
      BY <1>1 DEF NoneBelowDeleted, Known
<1>4. \A d \in Sessions : Hopeful(d)' => Hopeful(d)
      BY <1>1, HopefulBefore
<1>5. HopefulParents'
  <2> SUFFICES ASSUME NEW d \in disk' \ left, Hopeful(d)', NEW a \in path[d], a \in written
               PROVE  a \in disk
      BY <1>1 DEF HopefulParents
  <2>1. CASE d = s
    <3>1. a \in Sessions /\ st[a] \in {"stored", "live"}
          BY <1>3, <2>1 DEF Types
    <3> QED BY <3>1 DEF FilesInv, OpenKept
  <2>2. CASE d # s
    <3>1. d \in disk \ left /\ Hopeful(d)
          BY <1>1, <1>4, <2>2 DEF Types
    <3> QED BY <3>1 DEF FilesInv, HopefulParents
  <2> QED BY <2>1, <2>2
<1>6. ASSUME NEW q \in Range(jobs)
      PROVE  Chain(q)'
  <2>1. Chain(q)
        BY DEF FilesInv, Chains
  <2>2. ASSUME NEW d \in disk' \ left', NEW x \in path'[d], Hopeful(d)',
               st[x] \in {"none", "deleted"}
        PROVE  d \in disk \ left /\ Hopeful(d) /\ x \in path[d]
        BY <1>1, <1>3, <1>4, <2>2 DEF Types
  <2> QED BY <1>1, <2>1, <2>2, ChainStays
<1>7. Chains'
      BY <1>1, <1>6 DEF FilesInv, Chains
<1> QED BY <1>2, <1>5, <1>7 DEF FilesInv

\* A child is created, of a session with or without a file.
LEMMA NewFiles ==
    ASSUME LineageInv, FilesInv, NEW caller \in Live, NEW execution \in BOOLEAN,
           NEW focus \in BOOLEAN, New(caller, execution, focus)
    PROVE  FilesInv'
<1> USE DEF LineageInv, Structure
<1> DEFINE f == Fresh
<1>1. /\ st' = [st EXCEPT ![f] = "live"]
      /\ path' = [path EXCEPT ![f] = path[caller] \cup {f}]
      /\ UNCHANGED <<disk, written, jobs, left>>
      BY DEF New, NodesOnly
<1>2. f \in Sessions /\ path[f] = {}
      BY FreshFacts DEF New
<1> HIDE DEF f
<1>3. \A x \in Sessions \ {f} : path'[x] = path[x] /\ st'[x] = st[x]
      BY <1>1, <1>2 DEF Types
<1> QED BY <1>1, <1>2, <1>3, NoFileStep

\* A stored session is opened, or a live one focused.
LEMMA FocusFiles ==
    ASSUME LineageInv, FilesInv, NEW s \in Sessions, NEW work \in BOOLEAN, Focus(s, work)
    PROVE  FilesInv'
<1> USE DEF LineageInv, Structure
<1>1. UNCHANGED <<path, disk, written, jobs, left>>
      BY DEF Focus, NodesOnly
<1>2. CASE s \in Live
  <2>1. st' = st
        BY <1>2 DEF Focus
  <2> QED BY <1>1, <2>1, NoFileStep
<1>3. CASE s \notin Live
  <2>1. s \in disk /\ st[s] # "deleted" /\ path[s] \subseteq Known
             /\ st' = [st EXCEPT ![s] = "live"]
        BY <1>3 DEF Focus, Activate
  <2>2. st[s] = "stored"
        BY <1>3, <2>1 DEF KnownPaths, Forest, Known, Types, Live
  <2>3. \A x \in Sessions : st[x] \in {"none", "deleted"} => st'[x] \in {"none", "deleted"}
        BY <2>1, <2>2 DEF Types
  <2> QED BY <1>1, <2>3, NoFileStep
<1> QED BY <1>2, <1>3

\* The focused session makes way for a fresh root.
LEMMA ResetFiles ==
    ASSUME LineageInv, FilesInv, Reset
    PROVE  FilesInv'
<1> USE DEF LineageInv, Structure
<1> DEFINE f == Fresh
<1>1. /\ st' = [st EXCEPT ![focused] = "stored", ![f] = "live"]
      /\ path' = [path EXCEPT ![f] = {f}]
      /\ UNCHANGED <<disk, written, jobs, left>>
      BY DEF Reset, NodesOnly
<1>2. f \in Sessions /\ path[f] = {}
      BY FreshFacts DEF Reset
<1> HIDE DEF f
<1>3. focused \in Sessions /\ st[focused] = "live"
      BY DEF FocusedLive, Live
<1>4. /\ path'[f] = {f} /\ st'[f] = "live"
      /\ \A x \in Sessions \ {f} : path'[x] = path[x]
      /\ \A x \in Sessions \ {f} : st'[x] = IF x = focused THEN "stored" ELSE st[x]
      BY <1>1, <1>2, <1>3 DEF Types
<1> QED BY <1>1, <1>2, <1>3, <1>4, NoFileStep

\* A crash cuts every chain short, and a start opens what it finds with its ancestors.
LEMMA RestartFiles ==
    ASSUME LineageInv, FilesInv, NEW s \in Sessions, NEW work \in BOOLEAN, Restart(s, work)
    PROVE  FilesInv'
<1> USE DEF LineageInv, Structure
<1> DEFINE found == {d \in disk : path[d] \subseteq disk}
<1>1. /\ s \in found \/ (Unused # {} /\ s = Fresh)
      /\ st' = [d \in Sessions |->
                  IF d = s THEN "live" ELSE IF d \in found THEN "stored" ELSE "none"]
      /\ path' = IF s \in found THEN path ELSE [path EXCEPT ![s] = {s}]
      /\ jobs' = <<>>
      /\ UNCHANGED <<disk, written, left>>
      BY DEF Restart
<1>2. ~(s \in found) => path[s] = {} /\ s \notin disk
      BY <1>1, FreshFacts
<1>3. /\ \A d \in Sessions \ {s} : path'[d] = path[d]
      /\ path'[s] = IF s \in found THEN path[s] ELSE {s}
      BY <1>1 DEF Types
<1>4. OpenKept'
  <2> SUFFICES ASSUME NEW x \in written
               PROVE  path'[x] # {} /\ (st'[x] \in {"stored", "live"} => x \in disk)
      BY <1>1 DEF FilesInv, OpenKept
  <2>1. x \in Sessions /\ path[x] # {}
        BY DEF FilesInv, OpenKept
  <2> QED BY <1>1, <1>2, <1>3, <2>1
<1>5. HopefulParents'
  <2>1. \A d \in disk : d \in Sessions /\ path'[d] = path[d]
        BY <1>2, <1>3 DEF Types
  <2>2. \A x \in Sessions : path[x] # {} => x \in written \/ st'[x] \in {"none", "deleted"}
        BY <1>1, <1>2 DEF FilesInv, OpenKept
  <2>3. \A d \in disk : Hopeful(d)' => Hopeful(d)
        BY <1>1, <2>1, <2>2, HopefulBefore
  <2> QED BY <1>1, <2>1, <2>3 DEF FilesInv, HopefulParents
<1>6. Chains'
  <2>1. jobs' \in Seq(Seq(Sessions)) /\ DOMAIN jobs' = {}
        BY <1>1
  <2>2. Range(jobs') = {}
        BY <2>1 DEF Range
  <2> QED BY <2>1, <2>2 DEF Chains
<1> QED BY <1>4, <1>5, <1>6 DEF FilesInv

\* Reap leaves the deleted sessions below what it takes, and remembers them as left.
LEMMA ReapFiles ==
    ASSUME LineageInv, FilesInv, NEW caller \in Live, NEW target \in Live, NEW blocked,
           Reap(caller, target, blocked)
    PROVE  FilesInv'
<1> USE DEF LineageInv, Structure
<1> DEFINE below == Descendants(target) \cup (IF caller = target THEN {} ELSE {target})
           targets == Selected(below, blocked)
<1>1. /\ RemoveSessions(targets) /\ targets # {}
      /\ left' = left \cup {s \in disk : st[s] = "deleted" /\ path[s] \cap targets # {}}
      BY DEF Reap
<1>2. below \in {Descendants(target), Descendants(target) \cup {target}}
      OBVIOUS
<1> HIDE DEF below
<1>3. /\ targets \subseteq Known
      /\ \A s \in Known : \A a \in path[s] : st[s] # "deleted" /\ a \in targets => s \in targets
      BY <1>2, ReapClosed
<1> HIDE DEF targets
<1>4. targets \in SUBSET Sessions /\ \A x \in targets : path[x] # {}
      BY <1>3 DEF Known, KnownPaths
<1>5. ASSUME NEW d \in disk \ left', Hopeful(d), path[d] \cap targets # {}
      PROVE  d \in targets
  <2>1. d \in disk \ left /\ st[d] # "deleted"
        BY <1>1, <1>5
  <2>2. d \in Known
        BY <1>5, <2>1, StoredKnown
  <2> QED BY <1>3, <1>5, <2>1, <2>2
<1> QED BY <1>1, <1>4, <1>5, RemoveFiles

\* Every request, failure and restart keeps the files and the chains in order.
LEMMA FilesStep ==
    ASSUME LineageInv, FilesInv, [Next]_vars
    PROVE  FilesInv'
<1> USE DEF LineageInv, Structure
<1>1. ASSUME NEW c \in Live, NEW execution \in BOOLEAN, NEW focus \in BOOLEAN,
             New(c, execution, focus)
      PROVE  FilesInv'
      BY <1>1, NewFiles
<1>2. ASSUME NEW s \in Sessions, Begin(s) \/ TurnDone(s) \/ Release(s)
      PROVE  FilesInv'
      BY <1>2, NoFileStep DEF Begin, TurnDone, Release, NodesOnly
<1>3. ASSUME NEW s \in Sessions, Store(s)
      PROVE  FilesInv'
      BY <1>3, StoreFiles
<1>4. ASSUME NEW c \in Live, NEW t \in Live, Cancel(c, t)
      PROVE  FilesInv'
      BY <1>4, NoFileStep DEF Cancel, NodesOnly
<1>5. ASSUME NEW t \in disk \cup Known, RemoveSessions({t} \cup DescendantsForDelete(t)),
             UNCHANGED left
      PROVE  FilesInv'
  <2> DEFINE targets == {t} \cup DescendantsForDelete(t)
  <2>1. t \in Sessions /\ path[t] # {}
        BY DEF KnownPaths, Known, Types
  <2>2. targets \in SUBSET Sessions /\ targets # {} /\ \A x \in targets : path[x] # {}
        BY <2>1 DEF DescendantsForDelete, Known, KnownPaths
  <2>3. ASSUME NEW d \in disk \ left', Hopeful(d), path[d] \cap targets # {}
        PROVE  d \in targets
    <3>1. d \in Known
          BY <1>5, <2>3, StoredKnown
    <3>2. PICK a \in path[d] : a \in targets
          BY <2>3
    <3> QED BY <2>1, <3>1, <3>2, SubtreeClosed
  <2> HIDE DEF targets
  <2>4. RemoveSessions(targets) /\ left \subseteq left'
        BY <1>5 DEF targets
  <2> QED BY <2>2, <2>3, <2>4, RemoveFiles
<1>6. ASSUME NEW s \in Sessions, Delete(s)
      PROVE  FilesInv'
      BY <1>5, <1>6 DEF Delete
<1>7. ASSUME NEW c \in Live, NEW t \in Live, Kill(c, t)
      PROVE  FilesInv'
      BY <1>5, <1>7 DEF Kill, Live, Known
<1>8. ASSUME NEW c \in Live, NEW t \in Live, NEW blocked, Reap(c, t, blocked)
      PROVE  FilesInv'
      BY <1>8, ReapFiles
<1>9. ASSUME NEW s \in Sessions, NEW work \in BOOLEAN, Focus(s, work) \/ Restart(s, work)
      PROVE  FilesInv'
      BY <1>9, FocusFiles, RestartFiles
<1>10. ASSUME Reset \/ DeleteFile \/ DeleteFails
       PROVE  FilesInv'
       BY <1>10, ResetFiles, DeleteFileFiles, DeleteFailsFiles
<1>11. ASSUME UNCHANGED vars
       PROVE  FilesInv'
       BY <1>11, NoFileStep DEF vars, nodes
<1> QED BY <1>1, <1>2, <1>3, <1>4, <1>6, <1>7, <1>8, <1>9, <1>10, <1>11 DEF Next

\* Nothing is stored at first.
LEMMA FilesInit ==
    ASSUME Init
    PROVE  FilesInv
<1>1. OpenKept /\ HopefulParents
      BY DEF Init, OpenKept, HopefulParents
<1>2. jobs \in Seq(Seq(Sessions)) /\ DOMAIN jobs = {}
      BY DEF Init
<1>3. Range(jobs) = {}
      BY <1>2 DEF Range
<1> QED BY <1>1, <1>2, <1>3 DEF FilesInv, Chains

\* For any number of sessions, chains and failures, a stored session keeps its ancestors
\* on disk if every one of them ever had a file, apart from the deleted ones that a reap of
\* their ancestor leaves out: deletions go child first (descendants_for_delete,
\* delete_sessions_sequentially), so that whatever fails or crashes between two of them
\* strands no session a start would skip.
THEOREM LineageStoredHaveParents == Spec => []StoredHaveParents
<1>1. Init => FilesInv
      BY FilesInit
<1>2. LineageInv /\ FilesInv /\ [Next]_vars => FilesInv'
      BY FilesStep
<1>3. LineageInv /\ FilesInv => StoredHaveParents
      BY DEF FilesInv, HopefulParents, Hopeful, StoredHaveParents
<1> QED BY <1>1, <1>2, <1>3, LineageInvariant, PTL DEF Spec
=============================================================================
