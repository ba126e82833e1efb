------------------------- MODULE HardenLayoutProofs -------------------------
(***************************************************************************)
(* Proofs about whole runs of the hardener, for every table, manifest and  *)
(* tree, any number of runs and any place to be killed: what the selection *)
(* promises holds of every selection of every run, though a run selects    *)
(* from a manifest and a tree that earlier ones have left half changed;    *)
(* two runs in a row leave every marker where verify looks for it; what    *)
(* verify was content with stays selected; and what the package validators *)
(* accepted they go on accepting.                                          *)
(***************************************************************************)
EXTENDS HardenLayout, TLAPS

-----------------------------------------------------------------------------
(* One selection, for every table, manifest, set of directories and links. *)

\* A row of the table names a canonical directory.
LEMMA CanonicalTyped == \A i \in Targets : TARGETS[i].canonical_dir \in Paths
<1> SUFFICES ASSUME NEW i \in Targets
             PROVE  TARGETS[i].canonical_dir \in Paths
  OBVIOUS
<1>1. TARGETS[i] \in TargetSpec
  BY TableWellFormed DEF Targets, N
<1> QED
  BY <1>1 DEF TargetSpec

\* choose_dir answers with a directory, never with a missing declaration.
LEMMA ChosenTyped == \A i \in Targets : choose_dir(TARGETS[i]) \in Paths
<1> SUFFICES ASSUME NEW i \in Targets
             PROVE  choose_dir(TARGETS[i]) \in Paths
  OBVIOUS
<1> DEFINE opts == Options(TARGETS[i])
           First(k) == /\ Exists(opts[k])
                       /\ \A l \in 1..(k - 1) : ~ Exists(opts[l])
<1>1. CASE \E k \in DOMAIN opts : First(k)
  <2>1. PICK k \in DOMAIN opts : First(k) /\ k = CHOOSE j \in DOMAIN opts : First(j)
    BY <1>1
  <2>2. choose_dir(TARGETS[i]) = opts[k]
    BY <1>1, <2>1 DEF choose_dir
  <2> HIDE DEF opts
  <2> QED
    BY <2>1, <2>2 DEF Exists
<1>2. CASE ~ \E k \in DOMAIN opts : First(k)
  <2>1. choose_dir(TARGETS[i]) = TARGETS[i].canonical_dir
    BY <1>2 DEF choose_dir
  <2> QED
    BY <2>1, CanonicalTyped
<1> QED
  BY <1>1, <1>2

\* Pick falls back on the canonical directory, or keeps a directory that is
\* inside unless it is the canonical one, free, and not reserved for another.
LEMMA PickCases ==
  \A i \in Targets :
    /\ Pick(i) \in Paths
    /\ \/ Pick(i) = TARGETS[i].canonical_dir
       \/ /\ Inside(Pick(i))
          /\ resolve[Pick(i)] \notin Claimed
          /\ ~ ReservedForAnother(resolve[Pick(i)], i)
BY CanonicalTyped, ChosenTyped DEF Pick

\* One pass keeps the types.
LEMMA TypeStep ==
  ASSUME SelectionTypeOK, [SelectTarget]_selectionVars
  PROVE  SelectionTypeOK'
<1>1. CASE SelectTarget
  <2>1. next \in Targets
    BY <1>1, TableWellFormed DEF SelectTarget, SelectionTypeOK, Targets
  <2>2. Pick(next) \in Paths
    BY <2>1, PickCases
  <2>3. CASE Usable(Pick(next))
    BY <1>1, <2>1, <2>2, <2>3, TableWellFormed
    DEF SelectTarget, SelectionTypeOK, Targets, repositoryVars
  <2>4. CASE ~ Usable(Pick(next))
    BY <1>1, <2>1, <2>2, <2>4, TableWellFormed
    DEF SelectTarget, SelectionTypeOK, Targets, repositoryVars
  <2> QED
    BY <2>3, <2>4
<1>2. CASE UNCHANGED selectionVars
  BY <1>2 DEF SelectionTypeOK, selectionVars, repositoryVars, loopVars
<1> QED
  BY <1>1, <1>2

\* The loop fills the table from the front with directories.
THEOREM SelectionTypeCorrect == SelectionSpec => []SelectionTypeOK
<1>1. SelectionInit => SelectionTypeOK
  <2>1. SelectionInit => /\ manifest \in [Names -> Paths \cup {NoDir}]
                         /\ present \subseteq Paths
                         /\ resolve \in [Paths -> Paths]
    BY StartsWellFormed DEF SelectionInit
  <2>2. StartLoop => /\ next \in 1..(N + 1)
                     /\ selected \in [Targets -> Paths \cup {NoDir}]
                     /\ \A i \in 1..(next - 1) : selected[i] \in Paths
                     /\ failed \in BOOLEAN
    <3>1. StartLoop => failed \in BOOLEAN
      BY DEF StartLoop
    <3>2. StartLoop => selected \in [Targets -> Paths \cup {NoDir}]
      BY DEF StartLoop
    <3>3. StartLoop => next \in 1..(N + 1) /\ \A i \in 1..(next - 1) : selected[i] \in Paths
      BY TableWellFormed DEF StartLoop
    <3> QED
      BY <3>1, <3>2, <3>3
  <2> QED
    BY <2>1, <2>2 DEF SelectionInit, SelectionTypeOK
<1> QED
  BY <1>1, TypeStep, PTL DEF SelectionSpec

\* What one pass through the loop body does: it raises on an unusable
\* directory, or adds a usable one and keeps those before it.
LEMMA StepCases ==
  ASSUME SelectionTypeOK, SelectTarget
  PROVE  /\ next \in Targets
         /\ resolve' = resolve
         /\ \/ /\ Usable(Pick(next))
               /\ next' = next + 1
               /\ failed' = failed
               /\ selected'[next] = Pick(next)
               /\ \A i \in 1..(next - 1) : selected'[i] = selected[i]
            \/ /\ ~ Usable(Pick(next))
               /\ next' = next
               /\ selected' = selected
<1>1. next \in Targets
  BY TableWellFormed DEF SelectTarget, SelectionTypeOK, Targets
<1>2. \A i \in 1..(next - 1) : i \in Targets /\ i # next
  BY <1>1, TableWellFormed DEF Targets
<1> QED
  BY <1>1, <1>2 DEF SelectTarget, SelectionTypeOK, repositoryVars

-----------------------------------------------------------------------------
\* One pass keeps the roots apart.
LEMMA DistinctStep ==
  ASSUME SelectionTypeOK, RootsAreDistinct, [SelectTarget]_selectionVars
  PROVE  RootsAreDistinct'
<1>1. CASE SelectTarget
  <2>1. CASE Usable(Pick(next))
    <3>1. \A i \in 1..(next - 1) : resolve[selected[i]] # resolve[Pick(next)]
      BY <2>1 DEF Usable, Claimed
    <3>2. \A i \in 1..(next' - 1) : i \in 1..(next - 1) \/ i = next
      BY <1>1, <2>1, StepCases DEF SelectionTypeOK
    <3> QED
      BY <1>1, <2>1, <3>1, <3>2, StepCases DEF RootsAreDistinct
  <2>2. CASE ~ Usable(Pick(next))
    BY <1>1, <2>2, StepCases DEF RootsAreDistinct
  <2> QED
    BY <2>1, <2>2
<1>2. CASE UNCHANGED selectionVars
  BY <1>2 DEF RootsAreDistinct, selectionVars, repositoryVars, loopVars
<1> QED
  BY <1>1, <1>2

\* One pass stays inside.
LEMMA InsideStep ==
  ASSUME SelectionTypeOK, RootsAreInside, [SelectTarget]_selectionVars
  PROVE  RootsAreInside'
<1>1. CASE SelectTarget
  <2>1. CASE Usable(Pick(next))
    <3>1. \A i \in 1..(next' - 1) : i \in 1..(next - 1) \/ i = next
      BY <1>1, <2>1, StepCases DEF SelectionTypeOK
    <3> QED
      BY <1>1, <2>1, <3>1, StepCases DEF RootsAreInside, Inside, Usable
  <2>2. CASE ~ Usable(Pick(next))
    BY <1>1, <2>2, StepCases DEF RootsAreInside, Inside
  <2> QED
    BY <2>1, <2>2
<1>2. CASE UNCHANGED selectionVars
  BY <1>2 DEF RootsAreInside, Inside, selectionVars, repositoryVars, loopVars
<1> QED
  BY <1>1, <1>2

\* No two targets are given the same source root, and none lies outside the
\* repository.
THEOREM RootsSound == SelectionSpec => []RootsAreSound
<1>1. SelectionInit => RootsAreSound
  BY DEF SelectionInit, StartLoop, RootsAreSound, RootsAreDistinct, RootsAreInside
<1>2. SelectionTypeOK /\ RootsAreSound /\ [SelectTarget]_selectionVars => RootsAreSound'
  BY DistinctStep, InsideStep DEF RootsAreSound
<1> QED
  BY <1>1, <1>2, SelectionTypeCorrect, PTL DEF SelectionSpec

-----------------------------------------------------------------------------
\* When no two canonical directories lead to one place, whoever picks the
\* canonical place of a target is that target.
LEMMA PickKeepsRepairPlaces ==
  ASSUME CanonicalDistinct, NEW i \in Targets, NEW j \in Targets,
         resolve[Pick(i)] = resolve[TARGETS[j].canonical_dir]
  PROVE  i = j
<1>1. CASE Pick(i) = TARGETS[i].canonical_dir
  BY <1>1 DEF CanonicalDistinct
<1>2. CASE ~ ReservedForAnother(resolve[Pick(i)], i)
  <2>1. Owners(resolve[Pick(i)]) = {j}
    BY DEF Owners, CanonicalDistinct
  <2>2. \A k \in Owners(resolve[Pick(i)]) : k <= j
    BY <2>1 DEF Targets
  <2> QED
    BY <1>2, <2>1, <2>2 DEF ReservedForAnother
<1> QED
  BY <1>1, <1>2, PickCases

\* One pass keeps the repair places free.
LEMMA RepairStep ==
  ASSUME SelectionTypeOK, RepairPlacesKept, [SelectTarget]_selectionVars
  PROVE  RepairPlacesKept'
<1>1. CASE SelectTarget
  <2>0. CanonicalDistinct' <=> CanonicalDistinct
    BY <1>1, StepCases DEF CanonicalDistinct
  <2>1. CASE Usable(Pick(next))
    <3>1. \A i \in 1..(next' - 1) : i \in 1..(next - 1) \/ i = next
      BY <1>1, <2>1, StepCases DEF SelectionTypeOK
    <3> QED
      BY <1>1, <2>0, <2>1, <3>1, StepCases, PickKeepsRepairPlaces DEF RepairPlacesKept
  <2>2. CASE ~ Usable(Pick(next))
    BY <1>1, <2>0, <2>2, StepCases DEF RepairPlacesKept
  <2> QED
    BY <2>1, <2>2
<1>2. CASE UNCHANGED selectionVars
  BY <1>2 DEF RepairPlacesKept, CanonicalDistinct, selectionVars, repositoryVars, loopVars
<1> QED
  BY <1>1, <1>2

\* No target takes the place where another would be repaired.
THEOREM RepairPlacesAreKept == SelectionSpec => []RepairPlacesKept
<1>1. SelectionInit => RepairPlacesKept
  BY DEF SelectionInit, StartLoop, RepairPlacesKept
<1> QED
  BY <1>1, RepairStep, SelectionTypeCorrect, PTL DEF SelectionSpec

\* With canonical directories apart and inside, what Pick returns is usable:
\* the fallback is free because nobody before took it.
LEMMA PickIsUsable ==
  ASSUME SelectionTypeOK, RepairPlacesKept, next \in Targets,
         CanonicalDistinct, CanonicalInside
  PROVE  Usable(Pick(next))
<1>1. CASE Pick(next) = TARGETS[next].canonical_dir
  <2>1. Inside(Pick(next))
    BY <1>1 DEF CanonicalInside
  <2>2. \A i \in 1..(next - 1) : resolve[selected[i]] # resolve[TARGETS[next].canonical_dir]
    BY DEF RepairPlacesKept, Targets
  <2> QED
    BY <1>1, <2>1, <2>2 DEF Usable, Claimed
<1>2. CASE Inside(Pick(next)) /\ resolve[Pick(next)] \notin Claimed
  BY <1>2 DEF Usable
<1> QED
  BY <1>1, <1>2, PickCases

\* One pass does not raise while the repair places are free.
LEMMA RaiseStep ==
  ASSUME SelectionTypeOK, RepairPlacesKept, NeverRaises, [SelectTarget]_selectionVars
  PROVE  NeverRaises'
<1>1. CASE SelectTarget
  <2>1. (CanonicalDistinct' <=> CanonicalDistinct) /\ (CanonicalInside' <=> CanonicalInside)
    BY <1>1, StepCases DEF CanonicalDistinct, CanonicalInside, Inside
  <2>2. CASE CanonicalDistinct /\ CanonicalInside
    <3>1. Usable(Pick(next))
      BY <1>1, <2>2, StepCases, PickIsUsable
    <3> QED
      BY <1>1, <2>1, <2>2, <3>1, StepCases DEF NeverRaises
  <2>3. CASE ~ (CanonicalDistinct /\ CanonicalInside)
    BY <2>1, <2>3 DEF NeverRaises
  <2> QED
    BY <2>2, <2>3
<1>2. CASE UNCHANGED selectionVars
  BY <1>2 DEF NeverRaises, CanonicalDistinct, CanonicalInside, Inside,
              selectionVars, repositoryVars, loopVars
<1> QED
  BY <1>1, <1>2

\* No manifest and no set of directories makes the selection raise, as long as
\* links leave the canonical directories apart and inside.
THEOREM SelectionNeverRaises == SelectionSpec => []NeverRaises
<1>1. SelectionInit => NeverRaises
  BY DEF SelectionInit, StartLoop, NeverRaises
<1> QED
  BY <1>1, RaiseStep, SelectionTypeCorrect, RepairPlacesAreKept, PTL DEF SelectionSpec

-----------------------------------------------------------------------------
(* Whole runs. *)

\* While a run writes, every target has its directory, and what the selection
\* promises of those before next it promises of them all.
Complete ==
  phase \in {"mkdir", "mark"} =>
    /\ \A i \in Targets : selected[i] \in Paths /\ Inside(selected[i])
    /\ \A i, j \in Targets : resolve[selected[i]] = resolve[selected[j]] => i = j
    /\ CanonicalDistinct =>
         \A i, j \in Targets : resolve[selected[i]] = resolve[TARGETS[j].canonical_dir] => i = j

\* A run that is under way has been started and not completed.
Counted == completed <= runs /\ (phase \notin {"idle", "done"} => completed < runs)

Promises == RootsAreDistinct /\ RootsAreInside /\ RepairPlacesKept /\ NeverRaises
LayoutInv == TypeOK /\ Complete /\ Counted /\ Promises

\* What lies before a place in the table, or its end, lies in the table.
LEMMA PartOfTable == \A k \in 1..(N + 1) : 1..(k - 1) \subseteq Targets
BY TableWellFormed DEF Targets

\* The whole table is the part before its end.
LEMMA WholeTable == ASSUME next = N + 1 PROVE Targets = 1..(next - 1)
BY TableWellFormed DEF Targets

-----------------------------------------------------------------------------
\* A manifest is rewritten to directories.
LEMMA RewrittenTyped ==
  ASSUME TypeOK, Complete, phase = "mkdir"
  PROVE  Rewritten \in [Names -> Paths \cup {NoDir}]
<1>1. ASSUME NEW n \in Names, Publishers(n) # {}
      PROVE  selected[CHOOSE i \in Publishers(n) : TRUE] \in Paths
  <2>1. (CHOOSE i \in Publishers(n) : TRUE) \in Publishers(n)
    BY <1>1
  <2>2. Publishers(n) \subseteq Targets
    BY DEF Publishers
  <2> QED
    BY <2>1, <2>2 DEF Complete
<1>2. manifest \in [Names -> Paths \cup {NoDir}] /\ RootDir \in Paths
  BY LayoutWellFormed DEF TypeOK, SelectionTypeOK
<1> QED
  BY <1>1, <1>2 DEF Rewritten

\* Every step of a run keeps the types.
LEMMA LayoutTypeStep ==
  ASSUME LayoutInv, [Next]_vars
  PROVE  TypeOK'
<1> USE TableWellFormed, LayoutWellFormed, PathsWellFormed
<1>0. SelectionTypeOK /\ marks \in [MarkerPlaces -> 0..N] /\ N \in Nat
  BY DEF LayoutInv, TypeOK
<1>1. CASE Start
  <2>1. SelectionTypeOK'
    <3>1. failed' \in BOOLEAN /\ selected' \in [Targets -> Paths \cup {NoDir}] /\ next' = 1
      BY <1>1 DEF Start, Restart
    <3>2. UNCHANGED <<manifest, present, resolve>>
      BY <1>1 DEF Start, repositoryVars
    <3>3. next' \in 1..(N + 1) /\ \A i \in 1..(next' - 1) : selected'[i] \in Paths
      BY <1>0, <3>1
    <3> QED
      BY <1>0, <3>1, <3>2, <3>3 DEF SelectionTypeOK
  <2>2. packaged' \in BOOLEAN
    BY <1>1 DEF Start, Packaged
  <2> QED
    BY <1>1, <2>1, <2>2 DEF Start, LayoutInv, TypeOK, Phases
<1>2. CASE Select
  <2>1. SelectionTypeOK'
    BY <1>0, <1>2, TypeStep DEF Select
  <2> QED
    BY <1>2, <2>1 DEF Select, layoutVars, LayoutInv, TypeOK
<1>3. CASE Raise
  BY <1>3 DEF Raise, selectionVars, repositoryVars, loopVars,
              LayoutInv, TypeOK, SelectionTypeOK, Phases
<1>4. CASE Selected
  <2>1. SelectionTypeOK'
    BY <1>0, <1>4 DEF Selected, SelectionTypeOK, repositoryVars
  <2> QED
    BY <1>4, <2>1 DEF Selected, LayoutInv, TypeOK, Phases
<1>5. CASE MakeDir
  <2>1. next \in Targets /\ selected[next] \in Paths
    BY <1>0, <1>5 DEF MakeDir, LayoutInv, Complete, SelectionTypeOK, Targets
  <2>2. present' \subseteq Paths
    BY <1>0, <1>5, <2>1 DEF MakeDir, SelectionTypeOK
  <2>3. \A i \in 1..(next' - 1) : selected'[i] \in Paths
    BY <1>0, <1>5, <2>1 DEF MakeDir, LayoutInv, Complete, SelectionTypeOK, Targets
  <2>4. next' \in 1..(N + 1)
    BY <1>0, <1>5, <2>1 DEF MakeDir, Targets
  <2> QED
    BY <1>0, <1>5, <2>2, <2>3, <2>4 DEF MakeDir, layoutVars, LayoutInv, TypeOK, SelectionTypeOK
<1>6. CASE EnsureManifest
  <2>1. manifest' \in [Names -> Paths \cup {NoDir}]
    BY <1>0, <1>6, RewrittenTyped DEF EnsureManifest, LayoutInv, SelectionTypeOK
  <2>2. SelectionTypeOK'
    BY <1>0, <1>6, <2>1 DEF EnsureManifest, SelectionTypeOK
  <2> QED
    BY <1>6, <2>2 DEF EnsureManifest, LayoutInv, TypeOK, Phases
<1>7. CASE Mark
  <2>1. next \in Targets
    BY <1>0, <1>7 DEF Mark, SelectionTypeOK, Targets
  <2>2. marks' \in [MarkerPlaces -> 0..N]
    <3>1. next \in 0..N
      BY <1>0, <2>1 DEF Targets
    <3>2. PICK m : marks' = [marks EXCEPT ![m] = next]
      BY <1>7 DEF Mark
    <3> QED
      BY <1>0, <3>1, <3>2
  <2>3. \A i \in 1..(next' - 1) : selected'[i] \in Paths
    BY <1>0, <1>7, <2>1 DEF Mark, LayoutInv, Complete, SelectionTypeOK, Targets
  <2>4. next' \in 1..(N + 1)
    BY <1>0, <1>7, <2>1 DEF Mark, Targets
  <2> QED
    BY <1>0, <1>7, <2>2, <2>3, <2>4
    DEF Mark, repositoryVars, LayoutInv, TypeOK, SelectionTypeOK
<1>8. CASE Verify
  <2>1. SelectionTypeOK'
    <3>1. failed' \in BOOLEAN /\ selected' \in [Targets -> Paths \cup {NoDir}] /\ next' = 1
      BY <1>8 DEF Verify, Restart
    <3>2. UNCHANGED <<manifest, present, resolve>>
      BY <1>8 DEF Verify, repositoryVars
    <3>3. next' \in 1..(N + 1) /\ \A i \in 1..(next' - 1) : selected'[i] \in Paths
      BY <1>0, <3>1
    <3> QED
      BY <1>0, <3>1, <3>2, <3>3 DEF SelectionTypeOK
  <2> QED
    BY <1>8, <2>1 DEF Verify, LayoutInv, TypeOK, Phases
<1>9. CASE Finish
  <2>1. completed' \in 0..MaxRuns
    BY <1>9 DEF Finish, LayoutInv, TypeOK, Counted
  <2>2. placed' \in [Targets -> Paths \cup {NoDir}]
    BY <1>0, <1>9 DEF Finish, LayoutInv, TypeOK, SelectionTypeOK
  <2> QED
    BY <1>0, <1>9, <2>1, <2>2 DEF Finish, selectionVars, repositoryVars, loopVars,
       LayoutInv, TypeOK, SelectionTypeOK, Phases
<1>10. CASE Kill
  BY <1>0, <1>10 DEF Kill, selectionVars, repositoryVars, loopVars,
     LayoutInv, TypeOK, SelectionTypeOK, Phases
<1>11. CASE UNCHANGED vars
  BY <1>0, <1>11 DEF vars, layoutVars, selectionVars, repositoryVars, loopVars,
     LayoutInv, TypeOK, SelectionTypeOK
<1> QED
  BY <1>1, <1>2, <1>3, <1>4, <1>5, <1>6, <1>7, <1>8, <1>9, <1>10, <1>11 DEF Next

-----------------------------------------------------------------------------
\* What is promised of the targets before next depends on nothing else.
LEMMA PromisesOf ==
  ASSUME Promises, UNCHANGED <<resolve, selected, failed>>,
         1..(next' - 1) \subseteq 1..(next - 1)
  PROVE  Promises'
BY DEF Promises, RootsAreDistinct, RootsAreInside, RepairPlacesKept, NeverRaises,
       CanonicalDistinct, CanonicalInside, Inside

\* While a run writes, the promises hold wherever its loops are.
LEMMA PromisesOfComplete ==
  ASSUME Promises, Complete, phase \in {"mkdir", "mark"}, next' \in 1..(N + 1),
         UNCHANGED <<resolve, selected, failed>>
  PROVE  Promises'
<1>1. 1..(next' - 1) \subseteq Targets
  BY PartOfTable
<1> QED
  BY <1>1 DEF Complete, Promises, RootsAreDistinct, RootsAreInside, RepairPlacesKept,
     NeverRaises, CanonicalDistinct, CanonicalInside, Inside

\* A fresh start of the selection promises nothing yet.
LEMMA PromisesOfNone ==
  ASSUME next' = 1, failed' = FALSE
  PROVE  Promises'
BY DEF Promises, RootsAreDistinct, RootsAreInside, RepairPlacesKept, NeverRaises

\* Every step of a run keeps the promises, for all targets while it writes.
LEMMA LayoutStep ==
  ASSUME LayoutInv, [Next]_vars
  PROVE  LayoutInv'
<1> USE DEF LayoutInv
<1>t. TypeOK' /\ SelectionTypeOK
  BY LayoutTypeStep DEF TypeOK
<1>c. Counted'
  BY <1>t DEF Counted, Next, Start, Select, Raise, Selected, MakeDir, EnsureManifest,
     Mark, Verify, Finish, Kill, vars, layoutVars, TypeOK
<1>1. CASE Start \/ Verify
  <2>1. phase' \notin {"mkdir", "mark"} /\ next' = 1 /\ failed' = FALSE
    BY <1>1 DEF Start, Verify, Restart
  <2> QED
    BY <1>t, <1>c, <2>1, PromisesOfNone DEF Complete
<1>2. CASE Select
  <2>1. Promises'
    BY <1>2, <1>t, DistinctStep, InsideStep, RepairStep, RaiseStep DEF Select, Promises
  <2> QED
    BY <1>t, <1>c, <1>2, <2>1 DEF Select, layoutVars, Complete
<1>3. CASE Selected
  <2>1. Targets = 1..(next - 1)
    BY <1>3, WholeTable DEF Selected
  <2>2. Complete'
    BY <1>3, <1>t, <2>1 DEF Selected, repositoryVars, Complete, Promises, RootsAreDistinct,
       RootsAreInside, RepairPlacesKept, CanonicalDistinct, Inside, SelectionTypeOK
  <2>3. Promises'
    BY <1>3, PromisesOf DEF Selected, repositoryVars
  <2> QED
    BY <1>t, <1>c, <2>2, <2>3
<1>4. CASE MakeDir \/ EnsureManifest \/ Mark
  <2>1. /\ phase \in {"mkdir", "mark"} /\ phase' \in {"mkdir", "mark"}
        /\ UNCHANGED <<resolve, selected, failed>>
    BY <1>4 DEF MakeDir, EnsureManifest, Mark, repositoryVars, layoutVars
  <2>2. Complete'
    BY <2>1 DEF Complete, Inside, CanonicalDistinct
  <2>3. next' \in 1..(N + 1)
    BY <1>t DEF TypeOK, SelectionTypeOK
  <2> QED
    BY <1>t, <1>c, <2>1, <2>2, <2>3, PromisesOfComplete
<1>5. CASE Raise \/ Finish \/ Kill
  <2>1. UNCHANGED selectionVars /\ phase' \notin {"mkdir", "mark"}
    BY <1>5 DEF Raise, Finish, Kill
  <2>2. UNCHANGED <<resolve, selected, failed, next>>
    BY <2>1 DEF selectionVars, repositoryVars, loopVars
  <2> QED
    BY <1>t, <1>c, <2>1, <2>2, PromisesOf DEF Complete
<1>6. CASE UNCHANGED vars
  <2>1. UNCHANGED <<resolve, selected, failed, next, phase>>
    BY <1>6 DEF vars, selectionVars, repositoryVars, loopVars, layoutVars
  <2>2. Complete'
    BY <2>1 DEF Complete, Inside, CanonicalDistinct
  <2> QED
    BY <1>t, <1>c, <2>1, <2>2, PromisesOf
<1> QED
  BY <1>1, <1>2, <1>3, <1>4, <1>5, <1>6 DEF Next

\* The invariant of every sequence of runs.
LEMMA LayoutInvariant == Spec => []LayoutInv
<1>1. Init => LayoutInv
  <2> SUFFICES ASSUME Init
               PROVE  LayoutInv
    OBVIOUS
  <2> USE TableWellFormed, LayoutWellFormed
  <2>1. /\ manifest \in [Names -> Paths \cup {NoDir}]
        /\ present \subseteq Paths /\ resolve \in [Paths -> Paths]
    BY StartsWellFormed DEF Init, SelectionInit
  <2>2. next = 1 /\ selected = [i \in Targets |-> NoDir] /\ failed = FALSE
    BY DEF Init, SelectionInit, StartLoop
  <2>3. SelectionTypeOK
    <3>1. selected \in [Targets -> Paths \cup {NoDir}] /\ failed \in BOOLEAN
      BY <2>2
    <3>2. next \in 1..(N + 1) /\ \A i \in 1..(next - 1) : selected[i] \in Paths
      BY <2>2
    <3> QED
      BY <2>1, <3>1, <3>2 DEF SelectionTypeOK
  <2>4. TypeOK
    <3>1. marks \in [MarkerPlaces -> 0..N] /\ placed \in [Targets -> Paths \cup {NoDir}]
      <4>1. 0 \in 0..N
        OBVIOUS
      <4> QED
        BY <4>1 DEF Init, Unplaced
    <3>2. runs \in 0..MaxRuns /\ completed \in 0..MaxRuns
      BY DEF Init
    <3>3. phase \in Phases /\ packaged \in BOOLEAN
      BY DEF Init, Phases
    <3> QED
      BY <2>3, <3>1, <3>2, <3>3 DEF TypeOK
  <2>5. Promises
    BY <2>2 DEF Promises, RootsAreDistinct, RootsAreInside, RepairPlacesKept, NeverRaises
  <2> QED
    BY <2>4, <2>5 DEF Init, LayoutInv, Complete, Counted
<1> QED
  BY <1>1, LayoutStep, PTL DEF Spec

-----------------------------------------------------------------------------
\* Runs, complete or killed, keep to their phases and their table.
THEOREM LayoutTypeCorrect == Spec => []TypeOK
<1>1. LayoutInv => TypeOK
  BY DEF LayoutInv
<1> QED
  BY <1>1, LayoutInvariant, PTL

\* No selection of any run gives two targets one source root, or a target a
\* root outside the repository.
THEOREM LayoutRootsSound == Spec => []RootsAreSound
<1>1. LayoutInv => RootsAreSound
  BY DEF LayoutInv, Promises, RootsAreSound
<1> QED
  BY <1>1, LayoutInvariant, PTL

\* While canonical directories are apart, no run puts a target where another
\* would be repaired.
THEOREM LayoutRepairPlacesKept == Spec => []RepairPlacesKept
<1>1. LayoutInv => RepairPlacesKept
  BY DEF LayoutInv, Promises
<1> QED
  BY <1>1, LayoutInvariant, PTL

\* What earlier runs left behind, complete or not, never makes a run raise, as
\* long as links leave the canonical directories apart and inside.
THEOREM LayoutNeverRaises == Spec => []NeverRaises
<1>1. LayoutInv => NeverRaises
  BY DEF LayoutInv, Promises
<1> QED
  BY <1>1, LayoutInvariant, PTL

-----------------------------------------------------------------------------
(* What runs in a row keep.  A run that selects again finds what it left: the *)
(* invariants below say what a selection depends on, and what making          *)
(* directories, rewriting the manifest and leaving markers do to it.          *)

\* What the selection gives target i when the places in claimed are taken.
PickFrom(i, claimed) ==
  LET s == TARGETS[i]
      wanted == IF Inside(choose_dir(s)) THEN choose_dir(s) ELSE s.canonical_dir
  IN  IF resolve[wanted] \in claimed \/ ReservedForAnother(resolve[wanted], i)
      THEN s.canonical_dir ELSE wanted

\* The places taken before target i, when the selection is V.
Before(V, i) == {resolve[V[j]] : j \in 1..(i - 1)}

\* From the manifest and the directories there are now, the selection is V; and
\* all its directories exist.
Repicked(V) == \A i \in Targets : PickFrom(i, Before(V, i)) = V[i]
AllExist(V) == \A i \in Targets : resolve[V[i]] \in present
Fixed(V) == V \in [Targets -> Paths] /\ Repicked(V) /\ AllExist(V)

\* The same of the places that V leads to.
Returning(V) ==
  \A i \in Targets : resolve[PickFrom(i, Before(V, i))] = resolve[V[i]]
Steady(V) == V \in [Targets -> Paths] /\ Returning(V) /\ AllExist(V)

\* The tree is one that TreesWellFormed speaks of.
Rooted ==
  \A p \in Paths :
    /\ resolve[resolve[p]] = resolve[p]
    /\ resolve[p] \in present => \A a \in Above[p] : resolve[a] \in present
    /\ \A q \in Paths : resolve[p] = resolve[q] =>
         \A a \in Above[p] : \/ resolve[a] \in present
                             \/ \E b \in Above[q] : resolve[a] = resolve[b]

\* The selection so far is what the manifest and the directories ask for, and
\* any steady selection is where it is on the way to.
Selecting ==
  phase \in {"select", "verify"} =>
    /\ \A i \in 1..(next - 1) : selected[i] = PickFrom(i, Before(selected, i))
    /\ \A V \in [Targets -> Paths] : Steady(V) =>
         \A i \in 1..(next - 1) : resolve[selected[i]] = resolve[V[i]]

\* A selected directory exists, or is the canonical one; those before next
\* have been made.
Making ==
  /\ phase = "mkdir" =>
       /\ \A i \in Targets : \/ selected[i] = TARGETS[i].canonical_dir
                             \/ resolve[selected[i]] \in present
                                /\ ~ ReservedForAnother(resolve[selected[i]], i)
       /\ \A i \in 1..(next - 1) : resolve[selected[i]] \in present
  /\ phase = "mark" => AllExist(selected)

\* No alias is declared, or the manifest is mature: so it stays.
Popped == \A n \in AliasNames : manifest[n] = NoDir
Migrated == Mature \/ Popped

\* What verify found nothing wrong with stays fixed.
Settled ==
  placed # Unplaced =>
    /\ Fixed(placed) /\ Migrated
    /\ phase \in {"select", "verify"} => \A i \in 1..(next - 1) : selected[i] = placed[i]
    /\ phase \in {"mkdir", "mark"} => \A i \in Targets : selected[i] = placed[i]

\* The manifest declares an existing directory for every published target, and
\* no alias.
Pinned ==
  /\ Popped
  /\ \A i \in Targets : TARGETS[i].publish => Exists(manifest[TARGETS[i].zed_target])

SharedExists == resolve[Shared] \in present

\* After a run the manifest is pinned; or it is mature, and then the shared
\* package exists or there is nothing left to create.
Prepared ==
  Pinned \/ /\ Mature
            /\ CanonicalDistinct /\ Uncrossed =>
                 SharedExists \/ \E V \in [Targets -> Paths] : Steady(V)

\* What a target that is not published keeps while directories are made.
Leaning(i) ==
  \/ selected[i] = TARGETS[i].canonical_dir
  \/ /\ selected[i] = Shared /\ SharedExists
     /\ PickFrom(i, Before(selected, i)) = Shared
     /\ resolve[TARGETS[i].canonical_dir] \notin present

\* What a run keeps to while it makes directories: its selection would be made
\* again, but for the shared package, which the first run may create.
Keeping ==
  phase = "mkdir" /\ CanonicalDistinct =>
    /\ completed = 0 /\ Mature /\ Uncrossed => SharedExists \/ Returning(selected)
    /\ completed >= 1 =>
         \/ /\ Pinned
            /\ \A i \in Targets :
                 IF TARGETS[i].publish THEN PickFrom(i, Before(selected, i)) = selected[i]
                                       ELSE Leaning(i)
         \/ /\ Mature
            /\ Uncrossed => Returning(selected) /\ (SharedExists \/ AllExist(selected))

Prepares == (completed >= 1 \/ phase \in {"mark", "verify"}) => Prepared

\* Every target has its marker where V has it.
MarkedIn(V, k) == \A i \in 1..k : marks[marker_dir(i, V[i])] = i

\* In a second run the selection is steady once the manifest is written, and the
\* markers are left where verify will look.
Marking ==
  /\ phase = "mark" =>
       /\ MarkedIn(selected, next - 1)
       /\ completed >= 1 /\ CanonicalDistinct /\ Uncrossed => Steady(selected)
  /\ phase = "verify" /\ completed >= 1 /\ CanonicalDistinct /\ Uncrossed =>
       \E V \in [Targets -> Paths] : Steady(V) /\ MarkedIn(V, N)
  /\ CanonicalDistinct => SecondRunMarksAll

\* An accepted repository stays accepted, and its targets are selected where
\* they are declared, or the manifest stays as it is.
Accepting ==
  packaged =>
    /\ MatrixAccepts /\ PackageAccepts
    /\ phase \in {"select", "mkdir"} =>
         Mature \/ /\ DeclaredInPlace
                   /\ \A i \in (IF phase = "select" THEN 1..(next - 1) ELSE Targets) :
                        TARGETS[i].publish => selected[i] = manifest[TARGETS[i].zed_target]

-----------------------------------------------------------------------------
(* What choose_dir and the selection ask for, and what changes of the tree  *)
(* and the manifest leave them as they are.                                 *)

\* The step of the loop picks from the places taken before.
LEMMA PickIsPickFrom ==
  \A i \in Targets : next = i => Pick(i) = PickFrom(i, Before(selected, i))
BY DEF Pick, PickFrom, Claimed, Before

\* The parts of a row.
LEMMA RowTyped ==
  ASSUME NEW i \in Targets
  PROVE  /\ TARGETS[i].canonical_dir \in Paths /\ TARGETS[i].publish \in BOOLEAN
         /\ TARGETS[i].zed_target \in Names /\ TARGETS[i].zed_aliases \in Seq(Names)
         /\ TARGETS[i].aliases \in Seq(Paths) /\ TARGETS[i].runtime \in STRING
<1>1. TARGETS[i] \in TargetSpec
  BY TableWellFormed DEF Targets, N
<1> QED
  BY <1>1 DEF TargetSpec

\* The names a row declares, and what choose_dir makes of them, are sequences.
LEMMA DeclaredTyped ==
  ASSUME NEW i \in Targets
  PROVE  /\ DeclaredNames(TARGETS[i]) \in Seq(Names)
         /\ TARGETS[i].publish => DeclaredNames(TARGETS[i])[1] = TARGETS[i].zed_target
                                   /\ Len(DeclaredNames(TARGETS[i])) >= 1
         /\ ~ TARGETS[i].publish => DeclaredNames(TARGETS[i]) = TARGETS[i].zed_aliases
<1>1. PICK t, z : t = TARGETS[i].zed_target /\ z = TARGETS[i].zed_aliases
  OBVIOUS
<1>2. t \in Names /\ z \in Seq(Names)
  BY <1>1, RowTyped
<1>3. <<t>> \o z \in Seq(Names) /\ (<<t>> \o z)[1] = t /\ Len(<<t>> \o z) >= 1
  BY <1>2
<1> QED
  BY <1>1, <1>2, <1>3 DEF DeclaredNames

\* The options of a row, in three parts: what is declared, the canonical
\* directory, and what is tried after it.
LEMMA OptionsParts ==
  ASSUME NEW i \in Targets, SelectionTypeOK
  PROVE  \E d, tail :
           /\ d \in Seq(Paths \cup {NoDir}) /\ tail \in Seq(Paths)
           /\ Len(d) = Len(DeclaredNames(TARGETS[i]))
           /\ \A k \in 1..Len(d) : d[k] = manifest[DeclaredNames(TARGETS[i])[k]]
           /\ tail = (IF TARGETS[i].runtime \in runtimes THEN <<Shared>> ELSE <<>>)
                       \o TARGETS[i].aliases
           /\ Options(TARGETS[i]) = (d \o <<TARGETS[i].canonical_dir>>) \o tail
<1>1. PICK n, c, a, r : /\ n = DeclaredNames(TARGETS[i]) /\ c = TARGETS[i].canonical_dir
                        /\ a = TARGETS[i].aliases
                        /\ r = IF TARGETS[i].runtime \in runtimes THEN <<Shared>> ELSE <<>>
  OBVIOUS
<1>2. n \in Seq(Names) /\ c \in Paths /\ a \in Seq(Paths) /\ r \in Seq(Paths)
  BY <1>1, RowTyped, DeclaredTyped, PathsWellFormed
<1>3. PICK d : d = [k \in DOMAIN n |-> manifest[n[k]]]
  OBVIOUS
<1>4. /\ d \in Seq(Paths \cup {NoDir}) /\ Len(d) = Len(n)
      /\ \A k \in 1..Len(d) : d[k] = manifest[n[k]]
  BY <1>2, <1>3 DEF SelectionTypeOK
<1>5. r \o a \in Seq(Paths)
  BY <1>2
<1>6. Options(TARGETS[i]) = d \o <<c>> \o r \o a
  BY <1>1, <1>3 DEF Options
<1>7. d \o <<c>> \o r \o a = (d \o <<c>>) \o (r \o a)
  BY <1>2, <1>4
<1> QED
  BY <1>1, <1>4, <1>5, <1>6, <1>7

\* The options of a row are a sequence.
LEMMA OptionsTyped ==
  ASSUME NEW i \in Targets, SelectionTypeOK
  PROVE  Options(TARGETS[i]) \in Seq(Paths \cup {NoDir})
<1>1. PICK d, tail : /\ d \in Seq(Paths \cup {NoDir}) /\ tail \in Seq(Paths)
                     /\ Len(d) = Len(DeclaredNames(TARGETS[i]))
                     /\ Options(TARGETS[i]) = (d \o <<TARGETS[i].canonical_dir>>) \o tail
  BY OptionsParts
<1>2. PICK c \in Paths : c = TARGETS[i].canonical_dir
  BY RowTyped
<1> QED
  BY <1>1, <1>2

\* choose_dir answers with the first option that exists, or falls back on the
\* canonical directory.
LEMMA ChooseFirst ==
  ASSUME NEW i \in Targets, NEW k \in DOMAIN Options(TARGETS[i]), SelectionTypeOK,
         Exists(Options(TARGETS[i])[k]),
         \A l \in 1..(k - 1) : ~ Exists(Options(TARGETS[i])[l])
  PROVE  choose_dir(TARGETS[i]) = Options(TARGETS[i])[k]
<1> DEFINE opts == Options(TARGETS[i])
           First(l) == /\ Exists(opts[l])
                       /\ \A m \in 1..(l - 1) : ~ Exists(opts[m])
<1>0. opts \in Seq(Paths \cup {NoDir})
  BY OptionsTyped
<1>1. DOMAIN opts = 1..Len(opts) /\ Len(opts) \in Nat
  BY <1>0
<1>2. First(k) /\ k \in DOMAIN opts
  OBVIOUS
<1>3. choose_dir(TARGETS[i]) = opts[CHOOSE l \in DOMAIN opts : First(l)]
  BY <1>2 DEF choose_dir
<1> HIDE DEF opts
<1>4. PICK l \in DOMAIN opts : First(l) /\ l = CHOOSE m \in DOMAIN opts : First(m)
  BY <1>2
<1>5. l = k
  <2>1. k \in Nat \ {0} /\ l \in Nat \ {0}
    BY <1>1, <1>2, <1>4
  <2>2. ~ l < k /\ ~ k < l
    BY <1>2, <1>4, <2>1
  <2> QED
    BY <2>1, <2>2
<1> QED
  BY <1>3, <1>4, <1>5 DEF opts

\* Either an option that exists was chosen, or none exists.
LEMMA ChooseCases ==
  ASSUME NEW i \in Targets, SelectionTypeOK
  PROVE  \/ \E k \in DOMAIN Options(TARGETS[i]) :
              choose_dir(TARGETS[i]) = Options(TARGETS[i])[k] /\ Exists(Options(TARGETS[i])[k])
         \/ choose_dir(TARGETS[i]) = TARGETS[i].canonical_dir
<1> DEFINE opts == Options(TARGETS[i])
           First(k) == /\ Exists(opts[k])
                       /\ \A l \in 1..(k - 1) : ~ Exists(opts[l])
<1>1. CASE \E k \in DOMAIN opts : First(k)
  <2>1. PICK k \in DOMAIN opts : First(k) /\ k = CHOOSE j \in DOMAIN opts : First(j)
    BY <1>1
  <2>2. choose_dir(TARGETS[i]) = opts[k]
    BY <1>1, <2>1 DEF choose_dir
  <2> QED
    BY <2>1, <2>2
<1>2. CASE ~ \E k \in DOMAIN opts : First(k)
  BY <1>2 DEF choose_dir
<1> QED
  BY <1>1, <1>2

\* A published target whose declared directory exists is looked for there.
LEMMA DeclaredChosen ==
  ASSUME NEW i \in Targets, SelectionTypeOK, TARGETS[i].publish,
         Exists(manifest[TARGETS[i].zed_target])
  PROVE  choose_dir(TARGETS[i]) = manifest[TARGETS[i].zed_target]
<1>1. PICK d, tail :
        /\ d \in Seq(Paths \cup {NoDir}) /\ tail \in Seq(Paths)
        /\ Len(d) = Len(DeclaredNames(TARGETS[i]))
        /\ \A k \in 1..Len(d) : d[k] = manifest[DeclaredNames(TARGETS[i])[k]]
        /\ Options(TARGETS[i]) = (d \o <<TARGETS[i].canonical_dir>>) \o tail
  BY OptionsParts
<1>2. Len(d) >= 1 /\ d[1] = manifest[TARGETS[i].zed_target]
  BY <1>1, DeclaredTyped
<1>3. PICK c \in Paths : c = TARGETS[i].canonical_dir
  BY RowTyped
<1>4. 1 \in DOMAIN ((d \o <<c>>) \o tail) /\ ((d \o <<c>>) \o tail)[1] = d[1]
  BY <1>1, <1>2
<1>5. 1 \in DOMAIN Options(TARGETS[i]) /\ Options(TARGETS[i])[1] = manifest[TARGETS[i].zed_target]
  BY <1>1, <1>2, <1>3, <1>4
<1> QED
  BY <1>5, ChooseFirst

\* What choose_dir answers in any state: see ChooseFirst and ChooseCases.
FirstIsChosen ==
  SelectionTypeOK => \A i \in Targets :
    /\ \A k \in DOMAIN Options(TARGETS[i]) :
         /\ Exists(Options(TARGETS[i])[k])
         /\ \A l \in 1..(k - 1) : ~ Exists(Options(TARGETS[i])[l])
         => choose_dir(TARGETS[i]) = Options(TARGETS[i])[k]
    /\ \/ \E k \in DOMAIN Options(TARGETS[i]) :
            /\ Exists(Options(TARGETS[i])[k])
            /\ \A l \in 1..(k - 1) : ~ Exists(Options(TARGETS[i])[l])
       \/ choose_dir(TARGETS[i]) = TARGETS[i].canonical_dir

\* It is so in every state.
LEMMA FirstChosen == FirstIsChosen
<1> SUFFICES ASSUME SelectionTypeOK, NEW i \in Targets
             PROVE  /\ \A k \in DOMAIN Options(TARGETS[i]) :
                         /\ Exists(Options(TARGETS[i])[k])
                         /\ \A l \in 1..(k - 1) : ~ Exists(Options(TARGETS[i])[l])
                         => choose_dir(TARGETS[i]) = Options(TARGETS[i])[k]
                    /\ \/ \E k \in DOMAIN Options(TARGETS[i]) :
                            /\ Exists(Options(TARGETS[i])[k])
                            /\ \A l \in 1..(k - 1) : ~ Exists(Options(TARGETS[i])[l])
                       \/ choose_dir(TARGETS[i]) = TARGETS[i].canonical_dir
  BY DEF FirstIsChosen
<1>1. ASSUME NEW k \in DOMAIN Options(TARGETS[i]), Exists(Options(TARGETS[i])[k]),
             \A l \in 1..(k - 1) : ~ Exists(Options(TARGETS[i])[l])
      PROVE  choose_dir(TARGETS[i]) = Options(TARGETS[i])[k]
  BY <1>1, ChooseFirst
<1>2. \/ \E k \in DOMAIN Options(TARGETS[i]) :
           /\ Exists(Options(TARGETS[i])[k])
           /\ \A l \in 1..(k - 1) : ~ Exists(Options(TARGETS[i])[l])
      \/ choose_dir(TARGETS[i]) = TARGETS[i].canonical_dir
  BY DEF choose_dir
<1> QED
  BY <1>1, <1>2

\* And so it is in the next one.
LEMMA FirstChosenNext == FirstIsChosen'
BY FirstChosen, PTL

\* A target is chosen as before when its options are the same and as many of
\* them exist.
LEMMA ChooseSame ==
  ASSUME SelectionTypeOK, SelectionTypeOK', NEW i \in Targets, NEW o,
         Options(TARGETS[i]) = o, Options(TARGETS[i])' = o,
         \A k \in DOMAIN o : Exists(o[k])' <=> Exists(o[k])
  PROVE  choose_dir(TARGETS[i])' = choose_dir(TARGETS[i])
<1>0. o \in Seq(Paths \cup {NoDir})
  BY OptionsTyped
<1>1. CASE \E k \in DOMAIN o : Exists(o[k]) /\ \A l \in 1..(k - 1) : ~ Exists(o[l])
  <2>1. PICK k \in DOMAIN o : Exists(o[k]) /\ \A l \in 1..(k - 1) : ~ Exists(o[l])
    BY <1>1
  <2>2. \A l \in 1..(k - 1) : l \in DOMAIN o
    BY <1>0, <2>1
  <2>3. Exists(o[k])' /\ \A l \in 1..(k - 1) : ~ Exists(o[l])'
    BY <2>1, <2>2
  <2>4. choose_dir(TARGETS[i]) = o[k]
    BY <2>1, FirstChosen DEF FirstIsChosen
  <2>5. choose_dir(TARGETS[i])' = o[k]
    BY <2>3, FirstChosenNext DEF FirstIsChosen
  <2> QED
    BY <2>4, <2>5
<1>2. CASE ~ \E k \in DOMAIN o : Exists(o[k]) /\ \A l \in 1..(k - 1) : ~ Exists(o[l])
  <2>1. choose_dir(TARGETS[i]) = TARGETS[i].canonical_dir
    BY <1>2, FirstChosen DEF FirstIsChosen
  <2>2. \A k \in DOMAIN o : \A l \in 1..(k - 1) : l \in DOMAIN o
    BY <1>0
  <2>3. ~ \E k \in DOMAIN o : Exists(o[k])' /\ \A l \in 1..(k - 1) : ~ Exists(o[l])'
    BY <1>2, <2>2
  <2>4. choose_dir(TARGETS[i])' = TARGETS[i].canonical_dir
    BY <2>3, FirstChosenNext DEF FirstIsChosen
  <2> QED
    BY <2>1, <2>4
<1> QED
  BY <1>1, <1>2

\* What is picked depends on the choice and on the links alone.
LEMMA PickSame ==
  ASSUME NEW i \in Targets, choose_dir(TARGETS[i])' = choose_dir(TARGETS[i]),
         UNCHANGED resolve
  PROVE  \A c : PickFrom(i, c)' = PickFrom(i, c)
BY DEF PickFrom, Inside, ReservedForAnother, Owners

\* The options of a row are read off the manifest.
LEMMA OptionsSame ==
  ASSUME NEW i \in Targets, UNCHANGED <<manifest, runtimes>>
  PROVE  Options(TARGETS[i])' = Options(TARGETS[i])
BY DEF Options, DeclaredNames

\* A published target whose declared directory exists is looked for there, in
\* any state.
DeclaredIsChosen ==
  SelectionTypeOK => \A i \in Targets :
    TARGETS[i].publish /\ Exists(manifest[TARGETS[i].zed_target]) =>
      choose_dir(TARGETS[i]) = manifest[TARGETS[i].zed_target]

\* It is so in this state.
LEMMA DeclaredNow == DeclaredIsChosen
BY DeclaredChosen DEF DeclaredIsChosen

\* And in the next.
LEMMA DeclaredNext == DeclaredIsChosen'
BY DeclaredNow, PTL

\* Without aliases, a target that is not published has its canonical directory,
\* if it exists, or else perhaps the shared package.
PlainIsChosen ==
  SelectionTypeOK /\ Popped => \A i \in Targets :
    ~ TARGETS[i].publish =>
      /\ Exists(TARGETS[i].canonical_dir) => choose_dir(TARGETS[i]) = TARGETS[i].canonical_dir
      /\ choose_dir(TARGETS[i]) \in {TARGETS[i].canonical_dir, Shared}
      /\ \A k \in DOMAIN Options(TARGETS[i]) :
           Options(TARGETS[i])[k] \in {NoDir, TARGETS[i].canonical_dir, Shared}

\* A sequence in three parts has its middle after the first.
LEMMA ThreeParts ==
  ASSUME NEW S, NEW T, T \subseteq S, NEW d \in Seq(S), NEW c \in S, NEW t \in Seq(T),
         NEW o, o = (d \o <<c>>) \o t
  PROVE  /\ o \in Seq(S) /\ Len(d) + 1 \in DOMAIN o /\ o[Len(d) + 1] = c
         /\ \A k \in 1..Len(d) : o[k] = d[k]
         /\ \A k \in DOMAIN o : (\E l \in 1..Len(d) : o[k] = d[l]) \/ o[k] = c \/ o[k] \in T
<1>1. PICK e : e = d \o <<c>>
  OBVIOUS
<1>2. /\ e \in Seq(S) /\ Len(e) = Len(d) + 1 /\ e[Len(d) + 1] = c
      /\ \A k \in 1..Len(d) : e[k] = d[k]
  BY <1>1
<1>3. t \in Seq(S) /\ \A k \in 1..Len(t) : t[k] \in T
  OBVIOUS
<1>4. /\ o \in Seq(S) /\ Len(o) = Len(e) + Len(t)
      /\ \A k \in 1..Len(e) : o[k] = e[k]
      /\ \A k \in 1..Len(t) : o[Len(e) + k] = t[k]
  BY <1>1, <1>2, <1>3
<1>5. ASSUME NEW k \in DOMAIN o
      PROVE  (\E l \in 1..Len(d) : o[k] = d[l]) \/ o[k] = c \/ o[k] \in T
  <2>1. k \in 1..Len(o) /\ Len(d) \in Nat /\ Len(t) \in Nat
    BY <1>4
  <2>2. CASE k \in 1..Len(d)
    BY <1>2, <1>4, <2>1, <2>2
  <2>3. CASE k = Len(d) + 1
    BY <1>2, <1>4, <2>1, <2>3
  <2>4. CASE k > Len(d) + 1
    <3>0. k - Len(e) \in 1..Len(t) /\ k = Len(e) + (k - Len(e))
      BY <1>2, <1>4, <2>1, <2>4
    <3>1. PICK l \in 1..Len(t) : k = Len(e) + l
      BY <3>0
    <3> QED
      BY <1>3, <1>4, <3>1
  <2> QED
    BY <2>1, <2>2, <2>3, <2>4
<1>6. Len(d) + 1 \in DOMAIN o /\ o[Len(d) + 1] = c /\ \A k \in 1..Len(d) : o[k] = d[k]
  BY <1>2, <1>4
<1> QED
  BY <1>4, <1>5, <1>6

\* The runtime and the legacy directories lead to the shared package.
LEMMA TailShared ==
  ASSUME NEW x, NEW a \in Seq({x})
  PROVE  <<x>> \o a \in Seq({x}) /\ <<>> \o a \in Seq({x})
OBVIOUS

\* It is so in this state.
LEMMA PlainNow == PlainIsChosen
<1> SUFFICES ASSUME SelectionTypeOK, Popped, NEW i \in Targets, ~ TARGETS[i].publish
             PROVE  /\ Exists(TARGETS[i].canonical_dir) =>
                         choose_dir(TARGETS[i]) = TARGETS[i].canonical_dir
                    /\ choose_dir(TARGETS[i]) \in {TARGETS[i].canonical_dir, Shared}
                    /\ \A k \in DOMAIN Options(TARGETS[i]) :
                         Options(TARGETS[i])[k] \in {NoDir, TARGETS[i].canonical_dir, Shared}
  BY DEF PlainIsChosen
<1>1. PICK d, tail :
        /\ d \in Seq(Paths \cup {NoDir}) /\ tail \in Seq(Paths)
        /\ Len(d) = Len(DeclaredNames(TARGETS[i]))
        /\ \A k \in 1..Len(d) : d[k] = manifest[DeclaredNames(TARGETS[i])[k]]
        /\ tail = (IF TARGETS[i].runtime \in runtimes THEN <<Shared>> ELSE <<>>)
                    \o TARGETS[i].aliases
        /\ Options(TARGETS[i]) = (d \o <<TARGETS[i].canonical_dir>>) \o tail
  BY OptionsParts
<1>2. PICK c, a, o : /\ c = TARGETS[i].canonical_dir /\ a = TARGETS[i].aliases
                     /\ o = Options(TARGETS[i])
  OBVIOUS
<1>3. c \in Paths /\ a \in Seq({Shared})
  <2>1. c \in Paths
    BY <1>2, RowTyped
  <2>2. a \in Seq({Shared})
    BY <1>2, TableShape
  <2> QED
    BY <2>1, <2>2
<1>4. tail \in Seq({Shared}) /\ o = (d \o <<c>>) \o tail
  <2>1. tail = <<Shared>> \o a \/ tail = <<>> \o a
    BY <1>1, <1>2
  <2> QED
    BY <1>1, <1>2, <1>3, <2>1, TailShared
<1>5. \A k \in 1..Len(d) : d[k] = NoDir
  <2>1. PICK z : z = DeclaredNames(TARGETS[i])
    OBVIOUS
  <2>2. z \in Seq(Names) /\ z = TARGETS[i].zed_aliases
    BY <2>1, DeclaredTyped
  <2>3. \A k \in 1..Len(d) : z[k] \in Names /\ k \in DOMAIN TARGETS[i].zed_aliases
    BY <1>1, <2>1, <2>2
  <2>4. \A k \in 1..Len(d) : z[k] \in AliasNames
    BY <2>2, <2>3 DEF AliasNames
  <2> QED
    BY <1>1, <2>1, <2>4 DEF Popped
<1>6. /\ o \in Seq(Paths \cup {NoDir}) /\ Len(d) + 1 \in DOMAIN o /\ o[Len(d) + 1] = c
      /\ \A k \in 1..Len(d) : o[k] = d[k]
      /\ \A k \in DOMAIN o : o[k] \in {NoDir, c, Shared}
  <2>1. Shared \in Paths
    BY PathsWellFormed
  <2>2. c \in Paths \cup {NoDir} /\ {Shared} \subseteq Paths \cup {NoDir}
    BY <1>3, <2>1
  <2>s. PICK S, T : S = Paths \cup {NoDir} /\ T = {Shared}
    OBVIOUS
  <2>t. d \in Seq(S) /\ c \in S /\ T \subseteq S /\ tail \in Seq(T)
    BY <1>1, <1>4, <2>2, <2>s
  <2>3. /\ o \in Seq(S) /\ Len(d) + 1 \in DOMAIN o /\ o[Len(d) + 1] = c
        /\ \A k \in 1..Len(d) : o[k] = d[k]
        /\ \A k \in DOMAIN o : (\E l \in 1..Len(d) : o[k] = d[l]) \/ o[k] = c \/ o[k] \in T
    BY <1>4, <2>t, ThreeParts
  <2> QED
    BY <1>5, <2>3, <2>s
<1>7. Exists(c) => choose_dir(TARGETS[i]) = c
  <2>1. \A k \in 1..Len(d) : ~ Exists(o[k])
    BY <1>5, <1>6, PathsWellFormed DEF Exists
  <2>2. PICK k : k = Len(d) + 1
    OBVIOUS
  <2>3. k \in DOMAIN o /\ o[k] = c /\ \A l \in 1..(k - 1) : ~ Exists(o[l])
    BY <1>1, <1>6, <2>1, <2>2
  <2> QED
    BY <1>2, <2>3, FirstChosen DEF FirstIsChosen
<1>8. choose_dir(TARGETS[i]) \in {c, Shared}
  <2>1. \/ \E k \in DOMAIN o : choose_dir(TARGETS[i]) = o[k] /\ Exists(o[k])
        \/ choose_dir(TARGETS[i]) = c
    BY <1>2, ChooseCases
  <2> QED
    BY <1>6, <2>1, PathsWellFormed DEF Exists
<1> QED
  BY <1>2, <1>6, <1>7, <1>8

\* And in the next.
LEMMA PlainNext == PlainIsChosen'
BY PlainNow, PTL

-----------------------------------------------------------------------------
(* What the actions leave alone. *)

\* The links and the sources of the shared package never change; the manifest
\* and the directories do in one action each.
LEMMA RepositoryFrame ==
  ASSUME [Next]_vars
  PROVE  /\ UNCHANGED <<resolve, runtimes>>
         /\ MakeDir => UNCHANGED manifest
         /\ EnsureManifest => UNCHANGED present
         /\ ~ MakeDir /\ ~ EnsureManifest => UNCHANGED <<manifest, present>>
BY DEF Next, Start, Select, SelectTarget, Raise, Selected, MakeDir, EnsureManifest, Mark,
       Verify, Finish, Kill, vars, selectionVars, repositoryVars

\* What is picked depends on the repository alone.
LEMMA PickFrame ==
  ASSUME SelectionTypeOK, SelectionTypeOK', UNCHANGED <<manifest, present, resolve, runtimes>>,
         NEW i \in Targets
  PROVE  \A c : PickFrom(i, c)' = PickFrom(i, c)
<1>1. PICK o : o = Options(TARGETS[i])
  OBVIOUS
<1>2. Options(TARGETS[i])' = o
  BY <1>1, OptionsSame
<1>3. \A k \in DOMAIN o : Exists(o[k])' <=> Exists(o[k])
  BY DEF Exists
<1>4. choose_dir(TARGETS[i])' = choose_dir(TARGETS[i])
  BY <1>1, <1>2, <1>3, ChooseSame
<1> QED
  BY <1>4, PickSame

\* So do the selections that are fixed or steady.
LEMMA FixedFrame ==
  ASSUME SelectionTypeOK, SelectionTypeOK', UNCHANGED <<manifest, present, resolve, runtimes>>,
         NEW V
  PROVE  /\ (Fixed(V)' <=> Fixed(V)) /\ (Steady(V)' <=> Steady(V))
         /\ (Returning(V)' <=> Returning(V))
<1>1. \A i \in Targets : PickFrom(i, Before(V, i))' = PickFrom(i, Before(V, i))
  <2> SUFFICES ASSUME NEW i \in Targets
               PROVE  PickFrom(i, Before(V, i))' = PickFrom(i, Before(V, i))
    OBVIOUS
  <2>1. PICK c : c = Before(V, i)
    OBVIOUS
  <2>2. Before(V, i)' = c
    BY <2>1 DEF Before
  <2> QED
    BY <2>1, <2>2, PickFrame DEF PickFrom
<1> QED
  BY <1>1 DEF Fixed, Steady, Repicked, Returning, AllExist

\* And what is said of the manifest and the links.
LEMMA ConditionsFrame ==
  ASSUME UNCHANGED <<manifest, resolve, runtimes>>
  PROVE  /\ (Mature' <=> Mature) /\ (Popped' <=> Popped) /\ (Uncrossed' <=> Uncrossed)
         /\ (CanonicalDistinct' <=> CanonicalDistinct) /\ (DeclaredInPlace' <=> DeclaredInPlace)
<1>1. Mature' <=> Mature
  BY DEF Mature, Configured
<1>2. Popped' <=> Popped
  BY DEF Popped
<1>3. Uncrossed' <=> Uncrossed
  <2>1. \A i \in Targets : Options(TARGETS[i])' = Options(TARGETS[i])
    BY OptionsSame
  <2> QED
    BY <2>1 DEF Uncrossed
<1>4. (CanonicalDistinct' <=> CanonicalDistinct) /\ (DeclaredInPlace' <=> DeclaredInPlace)
  BY DEF CanonicalDistinct, DeclaredInPlace
<1> QED
  BY <1>1, <1>2, <1>3, <1>4

\* The places taken before a target are those of any selection that leads there.
LEMMA BeforeSame ==
  ASSUME NEW V, NEW W, NEW i \in Targets,
         \A j \in 1..(i - 1) : resolve[V[j]] = resolve[W[j]]
  PROVE  Before(V, i) = Before(W, i)
BY DEF Before

\* What lies before a target lies in the table.
LEMMA BeforeInTable == \A i \in Targets : \A j \in 1..(i - 1) : j \in Targets /\ j < i
BY TableWellFormed DEF Targets

\* Picking falls back on the canonical directory, or finds one that exists, is
\* inside and free, and not reserved for another.
LEMMA PickFromCases ==
  ASSUME SelectionTypeOK, NEW i \in Targets, NEW c
  PROVE  \/ PickFrom(i, c) = TARGETS[i].canonical_dir
         \/ /\ PickFrom(i, c) = choose_dir(TARGETS[i]) /\ Exists(PickFrom(i, c))
            /\ ~ ReservedForAnother(resolve[PickFrom(i, c)], i)
<1>1. \/ PickFrom(i, c) = TARGETS[i].canonical_dir
      \/ /\ PickFrom(i, c) = choose_dir(TARGETS[i])
         /\ ~ ReservedForAnother(resolve[PickFrom(i, c)], i)
  BY DEF PickFrom
<1>2. Exists(choose_dir(TARGETS[i])) \/ choose_dir(TARGETS[i]) = TARGETS[i].canonical_dir
  BY ChooseCases
<1> QED
  BY <1>1, <1>2

\* A directory that is chosen, inside and free, and not reserved for another
\* unless it is the canonical one, is picked.
LEMMA ChosenIsPicked ==
  ASSUME NEW i \in Targets, NEW c, Inside(choose_dir(TARGETS[i])),
         resolve[choose_dir(TARGETS[i])] \notin c,
         \/ choose_dir(TARGETS[i]) = TARGETS[i].canonical_dir
         \/ ~ ReservedForAnother(resolve[choose_dir(TARGETS[i])], i)
  PROVE  PickFrom(i, c) = choose_dir(TARGETS[i])
BY DEF PickFrom

\* A canonical directory that is chosen is picked in any case.
LEMMA CanonicalIsPicked ==
  ASSUME NEW i \in Targets, NEW c, choose_dir(TARGETS[i]) = TARGETS[i].canonical_dir
  PROVE  PickFrom(i, c) = TARGETS[i].canonical_dir
BY DEF PickFrom

-----------------------------------------------------------------------------
(* The tree stays rooted, and making a directory that exists changes nothing. *)

\* What a step makes.
LEMMA MakeAdds ==
  ASSUME LayoutInv, MakeDir
  PROVE  /\ next \in Targets /\ selected[next] \in Paths /\ Above[selected[next]] \subseteq Paths
         /\ present \subseteq present'
         /\ \A q \in present' : \/ q \in present \/ q = resolve[selected[next]]
                                \/ \E a \in Above[selected[next]] : q = resolve[a]
         /\ resolve[selected[next]] \in present'
         /\ \A a \in Above[selected[next]] : resolve[a] \in present'
<1>1. next \in Targets /\ selected[next] \in Paths
  <2>1. next \in 1..(N + 1) /\ N \in Nat
    BY TableWellFormed DEF LayoutInv, TypeOK, SelectionTypeOK
  <2> QED
    BY <2>1 DEF LayoutInv, Complete, MakeDir, Targets
<1> QED
  BY <1>1, LayoutWellFormed DEF MakeDir

\* A directory that exists is made again without a change.
LEMMA MakeNothing ==
  ASSUME LayoutInv, Rooted, MakeDir, resolve[selected[next]] \in present
  PROVE  present' = present
BY MakeAdds DEF Rooted

\* Every step keeps the tree rooted.
LEMMA RootedStep ==
  ASSUME LayoutInv, Rooted, [Next]_vars
  PROVE  Rooted'
<1>0. UNCHANGED resolve
  BY RepositoryFrame
<1>1. CASE ~ MakeDir
  BY <1>0, <1>1, RepositoryFrame DEF Rooted
<1>2. CASE MakeDir
  <2> SUFFICES ASSUME NEW p \in Paths
               PROVE  /\ resolve[resolve[p]] = resolve[p]
                      /\ resolve[p] \in present' => \A a \in Above[p] : resolve[a] \in present'
                      /\ \A q \in Paths : resolve[p] = resolve[q] =>
                           \A a \in Above[p] : \/ resolve[a] \in present'
                                               \/ \E b \in Above[q] : resolve[a] = resolve[b]
    BY <1>0 DEF Rooted
  <2>1. present \subseteq present'
    BY <1>2, MakeAdds
  <2>2. ASSUME resolve[p] \in present', NEW a \in Above[p]
        PROVE  resolve[a] \in present'
    <3>1. CASE resolve[p] \in present
      BY <2>1, <3>1 DEF Rooted
    <3>2. CASE resolve[p] \notin present
      <4>1. PICK b \in {selected[next]} \cup Above[selected[next]] : resolve[p] = resolve[b]
        BY <1>2, <2>2, <3>2, MakeAdds
      <4>2. b \in Paths /\ Above[b] \subseteq Above[selected[next]]
        BY <1>2, <4>1, MakeAdds, TreesWellFormed
      <4>3. resolve[a] \in present \/ \E x \in Above[b] : resolve[a] = resolve[x]
        BY <2>2, <4>1, <4>2 DEF Rooted
      <4> QED
        BY <1>2, <2>1, <4>2, <4>3, MakeAdds
    <3> QED
      BY <3>1, <3>2
  <2> QED
    BY <2>1, <2>2 DEF Rooted
<1> QED
  BY <1>1, <1>2

-----------------------------------------------------------------------------
(* Selections on their way, and the directories that are made for them. *)

\* The types of the loop, before and after a step.
LEMMA SelectionTyped ==
  ASSUME LayoutInv, [Next]_vars
  PROVE  SelectionTypeOK /\ SelectionTypeOK' /\ next \in Nat /\ next' \in Nat
BY LayoutTypeStep, TableWellFormed DEF LayoutInv, TypeOK, SelectionTypeOK

\* One pass of the loop: it adds what is picked, or raises.
LEMMA SelectAdds ==
  ASSUME LayoutInv, Select
  PROVE  /\ next \in Targets /\ UNCHANGED <<repositoryVars, layoutVars>>
         /\ \A j \in 1..(next - 1) : selected'[j] = selected[j] /\ j \in Targets
         /\ \/ /\ next' = next + 1
               /\ selected'[next] = PickFrom(next, Before(selected, next))
            \/ next' = next
<1>1. SelectionTypeOK /\ SelectTarget
  BY DEF LayoutInv, TypeOK, Select
<1>2. next \in Targets
  BY <1>1, StepCases
<1>3. \A j \in 1..(next - 1) : j \in Targets
  BY <1>2, BeforeInTable
<1>4. UNCHANGED <<repositoryVars, layoutVars>>
  BY <1>1 DEF Select, SelectTarget
<1>5. Pick(next) = PickFrom(next, Before(selected, next))
  BY <1>2, PickIsPickFrom
<1> QED
  BY <1>1, <1>2, <1>3, <1>4, <1>5, StepCases

\* Every step keeps selections on their way.
LEMMA SelectingStep ==
  ASSUME LayoutInv, Selecting, [Next]_vars
  PROVE  Selecting'
<1>t. SelectionTypeOK /\ SelectionTypeOK' /\ next \in Nat
  BY SelectionTyped
<1>1. CASE Start \/ Verify
  <2>1. next' = 1
    BY <1>1 DEF Start, Verify, Restart
  <2> QED
    BY <2>1 DEF Selecting
<1>2. CASE Select
  <2>0. UNCHANGED <<manifest, present, resolve, runtimes, phase>>
    BY <1>2, SelectAdds DEF repositoryVars, layoutVars
  <2> SUFFICES ASSUME phase \in {"select", "verify"}
               PROVE  /\ \A i \in 1..(next' - 1) : selected'[i] = PickFrom(i, Before(selected, i))'
                      /\ \A V \in [Targets -> Paths] : Steady(V)' =>
                           \A i \in 1..(next' - 1) : resolve'[selected'[i]] = resolve'[V[i]]
    BY <2>0 DEF Selecting
  <2>1. next \in Targets /\ \A j \in 1..(next - 1) : selected'[j] = selected[j] /\ j \in Targets
    BY <1>2, SelectAdds
  <2>2. \A i \in 1..(next' - 1) : i \in 1..(next - 1) \/ (i = next /\ next' = next + 1)
    BY <1>2, <1>t, SelectAdds
  <2>3. ASSUME NEW i \in 1..(next' - 1)
        PROVE  selected'[i] = PickFrom(i, Before(selected, i))
    BY <1>2, <2>1, <2>2, <2>3, SelectAdds DEF Selecting
  <2>4. ASSUME NEW i \in 1..(next' - 1)
        PROVE  selected'[i] = PickFrom(i, Before(selected, i))'
    <3>1. i \in Targets
      BY <2>1, <2>2, <2>4
    <3>2. PICK c : c = Before(selected, i)
      OBVIOUS
    <3>3. \A j \in 1..(i - 1) : j \in 1..(next - 1)
      BY <1>t, <2>2, <2>4
    <3>4. Before(selected, i)' = c
      BY <2>0, <2>1, <3>2, <3>3 DEF Before
    <3>5. PickFrom(i, c)' = PickFrom(i, c)
      BY <1>t, <2>0, <3>1, PickFrame
    <3> QED
      BY <2>3, <2>4, <3>2, <3>4, <3>5 DEF PickFrom
  <2>5. ASSUME NEW V \in [Targets -> Paths], Steady(V)', NEW i \in 1..(next' - 1)
        PROVE  resolve'[selected'[i]] = resolve'[V[i]]
    <3>1. Steady(V)
      BY <1>t, <2>0, <2>5, FixedFrame
    <3>2. \A j \in 1..(next - 1) : resolve[selected[j]] = resolve[V[j]]
      BY <3>1 DEF Selecting
    <3>3. CASE i \in 1..(next - 1)
      BY <2>0, <2>1, <3>2, <3>3
    <3>4. CASE i = next
      <4>1. Before(selected, next) = Before(V, next)
        BY <2>1, <3>2, BeforeSame
      <4>2. resolve[PickFrom(next, Before(V, next))] = resolve[V[next]]
        BY <2>1, <3>1 DEF Steady, Returning
      <4> QED
        BY <2>0, <2>3, <3>4, <4>1, <4>2
    <3> QED
      BY <2>2, <3>3, <3>4
  <2> QED
    BY <2>4, <2>5
<1>3. CASE UNCHANGED vars
  <2>0. UNCHANGED <<manifest, present, resolve, runtimes, phase, selected, next>>
    BY <1>3 DEF vars, selectionVars, repositoryVars, loopVars, layoutVars
  <2>1. ASSUME phase \in {"select", "verify"}, NEW i \in 1..(next - 1)
        PROVE  selected[i] = PickFrom(i, Before(selected, i))'
    <3>1. i \in Targets
      BY <1>t, PartOfTable DEF SelectionTypeOK
    <3>2. PICK c : c = Before(selected, i)
      OBVIOUS
    <3>3. Before(selected, i)' = c
      BY <2>0, <3>2 DEF Before
    <3> QED
      BY <1>t, <2>0, <2>1, <3>1, <3>2, <3>3, PickFrame DEF PickFrom, Selecting
  <2> QED
    BY <1>t, <2>0, <2>1, FixedFrame DEF Selecting
<1>4. CASE Raise \/ Selected \/ MakeDir \/ EnsureManifest \/ Mark \/ Finish \/ Kill
  <2>1. phase' \notin {"select", "verify"}
    BY <1>4 DEF Raise, Selected, MakeDir, EnsureManifest, Mark, Finish, Kill, layoutVars
  <2> QED
    BY <2>1 DEF Selecting
<1> QED
  BY <1>1, <1>2, <1>3, <1>4 DEF Next

\* Every step keeps to making the selected directories.
LEMMA MakingStep ==
  ASSUME LayoutInv, Rooted, Selecting, Making, [Next]_vars
  PROVE  Making'
<1>t. SelectionTypeOK /\ SelectionTypeOK' /\ next \in Nat
  BY SelectionTyped
<1>1. CASE Selected
  <2>0. UNCHANGED <<present, resolve, selected>> /\ phase = "select" /\ next = N + 1
        /\ phase' = "mkdir" /\ next' = 1
    BY <1>1 DEF Selected, repositoryVars
  <2>1. ASSUME NEW i \in Targets
        PROVE  \/ selected[i] = TARGETS[i].canonical_dir
               \/ resolve[selected[i]] \in present
                  /\ ~ ReservedForAnother(resolve[selected[i]], i)
    <3>1. i \in 1..(next - 1)
      BY <2>0, WholeTable
    <3>2. PICK c : selected[i] = PickFrom(i, c)
      BY <2>0, <3>1 DEF Selecting
    <3> QED
      BY <1>t, <3>2, PickFromCases DEF Exists
  <2> QED
    BY <2>0, <2>1 DEF Making, ReservedForAnother, Owners
<1>2. CASE MakeDir
  <2>0. UNCHANGED <<resolve, selected>> /\ phase = "mkdir" /\ phase' = "mkdir" /\ next' = next + 1
    BY <1>2 DEF MakeDir, layoutVars
  <2>1. present \subseteq present' /\ resolve[selected[next]] \in present'
    BY <1>2, MakeAdds
  <2>2. \A i \in 1..(next' - 1) : i \in 1..(next - 1) \/ i = next
    BY <1>t, <2>0
  <2> QED
    BY <2>0, <2>1, <2>2 DEF Making, ReservedForAnother, Owners
<1>3. CASE EnsureManifest
  <2>0. UNCHANGED <<present, resolve, selected>> /\ phase = "mkdir" /\ next = N + 1
        /\ phase' = "mark"
    BY <1>3 DEF EnsureManifest
  <2> QED
    BY <2>0, WholeTable DEF Making, AllExist
<1>4. CASE Mark \/ UNCHANGED vars
  <2>0. UNCHANGED <<present, resolve, selected, phase>> /\ (UNCHANGED next \/ phase = "mark")
    BY <1>4 DEF Mark, vars, selectionVars, repositoryVars, loopVars, layoutVars
  <2> QED
    BY <2>0 DEF Making, AllExist, ReservedForAnother, Owners
<1>5. CASE Start \/ Select \/ Raise \/ Verify \/ Finish \/ Kill
  <2>1. phase' \notin {"mkdir", "mark"}
    BY <1>5 DEF Start, Select, Raise, Verify, Finish, Kill, layoutVars
  <2> QED
    BY <2>1 DEF Making
<1> QED
  BY <1>1, <1>2, <1>3, <1>4, <1>5 DEF Next

-----------------------------------------------------------------------------
(* Rewriting the manifest, and what verify was content with. *)

\* A manifest that is not mature is rewritten without aliases, to the
\* directories that were selected.
LEMMA RewriteStep ==
  ASSUME LayoutInv, EnsureManifest, ~ Mature
  PROVE  /\ Popped'
         /\ \A i \in Targets : TARGETS[i].publish => manifest'[TARGETS[i].zed_target] = selected[i]
<1>0. manifest' = Rewritten
  BY DEF EnsureManifest
<1>1. ASSUME NEW n \in AliasNames
      PROVE  Rewritten[n] = NoDir
  <2>1. n \in Names
    BY DEF AliasNames
  <2>2. Publishers(n) = {}
    BY TableShape DEF Publishers
  <2>3. n # "repository"
    <3>1. PICK i \in Targets : TRUE
      BY DEF AliasNames
    <3> QED
      BY <3>1, TableShape
  <2> QED
    BY <2>1, <2>2, <2>3 DEF Rewritten
<1>2. ASSUME NEW i \in Targets, TARGETS[i].publish
      PROVE  Rewritten[TARGETS[i].zed_target] = selected[i]
  <2>1. PICK n : n = TARGETS[i].zed_target
    OBVIOUS
  <2>2. n \in Names /\ n # "repository" /\ n # "contract"
    BY <1>2, <2>1, RowTyped, TableShape
  <2>3. Publishers(n) = {i}
    BY <1>2, <2>1, TableShape DEF Publishers
  <2>4. (CHOOSE j \in Publishers(n) : TRUE) = i /\ Publishers(n) # {}
    BY <2>3
  <2>5. Rewritten[n] = selected[CHOOSE j \in Publishers(n) : TRUE]
    BY <2>2, <2>4 DEF Rewritten
  <2> QED
    BY <2>1, <2>4, <2>5
<1> QED
  BY <1>0, <1>1, <1>2 DEF Popped

\* What a rewritten manifest declares for a published target is picked again.
LEMMA RewrittenPicked ==
  ASSUME LayoutInv, Making, EnsureManifest, ~ Mature, NEW i \in Targets, TARGETS[i].publish,
         NEW c, c = Before(selected, i)
  PROVE  PickFrom(i, c)' = selected[i]
<1>t. SelectionTypeOK'
  BY SelectionTyped DEF Next
<1>0. UNCHANGED <<present, resolve, selected>> /\ phase = "mkdir" /\ next = N + 1
  BY DEF EnsureManifest
<1>1. manifest'[TARGETS[i].zed_target] = selected[i]
  BY RewriteStep
<1>2. selected[i] \in Paths /\ Inside(selected[i])
  BY <1>0 DEF LayoutInv, Complete
<1>3. resolve[selected[i]] \in present
  BY <1>0, WholeTable DEF Making
<1>4. Exists(manifest[TARGETS[i].zed_target])'
  BY <1>0, <1>1, <1>2, <1>3 DEF Exists
<1>5. choose_dir(TARGETS[i])' = selected[i]
  BY <1>t, <1>1, <1>4, DeclaredNext DEF DeclaredIsChosen
<1>6. resolve[selected[i]] \notin c
  <2>1. \A j \in 1..(i - 1) : j \in Targets /\ j # i
    BY BeforeInTable, TableWellFormed DEF Targets
  <2> QED
    BY <1>0, <2>1 DEF Before, LayoutInv, Complete
<1>7. selected[i] = TARGETS[i].canonical_dir \/ ~ ReservedForAnother(resolve[selected[i]], i)
  BY <1>0 DEF Making
<1>8. ~ ReservedForAnother(resolve[selected[i]], i) => ~ ReservedForAnother(resolve[selected[i]], i)'
  BY <1>0 DEF ReservedForAnother, Owners
<1>9. PICK s : s = selected[i]
  OBVIOUS
<1> QED
  BY <1>0, <1>2, <1>5, <1>6, <1>7, <1>8, <1>9 DEF PickFrom, Inside, ReservedForAnother, Owners

\* What is picked for a target that is not published does not depend on a
\* manifest without aliases.
LEMMA PlainFrame ==
  ASSUME SelectionTypeOK, SelectionTypeOK', Popped, Popped', NEW i \in Targets,
         ~ TARGETS[i].publish, UNCHANGED <<present, resolve, runtimes>>
  PROVE  \A c : PickFrom(i, c)' = PickFrom(i, c)
<1>1. PICK z : z = DeclaredNames(TARGETS[i])
  OBVIOUS
<1>2. z \in Seq(Names) /\ z = TARGETS[i].zed_aliases
  BY <1>1, DeclaredTyped
<1>3. \A k \in DOMAIN z : z[k] \in AliasNames
  BY <1>2 DEF AliasNames
<1>4. [k \in DOMAIN z |-> manifest[z[k]]]' = [k \in DOMAIN z |-> manifest[z[k]]]
  BY <1>3 DEF Popped
<1>5. PICK o : o = Options(TARGETS[i])
  OBVIOUS
<1>6. Options(TARGETS[i])' = o
  BY <1>1, <1>4, <1>5 DEF Options, DeclaredNames
<1>7. \A k \in DOMAIN o : Exists(o[k])' <=> Exists(o[k])
  BY DEF Exists
<1>8. choose_dir(TARGETS[i])' = choose_dir(TARGETS[i])
  BY <1>5, <1>6, <1>7, ChooseSame
<1> QED
  BY <1>8, PickSame

\* A manifest that was left alone is left alone again.
LEMMA MigratedStep ==
  ASSUME LayoutInv, [Next]_vars
  PROVE  Migrated => Migrated'
<1>1. CASE EnsureManifest
  <2>1. Mature => Migrated'
    BY <1>1 DEF EnsureManifest, Migrated, Mature, Configured
  <2> QED
    BY <1>1, <2>1, RewriteStep DEF Migrated
<1>2. CASE ~ EnsureManifest
  BY <1>2, RepositoryFrame, ConditionsFrame DEF Migrated
<1> QED
  BY <1>1, <1>2

\* Every step keeps fixed what verify was content with.
LEMMA SettledStep ==
  ASSUME LayoutInv, Rooted, Selecting, Making, Prepares, Settled, [Next]_vars
  PROVE  Settled'
<1>t. SelectionTypeOK /\ SelectionTypeOK' /\ next \in Nat /\ next' \in Nat
  BY SelectionTyped
<1>r. UNCHANGED <<resolve, runtimes>>
  BY RepositoryFrame
<1>1. CASE Finish
  <2>0. UNCHANGED <<manifest, present, selected>> /\ phase = "verify" /\ next = N + 1
        /\ phase' = "done" /\ placed' = IF AllMarked THEN selected ELSE placed
    BY <1>1 DEF Finish, selectionVars, repositoryVars, loopVars
  <2>1. CASE AllMarked
    <3>1. PICK V : V = selected
      OBVIOUS
    <3>2. Targets = 1..(next - 1)
      BY <2>0, WholeTable
    <3>3. V \in [Targets -> Paths]
      BY <1>t, <3>1, <3>2 DEF SelectionTypeOK
    <3>4. Repicked(V)
      BY <2>0, <3>1, <3>2 DEF Selecting, Repicked
    <3>5. AllExist(V)
      BY <2>1, <3>1 DEF AllMarked, Marked, AllExist
    <3>6. Fixed(V)'
      BY <1>t, <1>r, <2>0, <3>3, <3>4, <3>5, FixedFrame DEF Fixed
    <3>7. Migrated'
      <4>1. Migrated
        BY <2>0 DEF Prepares, Prepared, Pinned, Migrated
      <4> QED
        BY <4>1, MigratedStep
    <3> QED
      BY <2>0, <2>1, <3>1, <3>6, <3>7 DEF Settled
  <2>2. CASE ~ AllMarked
    <3>1. PICK V : V = placed
      OBVIOUS
    <3>2. placed' = V /\ (V # Unplaced => Fixed(V) /\ Migrated)
      BY <2>0, <2>2, <3>1 DEF Settled
    <3> QED
      BY <1>t, <1>r, <2>0, <3>2, FixedFrame, MigratedStep DEF Settled
  <2> QED
    BY <2>1, <2>2
<1>2. CASE ~ Finish
  <2>0. UNCHANGED placed
    BY <1>2 DEF Next, Start, Select, Raise, Selected, MakeDir, EnsureManifest, Mark, Verify,
                Kill, vars, layoutVars
  <2> SUFFICES ASSUME NEW V, V = placed, V # Unplaced
               PROVE  /\ Fixed(V)' /\ Migrated'
                      /\ phase' \in {"select", "verify"} =>
                           \A i \in 1..(next' - 1) : selected'[i] = V[i]
                      /\ phase' \in {"mkdir", "mark"} =>
                           \A i \in Targets : selected'[i] = V[i]
    BY <2>0 DEF Settled
  <2>1. Fixed(V) /\ Migrated'
    BY MigratedStep DEF Settled
  <2>2. CASE Start \/ Verify
    <3>1. next' = 1 /\ phase' \in {"select", "verify"} /\ ~ MakeDir /\ ~ EnsureManifest
      BY <2>2 DEF Start, Verify, Restart, MakeDir, EnsureManifest
    <3> QED
      BY <1>t, <1>r, <2>1, <3>1, RepositoryFrame, FixedFrame
  <2>3. CASE Select
    <3>1. next \in Targets /\ UNCHANGED <<manifest, present, phase>> /\ phase \in {"select", "verify"}
      BY <2>3, SelectAdds DEF repositoryVars, layoutVars, Select
    <3>2. \A j \in 1..(next - 1) : selected[j] = V[j] /\ selected'[j] = V[j]
      BY <2>3, <3>1, SelectAdds DEF Settled
    <3>3. Before(selected, next) = Before(V, next)
      BY <3>1, <3>2, BeforeSame
    <3>4. PickFrom(next, Before(V, next)) = V[next]
      BY <2>1, <3>1 DEF Fixed, Repicked
    <3>5. \A i \in 1..(next' - 1) : selected'[i] = V[i]
      <4>1. \A i \in 1..(next' - 1) : i \in 1..(next - 1) \/ (i = next /\ next' = next + 1)
        <5>1. next' = next + 1 \/ next' = next
          BY <2>3, SelectAdds
        <5>2. next \in Nat
          BY <1>t
        <5> QED
          BY <5>1, <5>2
      <4>2. next' = next + 1 => selected'[next] = V[next]
        BY <1>t, <2>3, <3>3, <3>4, SelectAdds
      <4> QED
        BY <3>2, <4>1, <4>2
    <3> QED
      BY <1>t, <1>r, <2>1, <3>1, <3>5, FixedFrame
  <2>4. CASE Selected
    <3>1. UNCHANGED <<manifest, present, selected>> /\ phase = "select" /\ next = N + 1
          /\ phase' = "mkdir"
      BY <2>4 DEF Selected, repositoryVars
    <3> QED
      BY <1>t, <1>r, <2>1, <3>1, WholeTable, FixedFrame DEF Settled
  <2>5. CASE MakeDir
    <3>1. UNCHANGED <<manifest, selected>> /\ phase = "mkdir" /\ phase' = "mkdir"
      BY <2>5 DEF MakeDir, layoutVars
    <3>2. \A i \in Targets : selected[i] = V[i]
      BY <3>1 DEF Settled
    <3>3. present' = present
      BY <2>1, <2>5, <3>2, MakeNothing, MakeAdds DEF Fixed, AllExist
    <3> QED
      BY <1>t, <1>r, <2>1, <3>1, <3>2, <3>3, FixedFrame
  <2>6. CASE EnsureManifest
    <3>1. UNCHANGED <<present, selected>> /\ phase = "mkdir" /\ phase' = "mark"
      BY <2>6 DEF EnsureManifest
    <3>2. \A i \in Targets : selected[i] = V[i]
      BY <3>1 DEF Settled
    <3>3. CASE Mature
      <4>1. UNCHANGED manifest
        BY <2>6, <3>3 DEF EnsureManifest
      <4> QED
        BY <1>t, <1>r, <2>1, <3>1, <3>2, <4>1, FixedFrame
    <3>4. CASE ~ Mature
      <4>1. Popped /\ Popped'
        BY <2>6, <3>4, RewriteStep DEF Settled, Migrated
      <4>2. ASSUME NEW i \in Targets
            PROVE  PickFrom(i, Before(V, i))' = V[i]
        <5>1. PICK c : c = Before(V, i)
          OBVIOUS
        <5>2. \A j \in 1..(i - 1) : selected[j] = V[j]
          BY <3>2, BeforeInTable
        <5>3. c = Before(selected, i) /\ Before(V, i)' = c
          BY <1>r, <5>1, <5>2, BeforeSame DEF Before
        <5>4. PickFrom(i, c)' = V[i]
          <6>1. CASE TARGETS[i].publish
            BY <2>6, <3>2, <3>4, <5>3, <6>1, RewrittenPicked
          <6>2. CASE ~ TARGETS[i].publish
            <7>1. PickFrom(i, c)' = PickFrom(i, c)
              BY <1>t, <1>r, <3>1, <4>1, <6>2, PlainFrame
            <7> QED
              BY <2>1, <5>1, <7>1 DEF Fixed, Repicked
          <6> QED
            BY <6>1, <6>2
        <5> QED
          BY <5>3, <5>4 DEF PickFrom
      <4>3. Fixed(V)'
        BY <1>r, <2>1, <3>1, <4>2 DEF Fixed, Repicked, AllExist
      <4> QED
        BY <2>1, <3>1, <3>2, <4>3
    <3> QED
      BY <3>3, <3>4
  <2>7. CASE Mark \/ UNCHANGED vars
    <3>1. UNCHANGED <<manifest, present, selected, phase>> /\ (UNCHANGED next \/ phase = "mark")
      BY <2>7 DEF Mark, vars, selectionVars, repositoryVars, loopVars, layoutVars
    <3> QED
      BY <1>t, <1>r, <2>1, <3>1, FixedFrame DEF Settled
  <2>8. CASE Raise \/ Kill
    <3>1. UNCHANGED <<manifest, present>> /\ phase' \in {"raised", "idle"}
      BY <2>8 DEF Raise, Kill, selectionVars, repositoryVars
    <3> QED
      BY <1>t, <1>r, <2>1, <3>1, FixedFrame
  <2> QED
    BY <1>2, <2>2, <2>3, <2>4, <2>5, <2>6, <2>7, <2>8 DEF Next
<1> QED
  BY <1>1, <1>2

-----------------------------------------------------------------------------
(* Making a canonical directory does not change where a selection leads. *)

\* A step makes nothing, or a canonical directory and perhaps the shared
\* package above it.
LEMMA MakeCases ==
  ASSUME LayoutInv, Rooted, Making, MakeDir
  PROVE  \/ present' = present
         \/ /\ selected[next] = TARGETS[next].canonical_dir
            /\ \A q \in present' : \/ q \in present \/ q = resolve[Shared]
                                   \/ q = resolve[TARGETS[next].canonical_dir]
<1>1. next \in Targets /\ phase = "mkdir"
  BY MakeAdds DEF MakeDir
<1>2. CASE resolve[selected[next]] \in present
  BY <1>2, MakeNothing
<1>3. CASE selected[next] = TARGETS[next].canonical_dir
  <2>1. Above[selected[next]] \subseteq {Shared}
    BY <1>1, <1>3, TableShape
  <2> QED
    BY <1>3, <2>1, MakeAdds
<1> QED
  BY <1>1, <1>2, <1>3 DEF Making

\* When only the canonical directory of n is made, a selection that has n there
\* leads where it led.
LEMMA OwnPlace ==
  ASSUME SelectionTypeOK, SelectionTypeOK', Uncrossed, CanonicalDistinct,
         UNCHANGED <<manifest, resolve, runtimes>>, present \subseteq present',
         NEW n \in Targets,
         \A q \in present' : q \in present \/ q = resolve[TARGETS[n].canonical_dir],
         NEW V, Returning(V), V[n] = TARGETS[n].canonical_dir
  PROVE  Returning(V)'
<1> SUFFICES ASSUME NEW i \in Targets
             PROVE  resolve[PickFrom(i, Before(V, i))'] = resolve[V[i]]
  BY DEF Returning
<1>1. PICK c, o : c = Before(V, i) /\ o = Options(TARGETS[i])
  OBVIOUS
<1>2. Before(V, i)' = c /\ Options(TARGETS[i])' = o
  BY <1>1, OptionsSame DEF Before
<1>3. resolve[PickFrom(i, c)] = resolve[V[i]]
  BY <1>1 DEF Returning
<1>4. \A k \in DOMAIN o : Exists(o[k]) => Exists(o[k])'
  BY DEF Exists
<1>5. resolve[PickFrom(i, c)'] = resolve[V[i]]
  <2>1. CASE choose_dir(TARGETS[i])' = choose_dir(TARGETS[i])
    BY <1>3, <2>1, PickSame
  <2>2. CASE choose_dir(TARGETS[i])' # choose_dir(TARGETS[i])
    <3>1. PICK k \in DOMAIN o : Exists(o[k])' /\ ~ Exists(o[k])
      BY <1>1, <1>2, <1>4, <2>2, ChooseSame
    <3>2. o[k] \in Paths /\ resolve[o[k]] = resolve[TARGETS[n].canonical_dir]
      BY <3>1 DEF Exists
    <3>3. i = n
      BY <1>1, <3>1, <3>2 DEF Uncrossed, CanonicalDistinct
    <3>4. resolve[choose_dir(TARGETS[n])'] = resolve[TARGETS[n].canonical_dir]
      <4>1. CASE \E l \in DOMAIN o : Exists(o[l])' /\ \A m \in 1..(l - 1) : ~ Exists(o[m])'
        <5>1. PICK l \in DOMAIN o : Exists(o[l])' /\ \A m \in 1..(l - 1) : ~ Exists(o[m])'
          BY <4>1
        <5>2. choose_dir(TARGETS[n])' = o[l]
          BY <1>2, <3>3, <5>1, FirstChosenNext DEF FirstIsChosen
        <5>3. CASE Exists(o[l])
          <6>0. o \in Seq(Paths \cup {NoDir})
            BY <1>1, OptionsTyped
          <6>1. \A m \in 1..(l - 1) : m \in DOMAIN o
            BY <5>1, <6>0
          <6>2. \A m \in 1..(l - 1) : ~ Exists(o[m])
            BY <1>4, <5>1, <6>1
          <6>3. choose_dir(TARGETS[n]) = o[l]
            BY <1>1, <3>3, <5>1, <5>3, <6>2, FirstChosen DEF FirstIsChosen
          <6> QED
            BY <2>2, <3>3, <5>2, <6>3
        <5>4. CASE ~ Exists(o[l])
          BY <5>1, <5>2, <5>4 DEF Exists
        <5> QED
          BY <5>3, <5>4
      <4>2. CASE ~ \E l \in DOMAIN o : Exists(o[l])' /\ \A m \in 1..(l - 1) : ~ Exists(o[m])'
        <5>1. choose_dir(TARGETS[n])' = TARGETS[n].canonical_dir
          BY <1>2, <3>3, <4>2, FirstChosenNext DEF FirstIsChosen
        <5> QED
          BY <5>1
      <4> QED
        BY <4>1, <4>2
    <3>5. PickFrom(n, c)' = TARGETS[n].canonical_dir \/ PickFrom(n, c)' = choose_dir(TARGETS[n])'
      BY DEF PickFrom
    <3> QED
      BY <3>3, <3>4, <3>5
  <2> QED
    BY <2>1, <2>2
<1> QED
  BY <1>2, <1>5 DEF PickFrom

\* What is said of a selection that does not change.
LEMMA Rigid ==
  ASSUME NEW V, selected' = V
  PROVE  /\ Returning(selected)' <=> Returning(V)'
         /\ AllExist(selected)' <=> AllExist(V)'
         /\ \A W : \A i \in Targets : PickFrom(i, Before(selected, i))' = W <=>
                                  PickFrom(i, Before(V, i))' = W
BY DEF Returning, AllExist, Before, PickFrom

-----------------------------------------------------------------------------
(* Runs that follow a run. *)

\* The declared directories that exist go on existing.
LEMMA PinnedStep ==
  ASSUME Pinned, UNCHANGED <<manifest, resolve, runtimes>>, present \subseteq present'
  PROVE  Pinned'
BY ConditionsFrame DEF Pinned, Exists

\* What the selection found is what a run keeps to.
LEMMA KeepingStarts ==
  ASSUME LayoutInv, Selecting, Prepares, Selected
  PROVE  Keeping'
<1>t. SelectionTypeOK /\ SelectionTypeOK'
  BY SelectionTyped DEF Next
<1>0. UNCHANGED <<manifest, present, resolve, runtimes, selected, completed>>
      /\ phase = "select" /\ next = N + 1
  BY DEF Selected, repositoryVars
<1>1. Targets = 1..(next - 1)
  BY <1>0, WholeTable
<1>2. PICK V : V = selected
  OBVIOUS
<1>3. \A i \in Targets : PickFrom(i, Before(V, i)) = V[i]
  BY <1>0, <1>1, <1>2 DEF Selecting
<1>4. Returning(V)
  BY <1>3 DEF Returning
<1>5. Returning(selected)'
  BY <1>t, <1>0, <1>2, <1>4, FixedFrame, Rigid
<1> SUFFICES ASSUME CanonicalDistinct, completed >= 1
             PROVE  \/ /\ Pinned'
                       /\ \A i \in Targets :
                            IF TARGETS[i].publish THEN PickFrom(i, Before(selected, i))' = V[i]
                                                  ELSE Leaning(i)'
                    \/ /\ Mature'
                       /\ Uncrossed' => (SharedExists \/ AllExist(selected))'
  BY <1>0, <1>2, <1>5, ConditionsFrame DEF Keeping
<1>6. CASE Pinned
  <2>1. Pinned'
    BY <1>0, <1>6, PinnedStep
  <2>2. ASSUME NEW i \in Targets, NEW c, c = Before(V, i)
        PROVE  PickFrom(i, c)' = V[i] /\ Before(selected, i)' = c
    BY <1>t, <1>0, <1>2, <1>3, <2>2, PickFrame DEF Before
  <2>3. ASSUME NEW i \in Targets
        PROVE  PickFrom(i, Before(selected, i))' = V[i]
    <3>1. PICK c : c = Before(V, i)
      OBVIOUS
    <3> QED
      BY <2>2, <3>1 DEF PickFrom
  <2>4. ASSUME NEW i \in Targets, ~ TARGETS[i].publish, V[i] # TARGETS[i].canonical_dir
        PROVE  /\ V[i] = Shared /\ resolve[Shared] \in present
               /\ resolve[TARGETS[i].canonical_dir] \notin present
    <3>1. PICK c : c = Before(V, i)
      OBVIOUS
    <3>2. V[i] = choose_dir(TARGETS[i]) /\ Exists(V[i])
      BY <1>t, <1>3, <2>4, <3>1, PickFromCases
    <3>3. Popped
      BY <1>6 DEF Pinned
    <3>4. choose_dir(TARGETS[i]) = Shared /\ ~ Exists(TARGETS[i].canonical_dir)
      BY <1>t, <2>4, <3>2, <3>3, PlainNow DEF PlainIsChosen
    <3> QED
      BY <3>2, <3>4, RowTyped DEF Exists
  <2>5. ASSUME NEW i \in Targets, ~ TARGETS[i].publish
        PROVE  Leaning(i)'
    BY <1>0, <1>2, <2>3, <2>4, <2>5 DEF Leaning, SharedExists
  <2> QED
    BY <2>1, <2>3, <2>5
<1>7. CASE ~ Pinned
  <2>1. Mature'
    BY <1>0, <1>7, ConditionsFrame DEF Prepares, Prepared
  <2>2. ASSUME Uncrossed'
        PROVE  (SharedExists \/ AllExist(selected))'
    <3>1. Uncrossed
      BY <1>0, <2>2, ConditionsFrame
    <3>2. CASE SharedExists
      BY <1>0, <3>2 DEF SharedExists
    <3>3. CASE \E W \in [Targets -> Paths] : Steady(W)
      <4>1. PICK W \in [Targets -> Paths] : Steady(W)
        BY <3>3
      <4>2. \A i \in Targets : resolve[selected[i]] = resolve[W[i]]
        BY <1>0, <1>1, <4>1 DEF Selecting
      <4> QED
        BY <1>0, <4>1, <4>2 DEF Steady, AllExist
    <3> QED
      BY <1>7, <3>1, <3>2, <3>3 DEF Prepares, Prepared
  <2> QED
    BY <2>1, <2>2
<1> QED
  BY <1>6, <1>7

\* Making a directory keeps what a run keeps to.
LEMMA KeepingMakes ==
  ASSUME LayoutInv, Rooted, Making, Keeping, MakeDir
  PROVE  Keeping'
<1>t. SelectionTypeOK /\ SelectionTypeOK'
  BY SelectionTyped DEF Next
<1>0. UNCHANGED <<manifest, resolve, runtimes, selected, completed, phase>> /\ phase = "mkdir"
  BY DEF MakeDir, layoutVars
<1>1. present \subseteq present' /\ next \in Targets
  BY MakeAdds
<1>2. PICK V, n : V = selected /\ n = next
  OBVIOUS
<1> SUFFICES ASSUME CanonicalDistinct
             PROVE  /\ completed = 0 /\ Mature /\ Uncrossed => SharedExists' \/ Returning(selected)'
                    /\ completed >= 1 =>
                         \/ /\ Pinned'
                            /\ \A i \in Targets :
                                 IF TARGETS[i].publish
                                 THEN PickFrom(i, Before(selected, i))' = V[i]
                                 ELSE Leaning(i)'
                         \/ /\ Mature
                            /\ Uncrossed => Returning(selected)' /\ (SharedExists \/ AllExist(selected))'
  BY <1>0, <1>2, ConditionsFrame DEF Keeping
<1>3. ASSUME Returning(V), Uncrossed, SharedExists \/ ~ SharedExists' \/ AllExist(V)
      PROVE  Returning(selected)'
  <2>1. CASE present' = present
    BY <1>t, <1>0, <1>2, <1>3, <2>1, FixedFrame, Rigid
  <2>2. CASE present' # present
    <3>1. V[n] = TARGETS[n].canonical_dir
      BY <1>2, <2>2, MakeCases
    <3>2. ~ AllExist(V)
      BY <1>1, <1>2, <2>2, MakeNothing DEF AllExist
    <3>3. \A q \in present' : q \in present \/ q = resolve[TARGETS[n].canonical_dir]
      BY <1>0, <1>2, <1>3, <2>2, <3>2, MakeCases DEF SharedExists
    <3>4. Returning(V)'
      BY <1>t, <1>0, <1>1, <1>2, <1>3, <3>1, <3>3, OwnPlace
    <3> QED
      BY <1>0, <1>2, <3>4, Rigid
  <2> QED
    BY <2>1, <2>2
<1>4. SharedExists => SharedExists'
  BY <1>0, <1>1 DEF SharedExists
<1>5. AllExist(selected) => AllExist(selected)'
  BY <1>0, <1>1 DEF AllExist
<1>6. CASE completed = 0
  <2>1. completed = 0 /\ Mature /\ Uncrossed => SharedExists' \/ Returning(selected)'
    BY <1>0, <1>2, <1>3, <1>4 DEF Keeping
  <2> QED
    BY <1>6, <2>1
<1>7. CASE completed >= 1
  <2>1. CASE Mature /\ (Uncrossed => Returning(selected) /\ (SharedExists \/ AllExist(selected)))
    BY <1>2, <1>3, <1>4, <1>5, <1>7, <2>1
  <2>2. CASE /\ Pinned
             /\ \A i \in Targets :
                  IF TARGETS[i].publish THEN PickFrom(i, Before(selected, i)) = selected[i]
                                        ELSE Leaning(i)
    <3>1. Pinned' /\ Popped /\ Popped'
      BY <1>0, <1>1, <2>2, PinnedStep DEF Pinned
    <3>2. ASSUME NEW i \in Targets, TARGETS[i].publish
          PROVE  PickFrom(i, Before(selected, i))' = V[i]
      <4>1. PICK c : c = Before(V, i)
        OBVIOUS
      <4>2. Before(selected, i)' = c /\ PickFrom(i, c) = V[i]
        BY <1>0, <1>2, <2>2, <3>2, <4>1 DEF Before
      <4>3. choose_dir(TARGETS[i])' = choose_dir(TARGETS[i])
        <5>1. choose_dir(TARGETS[i]) = manifest[TARGETS[i].zed_target]
          BY <1>t, <2>2, <3>2, DeclaredNow DEF DeclaredIsChosen, Pinned
        <5>2. choose_dir(TARGETS[i])' = manifest'[TARGETS[i].zed_target]
          BY <1>t, <3>1, <3>2, DeclaredNext DEF DeclaredIsChosen, Pinned
        <5> QED
          BY <1>0, <5>1, <5>2
      <4>4. PickFrom(i, c)' = V[i]
        BY <1>0, <4>2, <4>3, PickSame
      <4> QED
        BY <4>2, <4>4 DEF PickFrom
    <3>3. ASSUME NEW i \in Targets, ~ TARGETS[i].publish
          PROVE  Leaning(i)'
      <4>1. Leaning(i)
        BY <2>2, <3>3
      <4>2. CASE selected[i] = TARGETS[i].canonical_dir
        BY <1>0, <4>2 DEF Leaning
      <4>3. CASE selected[i] # TARGETS[i].canonical_dir
        <5>1. /\ V[i] = Shared /\ SharedExists /\ PickFrom(i, Before(V, i)) = Shared
              /\ resolve[TARGETS[i].canonical_dir] \notin present
          BY <1>2, <4>1, <4>3 DEF Leaning
        <5>2. resolve[TARGETS[i].canonical_dir] \notin present'
          <6>1. CASE present' = present
            BY <5>1, <6>1
          <6>2. CASE present' # present
            <7>1. /\ V[n] = TARGETS[n].canonical_dir
                  /\ \A q \in present' : \/ q \in present
                                         \/ q = resolve[TARGETS[n].canonical_dir]
              BY <1>2, <5>1, <6>2, MakeCases DEF SharedExists
            <7>2. i # n
              BY <1>2, <4>3, <7>1
            <7> QED
              BY <1>1, <1>2, <5>1, <7>1, <7>2 DEF CanonicalDistinct
          <6> QED
            BY <6>1, <6>2
        <5>3. PICK o, c : o = Options(TARGETS[i]) /\ c = Before(V, i)
          OBVIOUS
        <5>4. Options(TARGETS[i])' = o /\ Before(selected, i)' = c
          BY <1>0, <1>2, <5>3, OptionsSame DEF Before
        <5>5. \A k \in DOMAIN o : o[k] \in {NoDir, TARGETS[i].canonical_dir, Shared}
          BY <1>t, <3>1, <3>3, <5>3, PlainNow DEF PlainIsChosen
        <5>6. \A k \in DOMAIN o : Exists(o[k])' <=> Exists(o[k])
          BY <1>0, <1>4, <5>1, <5>2, <5>5, PathsWellFormed DEF Exists, SharedExists
        <5>7. choose_dir(TARGETS[i])' = choose_dir(TARGETS[i])
          BY <1>t, <5>3, <5>4, <5>6, ChooseSame
        <5>8. PickFrom(i, c)' = Shared
          BY <1>0, <5>1, <5>3, <5>7, PickSame
        <5>9. PickFrom(i, Before(selected, i))' = Shared
          BY <5>4, <5>8 DEF PickFrom
        <5> QED
          BY <1>0, <1>2, <1>4, <5>1, <5>2, <5>9 DEF Leaning
      <4> QED
        BY <4>2, <4>3
    <3> QED
      BY <1>7, <3>1, <3>2, <3>3
  <2> QED
    BY <1>0, <1>7, <2>1, <2>2 DEF Keeping
<1> QED
  BY <1>6, <1>7 DEF LayoutInv, TypeOK

\* Every step keeps what a run keeps to.
LEMMA KeepingStep ==
  ASSUME LayoutInv, Rooted, Selecting, Making, Prepares, Keeping, [Next]_vars
  PROVE  Keeping'
<1>t. SelectionTypeOK /\ SelectionTypeOK'
  BY SelectionTyped
<1>1. CASE Selected
  BY <1>1, KeepingStarts
<1>2. CASE MakeDir
  BY <1>2, KeepingMakes
<1>3. CASE UNCHANGED vars
  <2>0. UNCHANGED <<manifest, present, resolve, runtimes, selected, completed, phase>>
    BY <1>3 DEF vars, selectionVars, repositoryVars, loopVars, layoutVars
  <2>1. PICK V : V = selected
    OBVIOUS
  <2>2. Returning(selected) => Returning(selected)'
    BY <1>t, <2>0, <2>1, FixedFrame, Rigid
  <2>3. (SharedExists' <=> SharedExists) /\ (AllExist(selected)' <=> AllExist(selected))
    BY <2>0 DEF SharedExists, AllExist
  <2>4. ASSUME NEW i \in Targets
        PROVE  PickFrom(i, Before(selected, i))' = PickFrom(i, Before(selected, i))
    <3>1. PICK c : c = Before(selected, i)
      OBVIOUS
    <3>2. Before(selected, i)' = c
      BY <2>0, <3>1 DEF Before
    <3> QED
      BY <1>t, <2>0, <3>1, <3>2, PickFrame DEF PickFrom
  <2>5. \A i \in Targets : Leaning(i) => Leaning(i)'
    BY <2>0, <2>4 DEF Leaning, SharedExists
  <2>6. Pinned => Pinned'
    BY <2>0, PinnedStep
  <2>7. phase = "mkdir" /\ CanonicalDistinct /\ completed >= 1 =>
          \/ /\ Pinned'
             /\ \A i \in Targets :
                  IF TARGETS[i].publish THEN PickFrom(i, Before(selected, i))' = selected[i]
                                        ELSE Leaning(i)'
          \/ /\ Mature'
             /\ Uncrossed' => Returning(selected)' /\ (SharedExists' \/ AllExist(selected)')
    <3>1. CASE ~ Mature \/ ~ (Uncrossed => Returning(selected) /\ (SharedExists \/ AllExist(selected)))
      BY <2>4, <2>5, <2>6, <3>1 DEF Keeping
    <3>2. CASE Mature /\ (Uncrossed => Returning(selected) /\ (SharedExists \/ AllExist(selected)))
      BY <2>0, <2>2, <2>3, <3>2, ConditionsFrame
    <3> QED
      BY <3>1, <3>2
  <2>8. phase = "mkdir" /\ CanonicalDistinct /\ completed = 0 /\ Mature /\ Uncrossed =>
          SharedExists' \/ Returning(selected)'
    BY <2>2, <2>3 DEF Keeping
  <2> QED
    BY <2>0, <2>7, <2>8, ConditionsFrame DEF Keeping
<1>4. CASE Start \/ Select \/ Raise \/ EnsureManifest \/ Mark \/ Verify \/ Finish \/ Kill
  <2>1. phase' # "mkdir"
    BY <1>4 DEF Start, Select, Raise, EnsureManifest, Mark, Verify, Finish, Kill, layoutVars
  <2> QED
    BY <2>1 DEF Keeping
<1> QED
  BY <1>1, <1>2, <1>3, <1>4 DEF Next

-----------------------------------------------------------------------------
(* What a run leaves for the next one. *)

\* A manifest that was prepared stays so while manifest and tree do.
LEMMA PreparedFrame ==
  ASSUME SelectionTypeOK, SelectionTypeOK', UNCHANGED <<manifest, present, resolve, runtimes>>,
         Prepared
  PROVE  Prepared'
<1>1. Pinned => Pinned'
  BY PinnedStep
<1>2. SharedExists => SharedExists'
  BY DEF SharedExists
<1>3. \A V \in [Targets -> Paths] : Steady(V) => Steady(V)'
  BY FixedFrame
<1> QED
  BY <1>1, <1>2, <1>3, ConditionsFrame DEF Prepared

\* Once the directories are made, the manifest is prepared as it is written.
LEMMA PreparesWrites ==
  ASSUME LayoutInv, Making, Keeping, EnsureManifest
  PROVE  Prepared'
<1>t. SelectionTypeOK /\ SelectionTypeOK'
  BY SelectionTyped DEF Next
<1>0. UNCHANGED <<present, resolve, runtimes, selected>> /\ phase = "mkdir" /\ next = N + 1
  BY DEF EnsureManifest
<1>1. PICK V : V = selected
  OBVIOUS
<1>2. \A i \in Targets : V[i] \in Paths /\ resolve[V[i]] \in present
  BY <1>0, <1>1, WholeTable DEF Making, LayoutInv, Complete
<1>3. V \in [Targets -> Paths]
  BY <1>t, <1>1, <1>2 DEF SelectionTypeOK
<1>4. CASE ~ Mature
  <2>1. /\ Popped'
        /\ \A i \in Targets : TARGETS[i].publish => manifest'[TARGETS[i].zed_target] = V[i]
    BY <1>1, <1>4, RewriteStep
  <2>2. Pinned'
    BY <1>0, <1>2, <2>1 DEF Pinned, Exists
  <2> QED
    BY <2>2 DEF Prepared
<1>5. CASE Mature
  <2>0. UNCHANGED manifest
    BY <1>5 DEF EnsureManifest
  <2>1. Returning(selected) => Steady(V)
    BY <1>1, <1>2, <1>3 DEF Steady, AllExist
  <2>2. Steady(V) => Steady(V)'
    BY <1>t, <1>0, <2>0, FixedFrame
  <2>3. CanonicalDistinct /\ Uncrossed => Pinned \/ SharedExists \/ Steady(V)
    <3>1. completed = 0 \/ completed >= 1
      BY DEF LayoutInv, TypeOK
    <3> QED
      BY <1>0, <1>5, <2>1, <3>1 DEF Keeping
  <2>4. (Pinned => Pinned') /\ (SharedExists => SharedExists')
    BY <1>0, <2>0, PinnedStep DEF SharedExists
  <2>5. CASE Pinned
    BY <2>4, <2>5 DEF Prepared
  <2>6. CASE ~ Pinned
    <3>1. CanonicalDistinct' /\ Uncrossed' => SharedExists' \/ Steady(V)'
      BY <1>0, <2>0, <2>2, <2>3, <2>4, <2>6, ConditionsFrame
    <3> QED
      BY <1>0, <1>3, <1>5, <2>0, <3>1, ConditionsFrame DEF Prepared
  <2> QED
    BY <2>5, <2>6
<1> QED
  BY <1>4, <1>5

\* Every step keeps prepared what a run left.
LEMMA PreparesStep ==
  ASSUME LayoutInv, Rooted, Selecting, Making, Prepares, Keeping, [Next]_vars
  PROVE  Prepares'
<1>t. SelectionTypeOK /\ SelectionTypeOK' /\ LayoutInv'
  BY SelectionTyped, LayoutStep
<1>1. CASE EnsureManifest
  BY <1>1, PreparesWrites DEF Prepares
<1>2. CASE MakeDir
  <2>0. UNCHANGED <<manifest, resolve, runtimes, selected, completed, phase>> /\ phase = "mkdir"
    BY <1>2 DEF MakeDir, layoutVars
  <2> SUFFICES ASSUME completed >= 1
               PROVE  Prepared'
    BY <2>0 DEF Prepares
  <2>1. Prepared /\ present \subseteq present'
    BY <1>2, MakeAdds DEF Prepares
  <2>2. CASE Pinned
    BY <2>0, <2>1, <2>2, PinnedStep DEF Prepared
  <2>3. CASE ~ Pinned
    <3>0. Mature'
      BY <2>0, <2>1, <2>3, ConditionsFrame DEF Prepared
    <3>1. CASE ~ CanonicalDistinct
      BY <2>0, <3>0, <3>1, ConditionsFrame DEF Prepared
    <3>2. CASE CanonicalDistinct
      <4>1. Keeping' /\ CanonicalDistinct'
        BY <2>0, <3>2, KeepingStep, ConditionsFrame
      <4>2. PICK V : V = selected
        OBVIOUS
      <4>3. V \in [Targets -> Paths]
        BY <1>t, <2>0, <4>2 DEF SelectionTypeOK, LayoutInv, Complete
      <4>4. Returning(selected)' /\ AllExist(selected)' => Steady(V)'
        BY <2>0, <4>2, <4>3, Rigid DEF Steady
      <4>5. \/ Pinned'
            \/ Uncrossed' => SharedExists' \/ Steady(V)'
        BY <2>0, <4>1, <4>4 DEF Keeping
      <4> QED
        BY <3>0, <4>3, <4>5 DEF Prepared
    <3> QED
      BY <3>1, <3>2
  <2> QED
    BY <2>2, <2>3
<1>3. CASE Kill
  BY <1>3 DEF Kill, Prepares
<1>4. CASE ~ EnsureManifest /\ ~ MakeDir /\ ~ Kill
  <2>0. UNCHANGED <<manifest, present, resolve, runtimes>>
    BY <1>4, RepositoryFrame
  <2>1. (completed' >= 1 \/ phase' \in {"mark", "verify"}) =>
           (completed >= 1 \/ phase \in {"mark", "verify"})
    BY <1>4 DEF Next, Start, Select, Raise, Selected, Mark, Verify, Finish, vars, layoutVars
  <2> QED
    BY <1>t, <2>0, <2>1, PreparedFrame DEF Prepares
<1> QED
  BY <1>1, <1>2, <1>3, <1>4

-----------------------------------------------------------------------------
(* Markers: where they are left, and where verify looks for them. *)

\* Targets with roots of their own have markers of their own.
LEMMA MarkersApart ==
  ASSUME SelectionTypeOK, NEW V, \A i \in Targets : V[i] \in Paths,
         \A i, j \in Targets : resolve[V[i]] = resolve[V[j]] => i = j
  PROVE  /\ \A i \in Targets : marker_dir(i, V[i]) \in MarkerPlaces
         /\ \A i, j \in Targets : marker_dir(i, V[i]) = marker_dir(j, V[j]) => i = j
<1>1. ASSUME NEW i \in Targets
      PROVE  marker_dir(i, V[i]) \in MarkerPlaces
  <2>1. resolve[V[i]] \in Paths
    BY DEF SelectionTypeOK
  <2>2. \/ marker_dir(i, V[i]) = <<resolve[V[i]], TARGETS[i].runtime>>
        \/ marker_dir(i, V[i]) = <<resolve[V[i]], "own">>
    BY DEF marker_dir
  <2> QED
    BY <2>1, <2>2 DEF MarkerPlaces
<1>2. ASSUME NEW i \in Targets, NEW j \in Targets, marker_dir(i, V[i]) = marker_dir(j, V[j])
      PROVE  i = j
  <2>1. \A k \in Targets : marker_dir(k, V[k])[1] = resolve[V[k]]
    BY DEF marker_dir
  <2>2. resolve[V[i]] = resolve[V[j]]
    BY <1>2, <2>1
  <2> QED
    BY <2>2
<1> QED
  BY <1>1, <1>2

\* When nothing but the shared package leads to it, verify looks for markers
\* where they are left.
LEMMA MarkerFound ==
  ASSUME Rooted, SharedUnlinked, NEW i \in Targets, NEW p \in Paths,
         NEW q, q = resolve[p], q \in Paths
  PROVE  marker_dir(i, q) = marker_dir(i, p)
BY DEF Rooted, SharedUnlinked, marker_dir

\* In a second run, the selection is steady once the manifest is written.
LEMMA MarkingStarts ==
  ASSUME LayoutInv, Rooted, Making, Keeping, EnsureManifest,
         completed >= 1, CanonicalDistinct', Uncrossed'
  PROVE  Steady(selected)'
<1>t. SelectionTypeOK /\ SelectionTypeOK'
  BY SelectionTyped DEF Next
<1>0. UNCHANGED <<present, resolve, runtimes, selected>> /\ phase = "mkdir" /\ next = N + 1
  BY DEF EnsureManifest
<1>1. PICK V : V = selected
  OBVIOUS
<1>2. \A i \in Targets : V[i] \in Paths /\ resolve[V[i]] \in present
  BY <1>0, <1>1, WholeTable DEF Making, LayoutInv, Complete
<1>3. V \in [Targets -> Paths]
  BY <1>t, <1>1, <1>2 DEF SelectionTypeOK
<1>4. CanonicalDistinct
  BY <1>0 DEF CanonicalDistinct
<1>5. Mature => UNCHANGED manifest
  BY DEF EnsureManifest
<1>6. Returning(V)'
  <2>1. CASE Mature /\ (Uncrossed => Returning(selected))
    <3>1. Uncrossed /\ Returning(V)
      BY <1>0, <1>1, <1>5, <2>1, ConditionsFrame
    <3> QED
      BY <1>t, <1>0, <1>5, <2>1, <3>1, FixedFrame
  <2>2. CASE /\ Pinned
             /\ \A i \in Targets :
                  IF TARGETS[i].publish THEN PickFrom(i, Before(selected, i)) = selected[i]
                                        ELSE Leaning(i)
    <3>1. Popped /\ Popped'
      <4>1. Popped
        BY <2>2 DEF Pinned
      <4>2. CASE Mature
        BY <1>0, <1>5, <4>1, <4>2, ConditionsFrame
      <4>3. CASE ~ Mature
        BY <4>1, <4>3, RewriteStep
      <4> QED
        BY <4>1, <4>2, <4>3
    <3>2. ASSUME NEW i \in Targets, NEW c, c = Before(V, i)
          PROVE  PickFrom(i, c)' = V[i]
      <4>1. CASE TARGETS[i].publish /\ Mature
        <5>1. PickFrom(i, c)' = PickFrom(i, c)
          BY <1>t, <1>0, <1>5, <4>1, PickFrame
        <5> QED
          BY <1>1, <2>2, <3>2, <4>1, <5>1
      <4>2. CASE TARGETS[i].publish /\ ~ Mature
        BY <1>1, <3>2, <4>2, RewrittenPicked
      <4>3. CASE ~ TARGETS[i].publish
        <5>1. Leaning(i)
          BY <2>2, <4>3
        <5>2. PickFrom(i, c) = V[i]
          <6>1. CASE V[i] = TARGETS[i].canonical_dir
            <7>1. Exists(TARGETS[i].canonical_dir)
              BY <1>2, <6>1 DEF Exists
            <7>2. choose_dir(TARGETS[i]) = TARGETS[i].canonical_dir
              BY <1>t, <3>1, <4>3, <7>1, PlainNow DEF PlainIsChosen
            <7> QED
              BY <6>1, <7>2, CanonicalIsPicked
          <6>2. CASE V[i] # TARGETS[i].canonical_dir
            BY <1>1, <3>2, <5>1, <6>2 DEF Leaning
          <6> QED
            BY <6>1, <6>2
        <5>3. PickFrom(i, c)' = PickFrom(i, c)
          BY <1>t, <1>0, <3>1, <4>3, PlainFrame
        <5> QED
          BY <5>2, <5>3
      <4> QED
        BY <4>1, <4>2, <4>3
    <3>3. ASSUME NEW i \in Targets
          PROVE  PickFrom(i, Before(V, i))' = V[i]
      <4>1. PICK c : c = Before(V, i)
        OBVIOUS
      <4>2. Before(V, i)' = c
        BY <1>0, <4>1 DEF Before
      <4> QED
        BY <3>2, <4>1, <4>2 DEF PickFrom
    <3> QED
      BY <3>3 DEF Returning
  <2>3. \/ Mature /\ (Uncrossed => Returning(selected))
        \/ /\ Pinned
           /\ \A i \in Targets :
                IF TARGETS[i].publish THEN PickFrom(i, Before(selected, i)) = selected[i]
                                      ELSE Leaning(i)
    BY <1>0, <1>4 DEF Keeping
  <2> QED
    BY <2>1, <2>2, <2>3
<1>7. AllExist(V)'
  BY <1>0, <1>2 DEF AllExist
<1>8. Returning(selected)' /\ AllExist(selected)'
  BY <1>0, <1>1, <1>6, <1>7, Rigid
<1> QED
  BY <1>0, <1>1, <1>3, <1>8 DEF Steady

\* Verify finds the markers of a steady selection.
LEMMA MarkingEnds ==
  ASSUME LayoutInv, Rooted, Selecting, Marking, Finish
  PROVE  CanonicalDistinct' => SecondRunMarksAll'
<1>0. UNCHANGED <<manifest, present, resolve, runtimes, selected, marks>>
      /\ phase = "verify" /\ next = N + 1 /\ completed' = completed + 1
  BY DEF Finish, selectionVars, repositoryVars, loopVars
<1> SUFFICES ASSUME CanonicalDistinct', completed' >= 2, Uncrossed', SharedUnlinked'
             PROVE  AllMarked
  <2>1. AllMarked' <=> AllMarked
    BY <1>0 DEF AllMarked, Marked, marker_dir
  <2> QED
    BY <2>1 DEF SecondRunMarksAll
<1>1. completed >= 1 /\ CanonicalDistinct /\ Uncrossed /\ SharedUnlinked
  BY <1>0, ConditionsFrame DEF SharedUnlinked, LayoutInv, TypeOK
<1>2. PICK V \in [Targets -> Paths] : Steady(V) /\ MarkedIn(V, N)
  BY <1>0, <1>1 DEF Marking
<1>3. \A i \in Targets : resolve[selected[i]] = resolve[V[i]]
  BY <1>0, <1>2, WholeTable DEF Selecting
<1>4. ASSUME NEW i \in Targets
      PROVE  Marked(i)
  <2>1. PICK p, q : p = V[i] /\ q = resolve[p]
    OBVIOUS
  <2>2. p \in Paths /\ q \in Paths /\ q = resolve[selected[i]]
    BY <1>2, <1>3, <2>1 DEF LayoutInv, TypeOK, SelectionTypeOK
  <2>3. q \in present
    BY <1>2, <2>1 DEF Steady, AllExist
  <2>4. marks[marker_dir(i, p)] = i
    BY <1>2, <2>1 DEF MarkedIn, Targets
  <2>5. marker_dir(i, q) = marker_dir(i, p)
    BY <1>1, <2>1, <2>2, MarkerFound
  <2> QED
    BY <2>2, <2>3, <2>4, <2>5 DEF Marked
<1> QED
  BY <1>4 DEF AllMarked

\* Every step keeps the markers where verify will look.
LEMMA MarkingStep ==
  ASSUME LayoutInv, Rooted, Selecting, Making, Keeping, Marking, [Next]_vars
  PROVE  Marking'
<1>t. SelectionTypeOK /\ SelectionTypeOK' /\ next \in Nat /\ marks \in [MarkerPlaces -> 0..N]
  BY SelectionTyped DEF LayoutInv, TypeOK
<1>1. CASE EnsureManifest
  <2>0. phase' = "mark" /\ next' = 1 /\ UNCHANGED completed
    BY <1>1 DEF EnsureManifest
  <2>1. MarkedIn(selected, next - 1)'
    BY <2>0 DEF MarkedIn
  <2> QED
    BY <1>1, <2>0, <2>1, MarkingStarts DEF Marking, SecondRunMarksAll
<1>2. CASE Mark
  <2>0. /\ UNCHANGED <<manifest, present, resolve, runtimes, selected, phase, completed>>
        /\ phase = "mark" /\ next' = next + 1 /\ next \in Targets
        /\ marks' = [marks EXCEPT ![marker_dir(next, selected[next])] = next]
    BY <1>2, <1>t, TableWellFormed DEF Mark, repositoryVars, SelectionTypeOK, Targets
  <2>1. PICK V : V = selected
    OBVIOUS
  <2>2. /\ \A i \in Targets : marker_dir(i, V[i]) \in MarkerPlaces
        /\ \A i, j \in Targets : marker_dir(i, V[i]) = marker_dir(j, V[j]) => i = j
    <3>1. /\ \A i \in Targets : V[i] \in Paths
          /\ \A i, j \in Targets : resolve[V[i]] = resolve[V[j]] => i = j
      BY <2>0, <2>1 DEF LayoutInv, Complete
    <3> QED
      BY <1>t, <3>1, MarkersApart
  <2>3. \A i \in Targets : marker_dir(i, V[i])' = marker_dir(i, V[i])
    BY <2>0, <2>1 DEF marker_dir
  <2>4. ASSUME NEW i \in 1..(next' - 1)
        PROVE  marks'[marker_dir(i, V[i])] = i
    <3>1. i \in 1..(next - 1) \/ i = next
      BY <1>t, <2>0
    <3>2. CASE i = next
      BY <1>t, <2>0, <2>1, <2>2, <3>2
    <3>3. CASE i \in 1..(next - 1)
      <4>1. i \in Targets /\ i # next
        BY <2>0, <3>3, BeforeInTable
      <4>2. marks[marker_dir(i, V[i])] = i
        BY <2>0, <2>1, <3>3 DEF Marking, MarkedIn
      <4> QED
        BY <1>t, <2>0, <2>1, <2>2, <4>1, <4>2
    <3> QED
      BY <3>1, <3>2, <3>3
  <2>5. \A i \in 1..(next' - 1) : i \in Targets
    BY <1>t, PartOfTable DEF SelectionTypeOK
  <2>6. MarkedIn(selected, next - 1)'
    BY <2>0, <2>1, <2>3, <2>4, <2>5 DEF MarkedIn, marker_dir
  <2>7. completed >= 1 /\ CanonicalDistinct' /\ Uncrossed' => Steady(selected)'
    <3>1. completed >= 1 /\ CanonicalDistinct' /\ Uncrossed' => Steady(V)'
      BY <1>t, <2>0, <2>1, ConditionsFrame, FixedFrame DEF Marking
    <3> QED
      BY <2>0, <2>1, <3>1, Rigid DEF Steady
  <2> QED
    BY <2>0, <2>6, <2>7 DEF Marking, SecondRunMarksAll
<1>3. CASE Verify
  <2>0. /\ UNCHANGED <<manifest, present, resolve, runtimes, marks, completed>>
        /\ phase = "mark" /\ next = N + 1 /\ phase' = "verify"
    BY <1>3 DEF Verify, repositoryVars
  <2>1. ASSUME completed >= 1, CanonicalDistinct', Uncrossed'
        PROVE  \E V \in [Targets -> Paths] : Steady(V)' /\ MarkedIn(V, N)'
    <3>1. PICK V : V = selected
      OBVIOUS
    <3>2. Steady(V) /\ MarkedIn(V, next - 1)
      BY <2>0, <2>1, <3>1, ConditionsFrame DEF Marking
    <3>3. MarkedIn(V, N)
      BY <2>0, <3>2, WholeTable DEF MarkedIn, Targets
    <3>4. Steady(V)' /\ MarkedIn(V, N)'
      BY <1>t, <2>0, <3>2, <3>3, FixedFrame DEF MarkedIn, marker_dir
    <3> QED
      BY <3>2, <3>4 DEF Steady
  <2> QED
    BY <2>0, <2>1 DEF Marking, SecondRunMarksAll
<1>4. CASE Select
  <2>0. UNCHANGED <<manifest, present, resolve, runtimes, phase, marks, completed>>
        /\ phase \in {"select", "verify"}
    BY <1>4, SelectAdds DEF repositoryVars, layoutVars, Select
  <2>1. ASSUME phase = "verify", completed >= 1, CanonicalDistinct', Uncrossed'
        PROVE  \E V \in [Targets -> Paths] : Steady(V)' /\ MarkedIn(V, N)'
    <3>1. PICK V \in [Targets -> Paths] : Steady(V) /\ MarkedIn(V, N)
      BY <2>0, <2>1, ConditionsFrame DEF Marking
    <3>2. Steady(V)' /\ MarkedIn(V, N)'
      BY <1>t, <2>0, <3>1, FixedFrame DEF MarkedIn, marker_dir
    <3> QED
      BY <3>2
  <2> QED
    BY <2>0, <2>1 DEF Marking, SecondRunMarksAll
<1>5. CASE Finish
  <2>1. phase' = "done"
    BY <1>5 DEF Finish
  <2> QED
    BY <1>5, <2>1, MarkingEnds DEF Marking
<1>6. CASE UNCHANGED vars
  <2>0. UNCHANGED <<manifest, present, resolve, runtimes, selected, next, phase, marks, completed>>
    BY <1>6 DEF vars, selectionVars, repositoryVars, loopVars, layoutVars
  <2>1. PICK V : V = selected
    OBVIOUS
  <2>2. \A W, k : MarkedIn(W, k)' <=> MarkedIn(W, k)
    BY <2>0 DEF MarkedIn, marker_dir
  <2>3. MarkedIn(selected, next - 1) => MarkedIn(selected, next - 1)'
    BY <2>0 DEF MarkedIn, marker_dir
  <2>4. Steady(selected) => Steady(selected)'
    <3>1. Steady(V)' <=> Steady(V)
      BY <1>t, <2>0, FixedFrame
    <3> QED
      BY <2>0, <2>1, <3>1, Rigid DEF Steady
  <2>5. \A W \in [Targets -> Paths] : Steady(W) => Steady(W)'
    BY <1>t, <2>0, FixedFrame
  <2>6. AllMarked' <=> AllMarked
    BY <2>0 DEF AllMarked, Marked, marker_dir
  <2>7. SecondRunMarksAll => SecondRunMarksAll'
    BY <2>0, <2>6, ConditionsFrame DEF SecondRunMarksAll, SharedUnlinked
  <2>8. phase = "mark" => /\ MarkedIn(selected, next - 1)'
                          /\ completed >= 1 /\ CanonicalDistinct' /\ Uncrossed' => Steady(selected)'
    BY <2>0, <2>3, <2>4, ConditionsFrame DEF Marking
  <2>9. phase = "verify" /\ completed >= 1 /\ CanonicalDistinct' /\ Uncrossed' =>
          \E W \in [Targets -> Paths] : Steady(W)' /\ MarkedIn(W, N)'
    BY <2>0, <2>2, <2>5, ConditionsFrame DEF Marking
  <2> QED
    BY <2>0, <2>7, <2>8, <2>9, ConditionsFrame DEF Marking
<1>7. CASE Start \/ Raise \/ Selected \/ MakeDir \/ Kill
  <2>1. phase' \notin {"mark", "verify", "done"}
    BY <1>7 DEF Start, Raise, Selected, MakeDir, Kill, layoutVars
  <2> QED
    BY <2>1 DEF Marking, SecondRunMarksAll
<1> QED
  BY <1>1, <1>2, <1>3, <1>4, <1>5, <1>6, <1>7 DEF Next

-----------------------------------------------------------------------------
(* What the package validators accepted. *)

\* New directories take nothing away.
LEMMA AcceptsFrame ==
  ASSUME UNCHANGED <<manifest, resolve>>, present \subseteq present'
  PROVE  (MatrixAccepts => MatrixAccepts') /\ (PackageAccepts => PackageAccepts')
<1>1. \A p : Exists(p) => Exists(p)'
  BY DEF Exists
<1>2. \A n : Declares(n)' <=> Declares(n)
  BY DEF Declares
<1>3. MatrixAccepts => MatrixAccepts'
  BY <1>1, <1>2 DEF MatrixAccepts
<1>4. PackageAccepts => PackageAccepts'
  BY <1>1, <1>2 DEF PackageAccepts
<1> QED
  BY <1>3, <1>4

\* A target that is declared in its place is selected there.
LEMMA AcceptedPicked ==
  ASSUME LayoutInv, PackageAccepts, DeclaredInPlace, NEW i \in Targets, TARGETS[i].publish,
         \A j \in 1..(i - 1) : TARGETS[j].publish => selected[j] = manifest[TARGETS[j].zed_target]
  PROVE  PickFrom(i, Before(selected, i)) = manifest[TARGETS[i].zed_target]
<1>1. PICK d : d = manifest[TARGETS[i].zed_target]
  OBVIOUS
<1>2. Exists(d)
  <2>1. TARGETS[i].zed_target \in {n \in Names : Declares(n)}
    BY DEF PackageAccepts
  <2> QED
    BY <1>1, <2>1 DEF PackageAccepts
<1>3. choose_dir(TARGETS[i]) = d
  BY <1>1, <1>2, DeclaredNow DEF DeclaredIsChosen, LayoutInv, TypeOK
<1>4. Inside(d) /\ \A j \in Targets : /\ resolve[TARGETS[j].canonical_dir] = resolve[d] => i = j
                                      /\ TARGETS[j].publish
                                         /\ resolve[manifest[TARGETS[j].zed_target]] = resolve[d] => i = j
  BY <1>1 DEF DeclaredInPlace, Inside
<1>5. resolve[d] \notin Before(selected, i)
  <2> SUFFICES ASSUME NEW j \in 1..(i - 1), resolve[selected[j]] = resolve[d]
               PROVE  FALSE
    BY DEF Before
  <2>1. j \in Targets /\ j < i /\ j \in Nat /\ i \in Nat
    BY BeforeInTable, TableWellFormed DEF Targets
  <2>2. TARGETS[j].publish
    BY <2>1, TableShape
  <2> QED
    BY <1>4, <2>1, <2>2
<1>6. ~ ReservedForAnother(resolve[d], i)
  BY <1>4 DEF ReservedForAnother, Owners
<1> QED
  BY <1>1, <1>3, <1>4, <1>5, <1>6, ChosenIsPicked

\* Rewriting the manifest changes nothing when targets were selected where it
\* declares them.
LEMMA RewritesNothing ==
  ASSUME LayoutInv, PackageAccepts, phase = "mkdir",
         \A i \in Targets : TARGETS[i].publish => selected[i] = manifest[TARGETS[i].zed_target]
  PROVE  Rewritten = manifest
<1>1. manifest \in [Names -> Paths \cup {NoDir}]
  BY DEF LayoutInv, TypeOK, SelectionTypeOK
<1>2. ASSUME NEW n \in Names
      PROVE  Rewritten[n] = manifest[n]
  <2>1. n # "repository" /\ Publishers(n) = {} => manifest[n] = NoDir
    <3>1. n \notin {"repository"} \cup {TARGETS[i].zed_target : i \in {j \in Targets : TARGETS[j].publish}}
             => ~ Declares(n)
      BY DEF PackageAccepts
    <3> QED
      BY <3>1 DEF Publishers, Declares
  <2>2. CASE n = "repository"
    <3>0. Publishers(n) = {} /\ n \notin AliasNames
      BY <2>2, TableShape DEF Publishers, AliasNames
    <3>1. Rewritten[n] = RootDir
      BY <2>2, <3>0 DEF Rewritten
    <3>2. manifest["repository"] = RootDir
      BY DEF PackageAccepts
    <3> QED
      BY <2>2, <3>1, <3>2
  <2>3. CASE n # "repository" /\ Publishers(n) # {}
    <3>1. PICK i \in Publishers(n) : i = CHOOSE j \in Publishers(n) : TRUE
      BY <2>3
    <3>2. i \in Targets /\ TARGETS[i].publish /\ TARGETS[i].zed_target = n
      BY <3>1 DEF Publishers
    <3>3. n # "contract"
      BY <3>2, TableShape
    <3>4. Rewritten[n] = selected[i]
      BY <2>3, <3>1, <3>3 DEF Rewritten
    <3> QED
      BY <3>2, <3>4
  <2>4. CASE n # "repository" /\ Publishers(n) = {}
    <3>1. manifest[n] = NoDir
      BY <2>1, <2>4
    <3> QED
      BY <2>4, <3>1 DEF Rewritten
  <2> QED
    BY <2>2, <2>3, <2>4
<1> QED
  BY <1>1, <1>2 DEF Rewritten

\* Every step keeps what was accepted.
LEMMA AcceptingStep ==
  ASSUME LayoutInv, Selecting, Accepting, [Next]_vars
  PROVE  Accepting'
<1>t. SelectionTypeOK /\ SelectionTypeOK' /\ next \in Nat
  BY SelectionTyped
<1>1. CASE Start
  <2>0. UNCHANGED <<manifest, present, resolve, runtimes>> /\ next' = 1 /\ packaged' = Packaged
        /\ phase' = "select"
    BY <1>1 DEF Start, Restart, repositoryVars
  <2>1. 1..(next' - 1) = {}
    BY <2>0
  <2> QED
    BY <2>0, <2>1, AcceptsFrame, ConditionsFrame DEF Accepting, Packaged
<1>2. CASE ~ Start
  <2>0. UNCHANGED packaged
    BY <1>2 DEF Next, Select, Raise, Selected, MakeDir, EnsureManifest, Mark, Verify, Finish, Kill,
                vars, layoutVars
  <2> SUFFICES ASSUME packaged
               PROVE  /\ MatrixAccepts' /\ PackageAccepts'
                      /\ phase' \in {"select", "mkdir"} =>
                           Mature' \/ /\ DeclaredInPlace'
                                      /\ \A i \in (IF phase' = "select" THEN 1..(next' - 1) ELSE Targets) :
                                           TARGETS[i].publish =>
                                             selected'[i] = manifest'[TARGETS[i].zed_target]
    BY <2>0 DEF Accepting
  <2>1. MatrixAccepts /\ PackageAccepts
    BY DEF Accepting
  <2>2. CASE Select
    <3>0. UNCHANGED <<manifest, present, resolve, runtimes, phase>>
      BY <2>2, SelectAdds DEF repositoryVars, layoutVars
    <3>1. MatrixAccepts' /\ PackageAccepts'
      BY <2>1, <3>0, AcceptsFrame
    <3>2. ASSUME phase = "select", ~ Mature
          PROVE  /\ DeclaredInPlace
                 /\ \A i \in 1..(next' - 1) :
                      TARGETS[i].publish => selected'[i] = manifest[TARGETS[i].zed_target]
      <4>1. /\ DeclaredInPlace
            /\ \A i \in 1..(next - 1) :
                 TARGETS[i].publish => selected[i] = manifest[TARGETS[i].zed_target]
        BY <3>2 DEF Accepting
      <4>2. ASSUME NEW i \in 1..(next' - 1), TARGETS[i].publish
            PROVE  selected'[i] = manifest[TARGETS[i].zed_target]
        <5>1. i \in 1..(next - 1) \/ (i = next /\ next' = next + 1)
          <6>1. next' = next + 1 \/ next' = next
            BY <2>2, SelectAdds
          <6> QED
            BY <1>t, <6>1
        <5>2. CASE i \in 1..(next - 1)
          BY <2>2, <4>1, <4>2, <5>2, SelectAdds
        <5>3. CASE i = next /\ next' = next + 1
          <6>1. next \in Targets /\ selected'[next] = PickFrom(next, Before(selected, next))
            BY <1>t, <2>2, <5>3, SelectAdds
          <6>2. PickFrom(next, Before(selected, next)) = manifest[TARGETS[next].zed_target]
            BY <2>1, <4>1, <4>2, <5>3, <6>1, AcceptedPicked
          <6> QED
            BY <5>3, <6>1, <6>2
        <5> QED
          BY <5>1, <5>2, <5>3
      <4> QED
        BY <4>1, <4>2
    <3>3. phase # "mkdir"
      BY <2>2 DEF Select
    <3> QED
      BY <3>0, <3>1, <3>2, <3>3, ConditionsFrame
  <2>3. CASE Selected \/ UNCHANGED vars
    <3>0. /\ UNCHANGED <<manifest, present, resolve, runtimes, selected>>
          /\ \/ UNCHANGED <<phase, next>>
             \/ phase = "select" /\ phase' = "mkdir" /\ next = N + 1
      BY <2>3 DEF Selected, vars, selectionVars, repositoryVars, loopVars, layoutVars
    <3>1. MatrixAccepts' /\ PackageAccepts'
      BY <2>1, <3>0, AcceptsFrame
    <3> QED
      BY <3>0, <3>1, WholeTable, ConditionsFrame DEF Accepting
  <2>4. CASE MakeDir
    <3>0. UNCHANGED <<manifest, resolve, runtimes, selected, phase>> /\ phase = "mkdir"
      BY <2>4 DEF MakeDir, layoutVars
    <3>1. MatrixAccepts' /\ PackageAccepts'
      BY <2>1, <2>4, <3>0, MakeAdds, AcceptsFrame
    <3> QED
      BY <3>0, <3>1, ConditionsFrame DEF Accepting
  <2>5. CASE EnsureManifest
    <3>0. /\ UNCHANGED <<present, resolve, runtimes, selected>> /\ phase = "mkdir" /\ phase' = "mark"
          /\ manifest' = IF Mature THEN manifest ELSE Rewritten
      BY <2>5 DEF EnsureManifest
    <3>1. UNCHANGED manifest
      <4>1. CASE ~ Mature
        <5>1. \A i \in Targets : TARGETS[i].publish => selected[i] = manifest[TARGETS[i].zed_target]
          BY <3>0, <4>1 DEF Accepting
        <5>2. Rewritten = manifest
          BY <2>1, <3>0, <5>1, RewritesNothing
        <5> QED
          BY <3>0, <4>1, <5>2
      <4> QED
        BY <3>0, <4>1
    <3> QED
      BY <2>1, <3>0, <3>1, AcceptsFrame
  <2>6. CASE Raise \/ Mark \/ Verify \/ Finish \/ Kill
    <3>0. UNCHANGED <<manifest, present, resolve>> /\ phase' \notin {"select", "mkdir"}
      BY <2>6 DEF Raise, Mark, Verify, Finish, Kill, selectionVars, repositoryVars
    <3> QED
      BY <2>1, <3>0, AcceptsFrame
  <2> QED
    BY <1>2, <2>2, <2>3, <2>4, <2>5, <2>6 DEF Next
<1> QED
  BY <1>1, <1>2

-----------------------------------------------------------------------------
(* Sequences of runs. *)

RunInv == /\ Rooted /\ Selecting /\ Making
          /\ Settled /\ Prepares /\ Keeping /\ Marking /\ Accepting

\* What any sequence of runs keeps, complete or killed.
LEMMA RunInvariant == Spec => []RunInv
<1>1. Init => RunInv
  <2> SUFFICES ASSUME Init
               PROVE  RunInv
    OBVIOUS
  <2>1. PICK r \in Starts : resolve = r.resolve /\ present = r.present
    BY DEF Init, SelectionInit
  <2>2. Rooted
    BY <2>1, TreesWellFormed DEF Rooted
  <2>3. phase = "idle" /\ completed = 0 /\ placed = Unplaced /\ packaged = FALSE
    BY DEF Init
  <2> QED
    BY <2>2, <2>3 DEF RunInv, Selecting, Making, Settled, Prepares, Keeping, Marking,
       SecondRunMarksAll, Accepting
<1>2. LayoutInv /\ RunInv /\ [Next]_vars => RunInv'
  BY RootedStep, SelectingStep, MakingStep, SettledStep, PreparesStep, KeepingStep,
     MarkingStep, AcceptingStep DEF RunInv
<1> QED
  BY <1>1, <1>2, LayoutInvariant, PTL DEF Spec

\* A repository that verify found nothing wrong with stays as it is: whatever
\* runs follow, killed or not, each target is selected where it was.
THEOREM RunsStaySettled == Spec => []SettledStaysSettled
<1>1. RunInv => SettledStaysSettled
  BY DEF RunInv, Settled, SettledStaysSettled
<1> QED
  BY <1>1, RunInvariant, PTL

\* Nothing a run does, wherever it is killed, takes away what the package
\* validators had accepted.
THEOREM RunsKeepPackaging == Spec => []PackagingIsKept
<1>1. RunInv => PackagingIsKept
  BY DEF RunInv, Accepting, PackagingIsKept
<1> QED
  BY <1>1, RunInvariant, PTL

\* Two runs are enough for verify to find every marker, while links leave the
\* canonical directories apart.
THEOREM TwoRunsAreEnough == Spec => [](CanonicalDistinct => SecondRunMarksAll)
<1>1. RunInv => (CanonicalDistinct => SecondRunMarksAll)
  BY DEF RunInv, Marking
<1> QED
  BY <1>1, RunInvariant, PTL

=============================================================================
