---------------------------- MODULE HardenLayout ----------------------------
(***************************************************************************)
(* Runs of harden_client_contract.py --write, as far as the layout of the  *)
(* repository goes: a run selects a directory per target (the loop of      *)
(* TargetSelection), creates them, rewrites the manifest, leaves a marker  *)
(* per target, and then verifies -- for which it selects all over again,   *)
(* from the manifest and the directories it has just changed.  A run may   *)
(* be killed between any two of these steps.                               *)
(*                                                                         *)
(* What the markers say and what the directories hold is HardenContent's.  *)
(***************************************************************************)
EXTENDS TargetSelection, FiniteSets

CONSTANTS
  Above,      \* the directories above a path, which mkdir creates with it
  SafeDirs,   \* relative paths below clients/
  RootDir,    \* "."
  MatureAt,   \* MINIMUM_TARGETS - 2: safe directories of a mature manifest
  Required,   \* [manifest targets -> Paths]: REQUIRED of validate_client_matrix.py
  Forbidden,  \* FORBIDDEN of both package validators
  MaxRuns     \* bound: runs started

ASSUME LayoutWellFormed ==
  /\ Above \in [Paths -> SUBSET Paths]
  /\ SafeDirs \subseteq Paths /\ RootDir \in Paths
  /\ DOMAIN Required \subseteq Names /\ Forbidden \subseteq Names
  /\ MatureAt \in Nat /\ MaxRuns \in Nat

\* A repository is a tree with links that lead somewhere: what is above a place
\* that exists exists, and two paths to a place that does not exist yet part
\* only at places that do.
ASSUME TreesWellFormed ==
  /\ \A p \in Paths : \A a \in Above[p] : Above[a] \subseteq Above[p]
  /\ \A r \in Starts : \A p \in Paths :
       /\ r.resolve[r.resolve[p]] = r.resolve[p]
       /\ r.resolve[p] \in r.present => \A a \in Above[p] : r.resolve[a] \in r.present
       /\ \A q \in Paths : r.resolve[p] = r.resolve[q] =>
            \A a \in Above[p] : \/ r.resolve[a] \in r.present
                                \/ \E b \in Above[q] : r.resolve[a] = r.resolve[b]

VARIABLES
  phase,      \* where the run is
  marks,      \* marker files: the target each one names, or 0
  runs,       \* runs started
  completed,  \* runs completed since one was killed
  placed,     \* what verify selected when it last found nothing wrong
  packaged    \* was the repository Packaged when the last run started?

layoutVars == <<phase, marks, runs, completed, placed, packaged>>
vars == <<selectionVars, layoutVars>>

Phases == {"idle", "select", "mkdir", "mark", "verify", "done", "raised"}
MarkerPlaces == Paths \X ({TARGETS[i].runtime : i \in Targets} \cup {"own"})
Unplaced == [i \in Targets |-> NoDir]

\* marker_dir: a runtime in the shared package has its marker in a directory
\* of its own there.
marker_dir(i, dir) ==
  IF TARGETS[i].runtime # "none" /\ dir = Shared
  THEN <<resolve[Shared], TARGETS[i].runtime>>
  ELSE <<resolve[dir], "own">>

\* What verify asks of each target, looking at the resolved directory.
Marked(i) ==
  /\ resolve[selected[i]] \in present
  /\ marks[marker_dir(i, resolve[selected[i]])] = i
AllMarked == \A i \in Targets : Marked(i)

-----------------------------------------------------------------------------
Configured == {n \in Names : manifest[n] \notin {NoDir, RootDir}}

\* A manifest with enough directories, all below clients/, is left alone.
Mature ==
  /\ Cardinality(Configured) >= MatureAt
  /\ \A n \in Configured : manifest[n] \in SafeDirs

Publishers(n) == {i \in Targets : TARGETS[i].publish /\ TARGETS[i].zed_target = n}
AliasNames == {n \in Names : \E i \in Targets : \E k \in DOMAIN TARGETS[i].zed_aliases :
                                TARGETS[i].zed_aliases[k] = n}

\* The table: published targets come first, under names of their own; the
\* runtimes that are not published fall back on the shared package; canonical
\* directories lie in it or directly in clients/.
ASSUME TableShape ==
  \A i \in Targets : LET s == TARGETS[i] IN
    /\ Above[s.canonical_dir] \subseteq {Shared}
    /\ s.runtime # "own" /\ "repository" \notin AliasNames
    /\ s.publish =>
         /\ s.zed_target \notin AliasNames \cup {"repository", "contract"}
         /\ \A j \in Targets : ~ TARGETS[j].publish => i < j
         /\ \A j \in Publishers(s.zed_target) : j = i
    /\ ~ s.publish => s.aliases \in Seq({Shared})

\* Fault: aliases only go from a manifest that declares their target already.
RewrittenPopsLate ==
  [n \in Names |->
    CASE n = "repository"                              -> RootDir
      [] n = "contract" /\ manifest[n] = RootDir       -> NoDir
      [] Publishers(n) # {}                            -> selected[CHOOSE i \in Publishers(n) : TRUE]
      [] Publishers(n) = {} /\ n \in AliasNames        ->
           IF \E m \in Configured : Publishers(m) # {} THEN NoDir ELSE manifest[n]
      [] OTHER                                         -> manifest[n]]

\* Fault: published targets are declared where a new repository has them.
RewrittenCanonical ==
  [n \in Names |->
    CASE n = "repository"                              -> RootDir
      [] n = "contract" /\ manifest[n] = RootDir       -> NoDir
      [] Publishers(n) # {}                            ->
           TARGETS[CHOOSE i \in Publishers(n) : TRUE].canonical_dir
      [] Publishers(n) = {} /\ n \in AliasNames        -> NoDir
      [] OTHER                                         -> manifest[n]]

\* Published targets are declared where they were selected; aliases go, and
\* with them whatever was declared for unpublished targets; an early name for
\* the whole-repository target goes too.
Rewritten ==
  [n \in Names |->
    CASE n = "repository"                              -> RootDir
      [] n = "contract" /\ manifest[n] = RootDir       -> NoDir
      [] Publishers(n) # {}                            -> selected[CHOOSE i \in Publishers(n) : TRUE]
      [] Publishers(n) = {} /\ n \in AliasNames        -> NoDir
      [] OTHER                                         -> manifest[n]]

-----------------------------------------------------------------------------
(* The package validators, which read the manifest and the directories. *)

Declares(n) == manifest[n] # NoDir

\* validate_client_matrix.py: each SDK is where this repository has always had it.
MatrixAccepts ==
  /\ \A n \in Forbidden : ~ Declares(n)
  /\ \A n \in DOMAIN Required : manifest[n] = Required[n] /\ Exists(Required[n])
  /\ \A i \in Targets : ~ TARGETS[i].publish => Exists(TARGETS[i].canonical_dir)

\* validate_manifest of validate-zed-package.py: the published targets, the
\* repository and nothing else.
PackageAccepts ==
  /\ manifest["repository"] = RootDir
  /\ {n \in Names : Declares(n)} =
       {"repository"} \cup {TARGETS[i].zed_target : i \in {j \in Targets : TARGETS[j].publish}}
  /\ \A n \in Names : Declares(n) => Exists(manifest[n])

\* The places the manifest declares for published targets are inside, apart,
\* and not where another target is repaired; a mature manifest is left alone.
DeclaredInPlace ==
  \A i \in {j \in Targets : TARGETS[j].publish} :
    LET place == resolve[manifest[TARGETS[i].zed_target]]
    IN  /\ place \in InRepo
        /\ \A j \in Targets :
             /\ TARGETS[j].publish /\ resolve[manifest[TARGETS[j].zed_target]] = place => i = j
             /\ resolve[TARGETS[j].canonical_dir] = place => i = j
Packaged == MatrixAccepts /\ PackageAccepts /\ (Mature \/ DeclaredInPlace)

-----------------------------------------------------------------------------
Init ==
  /\ SelectionInit
  /\ phase = "idle"
  /\ marks = [m \in MarkerPlaces |-> 0]
  /\ runs = 0 /\ completed = 0
  /\ placed = Unplaced /\ packaged = FALSE

\* A run starts with the selection.
Start ==
  /\ phase \in {"idle", "done"}
  /\ runs < MaxRuns
  /\ runs' = runs + 1
  /\ phase' = "select"
  /\ Restart
  /\ packaged' = Packaged
  /\ UNCHANGED <<repositoryVars, marks, completed, placed>>

\* One target of the run's selection, or of verify's.
Select ==
  /\ phase \in {"select", "verify"}
  /\ SelectTarget
  /\ UNCHANGED layoutVars

\* The ValueError of a selection ends the run.
Raise ==
  /\ phase \in {"select", "verify"}
  /\ failed
  /\ phase' = "raised"
  /\ UNCHANGED <<selectionVars, marks, runs, completed, placed, packaged>>

\* The loops over the selected directories start at the first.
Selected ==
  /\ phase = "select" /\ next = N + 1
  /\ phase' = "mkdir"
  /\ next' = 1
  /\ UNCHANGED <<repositoryVars, selected, failed, marks, runs, completed, placed, packaged>>

\* mkdir(parents=True, exist_ok=True).
MakeDir ==
  /\ phase = "mkdir" /\ next <= N
  /\ present' = present \cup {resolve[p] : p \in {selected[next]} \cup Above[selected[next]]}
  /\ next' = next + 1
  /\ UNCHANGED <<manifest, resolve, runtimes, selected, failed, layoutVars>>

\* .zpkg.toml is brought up to date, unless it is mature.
EnsureManifest ==
  /\ phase = "mkdir" /\ next = N + 1
  /\ manifest' = IF Mature THEN manifest ELSE Rewritten
  /\ phase' = "mark"
  /\ next' = 1
  /\ UNCHANGED <<present, resolve, runtimes, selected, failed, marks, runs, completed, placed, packaged>>

\* Fault: the marker goes to the canonical directory.
MarkCanonical ==
  /\ phase = "mark" /\ next <= N
  /\ marks' = [marks EXCEPT ![marker_dir(next, TARGETS[next].canonical_dir)] = next]
  /\ next' = next + 1
  /\ UNCHANGED <<repositoryVars, selected, failed, phase, runs, completed, placed, packaged>>

\* ensure_contract leaves a target's marker in its directory.
Mark ==
  /\ phase = "mark" /\ next <= N
  /\ marks' = [marks EXCEPT ![marker_dir(next, selected[next])] = next]
  /\ next' = next + 1
  /\ UNCHANGED <<repositoryVars, selected, failed, phase, runs, completed, placed, packaged>>

\* verify begins with a selection of its own.
Verify ==
  /\ phase = "mark" /\ next = N + 1
  /\ phase' = "verify"
  /\ Restart
  /\ UNCHANGED <<repositoryVars, marks, runs, completed, placed, packaged>>

\* The run ends with what verify found.
Finish ==
  /\ phase = "verify" /\ next = N + 1
  /\ phase' = "done"
  /\ completed' = completed + 1
  /\ placed' = IF AllMarked THEN selected ELSE placed
  /\ UNCHANGED <<selectionVars, marks, runs, packaged>>

\* The run is killed; what it wrote stays.
Kill ==
  /\ phase \in {"mkdir", "mark", "verify"}
  /\ phase' = "idle"
  /\ completed' = 0
  /\ UNCHANGED <<selectionVars, marks, runs, placed, packaged>>

Next ==
  \/ Start \/ Select \/ Raise \/ Selected \/ MakeDir \/ EnsureManifest
  \/ Mark \/ Verify \/ Finish \/ Kill

Spec == Init /\ [][Next]_vars

-----------------------------------------------------------------------------
\* A run has a phase, its selection is well formed, and markers name targets.
TypeOK ==
  /\ SelectionTypeOK
  /\ phase \in Phases
  /\ marks \in [MarkerPlaces -> 0..N]
  /\ runs \in 0..MaxRuns
  /\ completed \in 0..MaxRuns
  /\ placed \in [Targets -> Paths \cup {NoDir}] /\ packaged \in BOOLEAN

\* No manifest entry or legacy directory of a target leads to the place where
\* another is repaired, and only its own path leads to the shared package.
Uncrossed ==
  \A i, j \in Targets : \A k \in DOMAIN Options(TARGETS[i]) :
    LET p == Options(TARGETS[i])[k]
    IN  p \in Paths /\ p # TARGETS[i].canonical_dir
          /\ resolve[p] = resolve[TARGETS[j].canonical_dir] => i = j
SharedUnlinked == \A p \in Paths : resolve[p] = Shared <=> p = Shared

\* Two runs in a row are enough: whatever directories there are and whatever
\* killed runs left behind, verify then finds every target's marker in the
\* directory it selects for it.  A mature manifest that declares the repair
\* places of other targets can take a run more for every such entry; a
\* link to the shared package has the marker looked for where it is not.
SecondRunMarksAll ==
  (phase = "done" /\ completed >= 2 /\ Uncrossed /\ SharedUnlinked) => AllMarked

\* A repository verify found nothing wrong with stays as it is: later runs,
\* complete or killed, select the same directories ("deterministic and safe to
\* run repeatedly").
SettledStaysSettled ==
  (placed # Unplaced /\ phase \in {"select", "verify"}) =>
    \A i \in 1..(next - 1) : selected[i] = placed[i]

\* A run takes nothing away that the package validators accepted when it
\* started, not even for a moment or when it is killed: though the hardener would
\* put a new target elsewhere (clients/golang), it leaves targets where this
\* repository has them (clients/go) and declares them there.  Only a link can
\* make it move one: see DeclaredInPlace.
PackagingIsKept == packaged => MatrixAccepts /\ PackageAccepts

=============================================================================
