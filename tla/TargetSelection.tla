--------------------------- MODULE TargetSelection ---------------------------
(***************************************************************************)
(* choose_target_dirs of scripts/harden_client_contract.py: one pass over  *)
(* the table of standard targets that gives each of them a source root of  *)
(* its own.  What the repository looks like -- its manifest, the           *)
(* directories that exist and where symbolic links lead -- is an input;    *)
(* the step of this specification is the body of the loop.                 *)
(***************************************************************************)
EXTENDS Naturals, Sequences

CONSTANTS
  TARGETS,   \* the table: a sequence of TargetSpec records
  Paths,     \* directories that the table or a manifest names
  NoDir,     \* the value of a manifest target that declares no directory
  Names,     \* names of manifest targets
  InRepo,    \* the paths that, when resolved, lie inside the repository
  Shared,    \* clients/typescript
  Starts     \* the repositories to start from: see StartsWellFormed

N == Len(TARGETS)
Targets == 1..N

TargetSpec == [zed_target : Names, canonical_dir : Paths, aliases : Seq(Paths),
               zed_aliases : Seq(Names), publish : BOOLEAN, runtime : STRING]

\* A repository: the directory each manifest target declares, the places that
\* exist, where each path leads, and the runtimes for which the shared
\* TypeScript package has sources.
Repository == [manifest : [Names -> Paths \cup {NoDir}], present : SUBSET Paths,
               resolve : [Paths -> Paths], runtimes : SUBSET STRING]

ASSUME TableWellFormed == TARGETS \in Seq(TargetSpec) /\ N \in Nat
ASSUME PathsWellFormed == NoDir \notin Paths /\ InRepo \subseteq Paths /\ Shared \in Paths
ASSUME StartsWellFormed ==
  \A r \in Starts :
    /\ r.manifest \in [Names -> Paths \cup {NoDir}]
    /\ r.present \subseteq Paths
    /\ r.resolve \in [Paths -> Paths]

VARIABLES
  manifest,  \* .zpkg.toml: the directory of each manifest target
  present,   \* the places that exist
  resolve,   \* where a path leads once links are followed
  runtimes,  \* runtimes with sources in the shared package
  next,      \* the target the loop is at
  selected,  \* the directory of every target before it
  failed     \* has the loop raised a ValueError?

repositoryVars == <<manifest, present, resolve, runtimes>>
loopVars == <<next, selected, failed>>
selectionVars == <<repositoryVars, loopVars>>

-----------------------------------------------------------------------------
DeclaredNames(s) ==
  IF s.publish THEN <<s.zed_target>> \o s.zed_aliases ELSE s.zed_aliases

Exists(p) == p \in Paths /\ resolve[p] \in present

\* The directories choose_dir tries, in order.
Options(s) ==
  [k \in DOMAIN DeclaredNames(s) |-> manifest[DeclaredNames(s)[k]]]
    \o <<s.canonical_dir>>
    \o (IF s.runtime \in runtimes THEN <<Shared>> ELSE <<>>)
    \o s.aliases

choose_dir(s) ==
  LET First(k) == /\ Exists(Options(s)[k])
                  /\ \A l \in 1..(k - 1) : ~ Exists(Options(s)[l])
  IN  IF \E k \in DOMAIN Options(s) : First(k)
      THEN Options(s)[CHOOSE k \in DOMAIN Options(s) : First(k)]
      ELSE s.canonical_dir

Inside(p) == resolve[p] \in InRepo

Claimed == {resolve[selected[i]] : i \in 1..(next - 1)}

\* The owners of a place that canonical directories lead to; a dictionary
\* keeps the last of them.
Owners(place) == {i \in Targets : resolve[TARGETS[i].canonical_dir] = place}
ReservedForAnother(place, i) ==
  Owners(place) # {} /\ \E j \in Owners(place) : j # i /\ \A k \in Owners(place) : k <= j

\* Fault: the place of a later target is up for grabs.
PickUnreserved(i) ==
  LET s == TARGETS[i]
      wanted == IF Inside(choose_dir(s)) THEN choose_dir(s) ELSE s.canonical_dir
  IN  IF resolve[wanted] \in Claimed THEN s.canonical_dir ELSE wanted

\* Fault: where a link leads is not looked at.
PickUnresolved(i) ==
  LET s == TARGETS[i]
      wanted == choose_dir(s)
  IN  IF resolve[wanted] \in Claimed \/ ReservedForAnother(resolve[wanted], i)
      THEN s.canonical_dir ELSE wanted

\* The directory for target i, given those of the targets before it.
Pick(i) ==
  LET s == TARGETS[i]
      wanted == IF Inside(choose_dir(s)) THEN choose_dir(s) ELSE s.canonical_dir
  IN  IF resolve[wanted] \in Claimed \/ ReservedForAnother(resolve[wanted], i)
      THEN s.canonical_dir ELSE wanted

\* Fault: the last look at the claimed places is missing.
UsableIfInside(p) == Inside(p)

\* The checks that raise a ValueError when they fail.
Usable(p) == Inside(p) /\ resolve[p] \notin Claimed

-----------------------------------------------------------------------------
StartLoop == next = 1 /\ selected = [i \in Targets |-> NoDir] /\ failed = FALSE

\* The loop from the start.
Restart == next' = 1 /\ selected' = [i \in Targets |-> NoDir] /\ failed' = FALSE

SelectionInit ==
  /\ \E r \in Starts : /\ manifest = r.manifest
                       /\ present = r.present
                       /\ resolve = r.resolve
                       /\ runtimes = r.runtimes
  /\ StartLoop

\* The loop body, for the next target.
SelectTarget ==
  /\ next <= N /\ ~ failed
  /\ IF Usable(Pick(next))
     THEN /\ selected' = [selected EXCEPT ![next] = Pick(next)]
          /\ next' = next + 1
          /\ UNCHANGED failed
     ELSE /\ failed' = TRUE
          /\ UNCHANGED <<next, selected>>
  /\ UNCHANGED repositoryVars

SelectionSpec == SelectionInit /\ [][SelectTarget]_selectionVars

-----------------------------------------------------------------------------
\* The loop stays inside the table and fills it from the front.
SelectionTypeOK ==
  /\ manifest \in [Names -> Paths \cup {NoDir}]
  /\ present \subseteq Paths
  /\ resolve \in [Paths -> Paths]
  /\ next \in 1..(N + 1)
  /\ selected \in [Targets -> Paths \cup {NoDir}]
  /\ \A i \in 1..(next - 1) : selected[i] \in Paths
  /\ failed \in BOOLEAN

\* Every target owns a source root of its own, whatever the manifest declares
\* and wherever links lead ("every target to own a distinct source root").
RootsAreDistinct ==
  \A i, j \in 1..(next - 1) : resolve[selected[i]] = resolve[selected[j]] => i = j

\* No target is ever placed outside the repository, by a declared directory or
\* through a link.
RootsAreInside == \A i \in 1..(next - 1) : Inside(selected[i])

\* What choose_target_dirs promises to a run that writes into what it selects:
\* roots apart from each other, and all of them in the repository.
RootsAreSound == RootsAreDistinct /\ RootsAreInside

CanonicalDistinct ==
  \A i, j \in Targets :
    resolve[TARGETS[i].canonical_dir] = resolve[TARGETS[j].canonical_dir] => i = j

CanonicalInside == \A i \in Targets : Inside(TARGETS[i].canonical_dir)

\* No target takes the place where another would be repaired: "a malformed
\* legacy manifest cannot make an earlier target claim a later target's repair
\* location".
RepairPlacesKept ==
  CanonicalDistinct =>
    \A i \in 1..(next - 1), j \in Targets :
      resolve[selected[i]] = resolve[TARGETS[j].canonical_dir] => i = j

\* Keeping those places free is what makes the loop total: no manifest and no
\* set of directories makes it raise, unless links join canonical directories
\* or lead one of them out of the repository.
NeverRaises == (CanonicalDistinct /\ CanonicalInside) => ~ failed

=============================================================================
