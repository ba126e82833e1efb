------------------------ MODULE HardenContentProofs ------------------------
(***************************************************************************)
(* Theorems about HardenContent, for every table of targets, every         *)
(* baseline and start, and any number of runs and edits.                   *)
(*                                                                         *)
(* The argument: contents only ever grow (Grows), so that evidence once    *)
(* out of date stays out of date (Outdated), and what was filled stays     *)
(* filled (Filled).  Between the last complete run and the next edit or    *)
(* torn write (~ dirty) everything on disk is of the current surface and   *)
(* as recorded, and a further run finds nothing to do.                     *)
(***************************************************************************)
EXTENDS HardenContent, TLAPS

\* Contents in the order in which they replace one another.
Rank(c) == IF c \in {"absent", "legacy"} THEN 0 ELSE IF c = "hand" THEN 2 ELSE 1

Grows ==
  /\ \A t \in Targets : \A f \in Files(t) :
       disk'[<<t, f>>] = disk[<<t, f>>] \/ Rank(disk[<<t, f>>]) < Rank(disk'[<<t, f>>])
  /\ \A t \in Targets :
       own'[t] = own[t] \/ (own[t].version < own'[t].version /\ (own[t].native => own'[t].native))

\* The record knows an earlier state of the directory.
Outdated(t) ==
  \/ record.holds[t][2].version \in 0..(own[t].version - 1)
  \/ \E f \in Files(t) : Rank(record.holds[t][1][f]) < Rank(disk[<<t, f>>])

\* A file the script would leave alone.
Kept(t, f) == ~ Overwrites(t, f)

\* A target scaffold_target would leave alone.
Filled(t) == has_product(t) \/ \A f \in Files(t) : Kept(t, f)

Typed ==
  /\ disk \in [Cells -> Contents]
  /\ own \in [Targets -> [version : Nat, native : BOOLEAN]]
  /\ surface \in [version : Nat \ {0}, form : Forms]
  /\ fingerprint \in 0..surface.version
  /\ marker \in [Targets -> 0..surface.version]
  /\ record.version \in 0..surface.version
  /\ phase \in Phases
  /\ at \in 1..(Len(TARGETS) + 1)
  /\ file \in Nat
  /\ dirty \in BOOLEAN /\ settled \in BOOLEAN /\ wrote \in BOOLEAN

\* The tables collected and recorded.
Tables ==
  /\ record = [version |-> record.version, holds |-> record.holds]
  /\ record.holds = [t \in Targets |-> record.holds[t]]
  /\ collected = [t \in Targets |-> collected[t]]

\* Where the loops are.
Loops ==
  /\ phase = "scaffold" /\ at <= Len(TARGETS) => file <= Len(Baseline[Here]) + 1
  /\ phase = "scaffold" => \A k \in 1..(at - 1) : Filled(TARGETS[k])
  /\ phase = "scaffold" /\ at <= Len(TARGETS) => \A f \in Files(Here) : f < file => Kept(Here, f)
  /\ phase = "scaffold" /\ at <= Len(TARGETS) /\ file > 0 /\ ~ dirty
       => \A f \in Files(Here) : Kept(Here, f)
  /\ phase \in {"surface", "fingerprint", "mark"} => \A t \in Targets : Filled(t)
  /\ phase \in {"fingerprint", "mark"} => surface.form = "normal"
  /\ phase = "mark" => fingerprint = surface.version
  /\ phase = "mark" => \A k \in 1..(at - 1) : /\ marker[TARGETS[k]] = surface.version
                                             /\ collected[TARGETS[k]] = Evidence(TARGETS[k])

\* A record of the current surface was written after all of its marks.
Synced ==
  record.version = surface.version =>
    fingerprint = surface.version /\ Marked /\ surface.form = "normal"

\* What happened since the last complete run shows in the record ...
Shown == dirty /\ record.version = surface.version => \E t \in Targets : Outdated(t)

\* ... and when nothing happened the record is right and the targets are filled.
InOrder ==
  ~ dirty => /\ record.version = surface.version
             /\ \A t \in Targets : record.holds[t] = Evidence(t) /\ Filled(t)

\* A run on a repository in order changes nothing.
Quiet == settled => ~ wrote /\ (Idle \/ ~ dirty)

\* Sources in the native layout are sources.
Native == \A t \in Targets : own[t].native => own[t].version > 0

IInv == Typed /\ Tables /\ Loops /\ Synced /\ Shown /\ InOrder /\ Quiet /\ Native

-----------------------------------------------------------------------------
(* The tables. *)

\* Loops over the table and over a baseline visit everything.
LEMMA Sizes ==
  /\ Len(TARGETS) \in Nat
  /\ \A k \in 1..Len(TARGETS) : TARGETS[k] \in Targets
  /\ \A t \in Targets : \E k \in 1..Len(TARGETS) : t = TARGETS[k]
  /\ \A t \in Targets : Len(Baseline[t]) \in Nat \ {0} /\ Files(t) = 1..Len(Baseline[t])
<1>1. Len(TARGETS) \in Nat /\ DOMAIN TARGETS = 1..Len(TARGETS)
  BY BaselineWellFormed
<1>2. ASSUME NEW t \in Targets
      PROVE  Len(Baseline[t]) \in Nat \ {0} /\ Files(t) = 1..Len(Baseline[t])
  <2>1. Baseline[t] \in Seq(BaselineFile) /\ Baseline[t] # <<>>
    BY BaselineWellFormed
  <2> QED
    BY <2>1 DEF Files
<1> QED
  BY <1>1, <1>2 DEF Targets

\* Every file of every target is a cell.
LEMMA CellOf == \A t \in Targets : \A f \in Files(t) : <<t, f>> \in Cells
BY DEF Cells

\* A cell is a file of a target.
LEMMA CellIs == \A c \in Cells : \E t \in Targets : \E f \in Files(t) : c = <<t, f>>
BY DEF Cells

\* What is on disk is a content.
LEMMA DiskTyped == Typed => \A t \in Targets : \A f \in Files(t) : disk[<<t, f>>] \in Contents
BY CellOf DEF Typed

-----------------------------------------------------------------------------
(* What changes the directories, and how. *)

\* One cell of the disk changes.
LEMMA OneCell ==
  ASSUME NEW d \in [Cells -> Contents],
         NEW t \in Targets, NEW f \in Files(t), NEW c \in Contents,
         NEW e, e = [d EXCEPT ![<<t, f>>] = c]
  PROVE  /\ e \in [Cells -> Contents]
         /\ e[<<t, f>>] = c
         /\ \A u \in Targets : \A g \in Files(u) : (u # t \/ g # f) => e[<<u, g>>] = d[<<u, g>>]
<1>1. <<t, f>> \in Cells
  BY CellOf
<1>2. e \in [Cells -> Contents] /\ e[<<t, f>>] = c
  BY <1>1
<1>3. ASSUME NEW u \in Targets, NEW g \in Files(u), u # t \/ g # f
      PROVE  e[<<u, g>>] = d[<<u, g>>]
  <2>1. <<u, g>> \in Cells /\ <<u, g>> # <<t, f>>
    BY <1>3, CellOf
  <2> QED
    BY <2>1
<1> QED
  BY <1>2, <1>3

\* A cell the script may overwrite has the lowest rank.
LEMMA OverwritesLow ==
  ASSUME NEW t, NEW f, Overwrites(t, f)
  PROVE  Rank(disk[<<t, f>>]) = 0 /\ disk[<<t, f>>] # "hand"
BY DEF Overwrites, Rank

\* Replacing one cell by one of higher rank, the rest left alone, is growth.
LEMMA GrowsByCell ==
  ASSUME Typed, NEW t \in Targets, NEW f \in Files(t), NEW c \in Contents,
         disk' = [disk EXCEPT ![<<t, f>>] = c], own' = own,
         Rank(disk[<<t, f>>]) < Rank(c)
  PROVE  Grows
<1>0. /\ disk'[<<t, f>>] = c
      /\ \A u \in Targets : \A g \in Files(u) :
           (u # t \/ g # f) => disk'[<<u, g>>] = disk[<<u, g>>]
  BY OneCell DEF Typed
<1>1. ASSUME NEW u \in Targets, NEW g \in Files(u)
      PROVE  disk'[<<u, g>>] = disk[<<u, g>>] \/ Rank(disk[<<u, g>>]) < Rank(disk'[<<u, g>>])
  <2>1. CASE u = t /\ g = f
    BY <1>0, <2>1
  <2>2. CASE u # t \/ g # f
    BY <1>0, <2>2
  <2> QED
    BY <2>1, <2>2
<1> QED
  BY <1>1 DEF Grows

\* What grows stays filled and outdated.
LEMMA KeptStays ==
  ASSUME Typed, Typed', Grows, NEW t \in Targets, NEW f \in Files(t), Kept(t, f)
  PROVE  Kept(t, f)'
<1>1. disk[<<t, f>>] \in Contents /\ disk'[<<t, f>>] \in Contents
  BY DiskTyped, CellOf DEF Typed
<1>2. disk'[<<t, f>>] = disk[<<t, f>>] \/ Rank(disk[<<t, f>>]) < Rank(disk'[<<t, f>>])
  BY DEF Grows
<1>3. CASE disk'[<<t, f>>] = disk[<<t, f>>]
  BY <1>3 DEF Kept, Overwrites
<1>4. CASE Rank(disk[<<t, f>>]) < Rank(disk'[<<t, f>>])
  <2>1. disk'[<<t, f>>] \notin {"absent", "legacy"}
    BY <1>1, <1>4 DEF Rank
  <2> QED
    BY <2>1 DEF Kept, Overwrites
<1> QED
  BY <1>2, <1>3, <1>4

\* A baseline that is complete stays so while directories only grow.
LEMMA FilledStays ==
  ASSUME Typed, Typed', Grows, NEW t \in Targets, Filled(t)
  PROVE  Filled(t)'
<1>1. CASE has_product(t)
  <2>1. CASE own[t].native
    BY <2>1 DEF Grows, Filled, has_product
  <2>2. CASE \E f \in Files(t) : Baseline[t][f].native /\ disk[<<t, f>>] # "absent"
    <3>1. PICK f \in Files(t) : Baseline[t][f].native /\ disk[<<t, f>>] # "absent"
      BY <2>2
    <3>2. disk[<<t, f>>] \in Contents /\ disk'[<<t, f>>] \in Contents
      BY DiskTyped, CellOf DEF Typed
    <3>3. disk'[<<t, f>>] = disk[<<t, f>>] \/ Rank(disk[<<t, f>>]) < Rank(disk'[<<t, f>>])
      BY DEF Grows
    <3>4. disk'[<<t, f>>] # "absent"
      BY <3>1, <3>2, <3>3 DEF Rank
    <3> QED
      BY <3>1, <3>4 DEF Filled, has_product
  <2> QED
    BY <1>1, <2>1, <2>2 DEF has_product
<1>2. CASE \A f \in Files(t) : Kept(t, f)
  <2>1. \A f \in Files(t) : Kept(t, f)'
    BY <1>2, KeptStays
  <2> QED
    BY <2>1 DEF Filled
<1> QED
  BY <1>1, <1>2 DEF Filled

\* Evidence that is out of date stays so until the record is written.
LEMMA OutdatedStays ==
  ASSUME Typed, Typed', Grows, record' = record, NEW t \in Targets, Outdated(t)
  PROVE  Outdated(t)'
<1>1. own[t].version \in Nat /\ own'[t].version \in Nat
  BY DEF Typed
<1>2. own'[t] = own[t] \/ own[t].version < own'[t].version
  BY DEF Grows
<1>3. CASE record.holds[t][2].version \in 0..(own[t].version - 1)
  <2>1. record.holds'[t][2].version \in 0..(own'[t].version - 1)
    BY <1>1, <1>2, <1>3
  <2> QED
    BY <2>1 DEF Outdated
<1>4. CASE \E f \in Files(t) : Rank(record.holds[t][1][f]) < Rank(disk[<<t, f>>])
  <2>1. PICK f \in Files(t) : Rank(record.holds[t][1][f]) < Rank(disk[<<t, f>>])
    BY <1>4
  <2>2. disk'[<<t, f>>] = disk[<<t, f>>] \/ Rank(disk[<<t, f>>]) < Rank(disk'[<<t, f>>])
    BY DEF Grows
  <2>3. Rank(record.holds[t][1][f]) < Rank(disk'[<<t, f>>])
    BY <2>1, <2>2 DEF Rank
  <2> QED
    BY <2>3 DEF Outdated
<1> QED
  BY <1>3, <1>4 DEF Outdated

-----------------------------------------------------------------------------
(* Types, and growth, of every step. *)

\* The target whose turn it is, and its files.
LEMMA HereIs ==
  Typed /\ at <= Len(TARGETS) => Here \in Targets /\ Files(Here) = 1..Len(Baseline[Here])
<1> SUFFICES ASSUME Typed, at <= Len(TARGETS)
             PROVE  Here \in Targets /\ Files(Here) = 1..Len(Baseline[Here])
  OBVIOUS
<1>1. at \in 1..Len(TARGETS)
  BY Sizes DEF Typed
<1>2. Here \in Targets
  BY <1>1, Sizes DEF Here
<1> QED
  BY <1>2, Sizes

\* One edit of the sources.
LEMMA EditGrows ==
  ASSUME Typed, NEW t \in Targets, EditSources(t)
  PROVE  Typed' /\ Grows /\ (Native => Native')
<1>1. CASE /\ \E native \in BOOLEAN :
                own' = [own EXCEPT ![t] = [version |-> @.version + 1,
                                           native |-> @.native \/ native]]
           /\ UNCHANGED disk
  <2>1. PICK native \in BOOLEAN :
          own' = [own EXCEPT ![t] = [version |-> own[t].version + 1,
                                     native |-> own[t].native \/ native]]
    BY <1>1
  <2>2. own[t].version \in Nat /\ own[t].native \in BOOLEAN
    BY DEF Typed
  <2>3. (own[t].native \/ native) \in BOOLEAN
    BY <2>1, <2>2, Zenon
  <2>4. [version |-> own[t].version + 1, native |-> own[t].native \/ native]
          \in [version : Nat, native : BOOLEAN]
    BY <2>2, <2>3
  <2>5. own' \in [Targets -> [version : Nat, native : BOOLEAN]]
    BY <2>1, <2>4 DEF Typed
  <2>6. /\ own'[t].version = own[t].version + 1
        /\ own'[t].native = (own[t].native \/ native)
        /\ \A u \in Targets : u # t => own'[u] = own[u]
    BY <2>1 DEF Typed
  <2>7. Typed'
    BY <1>1, <2>5 DEF Typed, EditSources, Phases
  <2>8. Grows
    BY <1>1, <2>2, <2>6 DEF Grows
  <2>9. Native => Native'
    BY <2>2, <2>6 DEF Native
  <2> QED
    BY <2>7, <2>8, <2>9
<1>2. CASE /\ \E f \in Files(t) : disk[<<t, f>>] # "hand"
                                  /\ disk' = [disk EXCEPT ![<<t, f>>] = "hand"]
           /\ UNCHANGED own
  <2>1. PICK f \in Files(t) : disk[<<t, f>>] # "hand" /\ disk' = [disk EXCEPT ![<<t, f>>] = "hand"]
    BY <1>2
  <2>2. "hand" \in Contents /\ Rank(disk[<<t, f>>]) < Rank("hand")
    BY <2>1 DEF Contents, Rank
  <2>3. Grows
    BY <1>2, <2>1, <2>2, GrowsByCell
  <2>4. disk' \in [Cells -> Contents]
    BY <2>1, <2>2, OneCell DEF Typed
  <2>5. Typed'
    BY <1>2, <2>4 DEF Typed, EditSources, Phases
  <2> QED
    BY <1>2, <2>3, <2>5 DEF Native
<1> QED
  BY <1>1, <1>2 DEF EditSources

\* One write of the baseline.
LEMMA WriteGrows ==
  ASSUME Typed, WriteFile
  PROVE  Typed' /\ Grows
<1>1. at <= Len(TARGETS) /\ Here \in Targets /\ file \in Files(Here)
  BY HereIs DEF WriteFile
<1>2. "baseline" \in Contents /\ Rank("baseline") = 1
  BY DEF Contents, Rank
<1>3. CASE Overwrites(Here, file)
  <2>1. disk' = [disk EXCEPT ![<<Here, file>>] = "baseline"] /\ own' = own
    BY <1>3 DEF WriteFile
  <2>2. Rank(disk[<<Here, file>>]) < Rank("baseline")
    BY <1>2, <1>3, OverwritesLow
  <2>3. Grows
    BY <1>1, <1>2, <2>1, <2>2, GrowsByCell
  <2>4. disk' \in [Cells -> Contents]
    BY <1>1, <1>2, <2>1, OneCell DEF Typed
  <2> QED
    BY <2>3, <2>4 DEF Typed, WriteFile
<1>4. CASE ~ Overwrites(Here, file)
  BY <1>4 DEF Typed, WriteFile, Grows
<1> QED
  BY <1>3, <1>4

\* A killed run: what a torn write leaves.
LEMMA KillGrows ==
  ASSUME Typed, Kill
  PROVE  Typed' /\ Grows
<1> USE DEF Typed
<1>0. /\ phase' \in Phases /\ at' = at /\ file' = file
      /\ dirty' \in BOOLEAN /\ wrote' \in BOOLEAN /\ settled' = settled
  BY DEF Kill, Phases
<1>1. CASE UNCHANGED diskVars
  BY <1>0, <1>1 DEF diskVars, Grows
<1>2. CASE /\ phase = "scaffold" /\ at <= Len(TARGETS) /\ file \in 1..Len(Baseline[Here])
           /\ Overwrites(Here, file)
           /\ disk' = [disk EXCEPT ![<<Here, file>>] = "torn"]
           /\ UNCHANGED <<own, surface, fingerprint, marker, record>>
  <2>1. Here \in Targets /\ file \in Files(Here)
    BY <1>2, HereIs
  <2>2. "torn" \in Contents /\ Rank(disk[<<Here, file>>]) < Rank("torn")
    BY <1>2, OverwritesLow DEF Contents, Rank
  <2>3. Grows
    BY <1>2, <2>1, <2>2, GrowsByCell
  <2>4. disk' \in [Cells -> Contents]
    BY <1>2, <2>1, <2>2, OneCell
  <2> QED
    BY <1>0, <1>2, <2>3, <2>4
<1>3. CASE /\ phase = "surface" /\ surface.form = "raw"
           /\ surface' = [surface EXCEPT !.form = "invalid"]
           /\ UNCHANGED <<disk, own, fingerprint, marker, record>>
  <2>1. surface' \in [version : Nat \ {0}, form : Forms] /\ surface'.version = surface.version
    BY <1>3 DEF Forms
  <2> QED
    BY <1>0, <1>3, <2>1 DEF Grows
<1>4. CASE /\ phase = "fingerprint" /\ fingerprint # surface.version
           /\ fingerprint' = 0
           /\ UNCHANGED <<disk, own, surface, marker, record>>
  BY <1>0, <1>4 DEF Grows
<1>5. CASE /\ phase = "mark" /\ at <= Len(TARGETS) /\ marker[Here] # surface.version
           /\ marker' = [marker EXCEPT ![Here] = 0]
           /\ UNCHANGED <<disk, own, surface, fingerprint, record>>
  BY <1>0, <1>5, HereIs DEF Grows
<1>6. CASE /\ phase = "mark" /\ at = Len(TARGETS) + 1
           /\ record # [version |-> surface.version, holds |-> collected]
           /\ record' = [version |-> 0, holds |-> Nothing]
           /\ UNCHANGED <<disk, own, surface, fingerprint, marker>>
  BY <1>0, <1>6 DEF Grows
<1> QED
  BY <1>1, <1>2, <1>3, <1>4, <1>5, <1>6 DEF Kill

\* Steps of the loops and of ensure_contract leave the directories alone.
LEMMA OtherGrows ==
  ASSUME Typed,
         \/ EditSurface \/ Start \/ EnterTarget \/ LeaveTarget \/ Scaffolded
         \/ NormaliseSurface \/ WriteFingerprint \/ Mark \/ WriteRecord \/ Verify
         \/ UNCHANGED vars
  PROVE  Typed' /\ UNCHANGED <<disk, own>> /\ Grows
<1> USE DEF Typed, Phases
<1>1. CASE EditSurface
  <2>1. PICK form \in {"raw", "invalid"} :
          surface' = [version |-> surface.version + 1, form |-> form]
    BY <1>1 DEF EditSurface
  <2>2. surface' \in [version : Nat \ {0}, form : Forms] /\ surface'.version = surface.version + 1
    BY <2>1 DEF Forms
  <2> QED
    BY <1>1, <2>2 DEF EditSurface, Grows
<1>2. CASE Start
  <2>1. settled' \in BOOLEAN
    BY <1>2 DEF Start, GatePasses
  <2>2. /\ UNCHANGED <<disk, own, surface, fingerprint, marker, record, dirty>>
        /\ phase' \in Phases /\ at' = 1 /\ file' = 0 /\ wrote' = FALSE
    BY <1>2 DEF Start, diskVars
  <2>3. at' \in 1..(Len(TARGETS) + 1) /\ file' \in Nat
    BY <2>2, Sizes
  <2> QED
    BY <2>1, <2>2, <2>3 DEF Grows
<1>3. CASE EnterTarget
  BY <1>3, Sizes DEF EnterTarget, Grows, diskVars, ghostVars
<1>4. CASE LeaveTarget
  BY <1>4, Sizes DEF LeaveTarget, Grows, diskVars, ghostVars
<1>5. CASE Scaffolded
  BY <1>5 DEF Scaffolded, Grows, diskVars, ghostVars
<1>6. CASE NormaliseSurface
  <2>1. surface' \in [version : Nat \ {0}, form : Forms] /\ surface'.version = surface.version
    BY <1>6 DEF NormaliseSurface, Forms
  <2> QED
    BY <1>6, <2>1 DEF NormaliseSurface, Grows
<1>7. CASE WriteFingerprint
  BY <1>7, Sizes DEF WriteFingerprint, Grows
<1>8. CASE Mark
  <2>1. marker' \in [Targets -> 0..surface.version]
    BY <1>8, HereIs DEF Mark
  <2> QED
    BY <1>8, <2>1, Sizes DEF Mark, Grows
<1>9. CASE WriteRecord
  <2>1. /\ UNCHANGED <<disk, own, surface, fingerprint, marker, at, file, settled>>
        /\ phase' = "verify" /\ dirty' = FALSE
        /\ record'.version = surface.version
    BY <1>9 DEF WriteRecord
  <2>2. wrote' \in BOOLEAN /\ dirty' \in BOOLEAN
    BY <1>9 DEF WriteRecord
  <2>3. record'.version \in 0..surface'.version
    BY <2>1
  <2>4. Typed'
    BY <2>1, <2>2, <2>3
  <2> QED
    BY <2>1, <2>4 DEF Grows
<1>10. CASE Verify
  BY <1>10 DEF Verify, Grows, diskVars, ghostVars
<1>11. CASE UNCHANGED vars
  <2>1. UNCHANGED <<disk, own, surface, fingerprint, marker, record, phase, at, file,
                    dirty, settled, wrote>>
    BY <1>11 DEF vars, diskVars, runVars, ghostVars
  <2> QED
    BY <2>1 DEF Grows
<1> QED
  BY <1>1, <1>2, <1>3, <1>4, <1>5, <1>6, <1>7, <1>8, <1>9, <1>10, <1>11

\* Every step keeps the types, and no step takes contents back.
LEMMA StepGrows ==
  ASSUME Typed, [Next]_vars
  PROVE  Typed' /\ Grows
<1>1. CASE \E t \in Targets : EditSources(t)
  BY <1>1, EditGrows
<1>2. CASE WriteFile
  BY <1>2, WriteGrows
<1>3. CASE Kill
  BY <1>3, KillGrows
<1> QED
  BY <1>1, <1>2, <1>3, OtherGrows DEF Next

\* What was filled or kept stays so in every step.
LEMMA StepStays ==
  ASSUME Typed, [Next]_vars
  PROVE  \A t \in Targets : /\ Filled(t) => Filled(t)'
                            /\ \A f \in Files(t) : Kept(t, f) => Kept(t, f)'
<1>1. Typed' /\ Grows
  BY StepGrows
<1> QED
  BY <1>1, FilledStays, KeptStays

\* The tables stay tables.
LEMMA TablesStep ==
  ASSUME Typed, Tables, [Next]_vars
  PROVE  Tables'
<1>1. ASSUME record' = record, collected' = collected
      PROVE  Tables'
  BY <1>1 DEF Tables
<1>2. CASE Start
  BY <1>2 DEF Start, Tables, Nothing, diskVars
<1>3. CASE Mark
  <2>1. collected' = [t \in Targets |-> IF t = Here THEN Evidence(Here) ELSE collected[t]]
    BY <1>3 DEF Mark, Tables
  <2>2. collected' = [t \in Targets |-> collected'[t]]
    BY <2>1
  <2> QED
    BY <1>3, <2>2 DEF Mark, Tables
<1>4. CASE WriteRecord
  <2>1. record' = [version |-> surface.version, holds |-> collected] /\ collected' = collected
    BY <1>4 DEF WriteRecord
  <2> QED
    BY <2>1 DEF Tables
<1>5. CASE Kill
  <2>1. collected' = collected
    BY <1>5 DEF Kill
  <2>2. record' = record \/ record' = [version |-> 0, holds |-> Nothing]
    BY <1>5 DEF Kill, diskVars
  <2>3. CASE record' = [version |-> 0, holds |-> Nothing]
    BY <2>1, <2>3 DEF Tables, Nothing
  <2> QED
    BY <1>1, <2>1, <2>2, <2>3
<1>6. CASE EditSurface \/ (\E t \in Targets : EditSources(t)) \/ WriteFile \/ NormaliseSurface
           \/ WriteFingerprint
  BY <1>1, <1>6 DEF EditSurface, EditSources, WriteFile, NormaliseSurface, WriteFingerprint
<1>7. CASE EnterTarget \/ LeaveTarget \/ Scaffolded \/ Verify
  BY <1>1, <1>7 DEF EnterTarget, LeaveTarget, Scaffolded, Verify, diskVars
<1>8. CASE UNCHANGED vars
  BY <1>1, <1>8 DEF vars, diskVars, runVars
<1> QED
  BY <1>2, <1>3, <1>4, <1>5, <1>6, <1>7, <1>8 DEF Next

\* While the directories do not change, neither does what they show.
LEMMA Still ==
  ASSUME disk' = disk, own' = own, NEW t
  PROVE  /\ Evidence(t)' = Evidence(t)
         /\ Filled(t)' <=> Filled(t)
         /\ \A f : Kept(t, f)' <=> Kept(t, f)
BY DEF Evidence, Filled, has_product, Kept, Overwrites

\* A record of the current surface stays behind its fingerprint and its marks.
LEMMA SyncedStep ==
  ASSUME IInv, [Next]_vars
  PROVE  Synced'
<1> USE DEF IInv, Typed, Synced, Marked
<1>1. ASSUME UNCHANGED <<surface, fingerprint, marker, record>>
      PROVE  Synced'
  BY <1>1
<1>2. CASE EditSurface
  BY <1>2 DEF EditSurface
<1>3. CASE NormaliseSurface
  <2>1. surface'.version = surface.version
        /\ (surface.form = "normal" => surface'.form = "normal")
    BY <1>3 DEF NormaliseSurface
  <2> QED
    BY <1>3, <2>1 DEF NormaliseSurface
<1>4. CASE WriteFingerprint
  BY <1>4 DEF WriteFingerprint
<1>5. CASE Mark
  <2>1. at <= Len(TARGETS) /\ Here \in Targets /\ marker' = [marker EXCEPT ![Here] = surface.version]
    BY <1>5, HereIs DEF Mark
  <2>2. (\A t \in Targets : marker[t] = surface.version)
          => \A t \in Targets : marker'[t] = surface.version
    BY <2>1
  <2> QED
    BY <1>5, <2>2 DEF Mark
<1>6. CASE WriteRecord
  <2>1. \A t \in Targets : marker[t] = surface.version
    BY <1>6, Sizes DEF WriteRecord, Loops
  <2> QED
    BY <1>6, <2>1 DEF WriteRecord, Loops
<1>7. CASE Kill
  <2>1. CASE UNCHANGED <<surface, fingerprint, marker, record>>
    BY <2>1
  <2>2. CASE surface.form = "raw" /\ surface' = [surface EXCEPT !.form = "invalid"] /\ record' = record
    BY <2>2
  <2>3. CASE fingerprint # surface.version /\ UNCHANGED <<surface, record>>
    BY <2>3
  <2>4. CASE /\ at <= Len(TARGETS) /\ marker[Here] # surface.version
             /\ UNCHANGED <<surface, record>>
    BY <2>4, HereIs
  <2>5. CASE record' = [version |-> 0, holds |-> Nothing] /\ surface' = surface
    BY <2>5
  <2> QED
    BY <1>7, <2>1, <2>2, <2>3, <2>4, <2>5 DEF Kill, diskVars
<1>8. CASE (\E t \in Targets : EditSources(t)) \/ WriteFile
  BY <1>1, <1>8 DEF EditSources, WriteFile
<1>9. CASE Start \/ EnterTarget \/ LeaveTarget \/ Scaffolded \/ Verify
  BY <1>1, <1>9 DEF Start, EnterTarget, LeaveTarget, Scaffolded, Verify, diskVars
<1>10. CASE UNCHANGED vars
  BY <1>1, <1>10 DEF vars, diskVars
<1> QED
  BY <1>2, <1>3, <1>4, <1>5, <1>6, <1>7, <1>8, <1>9, <1>10 DEF Next

\* What an edit or a torn write did shows in the record until it is written anew.
LEMMA ShownStep ==
  ASSUME IInv, [Next]_vars
  PROVE  Shown'
<1>0. Typed /\ Typed' /\ Grows
  BY StepGrows DEF IInv
<1>1. ASSUME surface'.version = surface.version, record' = record, dirty' => dirty
      PROVE  Shown'
  <2>1. \A t \in Targets : Outdated(t) => Outdated(t)'
    BY <1>0, <1>1, OutdatedStays
  <2> QED
    BY <1>1, <2>1 DEF IInv, Shown
<1>2. CASE EditSurface
  BY <1>2 DEF EditSurface, IInv, Typed, Shown
<1>3. ASSUME NEW t \in Targets, EditSources(t)
      PROVE  Shown'
  <2>1. UNCHANGED <<surface, record>>
    BY <1>3 DEF EditSources
  <2>2. CASE dirty
    BY <1>1, <2>1, <2>2
  <2>3. CASE ~ dirty
    <3>1. record.holds[t] = Evidence(t)
      BY <2>3 DEF IInv, InOrder
    <3>2. CASE \E native \in BOOLEAN :
                 own' = [own EXCEPT ![t] = [version |-> @.version + 1,
                                            native |-> @.native \/ native]]
      <4>1. own'[t].version = own[t].version + 1 /\ own[t].version \in Nat
        BY <1>0, <3>2 DEF Typed
      <4>2. record.holds[t][2].version = own[t].version
        BY <3>1 DEF Evidence
      <4>3. Outdated(t)'
        BY <2>1, <4>1, <4>2 DEF Outdated
      <4> QED
        BY <4>3 DEF Shown
    <3>3. CASE \E f \in Files(t) : disk[<<t, f>>] # "hand"
                                   /\ disk' = [disk EXCEPT ![<<t, f>>] = "hand"]
      <4>1. PICK f \in Files(t) : disk[<<t, f>>] # "hand"
                                  /\ disk' = [disk EXCEPT ![<<t, f>>] = "hand"]
        BY <3>3
      <4>2. disk'[<<t, f>>] = "hand"
        BY <1>0, <4>1, CellOf DEF Typed
      <4>3. record.holds[t][1][f] = disk[<<t, f>>]
        BY <3>1 DEF Evidence
      <4>4. Rank(record.holds'[t][1][f]) < Rank(disk'[<<t, f>>])
        BY <2>1, <4>1, <4>2, <4>3 DEF Rank
      <4>5. Outdated(t)'
        BY <4>4 DEF Outdated
      <4> QED
        BY <4>5 DEF Shown
    <3> QED
      BY <1>3, <3>2, <3>3 DEF EditSources
  <2> QED
    BY <2>2, <2>3
<1>4. CASE NormaliseSurface
  <2>1. surface'.version = surface.version
    BY <1>4 DEF NormaliseSurface
  <2> QED
    BY <1>1, <1>4, <2>1 DEF NormaliseSurface
<1>5. CASE WriteRecord
  BY <1>5 DEF WriteRecord, Shown
<1>6. CASE Kill
  <2>1. CASE UNCHANGED diskVars
    <3>1. dirty' = dirty /\ UNCHANGED <<surface, record>>
      BY <1>0, <1>6, <2>1 DEF Kill, diskVars, Typed
    <3> QED
      BY <1>1, <3>1
  <2>2. CASE /\ phase = "scaffold" /\ at <= Len(TARGETS) /\ file \in 1..Len(Baseline[Here])
             /\ Overwrites(Here, file)
             /\ disk' = [disk EXCEPT ![<<Here, file>>] = "torn"]
             /\ UNCHANGED <<own, surface, fingerprint, marker, record>>
    <3>1. Here \in Targets /\ file \in Files(Here)
      BY <1>0, <2>2, HereIs
    <3>2. CASE dirty
      BY <1>1, <2>2, <3>2
    <3>3. CASE ~ dirty
      BY <2>2, <3>1, <3>3 DEF IInv, Loops, Kept
    <3> QED
      BY <1>0, <3>2, <3>3 DEF Typed
  <2>3. CASE /\ phase = "surface" /\ surface.form = "raw"
             /\ UNCHANGED record /\ surface' = [surface EXCEPT !.form = "invalid"]
    <3>1. record.version # surface.version /\ surface'.version = surface.version
      BY <1>0, <2>3 DEF IInv, Synced, Typed
    <3> QED
      BY <2>3, <3>1 DEF Shown
  <2>4. CASE fingerprint # surface.version /\ UNCHANGED <<surface, record>>
    BY <2>4 DEF IInv, Synced, Shown
  <2>5. CASE /\ at <= Len(TARGETS) /\ marker[Here] # surface.version
             /\ UNCHANGED <<surface, record>>
    BY <1>0, <2>5, HereIs DEF IInv, Synced, Marked, Shown
  <2>6. CASE record' = [version |-> 0, holds |-> Nothing] /\ surface' = surface
    BY <1>0, <2>6 DEF Typed, Shown
  <2> QED
    BY <1>6, <2>1, <2>2, <2>3, <2>4, <2>5, <2>6 DEF Kill
<1>7. CASE WriteFile \/ WriteFingerprint \/ Mark
  BY <1>1, <1>7 DEF WriteFile, WriteFingerprint, Mark
<1>8. CASE Start \/ EnterTarget \/ LeaveTarget \/ Scaffolded \/ Verify
  BY <1>1, <1>8 DEF Start, EnterTarget, LeaveTarget, Scaffolded, Verify, diskVars, ghostVars
<1>9. CASE UNCHANGED vars
  BY <1>1, <1>9 DEF vars, diskVars, ghostVars
<1> QED
  BY <1>2, <1>3, <1>4, <1>5, <1>6, <1>7, <1>8, <1>9 DEF Next

\* In a repository in order a run of the loops changes no directory.
LEMMA NothingToWrite ==
  ASSUME IInv, ~ dirty, WriteFile
  PROVE  disk' = disk
<1>1. at <= Len(TARGETS) /\ Here \in Targets /\ file \in Files(Here) /\ file > 0
  BY HereIs DEF WriteFile, IInv
<1>2. Kept(Here, file)
  BY <1>1 DEF IInv, Loops, WriteFile
<1> QED
  BY <1>2 DEF WriteFile, Kept

\* As long as nothing happens, the record is right.
LEMMA InOrderStep ==
  ASSUME IInv, [Next]_vars
  PROVE  InOrder'
<1>0. Typed
  BY DEF IInv
<1>1. ASSUME disk' = disk, own' = own, record' = record, surface'.version = surface.version,
             dirty => dirty'
      PROVE  InOrder'
  BY <1>1, Still DEF IInv, InOrder
<1>2. CASE EditSurface \/ \E t \in Targets : EditSources(t)
  BY <1>2 DEF EditSurface, EditSources, InOrder
<1>3. CASE WriteFile
  <2>1. CASE dirty
    BY <1>3, <2>1 DEF WriteFile, InOrder
  <2>2. CASE ~ dirty
    BY <1>1, <1>3, <2>2, NothingToWrite DEF WriteFile
  <2> QED
    BY <1>0, <2>1, <2>2 DEF Typed
<1>4. CASE NormaliseSurface
  <2>1. surface'.version = surface.version
    BY <1>0, <1>4 DEF NormaliseSurface, Typed
  <2> QED
    BY <1>1, <1>4, <2>1 DEF NormaliseSurface
<1>5. CASE WriteRecord
  <2>1. at = Len(TARGETS) + 1 /\ phase = "mark"
    BY <1>5 DEF WriteRecord
  <2>2. \A t \in Targets : collected[t] = Evidence(t) /\ Filled(t)
    BY <2>1, Sizes DEF IInv, Loops
  <2>3. \A t \in Targets : record'.holds[t] = collected[t]
    BY <1>5 DEF WriteRecord
  <2>4. \A t \in Targets : record'.holds[t] = Evidence(t)' /\ Filled(t)'
    BY <1>5, <2>2, <2>3, Still DEF WriteRecord
  <2>5. record'.version = surface'.version
    BY <1>5 DEF WriteRecord
  <2> QED
    BY <2>4, <2>5 DEF InOrder
<1>6. CASE Kill
  <2>1. CASE UNCHANGED diskVars
    BY <1>1, <1>6, <2>1 DEF Kill, diskVars
  <2>2. CASE diskVars' # diskVars
    BY <1>6, <2>2 DEF Kill, InOrder
  <2> QED
    BY <2>1, <2>2
<1>7. CASE WriteFingerprint \/ Mark
  BY <1>1, <1>7 DEF WriteFingerprint, Mark
<1>8. CASE Start \/ EnterTarget \/ LeaveTarget \/ Scaffolded \/ Verify
  BY <1>1, <1>8 DEF Start, EnterTarget, LeaveTarget, Scaffolded, Verify, diskVars, ghostVars
<1>9. CASE UNCHANGED vars
  BY <1>1, <1>9 DEF vars, diskVars, ghostVars
<1> QED
  BY <1>2, <1>3, <1>4, <1>5, <1>6, <1>7, <1>8, <1>9 DEF Next

\* Only an edit adds sources.
LEMMA NativeStep ==
  ASSUME IInv, [Next]_vars
  PROVE  Native'
<1>1. ASSUME own' = own
      PROVE  Native'
  BY <1>1 DEF IInv, Native
<1>2. CASE \E t \in Targets : EditSources(t)
  BY <1>2, EditGrows DEF IInv
<1>3. CASE EditSurface \/ WriteFile \/ NormaliseSurface \/ WriteFingerprint \/ Mark \/ WriteRecord
  BY <1>1, <1>3 DEF EditSurface, WriteFile, NormaliseSurface, WriteFingerprint, Mark, WriteRecord
<1>4. CASE Start \/ EnterTarget \/ LeaveTarget \/ Scaffolded \/ Verify
  BY <1>1, <1>4 DEF Start, EnterTarget, LeaveTarget, Scaffolded, Verify, diskVars
<1>5. CASE Kill
  <2>1. own' = own
    BY <1>5 DEF Kill, diskVars
  <2> QED
    BY <1>1, <2>1
<1>6. CASE UNCHANGED vars
  BY <1>1, <1>6 DEF vars, diskVars
<1> QED
  BY <1>2, <1>3, <1>4, <1>5, <1>6 DEF Next

\* What verify_client_contract.py accepts was not edited since the last complete
\* run.
LEMMA GateShows ==
  ASSUME IInv, GatePasses
  PROVE  ~ dirty
<1>1. record.version = surface.version /\ \A t \in Targets : record.holds[t] = Evidence(t)
  BY DEF GatePasses, Recorded
<1>2. ASSUME NEW t \in Targets
      PROVE  ~ Outdated(t)
  <2>0. record.holds[t] = Evidence(t)
    BY <1>1
  <2>1. own[t].version \in Nat
    BY DEF IInv, Typed
  <2>2. record.holds[t][2].version = own[t].version
    BY <2>0 DEF Evidence
  <2>3. \A f \in Files(t) : record.holds[t][1][f] = disk[<<t, f>>]
    BY <2>0 DEF Evidence
  <2>4. \A f \in Files(t) : ~ (Rank(record.holds[t][1][f]) < Rank(disk[<<t, f>>]))
    BY <2>3 DEF Rank
  <2>5. record.holds[t][2].version \notin 0..(own[t].version - 1)
    BY <2>1, <2>2
  <2> QED
    BY <2>4, <2>5, Zenon DEF Outdated
<1> QED
  BY <1>1, <1>2 DEF IInv, Shown

\* And what was not edited is accepted.
LEMMA ShowsGate ==
  ASSUME IInv, ~ dirty
  PROVE  GatePasses
<1>1. /\ record.version = surface.version /\ record.version # 0
      /\ \A t \in Targets : record.holds[t] = Evidence(t) /\ Filled(t)
  BY DEF IInv, Typed, InOrder
<1>2. Marked /\ fingerprint = surface.version /\ surface.form = "normal"
  BY <1>1 DEF IInv, Synced
<1>3. ASSUME NEW t \in Targets
      PROVE  own[t].version > 0 \/ \E f \in Files(t) : disk[<<t, f>>] # "absent"
  <2>1. CASE has_product(t)
    BY <2>1 DEF has_product, IInv, Native
  <2>2. CASE \A f \in Files(t) : Kept(t, f)
    <3>1. 1 \in Files(t)
      BY Sizes
    <3> QED
      BY <2>2, <3>1 DEF Kept, Overwrites
  <2> QED
    BY <1>1, <2>1, <2>2 DEF Filled
<1> QED
  BY <1>1, <1>2, <1>3 DEF GatePasses, Recorded

\* The loops go on where they are, over what they have filled and marked.
LEMMA LoopsStep ==
  ASSUME IInv, [Next]_vars
  PROVE  Loops'
<1>0. Typed /\ Typed' /\ Loops
  BY StepGrows DEF IInv
<1>1. CASE phase' \in {"idle", "verify", "passed", "failed"}
  BY <1>1 DEF Loops
<1>2. CASE Start
  <2>1. phase' = "scaffold" \/ phase' = "verify"
    BY <1>2 DEF Start
  <2>2. ASSUME phase' = "scaffold"
        PROVE  Loops'
    <3>1. at' = 1 /\ file' = 0
      BY <1>2 DEF Start
    <3>2. at' <= Len(TARGETS) => Len(Baseline[Here'])+1 > 0 /\ Files(Here') = 1..Len(Baseline[Here'])
      BY <3>1, Sizes DEF Here
    <3> QED
      BY <2>2, <3>1, <3>2, Sizes DEF Loops, Here
  <2> QED
    BY <1>1, <2>1, <2>2
<1>3. CASE EnterTarget
  <2>0. /\ phase = "scaffold" /\ phase' = "scaffold" /\ at <= Len(TARGETS) /\ file = 0
        /\ disk' = disk /\ own' = own /\ dirty' = dirty /\ at \in Nat \ {0}
        /\ Here \in Targets /\ Files(Here) = 1..Len(Baseline[Here])
    BY <1>0, <1>3, HereIs DEF EnterTarget, diskVars, ghostVars, Typed
  <2>1. CASE has_product(Here)
    <3>1. at' = at + 1 /\ file' = 0
      BY <1>3, <2>0, <2>1 DEF EnterTarget
    <3>0. Filled(Here)
      BY <2>1 DEF Filled
    <3>2. \A k \in 1..at : Filled(TARGETS[k])
      BY <1>0, <2>0, <3>0 DEF Loops, Here
    <3>3. \A k \in 1..(at' - 1) : Filled(TARGETS[k])'
      BY <2>0, <3>1, <3>2, Still
    <3>4. at' <= Len(TARGETS) => Files(Here') = 1..Len(Baseline[Here']) /\ Len(Baseline[Here']) \in Nat
      BY <2>0, <3>1, Sizes DEF Here
    <3> QED
      BY <2>0, <3>1, <3>3, <3>4 DEF Loops, Here
  <2>2. CASE ~ has_product(Here)
    <3>1. at' = at /\ file' = 1 /\ Here' = Here
      BY <1>3, <2>0, <2>2 DEF EnterTarget, Here
    <3>2. \A k \in 1..(at' - 1) : Filled(TARGETS[k])'
      BY <1>0, <2>0, <3>1, Still DEF Loops
    <3>3. PICK h \in Targets : h = Here
      BY <2>0
    <3>4. ~ dirty => \A f \in Files(h) : Kept(h, f)
      BY <2>0, <2>2, <3>3 DEF IInv, InOrder, Filled
    <3>5. ~ dirty' => \A f \in Files(h) : Kept(h, f)'
      BY <2>0, <3>4, Still
    <3>6. Len(Baseline[h]) \in Nat /\ Files(h) = 1..Len(Baseline[h])
      BY Sizes
    <3>7. \A f \in Files(h) : ~ (f < file')
      BY <3>1, <3>6
    <3> QED
      BY <2>0, <3>1, <3>2, <3>3, <3>5, <3>6, <3>7 DEF Loops
  <2> QED
    BY <2>1, <2>2
<1>4. CASE WriteFile
  <2>0. /\ phase = "scaffold" /\ phase' = "scaffold" /\ at <= Len(TARGETS) /\ at' = at
        /\ file' = file + 1 /\ dirty' = dirty /\ at \in Nat \ {0} /\ file \in Nat \ {0}
        /\ Here \in Targets /\ Here' = Here /\ file \in Files(Here)
    BY <1>0, <1>4, HereIs DEF WriteFile, Typed, Here
  <2>1. PICK h \in Targets, g \in Nat : h = Here /\ g = file
    BY <2>0
  <2>2. Files(h) = 1..Len(Baseline[h]) /\ Len(Baseline[h]) \in Nat /\ g \in Files(h)
    BY <2>0, <2>1, Sizes
  <2>3. \A k \in 1..(at' - 1) : Filled(TARGETS[k])'
    <3>1. \A k \in 1..(at - 1) : TARGETS[k] \in Targets /\ Filled(TARGETS[k])
      BY <1>0, <2>0, Sizes DEF Loops
    <3> QED
      BY <1>0, <2>0, <3>1, StepStays
  <2>4. Kept(h, g)'
    <3>1. CASE Overwrites(h, g)
      <4>1. disk'[<<h, g>>] = "baseline"
        BY <1>0, <1>4, <2>1, <2>2, <3>1, CellOf DEF WriteFile, Typed
      <4> QED
        BY <4>1 DEF Kept, Overwrites
    <3>2. CASE ~ Overwrites(h, g)
      BY <1>0, <2>2, <3>2, StepStays DEF Kept
    <3> QED
      BY <3>1, <3>2
  <2>5. ASSUME NEW f \in Files(h), f < g + 1
        PROVE  Kept(h, f)'
    <3>1. CASE f = g
      BY <2>4, <3>1
    <3>2. CASE f < g
      <4>1. Kept(h, f)
        BY <1>0, <2>0, <2>1, <3>2 DEF Loops
      <4> QED
        BY <1>0, <4>1, StepStays
    <3> QED
      BY <2>1, <2>2, <2>5, <3>1, <3>2
  <2>6. ASSUME ~ dirty, NEW f \in Files(h)
        PROVE  Kept(h, f)'
    <3>0. file > 0
      BY <2>0
    <3>1. \A i \in Files(Here) : Kept(Here, i)
      BY <1>0, <2>0, <2>6, <3>0, Zenon DEF Loops
    <3>2. Kept(h, f)
      BY <2>1, <3>1
    <3> QED
      BY <1>0, <3>2, StepStays
  <2> QED
    BY <2>0, <2>1, <2>2, <2>3, <2>5, <2>6 DEF Loops
<1>5. CASE LeaveTarget
  <2>0. /\ phase = "scaffold" /\ phase' = "scaffold" /\ at <= Len(TARGETS) /\ at' = at + 1
        /\ file = Len(Baseline[Here]) + 1 /\ file' = 0
        /\ disk' = disk /\ own' = own /\ at \in Nat \ {0}
        /\ Here \in Targets /\ Files(Here) = 1..Len(Baseline[Here]) /\ Len(Baseline[Here]) \in Nat
    BY <1>0, <1>5, HereIs, Sizes DEF LeaveTarget, diskVars, Typed
  <2>1. Filled(Here)
    BY <1>0, <2>0 DEF Loops, Filled
  <2>2. \A k \in 1..at : Filled(TARGETS[k])
    BY <1>0, <2>0, <2>1 DEF Loops, Here
  <2>3. \A k \in 1..(at' - 1) : Filled(TARGETS[k])'
    BY <2>0, <2>2, Still
  <2>4. at' <= Len(TARGETS) => Files(Here') = 1..Len(Baseline[Here']) /\ Len(Baseline[Here']) \in Nat
    BY <2>0, Sizes DEF Here
  <2> QED
    BY <2>0, <2>3, <2>4 DEF Loops, Here
<1>6. CASE Scaffolded
  <2>0. /\ phase = "scaffold" /\ phase' = "surface" /\ at = Len(TARGETS) + 1
        /\ disk' = disk /\ own' = own
    BY <1>6 DEF Scaffolded, diskVars
  <2>1. \A t \in Targets : Filled(t)
    BY <1>0, <2>0, Sizes DEF Loops
  <2> QED
    BY <2>0, <2>1, Still DEF Loops
<1>7. CASE NormaliseSurface
  <2>1. CASE surface.form = "invalid"
    BY <1>1, <1>7, <2>1 DEF NormaliseSurface
  <2>2. CASE surface.form # "invalid"
    <3>1. phase' = "fingerprint" /\ surface'.form = "normal" /\ disk' = disk /\ own' = own
      BY <1>0, <1>7, <2>2 DEF NormaliseSurface, Typed, Forms
    <3>2. \A t \in Targets : Filled(t)'
      BY <1>0, <1>7, <3>1, Still DEF NormaliseSurface, Loops
    <3> QED
      BY <3>1, <3>2 DEF Loops
  <2> QED
    BY <2>1, <2>2
<1>8. CASE WriteFingerprint
  <2>1. /\ phase' = "mark" /\ surface' = surface /\ fingerprint' = surface.version
        /\ surface.form = "normal" /\ at' = 1 /\ disk' = disk /\ own' = own
    BY <1>0, <1>8 DEF WriteFingerprint, Loops
  <2>2. \A t \in Targets : Filled(t)'
    BY <1>0, <1>8, <2>1, Still DEF WriteFingerprint, Loops
  <2> QED
    BY <2>1, <2>2 DEF Loops
<1>9. CASE Mark
  <2>0. /\ phase = "mark" /\ phase' = "mark" /\ surface' = surface /\ fingerprint' = fingerprint
        /\ at <= Len(TARGETS) /\ at' = at + 1 /\ at \in Nat \ {0}
        /\ disk' = disk /\ own' = own /\ Here \in Targets
        /\ marker' = [marker EXCEPT ![Here] = surface.version]
        /\ collected' = [collected EXCEPT ![Here] = Evidence(Here)]
    BY <1>0, <1>9, HereIs DEF Mark, Typed
  <2>1. \A t \in Targets : Filled(t)'
    BY <1>0, <2>0, Still DEF Loops
  <2>2. /\ marker'[Here] = surface.version /\ collected'[Here] = Evidence(Here)
        /\ \A t \in Targets : t # Here => marker'[t] = marker[t] /\ collected'[t] = collected[t]
    BY <1>0, <2>0 DEF Typed, IInv, Tables
  <2>3. ASSUME NEW k \in 1..at
        PROVE  /\ marker'[TARGETS[k]] = surface.version
               /\ collected'[TARGETS[k]] = Evidence(TARGETS[k])
    <3>1. TARGETS[k] \in Targets
      BY <2>0, Sizes
    <3>2. CASE TARGETS[k] = Here
      BY <2>2, <3>2
    <3>3. CASE TARGETS[k] # Here
      <4>1. k \in 1..(at - 1)
        BY <2>0, <3>3 DEF Here
      <4> QED
        BY <1>0, <2>0, <2>2, <3>1, <3>3, <4>1 DEF Loops
    <3> QED
      BY <3>2, <3>3
  <2>4. \A k \in 1..(at' - 1) : /\ marker'[TARGETS[k]] = surface'.version
                                /\ collected'[TARGETS[k]] = Evidence(TARGETS[k])'
    BY <2>0, <2>3, Still
  <2> QED
    BY <1>0, <2>0, <2>1, <2>4 DEF Loops
<1>10. CASE UNCHANGED vars
  <2>1. /\ UNCHANGED <<disk, own, surface, fingerprint, marker, collected, phase, at, file, dirty>>
    BY <1>10 DEF vars, diskVars, runVars, ghostVars
  <2>2. Here' = Here
    BY <2>1 DEF Here
  <2> QED
    BY <1>0, <2>1, <2>2, Still DEF Loops
<1>11. CASE EditSurface \/ (\E t \in Targets : EditSources(t)) \/ WriteRecord \/ Verify \/ Kill
  <2>1. phase' \in {"idle", "verify", "passed", "failed"}
    BY <1>11 DEF EditSurface, EditSources, WriteRecord, Verify, Kill
  <2> QED
    BY <1>1, <2>1
<1> QED
  BY <1>2, <1>3, <1>4, <1>5, <1>6, <1>7, <1>8, <1>9, <1>10, <1>11 DEF Next

\* A run that started in order goes on writing nothing.
LEMMA QuietStep ==
  ASSUME IInv, [Next]_vars
  PROVE  Quiet'
<1>0. Typed /\ Quiet
  BY DEF IInv
<1>1. ASSUME ~ dirty
      PROVE  /\ record.version = surface.version
             /\ surface.form = "normal" /\ fingerprint = surface.version
             /\ \A t \in Targets : marker[t] = surface.version
             /\ \A t \in Targets : record.holds[t] = Evidence(t)
  BY <1>1 DEF IInv, InOrder, Synced, Marked
<1>2. ASSUME UNCHANGED <<settled, dirty, wrote>>, ~ Idle
      PROVE  Quiet'
  BY <1>0, <1>2 DEF Quiet
<1>3. CASE EditSurface \/ \E t \in Targets : EditSources(t)
  BY <1>0, <1>3 DEF EditSurface, EditSources, Quiet, Idle
<1>4. CASE Start
  <2>1. wrote' = FALSE /\ dirty' = dirty /\ settled' = GatePasses
    BY <1>4 DEF Start
  <2>2. CASE GatePasses
    BY <2>1, <2>2, GateShows DEF Quiet
  <2>3. CASE ~ GatePasses
    BY <2>1, <2>3 DEF Quiet
  <2> QED
    BY <2>2, <2>3
<1>5. CASE EnterTarget \/ LeaveTarget \/ Scaffolded \/ Verify
  BY <1>2, <1>5 DEF EnterTarget, LeaveTarget, Scaffolded, Verify, ghostVars, Idle
<1>6. CASE WriteFile
  <2>1. ~ Idle /\ settled' = settled /\ dirty' = dirty /\ wrote' = (wrote \/ disk' # disk)
    BY <1>6 DEF WriteFile, Idle
  <2>2. CASE settled
    <3>1. ~ dirty /\ ~ wrote
      BY <1>0, <2>1, <2>2 DEF Quiet
    <3>2. disk' = disk
      BY <1>6, <3>1, NothingToWrite
    <3> QED
      BY <2>1, <3>1, <3>2 DEF Quiet
  <2>3. CASE ~ settled
    BY <2>1, <2>3 DEF Quiet
  <2> QED
    BY <2>2, <2>3
<1>7. CASE NormaliseSurface
  <2>1. ~ Idle /\ settled' = settled /\ dirty' = dirty /\ wrote' = (wrote \/ surface' # surface)
    BY <1>7 DEF NormaliseSurface, Idle
  <2>2. CASE settled
    <3>1. ~ dirty /\ ~ wrote
      BY <1>0, <2>1, <2>2 DEF Quiet
    <3>2. surface' = surface
      BY <1>1, <1>7, <3>1 DEF NormaliseSurface
    <3> QED
      BY <2>1, <3>1, <3>2 DEF Quiet
  <2>3. CASE ~ settled
    BY <2>1, <2>3 DEF Quiet
  <2> QED
    BY <2>2, <2>3
<1>8. CASE WriteFingerprint
  <2>1. /\ ~ Idle /\ settled' = settled /\ dirty' = dirty
        /\ wrote' = (wrote \/ fingerprint' # fingerprint) /\ fingerprint' = surface.version
    BY <1>8 DEF WriteFingerprint, Idle
  <2>2. CASE settled
    <3>1. ~ dirty /\ ~ wrote
      BY <1>0, <2>1, <2>2 DEF Quiet
    <3>2. fingerprint' = fingerprint
      BY <1>1, <2>1, <3>1
    <3> QED
      BY <2>1, <3>1, <3>2 DEF Quiet
  <2>3. CASE ~ settled
    BY <2>1, <2>3 DEF Quiet
  <2> QED
    BY <2>2, <2>3
<1>9. CASE Mark
  <2>1. /\ ~ Idle /\ settled' = settled /\ dirty' = dirty
        /\ wrote' = (wrote \/ marker' # marker)
        /\ marker' = [marker EXCEPT ![Here] = surface.version] /\ at <= Len(TARGETS)
    BY <1>9 DEF Mark, Idle
  <2>2. CASE settled
    <3>1. ~ dirty /\ ~ wrote
      BY <1>0, <2>1, <2>2 DEF Quiet
    <3>2. marker' = marker
      BY <1>0, <1>1, <2>1, <3>1, HereIs DEF Typed
    <3> QED
      BY <2>1, <3>1, <3>2 DEF Quiet
  <2>3. CASE ~ settled
    BY <2>1, <2>3 DEF Quiet
  <2> QED
    BY <2>2, <2>3
<1>10. ASSUME ~ dirty, phase = "mark", at = Len(TARGETS) + 1
       PROVE  record = [version |-> surface.version, holds |-> collected]
  <2>1. \A t \in Targets : collected[t] = Evidence(t)
    BY <1>10, Sizes DEF IInv, Loops
  <2>2. \A t \in Targets : record.holds[t] = collected[t]
    BY <1>1, <1>10, <2>1
  <2>3. record.holds = collected
    BY <2>2 DEF IInv, Tables
  <2> QED
    BY <1>1, <1>10, <2>3 DEF IInv, Tables
<1>11. CASE WriteRecord
  <2>1. /\ ~ Idle /\ settled' = settled /\ ~ dirty'
        /\ wrote' = (wrote \/ record' # record)
        /\ record' = [version |-> surface.version, holds |-> collected]
        /\ phase = "mark" /\ at = Len(TARGETS) + 1
    BY <1>11 DEF WriteRecord, Idle
  <2>2. CASE settled
    <3>1. ~ dirty /\ ~ wrote
      BY <1>0, <2>1, <2>2 DEF Quiet
    <3>2. record' = record
      BY <1>10, <2>1, <3>1
    <3> QED
      BY <2>1, <3>1, <3>2 DEF Quiet
  <2>3. CASE ~ settled
    BY <2>1, <2>3 DEF Quiet
  <2> QED
    BY <2>2, <2>3
<1>12. CASE Kill
  <2>1. /\ ~ Idle /\ settled' = settled /\ phase' = "idle"
        /\ wrote' = (wrote \/ diskVars' # diskVars)
    BY <1>12 DEF Kill
  <2>2. CASE settled
    <3>1. ~ dirty /\ ~ wrote
      BY <1>0, <2>1, <2>2 DEF Quiet
    <3>2. ~ /\ phase = "scaffold" /\ at <= Len(TARGETS) /\ file \in 1..Len(Baseline[Here])
            /\ Overwrites(Here, file)
      <4>1. ASSUME phase = "scaffold", at <= Len(TARGETS), file \in 1..Len(Baseline[Here])
            PROVE  Kept(Here, file)
        <5>1. file \in Files(Here) /\ file > 0
          BY <1>0, <4>1, HereIs, Sizes
        <5> QED
          BY <3>1, <4>1, <5>1 DEF IInv, Loops
      <4> QED
        BY <4>1 DEF Kept
    <3>3. surface.form # "raw" /\ fingerprint = surface.version
      BY <1>1, <3>1
    <3>4. at <= Len(TARGETS) => marker[Here] = surface.version
      BY <1>0, <1>1, <3>1, HereIs
    <3>5. diskVars' = diskVars
      BY <1>10, <1>12, <3>1, <3>2, <3>3, <3>4 DEF Kill
    <3> QED
      BY <2>1, <3>1, <3>5 DEF Quiet, Idle
  <2>3. CASE ~ settled
    BY <2>1, <2>3 DEF Quiet
  <2> QED
    BY <2>2, <2>3
<1>13. CASE UNCHANGED vars
  BY <1>0, <1>13 DEF vars, runVars, ghostVars, Quiet, Idle
<1> QED
  BY <1>3, <1>4, <1>5, <1>6, <1>7, <1>8, <1>9, <1>11, <1>12, <1>13 DEF Next

-----------------------------------------------------------------------------
(* The theorems. *)

\* The invariant holds before the first run.
LEMMA InitIInv == Init => IInv
<1> SUFFICES ASSUME Init
             PROVE  IInv
  OBVIOUS
<1> USE DEF Init
<1>1. Typed
  <2>1. disk \in [Cells -> Contents]
    BY StartsWellFormed
  <2>2. own \in [Targets -> [version : Nat, native : BOOLEAN]]
    OBVIOUS
  <2>3. surface \in [version : Nat \ {0}, form : Forms]
    BY DEF Forms
  <2>4. dirty \in BOOLEAN /\ settled \in BOOLEAN /\ wrote \in BOOLEAN
    OBVIOUS
  <2>5. /\ fingerprint \in 0..surface.version
        /\ marker \in [Targets -> 0..surface.version]
        /\ record.version \in 0..surface.version
    OBVIOUS
  <2>6. phase \in Phases /\ at \in 1..(Len(TARGETS) + 1) /\ file \in Nat
    BY Sizes DEF Phases
  <2> QED
    BY <2>1, <2>2, <2>3, <2>4, <2>5, <2>6 DEF Typed
<1>2. Tables
  BY DEF Tables, Nothing
<1>3. Loops
  BY DEF Loops
<1>4. Synced
  BY DEF Synced
<1>5. Shown /\ InOrder /\ Quiet
  BY DEF Shown, InOrder, Quiet
<1>6. Native
  BY DEF Native
<1> QED
  BY <1>1, <1>2, <1>3, <1>4, <1>5, <1>6 DEF IInv

\* The invariant of the runs: between the last complete run and the next edit
\* or torn write, the repository is in order and no loop of the script disturbs it.
THEOREM RunsAreOrderly == Spec => []IInv
<1>1. IInv /\ [Next]_vars => IInv'
  <2> SUFFICES ASSUME IInv, [Next]_vars
               PROVE  IInv'
    OBVIOUS
  <2>1. Typed'
    BY StepGrows DEF IInv
  <2>2. Tables'
    BY TablesStep DEF IInv
  <2> QED
    BY <2>1, <2>2, LoopsStep, SyncedStep, ShownStep, InOrderStep, QuietStep, NativeStep DEF IInv
<1> QED
  BY InitIInv, <1>1, PTL DEF Spec

\* The model is well typed whatever the tables, the start and the edits.
THEOREM ContentTypeCorrect == Spec => []TypeOK
<1>1. IInv => TypeOK
  <2> SUFFICES ASSUME IInv
               PROVE  TypeOK
    OBVIOUS
  <2>1. file \in 0..(IF phase = "scaffold" /\ at <= Len(TARGETS)
                     THEN Len(Baseline[Here]) + 1 ELSE file)
    BY HereIs, Sizes DEF IInv, Typed, Loops
  <2>2. surface \in [version : Nat, form : Forms]
    BY DEF IInv, Typed
  <2> QED
    BY <2>1, <2>2 DEF IInv, Typed, TypeOK
<1> QED
  BY RunsAreOrderly, <1>1, PTL

\* A complete --write run satisfies both verifiers, whatever runs were killed
\* before it, until the next edit or torn write.
THEOREM CompleteRunsPass == Spec => []CompleteRunPasses
<1>1. IInv => CompleteRunPasses
  BY ShowsGate DEF CompleteRunPasses
<1> QED
  BY RunsAreOrderly, <1>1, PTL

\* No number of partial runs makes verify_client_contract.py accept an edit no
\* complete run has recorded.
THEOREM GateSeesEveryEdit == Spec => []GateSeesEdits
<1>1. IInv => GateSeesEdits
  BY GateShows DEF GateSeesEdits
<1> QED
  BY RunsAreOrderly, <1>1, PTL

\* A run on a repository in order writes nothing at all.
THEOREM RerunsWriteNothing == Spec => []RerunWritesNothing
<1>1. IInv => RerunWritesNothing
  BY DEF IInv, Quiet, RerunWritesNothing
<1> QED
  BY RunsAreOrderly, <1>1, PTL

\* No step of the script, and no torn write of it, touches a file the maintainers
\* wrote.
THEOREM HandFilesAreKept == Spec => HandFilesKept
<1>1. IInv /\ [Next]_vars =>
        [\A t \in Targets : \A f \in Files(t) :
           disk[<<t, f>>] = "hand" => disk'[<<t, f>>] = "hand"]_vars
  <2> SUFFICES ASSUME IInv, [Next]_vars, NEW t \in Targets, NEW f \in Files(t),
                      disk[<<t, f>>] = "hand"
               PROVE  disk'[<<t, f>>] = "hand"
    OBVIOUS
  <2>1. Typed' /\ Grows
    BY StepGrows DEF IInv
  <2>2. disk'[<<t, f>>] = disk[<<t, f>>] \/ Rank(disk[<<t, f>>]) < Rank(disk'[<<t, f>>])
    BY <2>1 DEF Grows
  <2>3. ~ (Rank("hand") < Rank(disk'[<<t, f>>]))
    BY DEF Rank
  <2> QED
    BY <2>2, <2>3
<1> QED
  BY RunsAreOrderly, <1>1, PTL DEF Spec, HandFilesKept

=============================================================================
