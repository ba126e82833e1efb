-------------------------- MODULE MCHardenContent --------------------------
(***************************************************************************)
(* HardenContent for TLC: the C target, whose baseline has two files among *)
(* the sources, and the Zig target, whose build file has an older          *)
(* template; three runs and two edits between them.                        *)
(***************************************************************************)
EXTENDS HardenContent

MCTargets == <<"c", "zig">>

Config == [native |-> FALSE, migrates |-> FALSE]
Source == [native |-> TRUE, migrates |-> FALSE]
BuildFile == [native |-> FALSE, migrates |-> TRUE]

\* CMakeLists.txt, the header, the source; build.zig, root.zig.
MCBaseline == [t \in {"c", "zig"} |->
  IF t = "c" THEN <<Config, Source, Source>> ELSE <<BuildFile, Source>>]

Disk(c, zig) == [cell \in Cells |-> IF cell[1] = "c" THEN c[cell[2]] ELSE zig[cell[2]]]
NoFile == <<"absent", "absent", "absent">>

\* Nothing yet, a package under way, and what an earlier release left.
MCStarts == {Disk(NoFile, zig) : zig \in {<<"absent", "absent">>, <<"hand", "absent">>,
                                         <<"legacy", "absent">>, <<"legacy", "baseline">>}}

=============================================================================
