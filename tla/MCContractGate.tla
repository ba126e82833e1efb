--------------------------- MODULE MCContractGate ---------------------------
(***************************************************************************)
(* ContractGate for TLC: an ordinary target, a runtime that may live in    *)
(* its own directory, in the shared TypeScript package or outside clients/ *)
(* and two extensions whose names differ in case only.  The manifest may   *)
(* have an alias of the runtime and an early name of the repository.       *)
(***************************************************************************)
EXTENDS ContractGate

MCRows == {"c", "nodejs"}
MCRuntimeOf == [c |-> "none", nodejs |-> "nodejs"]
MCShared == "clients/typescript"
Own == "clients/typescript/nodejs"
MCChildren == {"clients/c", MCShared, "clients/Lua", "clients/lua"}
MCClients == MCChildren \cup {Own}
MCDirs == MCClients \cup {"sdk/node"}
MCUnder == [d \in MCDirs |-> IF d = MCShared THEN {MCShared, Own} ELSE {d}]
MCKebab == [d \in MCChildren |->
  IF d \in {"clients/Lua", "clients/lua"} THEN "lua" ELSE d]
MCPlaces == [c |-> {"clients/c"}, nodejs |-> {Own, MCShared, "sdk/node"}]

MCNames == {"repository", "contract", "c", "nodejs", "typescript"}
Undeclared == [n \in MCNames |-> "none"]

\* A repository with little in it; two that keep their runtime in the shared package, one of
\* them with a mature manifest that declares it twice; one where that package is a
\* link before the first run; and one that keeps the runtime outside clients/.
Bare == [d \in MCDirs |-> IF d = MCShared THEN "nothing" ELSE "absent"]
InShared == [Bare EXCEPT ![MCShared] = "edited"]
Start(d, s, l, m) == [place |-> [c |-> "clients/c", nodejs |-> d], stuff |-> s,
                      linked |-> l, manifest |-> m]
MCStarts == {
  Start(Own, [Bare EXCEPT ![Own] = "nothing"], {}, [Undeclared EXCEPT !["contract"] = "."]),
  Start(MCShared, InShared, {}, [Undeclared EXCEPT !["typescript"] = MCShared]),
  Start(MCShared, InShared, {},
        [n \in MCNames |-> CASE n = "repository" -> "."
                             [] n = "contract"   -> "none"
                             [] n = "c"          -> "clients/c"
                             [] OTHER            -> MCShared]),
  Start(MCShared, InShared, {MCShared}, [Undeclared EXCEPT !["nodejs"] = MCShared]),
  Start("sdk/node", [Bare EXCEPT !["sdk/node"] = "edited", !["clients/lua"] = "notes"], {},
        [Undeclared EXCEPT !["nodejs"] = "sdk/node", !["typescript"] = "sdk/node"]) }
=============================================================================
