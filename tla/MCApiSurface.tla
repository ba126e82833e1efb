---------------------------- MODULE MCApiSurface ----------------------------
(***************************************************************************)
(* ApiSurface for TLC: a repository without a surface and one whose        *)
(* maintainers have listed the standard symbols in another order; new      *)
(* symbols that clash with a standard one, that leak, and that leak where  *)
(* the boundary test does not look; an overload, a method that leaks and a *)
(* name nobody has.                                                        *)
(***************************************************************************)
EXTENDS ApiSurface

MCNamespaces == {"Ftnl", "Ft"}
MCWords == StandardWords \cup {"Extra", "more", "Nowhere"}
Ours(name) == <<"Ftnl", name>>
Extra == Plain("Extra")
Standard == baseline_symbols("Ftnl")

MCStarts == {
  [symbols |-> <<>>, namespace |-> "Ftnl"],
  [symbols |-> Tail(Standard) \o <<Head(Standard)>>, namespace |-> "Ftnl"] }
MCNewSymbols == {
  Symbol(Ours("Client"), "class", "public", {}, <<>>, <<>>, <<>>),
  Symbol(Extra, "type", "public", Refs("named", {Ours("_RequestContext")}), <<>>, <<>>, <<>>),
  Symbol(Extra, "class", "public", Refs("implements", {Ours("_TelemetrySink")}),
         <<>>, <<>>, <<Method("health", "public", "async", {})>>) }
MCNewMethods == { Method("health", "public", "async", {}),
                  Method("more", "private", "sync", {Plain("Nowhere")}),
                  Method("more", "public", "sync", {Ours("_RequestContext")}) }
MCNewNames == {Ours("Client"), Extra}
=============================================================================
