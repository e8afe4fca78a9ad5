---------------------------- MODULE MCLazySearch -----------------------------
(***************************************************************************)
(* Small grammars for LazySearch.  Of the six lazy states "a" is where a   *)
(* search starts, "d" and "e" are one semantic state reached by two        *)
(* actions, "t" is a terminal.  The family varies whether "b" is an        *)
(* initial state too, what "a", "b" and "c" emit and in which order,       *)
(* which states the grammar calls impossible or dominated, and whether     *)
(* "b" and "c" are equivalent programs.                                    *)
(***************************************************************************)
EXTENDS LazySearch

MCLazyStates == {"a", "b", "c", "d", "e", "t"}
MCIdentity == [s \in MCLazyStates |-> IF s = "e" THEN "d" ELSE s]
MCIdentities == {"a", "b", "c", "d", "t"}
MCClasses == {"a", "b", "c", "d", "t"}

Grammar(first, fromA, fromB, fromC, class, status) ==
  [ initial  |-> first,
    expand   |-> [s \in MCLazyStates |->
                    CASE s = "a" -> fromA
                      [] s = "b" -> fromB
                      [] s = "c" -> fromC
                      [] s \in {"d", "e"} -> <<"t", "b">>
                      [] OTHER -> <<>>],
    identity |-> MCIdentity,
    class    |-> class,
    status   |-> status,
    terminal |-> {"t"} ]

Emissions ==
  {<<>>, <<"t">>, <<"d", "e">>, <<"e", "c">>, <<"b", "c">>, <<"c", "b">>,
   <<"a", "t">>, <<"b", "c", "d">>}

AllDifferent == [x \in MCIdentities |-> x]
BCEqual == [AllDifferent EXCEPT !["c"] = "b"]

AllPossible == [s \in MCLazyStates |-> "possible"]
StatusChoices ==
  {AllPossible, [AllPossible EXCEPT !["d"] = "impossible"],
   [AllPossible EXCEPT !["c"] = "dominated"]}

MCGrammars ==
  {gr \in {Grammar(ini, fa, fb, fc, cl, st) :
             ini \in {<<"a">>, <<"a", "b">>},
             fa \in Emissions, fb \in Emissions, fc \in Emissions,
             cl \in {AllDifferent, BCEqual}, st \in StatusChoices} :
     IsGrammar(gr)}

\* A budget that some grammars exceed, and one that none does; a live call is
\* ended by its time limit only
MCNodeBudget(m) == IF m \in {"guided", "shadow_exhaustive"} THEN 7 ELSE 50
MCWorkBudget(m) == IF m = "exhaustive" THEN 4 ELSE Nil
=============================================================================
