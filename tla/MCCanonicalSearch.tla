-------------------------- MODULE MCCanonicalSearch --------------------------
(***************************************************************************)
(* Small grammars for CanonicalSearch.  A state is the set of features     *)
(* that are on; the action x turns feature x on, needs some features and   *)
(* turns some off, so that actions enable, disable and undo each other.    *)
(*   goal      the number of features at which a state is terminal         *)
(*   needs     checked by "grammar" (enabled_actions), by "apply"          *)
(*             (apply_action refuses what enabled_actions lists), or       *)
(*             declared to the "engine" as requirements, with drops        *)
(*             declared as conflicts that no action then undoes            *)
(*   alike     "a" and "b" are interchangeable nonobservable identities    *)
(*   por, ample    the options of the search                               *)
(*   stopped   the search meets its limits and dies, and is resumed        *)
(***************************************************************************)
EXTENDS CanonicalSearch

Features == {"a", "b", "c"}
Enter == "enter"
MCActions == Features \cup {Enter}
AtMostOne == {{}} \cup {{x} : x \in Features}
\* SUBSET Features, enumerated
MCStates == AtMostOne \cup {Features \ s : s \in AtMostOne}

Terminated(gr, s) == Cardinality(s) >= gr.goal
Needed(gr, x, s) == gr.checked = "engine" \/ gr.needs[x] \subseteq s

MCInitialStates(gr) == <<[act |-> Enter, st |-> {}]>>
MCEnabledActions(gr, s) ==
  CASE Terminated(gr, s) -> {}
    [] gr.checked = "apply" -> Features
    [] OTHER -> {x \in Features \ s : Needed(gr, x, s)}
MCApplyAction(gr, s, x) ==
  IF x \in Features \ s /\ Needed(gr, x, s) /\ ~Terminated(gr, s)
  THEN (IF gr.checked = "engine" THEN s ELSE s \ gr.drops[x]) \cup {x} ELSE Nil
MCTerminalStates(gr) == {s \in MCStates : Terminated(gr, s)}
MCNative(gr) == gr.native

Swap(x) == CASE x = "a" -> "b" [] x = "b" -> "a" [] OTHER -> x
Swapped(s) == {Swap(x) : x \in s}
MCCanon(gr, s) == IF gr.alike /\ "b" \in s /\ "a" \notin s THEN Swapped(s) ELSE s

Alphabetical(gr, x) ==
  CASE x = "a" -> 1 [] x = "b" -> 2 [] x = "c" -> 3 [] OTHER -> 4
Reversed(gr, x) == 5 - Alphabetical(gr, x)
\* Footprints that pass static_screen: soundness then rests on verify alone
MCFootprint(gr, x) ==
  [ complete |-> x # Enter, reads |-> {x}, writes |-> {x}, exclusive |-> {}, ordered |-> FALSE,
    requires |-> IF gr.checked = "engine" /\ x # Enter THEN gr.needs[x] ELSE {},
    conflicts |-> IF gr.checked = "engine" /\ x # Enter THEN gr.drops[x] ELSE {} ]

MCPorPolicy(gr) == gr.por
MCLearned(gr) == ~gr.stopped
MCMaxStops(gr) == IF gr.stopped THEN 1 ELSE 0
MCMaxCrashes(gr) == MCMaxStops(gr)
MCNodeBudget(gr) == IF gr.ample THEN 100 ELSE 4
MCWorkBudget(gr) == IF gr.ample THEN 100 ELSE 5

-----------------------------------------------------------------------------
\* Needs and drops of at most one other feature each
Rules == {f \in [Features -> AtMostOne] : \A x \in Features : x \notin f[x]}
Symmetric(f) == \A x \in Features : f[Swap(x)] = Swapped(f[x])
SymmetricRules == {f \in Rules : Symmetric(f)}

\* POR at every state, and where the cost gate chooses
ReducedGrammars ==
  [needs : Rules, drops : Rules, goal : 2..3, native : {TRUE}, alike : {FALSE}, ample : {TRUE},
   checked : {"grammar"}, por : {"always"}, stopped : {FALSE}]
  \cup
  [needs : Rules, drops : Rules, goal : 2..3, native : {TRUE}, alike : {FALSE}, ample : {TRUE},
   checked : {"apply"}, por : {"adaptive"}, stopped : {FALSE}]
SymmetricGrammars ==
  [needs : SymmetricRules, drops : SymmetricRules, goal : 2..3, native : BOOLEAN, alike : {TRUE},
   ample : {TRUE}, checked : {"grammar"}, por : {"off"}, stopped : {FALSE}]
\* Requirements and conflicts of grammars whose states record what was done
RequiringGrammars ==
  [needs : Rules, drops : Rules, goal : 2..3, native : {TRUE}, alike : {FALSE}, ample : {TRUE},
   checked : {"engine"}, por : {"off"}, stopped : {FALSE}]
CompleteGrammars == ReducedGrammars \cup SymmetricGrammars \cup RequiringGrammars

\* With POR off a search that was stopped still has to get its depths right
DeepGrammars ==
  [needs : Rules, drops : Rules, goal : {3}, native : {TRUE}, alike : {FALSE}, ample : BOOLEAN,
   checked : {"grammar"}, por : {"always"}, stopped : {TRUE}]
  \cup
  [needs : SymmetricRules, drops : Rules, goal : {3}, native : {TRUE}, alike : {FALSE},
   ample : {TRUE}, checked : {"grammar"}, por : {"off"}, stopped : {TRUE}]
\* A grammar without enabled_actions and apply_action cannot be resumed, and one
\* with interchangeable identities only sometimes (see README)
StoppedGrammars ==
  DeepGrammars
    \cup {[gr EXCEPT !.stopped = TRUE] : gr \in {h \in SymmetricGrammars : ~h.native}}

MCGrammars == CompleteGrammars \cup StoppedGrammars

SymmetricPorGrammars == {[gr EXCEPT !.por = "always"] : gr \in SymmetricGrammars}

=============================================================================
