----------------------------- MODULE LazySearch ------------------------------
(***************************************************************************)
(* LazySearchEngine.run of vladder/lazy_search.py: a best-first search that*)
(* asks an expansion policy about every state it takes from its heap, keeps*)
(* one owner for each semantic identity, and lets a proposer and a verifier*)
(* merge equivalent siblings.  The result is a trace of every node with its*)
(* disposition, which composition_native.py and executable_search.py turn  *)
(* into training lineage.                                                  *)
(*                                                                         *)
(* The grammar is external: a record of its methods as functions.  A node  *)
(* is the path of lazy states that leads to it, which is what _node_id     *)
(* hashes.  The heap is a set: the scores of a frontier policy are any     *)
(* numbers, so any queued node may be the first.                           *)
(***************************************************************************)
EXTENDS Naturals, Sequences, FiniteSets

CONSTANTS
  LazyStates,   \* what a grammar emits: a semantic state with its action
  Identities,   \* LazyState.identity
  Classes,      \* classes of identities that are equivalent as programs
  Grammars,     \* the grammars a search may be given
  Modes,        \* the modes the search may be called in
  Reserved,     \* identities of the exploration reserve
  NodeBudget(_),  \* the node_budget of a call in a mode
  WorkBudget(_),  \* its work_budget, Nil for None
  Deadline,     \* TRUE if there is a time_budget_seconds
  Nil           \* Python's None

Statuses == {"possible", "impossible", "dominated"}
AnytimeModes == {"fast", "guided", "exhaustive"}
Nodes == Seq(LazyStates) \ {<<>>}

Dispositions ==
  {"impossible", "dominated", "canonical_duplicate", "verified_equivalent",
   "policy_pruned", "deferred", "terminal", "expanded"}

TraceNodes == [node : Nodes, disposition : Dispositions, canonicalOf : Nodes \cup {Nil}]

ASSUME LazyAssumption ==
  /\ Modes \subseteq AnytimeModes \cup {"shadow_exhaustive", "live"}
  /\ Reserved \subseteq Identities
  /\ \A m \in Modes : NodeBudget(m) \in Nat /\ WorkBudget(m) \in (Nat \ {0}) \cup {Nil}
  /\ Nil \notin Nat /\ Nil \notin Nodes
  /\ Deadline \in BOOLEAN

ClassOf(gr, s) == gr.class[gr.identity[s]]
Possible(gr, s) == gr.status[s] = "possible"
Elements(kids) == {kids[i] : i \in DOMAIN kids}
ChildClasses(gr, kids) == {ClassOf(gr, s) : s \in {t \in Elements(kids) : Possible(gr, t)}}

EmittedOnce(kids) == \A i, j \in DOMAIN kids : kids[i] = kids[j] => i = j

\* What the engine takes for granted of a grammar and a verifier: no state is
\* emitted twice with one action, and the states of one class end alike and
\* have the same classes of children.
IsGrammar(gr) ==
  /\ gr.initial \in Seq(LazyStates)
  /\ gr.expand \in [LazyStates -> Seq(LazyStates)]
  /\ gr.identity \in [LazyStates -> Identities]
  /\ gr.class \in [Identities -> Classes]
  /\ gr.status \in [LazyStates -> Statuses]
  /\ gr.terminal \in SUBSET LazyStates
  /\ EmittedOnce(gr.initial)
  /\ \A s \in LazyStates : EmittedOnce(gr.expand[s])
  /\ \A s, t \in LazyStates :
       ClassOf(gr, s) = ClassOf(gr, t) =>
         /\ s \in gr.terminal <=> t \in gr.terminal
         /\ ChildClasses(gr, gr.expand[s]) = ChildClasses(gr, gr.expand[t])

ASSUME LazyGrammarAssumption == \A gr \in Grammars : IsGrammar(gr)

VARIABLES
  grammar,    \* the grammar searched
  mode,       \* the mode of this call
  phase,      \* where run is
  queue,      \* the heap: nodes
  fresh,      \* eligible children enqueue has not pushed yet
  owner,      \* canonical_owner
  traces,     \* traces
  terminals,  \* terminals
  complete,   \* complete
  work        \* work

vars == <<grammar, mode, phase, queue, fresh, owner, traces, terminals, complete, work>>

TypeOK ==
  /\ IsGrammar(grammar)
  /\ mode \in Modes
  /\ phase \in {"start", "enqueue", "loop", "done"}
  /\ queue \in SUBSET Nodes
  /\ fresh \in SUBSET Nodes
  /\ owner \in [Identities -> Nodes \cup {Nil}]
  /\ traces \in SUBSET TraceNodes
  /\ terminals \in SUBSET LazyStates
  /\ complete \in BOOLEAN
  /\ work \in Nat

Tip(n) == n[Len(n)]
ParentOf(n) == SubSeq(n, 1, Len(n) - 1)
IdentityOf(n) == grammar.identity[Tip(n)]
Traced(n, disposition, canonicalOf) ==
  [node |-> n, disposition |-> disposition, canonicalOf |-> canonicalOf]

Init ==
  /\ grammar \in Grammars
  /\ mode \in Modes
  /\ phase = "start"
  /\ queue = {} /\ fresh = {} /\ traces = {} /\ terminals = {}
  /\ owner = [x \in Identities |-> Nil]
  /\ complete = TRUE
  /\ work = 0

-----------------------------------------------------------------------------
(* enqueue: screening in the order of emission, then merging, then pushing *)

\* The places in kids whose state becomes the owner of its identity.
Eligible(kids) ==
  {i \in DOMAIN kids :
     /\ Possible(grammar, kids[i])
     /\ owner[grammar.identity[kids[i]]] = Nil
     /\ \A j \in 1 .. (i - 1) :
          Possible(grammar, kids[j]) => grammar.identity[kids[j]] # grammar.identity[kids[i]]}

\* canonical_owner after the loop over the children
OwnersAfter(parent, kids) ==
  [x \in Identities |->
     IF \E i \in Eligible(kids) : grammar.identity[kids[i]] = x
       THEN Append(parent, kids[CHOOSE i \in Eligible(kids) : grammar.identity[kids[i]] = x])
       ELSE owner[x]]

\* Mutant of ScreenedOut: duplicates are skipped without a trace
OnlyClosedTraced(parent, kids) ==
  {Traced(Append(parent, kids[i]), grammar.status[kids[i]], Nil) :
     i \in {j \in DOMAIN kids : ~Possible(grammar, kids[j])}}

\* The children that are traced and go no further
ScreenedOut(parent, kids) ==
  {Traced(Append(parent, kids[i]), grammar.status[kids[i]], Nil) :
     i \in {j \in DOMAIN kids : ~Possible(grammar, kids[j])}}
  \cup
  {Traced(Append(parent, kids[i]), "canonical_duplicate",
          OwnersAfter(parent, kids)[grammar.identity[kids[i]]]) :
     i \in {j \in DOMAIN kids : Possible(grammar, kids[j])} \ Eligible(kids)}

Screen(parent, kids, tracesSoFar) ==
  /\ owner' = OwnersAfter(parent, kids)
  /\ fresh' = {Append(parent, kids[i]) : i \in Eligible(kids)}
  /\ traces' = tracesSoFar \cup ScreenedOut(parent, kids)
  /\ phase' = "enqueue"

\* Mutant of Alias: the proposal is taken without the verifier
AliasUnverified(left, right) ==
  /\ phase = "enqueue"
  /\ left # right
  /\ fresh' = fresh \ {right}
  /\ traces' = traces \cup {Traced(right, "verified_equivalent", left)}
  /\ UNCHANGED <<grammar, mode, phase, queue, owner, terminals, complete, work>>

\* A proposed pair that the verifier accepts: the right one is an alias of the
\* left one, unless either is an alias already.
Alias(left, right) ==
  /\ phase = "enqueue"
  /\ left # right
  /\ ClassOf(grammar, Tip(left)) = ClassOf(grammar, Tip(right))
  /\ fresh' = fresh \ {right}
  /\ traces' = traces \cup {Traced(right, "verified_equivalent", left)}
  /\ UNCHANGED <<grammar, mode, phase, queue, owner, terminals, complete, work>>

Push ==
  /\ phase = "enqueue"
  /\ queue' = queue \cup fresh
  /\ fresh' = {}
  /\ phase' = "loop"
  /\ UNCHANGED <<grammar, mode, owner, traces, terminals, complete, work>>

Seed ==
  /\ phase = "start"
  /\ Screen(<<>>, grammar.initial, traces)
  /\ UNCHANGED <<grammar, mode, queue, terminals, complete, work>>

-----------------------------------------------------------------------------
(* The loop *)

OverBudget ==
  \/ Cardinality(traces) >= NodeBudget(mode)
  \/ WorkBudget(mode) # Nil /\ work >= WorkBudget(mode)

\* Mutant of Stop: break without complete = False
StopQuietly ==
  /\ phase = "loop" /\ queue # {}
  /\ OverBudget \/ Deadline
  /\ phase' = "done"
  /\ UNCHANGED <<grammar, mode, queue, fresh, owner, traces, terminals, complete, work>>

\* Mutant of Stop: continue in place of break
StopContinues ==
  /\ phase = "loop" /\ queue # {}
  /\ OverBudget \/ Deadline
  /\ complete' = FALSE
  /\ UNCHANGED <<grammar, mode, phase, queue, fresh, owner, traces, terminals, work>>

Stop ==
  /\ phase = "loop" /\ queue # {}
  /\ OverBudget \/ Deadline
  /\ complete' = FALSE
  /\ phase' = "done"
  /\ UNCHANGED <<grammar, mode, queue, fresh, owner, traces, terminals, work>>

\* Mutant of Pop: the first node of the heap is read and left there
Peek(n) ==
  /\ phase = "loop" /\ ~OverBudget
  /\ n \in queue
  /\ queue' = queue
  /\ work' = work + 1

Pop(n) ==
  /\ phase = "loop" /\ ~OverBudget
  /\ n \in queue
  /\ queue' = queue \ {n}
  /\ work' = work + 1

\* The anytime modes replace the caller's policy by ExhaustivePolicy.
MayDecline == mode \notin AnytimeModes

\* ConservativePolicy.decide lets a confident PRUNE outside the reserve through
\* and turns every other PRUNE into EXPAND.
MayPrune(n) == MayDecline /\ IdentityOf(n) \notin Reserved

PolicyPrunes(n) ==
  /\ Pop(n)
  /\ MayPrune(n)
  /\ complete' = FALSE
  /\ traces' = traces \cup {Traced(n, "policy_pruned", Nil)}
  /\ UNCHANGED <<grammar, mode, phase, fresh, owner, terminals>>

PolicyDefers(n) ==
  /\ Pop(n)
  /\ MayDecline
  /\ complete' = FALSE
  /\ traces' = traces \cup {Traced(n, "deferred", Nil)}
  /\ UNCHANGED <<grammar, mode, phase, fresh, owner, terminals>>

ReachTerminal(n) ==
  /\ Pop(n)
  /\ Tip(n) \in grammar.terminal
  /\ terminals' = terminals \cup {Tip(n)}
  /\ traces' = traces \cup {Traced(n, "terminal", Nil)}
  /\ UNCHANGED <<grammar, mode, phase, fresh, owner, complete>>

Expand(n) ==
  /\ Pop(n)
  /\ Tip(n) \notin grammar.terminal
  /\ Screen(n, grammar.expand[Tip(n)], traces \cup {Traced(n, "expanded", Nil)})
  /\ UNCHANGED <<grammar, mode, terminals, complete>>

Finish ==
  /\ phase = "loop" /\ queue = {}
  /\ phase' = "done"
  /\ UNCHANGED <<grammar, mode, queue, fresh, owner, traces, terminals, complete, work>>

Next ==
  \/ Seed
  \/ \E left, right \in fresh : Alias(left, right)
  \/ Push
  \/ \E n \in queue : PolicyPrunes(n) \/ PolicyDefers(n) \/ ReachTerminal(n) \/ Expand(n)
  \/ Stop
  \/ Finish

Spec == Init /\ [][Next]_vars

\* run is one sequential call: while it can take a step it does.
FairSpec == Spec /\ WF_vars(Next)

-----------------------------------------------------------------------------
(* The search as a search of the graph of classes *)

Explored == {t.node : t \in {u \in traces : u.disposition \in {"expanded", "terminal"}}}
ClassesOf(nodes) == {ClassOf(grammar, Tip(n)) : n \in nodes}

ClassGraph ==
  [ roots |-> ChildClasses(grammar, grammar.initial),
    succ  |-> [c \in Classes |->
                 UNION {ChildClasses(grammar, grammar.expand[s]) :
                          s \in {t \in LazyStates \ grammar.terminal : ClassOf(grammar, t) = c}}] ]

Answer ==
  CASE phase = "start" -> "none"
    [] phase \in {"enqueue", "loop"} -> "searching"
    [] phase = "done" -> IF complete THEN "complete" ELSE "partial"

Graph == INSTANCE GraphSearch WITH
  Nodes  <- Classes,
  graph  <- ClassGraph,
  open   <- ClassesOf(queue \cup fresh) \ ClassesOf(Explored),
  closed <- ClassesOf(Explored),
  whole  <- complete,
  answer <- Answer

\* The lazy search is a search of the graph of classes: memoization, merged
\* siblings, priorities, declined states and budgets never let it say
\* "complete" of a search that dropped a class.
GraphSpec == Graph!Spec

\* A result that says complete = True has a terminal of every class of
\* terminals the grammar reaches, and of no other
LazyExact ==
  phase = "done" /\ complete =>
    {ClassOf(grammar, s) : s \in terminals}
      = {c \in Graph!Reachable :
           \E s \in LazyStates : ClassOf(grammar, s) = c /\ s \in grammar.terminal}

\* The lineage is closed: the parent of every node that is traced or queued
\* was traced as expanded, and a node is traced once
\* (_build_trace looks the parent up by its id)
Lineage ==
  /\ \A n \in {t.node : t \in traces} \cup queue \cup fresh :
       Len(n) > 1 => Traced(ParentOf(n), "expanded", Nil) \in traces
  /\ \A t, u \in traces : t.node = u.node => t = u

\* The count that replaces child_count at the end
ChildCount(n) == Cardinality({t \in traces : Len(t.node) > 1 /\ ParentOf(t.node) = n})

\* Under complete = True _build_trace calls the children of every expanded node
\* "exhaustive" with the recounted number: that number is what the grammar
\* emitted, and every canonical_of names an emitted node
ExhaustiveIsWhole ==
  phase = "done" /\ complete =>
    /\ \A t \in traces : t.disposition = "expanded" =>
         ChildCount(t.node) = Len(grammar.expand[Tip(t.node)])
    /\ \A t \in traces : t.canonicalOf # Nil =>
         \E u \in traces : u.node = t.canonicalOf

\* The search ends, also on grammars whose states lead back to each other
LazyEnds == <>(phase = "done")
=============================================================================
