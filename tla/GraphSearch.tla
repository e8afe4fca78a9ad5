----------------------------- MODULE GraphSearch -----------------------------
(***************************************************************************)
(* What a search of a finite graph promises, whatever its order, its       *)
(* memoization and its budgets: it ends with "complete" only if it left    *)
(* nothing out, and then it has explored exactly the nodes the roots       *)
(* reach.  LazySearch implements it over classes of equivalent states.     *)
(***************************************************************************)
CONSTANT Nodes

VARIABLES
  graph,   \* the roots and the successors of each node
  open,    \* seen, not explored
  closed,  \* explored
  whole,   \* nothing that was seen has been dropped
  answer   \* what the search has said so far

vars == <<graph, open, closed, whole, answer>>

Graphs == [roots : SUBSET Nodes, succ : [Nodes -> SUBSET Nodes]]
Answers == {"none", "searching", "complete", "partial"}

TypeOK ==
  /\ graph \in Graphs
  /\ open \in SUBSET Nodes
  /\ closed \in SUBSET Nodes
  /\ whole \in BOOLEAN
  /\ answer \in Answers

Init ==
  /\ graph \in Graphs
  /\ open = {} /\ closed = {}
  /\ whole = TRUE
  /\ answer = "none"

Start ==
  /\ answer = "none"
  /\ open' = graph.roots
  /\ answer' = "searching"
  /\ UNCHANGED <<graph, closed, whole>>

\* While nothing has been dropped every successor is kept.
Explore(c) ==
  /\ answer = "searching"
  /\ c \in open \/ (c \in closed /\ ~whole)
  /\ closed' = closed \cup {c}
  /\ \E kept \in SUBSET (graph.succ[c] \ closed') :
       /\ whole => kept = graph.succ[c] \ closed'
       /\ open' = (open \ {c}) \cup kept
  /\ UNCHANGED <<graph, whole, answer>>

Drop(c) ==
  /\ answer = "searching"
  /\ whole' = FALSE
  /\ open' \in {open, open \ {c}}
  /\ UNCHANGED <<graph, closed, answer>>

GiveUp ==
  /\ answer = "searching"
  /\ answer' = "partial"
  /\ whole' = FALSE
  /\ UNCHANGED <<graph, open, closed>>

Finish ==
  /\ answer = "searching"
  /\ open = {}
  /\ answer' = IF whole THEN "complete" ELSE "partial"
  /\ UNCHANGED <<graph, open, closed, whole>>

Next ==
  \/ Start
  \/ \E c \in Nodes : Explore(c) \/ Drop(c)
  \/ GiveUp
  \/ Finish

Spec == Init /\ [][Next]_vars

\* The nodes the roots reach: the least set that holds the roots and the
\* successors of its members.
ClosedUnderSucc(S) == graph.roots \subseteq S /\ \A c \in S : graph.succ[c] \subseteq S

Reachable == {c \in Nodes : \A S \in SUBSET Nodes : ClosedUnderSucc(S) => c \in S}

\* "complete" means that exactly the reachable nodes were explored
CompleteIsReachable == answer = "complete" => closed = Reachable
=============================================================================
