-------------------------- MODULE LazySearchProofs ---------------------------
(***************************************************************************)
(* For every grammar that respects its classes, every policy, every order  *)
(* of the heap and all budgets: the lazy search implements GraphSearch,    *)
(* keeps its lineage, and takes finitely many steps.                       *)
(***************************************************************************)
EXTENDS LazySearch, TLAPS, FiniteSetTheorems, WellFoundedInduction

Seen == queue \cup fresh \cup Explored

\* Before the search nothing is there; children wait in fresh only inside
\* enqueue; an answer is final.
PhasesFit ==
  /\ phase # "enqueue" => fresh = {}
  /\ phase = "start" =>
       queue = {} /\ traces = {} /\ complete /\ \A x \in Identities : owner[x] = Nil

\* While the search may still be complete, an owned identity has a state of its
\* class in the heap, in enqueue's hands or explored.
OwnedIsSeen ==
  complete =>
    \A x \in Identities : owner[x] # Nil => grammar.class[x] \in ClassesOf(Seen)

\* While the search may still be complete, what an explored class leads to has
\* been seen.
ExploredIsClosed ==
  complete => \A c \in ClassesOf(Explored) : ClassGraph.succ[c] \subseteq ClassesOf(Seen)

LazyInv == TypeOK /\ PhasesFit /\ OwnedIsSeen /\ ExploredIsClosed

-----------------------------------------------------------------------------
\* A nonempty set of naturals has a least element.
LEMMA LeastIndex ==
  ASSUME NEW T \in SUBSET Nat, T # {}
  PROVE  \E i \in T : \A j \in T : ~(j < i)
<1>1. IsWellFoundedOn(OpToRel(<, Nat), Nat)
  BY NatLessThanWellFounded
<1> DEFINE R == OpToRel(<, Nat)
<1>2. \A x, y \in Nat : x < y => <<x, y>> \in R
  BY DEF OpToRel
<1>3. IsWellFoundedOn(R, Nat)
  BY <1>1
<1> HIDE DEF R
<1>4. PICK i \in T : \A j \in T : ~(<<j, i>> \in R)
  BY <1>3, WFMin
<1>5. QED
  BY <1>2, <1>4

\* The last state of an extended path is the state it was extended by.
LEMMA TipOfAppend ==
  ASSUME NEW p \in Seq(LazyStates), NEW s \in LazyStates
  PROVE  Append(p, s) \in Nodes /\ Tip(Append(p, s)) = s
BY DEF Nodes, Tip

LEMMA TipType ==
  ASSUME NEW n \in Nodes
  PROVE  n \in Seq(LazyStates) /\ Tip(n) \in LazyStates
BY DEF Nodes, Tip

LEMMA ClassType ==
  ASSUME IsGrammar(grammar), NEW s \in LazyStates
  PROVE  grammar.identity[s] \in Identities /\ ClassOf(grammar, s) \in Classes
BY DEF IsGrammar, ClassOf

LEMMA ChildClassesType ==
  ASSUME IsGrammar(grammar), NEW kids \in Seq(LazyStates)
  PROVE  ChildClasses(grammar, kids) \in SUBSET Classes
BY ClassType DEF ChildClasses, Elements

\* A class leads where each of its states leads, and nowhere if they are terminal.
LEMMA SuccOfClass ==
  ASSUME IsGrammar(grammar), NEW s \in LazyStates
  PROVE  ClassGraph.succ[ClassOf(grammar, s)] =
           IF s \in grammar.terminal THEN {} ELSE ChildClasses(grammar, grammar.expand[s])
<1> DEFINE c == ClassOf(grammar, s)
           Mates == {t \in LazyStates \ grammar.terminal : ClassOf(grammar, t) = c}
<1>1. c \in Classes
  BY ClassType
<1>2. ClassGraph.succ[c] = UNION {ChildClasses(grammar, grammar.expand[t]) : t \in Mates}
  BY <1>1 DEF ClassGraph
<1>3. \A t \in Mates : /\ s \notin grammar.terminal
                       /\ ChildClasses(grammar, grammar.expand[t])
                            = ChildClasses(grammar, grammar.expand[s])
  BY DEF IsGrammar
<1>4. s \notin grammar.terminal => s \in Mates
  OBVIOUS
<1> HIDE DEF Mates, c
<1>5. CASE s \in grammar.terminal
  BY <1>2, <1>3, <1>5 DEF c
<1>6. CASE s \notin grammar.terminal
  BY <1>2, <1>3, <1>4, <1>6 DEF c
<1>7. QED
  BY <1>5, <1>6

LEMMA GraphType == ASSUME IsGrammar(grammar) PROVE ClassGraph \in Graph!Graphs
<1>1. ChildClasses(grammar, grammar.initial) \in SUBSET Classes
  BY ChildClassesType DEF IsGrammar
<1>2. ASSUME NEW c \in Classes
      PROVE UNION {ChildClasses(grammar, grammar.expand[s]) :
                     s \in {t \in LazyStates \ grammar.terminal : ClassOf(grammar, t) = c}}
              \in SUBSET Classes
  BY ChildClassesType DEF IsGrammar
<1>3. QED
  BY <1>1, <1>2 DEF ClassGraph, Graph!Graphs

-----------------------------------------------------------------------------
\* A possible child either had an owner or now has one among the eligible.
LEMMA ScreenedHasOwner ==
  ASSUME TypeOK, NEW kids \in Seq(LazyStates), NEW k \in DOMAIN kids,
         Possible(grammar, kids[k]), owner[grammar.identity[kids[k]]] = Nil
  PROVE  \E i \in Eligible(kids) : grammar.identity[kids[i]] = grammar.identity[kids[k]]
<1> DEFINE x == grammar.identity[kids[k]]
           T == {i \in DOMAIN kids : Possible(grammar, kids[i]) /\ grammar.identity[kids[i]] = x}
<1>1. T \in SUBSET Nat /\ k \in T
  OBVIOUS
<1>2. PICK i \in T : \A j \in T : ~(j < i)
  <2> HIDE DEF T
  <2>1. QED BY <1>1, LeastIndex
<1>3. i \in DOMAIN kids /\ i \in 1 .. Len(kids)
  OBVIOUS
<1>4. ASSUME NEW j \in 1 .. (i - 1), Possible(grammar, kids[j])
      PROVE  grammar.identity[kids[j]] # x
  <2>1. j \in DOMAIN kids /\ j < i
    BY <1>3
  <2>2. j \notin T
    BY <1>2, <2>1
  <2>3. QED
    BY <1>4, <2>1, <2>2
<1>5. i \in Eligible(kids)
  BY <1>2, <1>3, <1>4 DEF Eligible
<1>6. QED
  BY <1>2, <1>5

\* What the eligible children of a screened list are, as classes.
LEMMA FreshClasses ==
  ASSUME TypeOK, NEW p \in Seq(LazyStates), NEW kids \in Seq(LazyStates),
         NEW new, new = {Append(p, kids[i]) : i \in Eligible(kids)}
  PROVE  /\ new \in SUBSET Nodes
         /\ ClassesOf(new) \subseteq ChildClasses(grammar, kids)
         /\ \A i \in Eligible(kids) :
              grammar.class[grammar.identity[kids[i]]] \in ClassesOf(new)
<1>1. \A i \in Eligible(kids) : /\ i \in DOMAIN kids
                                /\ kids[i] \in LazyStates
                                /\ Possible(grammar, kids[i])
  BY DEF Eligible
<1>2. \A i \in Eligible(kids) : /\ Append(p, kids[i]) \in Nodes
                                /\ Tip(Append(p, kids[i])) = kids[i]
  BY <1>1, TipOfAppend
<1>3. new \in SUBSET Nodes
  BY <1>2
<1>4. \A i \in Eligible(kids) : ClassOf(grammar, kids[i]) \in ChildClasses(grammar, kids)
  BY <1>1 DEF ChildClasses, Elements
<1>5. ClassesOf(new) \subseteq ChildClasses(grammar, kids)
  BY <1>2, <1>4 DEF ClassesOf
<1>6. \A i \in Eligible(kids) : ClassOf(grammar, kids[i]) \in ClassesOf(new)
  BY <1>2 DEF ClassesOf
<1>7. QED
  BY <1>3, <1>5, <1>6 DEF ClassOf

\* Every class of possible children was owned before or is among the eligible.
LEMMA ChildrenSeen ==
  ASSUME TypeOK, NEW p \in Seq(LazyStates), NEW kids \in Seq(LazyStates),
         NEW new, new = {Append(p, kids[i]) : i \in Eligible(kids)},
         NEW d \in ChildClasses(grammar, kids)
  PROVE  \/ d \in ClassesOf(new)
         \/ \E x \in Identities : owner[x] # Nil /\ grammar.class[x] = d
<1>1. PICK k \in DOMAIN kids : Possible(grammar, kids[k]) /\ ClassOf(grammar, kids[k]) = d
  BY DEF ChildClasses, Elements
<1>2. kids[k] \in LazyStates
  BY <1>1
<1>3. grammar.identity[kids[k]] \in Identities
  BY <1>2, ClassType DEF TypeOK
<1>4. CASE owner[grammar.identity[kids[k]]] # Nil
  BY <1>1, <1>3, <1>4 DEF ClassOf
<1>5. CASE owner[grammar.identity[kids[k]]] = Nil
  <2>1. PICK i \in Eligible(kids) : grammar.identity[kids[i]] = grammar.identity[kids[k]]
    BY <1>1, <1>5, ScreenedHasOwner
  <2>2. grammar.class[grammar.identity[kids[i]]] \in ClassesOf(new)
    BY <2>1, FreshClasses
  <2>3. QED
    BY <1>1, <2>1, <2>2 DEF ClassOf
<1>6. QED
  BY <1>4, <1>5

\* An identity that is owned after screening was owned before or is eligible.
LEMMA OwnersAfterSeen ==
  ASSUME TypeOK, NEW p \in Seq(LazyStates), NEW kids \in Seq(LazyStates),
         NEW x \in Identities, OwnersAfter(p, kids)[x] # Nil
  PROVE  \/ owner[x] # Nil
         \/ \E i \in Eligible(kids) : grammar.identity[kids[i]] = x
BY DEF OwnersAfter

LEMMA OwnersAfterType ==
  ASSUME TypeOK, NEW p \in Seq(LazyStates), NEW kids \in Seq(LazyStates)
  PROVE  OwnersAfter(p, kids) \in [Identities -> Nodes \cup {Nil}]
<1>1. ASSUME NEW x \in Identities, \E i \in Eligible(kids) : grammar.identity[kids[i]] = x
      PROVE  Append(p, kids[CHOOSE i \in Eligible(kids) : grammar.identity[kids[i]] = x]) \in Nodes
  <2>1. (CHOOSE i \in Eligible(kids) : grammar.identity[kids[i]] = x) \in Eligible(kids)
    BY <1>1
  <2>2. \A i \in Eligible(kids) : kids[i] \in LazyStates
    BY DEF Eligible
  <2>3. QED
    BY <2>1, <2>2, TipOfAppend
<1>2. QED
  BY <1>1 DEF OwnersAfter, TypeOK

\* What screening traces is neither expanded nor terminal.
LEMMA ScreenedOutType ==
  ASSUME TypeOK, NEW p \in Seq(LazyStates), NEW kids \in Seq(LazyStates)
  PROVE  /\ ScreenedOut(p, kids) \in SUBSET TraceNodes
         /\ \A t \in ScreenedOut(p, kids) : t.disposition \notin {"expanded", "terminal"}
<1>1. ASSUME NEW k \in DOMAIN kids
      PROVE  /\ Append(p, kids[k]) \in Nodes
             /\ grammar.status[kids[k]] \in Statuses
             /\ OwnersAfter(p, kids)[grammar.identity[kids[k]]] \in Nodes \cup {Nil}
  <2>1. kids[k] \in LazyStates
    OBVIOUS
  <2>2. grammar.identity[kids[k]] \in Identities /\ grammar.status[kids[k]] \in Statuses
    BY <2>1 DEF TypeOK, IsGrammar
  <2>3. QED
    BY <2>1, <2>2, TipOfAppend, OwnersAfterType
<1>2. ASSUME NEW k \in DOMAIN kids, ~Possible(grammar, kids[k])
      PROVE  /\ Traced(Append(p, kids[k]), grammar.status[kids[k]], Nil) \in TraceNodes
             /\ grammar.status[kids[k]] \notin {"expanded", "terminal"}
  BY <1>1, <1>2 DEF Traced, TraceNodes, Statuses, Dispositions, Possible
<1>3. ASSUME NEW k \in DOMAIN kids
      PROVE  Traced(Append(p, kids[k]), "canonical_duplicate",
                    OwnersAfter(p, kids)[grammar.identity[kids[k]]]) \in TraceNodes
  BY <1>1 DEF Traced, TraceNodes, Dispositions
<1>4. ASSUME NEW t \in ScreenedOut(p, kids)
      PROVE  t \in TraceNodes /\ t.disposition \notin {"expanded", "terminal"}
  <2>1. CASE t \in {Traced(Append(p, kids[i]), grammar.status[kids[i]], Nil) :
                      i \in {j \in DOMAIN kids : ~Possible(grammar, kids[j])}}
    BY <2>1, <1>2 DEF Traced
  <2>2. CASE t \in {Traced(Append(p, kids[i]), "canonical_duplicate",
                           OwnersAfter(p, kids)[grammar.identity[kids[i]]]) :
                      i \in {j \in DOMAIN kids : Possible(grammar, kids[j])} \ Eligible(kids)}
    BY <2>2, <1>3 DEF Traced
  <2>3. QED
    BY <2>1, <2>2 DEF ScreenedOut
<1>5. QED
  BY <1>4

-----------------------------------------------------------------------------
(* Steps on the graph of classes *)

\* Taking a node whose children are all seen, or kept, explores its class.
LEMMA ExploreRefines ==
  ASSUME LazyInv, grammar' = grammar, NEW n \in queue, NEW new \in SUBSET Nodes,
         phase = "loop", phase' \in {"loop", "enqueue"}, complete' = complete,
         queue' = queue \ {n}, fresh' = new, Explored' = Explored \cup {n},
         NEW c, c = ClassOf(grammar, Tip(n)),
         ClassesOf(new) \subseteq ClassGraph.succ[c],
         complete => ClassGraph.succ[c] \subseteq ClassesOf(new) \cup ClassesOf(Seen)
  PROVE  /\ ExploredIsClosed'
         /\ ClassesOf(Seen) \subseteq ClassesOf(Seen)'
         /\ ClassesOf(new) \subseteq ClassesOf(Seen)'
         /\ [Graph!Next]_(Graph!vars)
<1> USE DEF LazyInv
<1> DEFINE Cl == ClassesOf(Explored)
           Q == ClassesOf(queue)
           New == ClassesOf(new)
           Op == ClassesOf(queue \cup fresh) \ ClassesOf(Explored)
           S == ClassGraph.succ[c]
<1>1. fresh = {}
  BY DEF PhasesFit
<1>2. ClassGraph' = ClassGraph
  BY DEF ClassGraph
<1>3. c \in Classes /\ c \in Q
  BY TipType, ClassType DEF TypeOK, ClassesOf
<1>4. S \subseteq Classes
  BY <1>3, GraphType DEF Graph!Graphs, TypeOK
<1>5. Cl' = Cl \cup {c}
  BY DEF ClassesOf
<1>6. /\ Op = Q \ Cl
      /\ ClassesOf(Seen) = Q \cup Cl
  BY <1>1 DEF ClassesOf, Seen
<1>7. /\ ClassesOf(Seen)' = Q \cup New \cup Cl
      /\ Op' = (ClassesOf(queue \ {n}) \cup New) \ (Cl \cup {c})
  <2>1. ClassesOf(Seen)' = {ClassOf(grammar, Tip(m)) : m \in (queue \ {n}) \cup new \cup (Explored \cup {n})}
    BY DEF ClassesOf, Seen
  <2>2. (queue \ {n}) \cup new \cup (Explored \cup {n}) = queue \cup new \cup Explored
    OBVIOUS
  <2>3. Op' = {ClassOf(grammar, Tip(m)) : m \in (queue \ {n}) \cup new} \ (Cl \cup {c})
    BY <1>5 DEF ClassesOf
  <2>4. {ClassOf(grammar, Tip(m)) : m \in queue \cup new \cup Explored} = Q \cup New \cup Cl
    BY DEF ClassesOf
  <2>5. {ClassOf(grammar, Tip(m)) : m \in (queue \ {n}) \cup new} = ClassesOf(queue \ {n}) \cup New
    BY DEF ClassesOf
  <2>6. ClassesOf(Seen)' = Q \cup New \cup Cl
    BY <2>1, <2>2, <2>4
  <2>7. Op' = (ClassesOf(queue \ {n}) \cup New) \ (Cl \cup {c})
    BY <2>3, <2>5
  <2>8. QED
    BY <2>6, <2>7
<1>8. /\ Q \ {c} \subseteq ClassesOf(queue \ {n})
      /\ ClassesOf(queue \ {n}) \subseteq Q
  BY DEF ClassesOf
<1>9. complete => S \subseteq New \cup Q \cup Cl
  BY <1>6
<1>10. ExploredIsClosed'
  <2>1. complete => \A d \in Cl : ClassGraph.succ[d] \subseteq Q \cup Cl
    BY <1>6 DEF ExploredIsClosed
  <2>2. complete => \A d \in Cl \cup {c} : ClassGraph.succ[d] \subseteq Q \cup New \cup Cl
    BY <2>1, <1>9
  <2>3. QED
    BY <1>2, <1>5, <1>7, <2>2 DEF ExploredIsClosed
<1>11. ASSUME c \notin Cl \/ ~complete
       PROVE  Graph!Explore(c)
  <2> DEFINE kept == New \ (Cl \cup {c})
  <2>1. kept \in SUBSET (S \ (Cl \cup {c}))
    OBVIOUS
  <2>2. complete => \A d \in S \ (Cl \cup {c}) : d \in kept \/ d \in Q \ {c}
    BY <1>9
  <2>3. Op' = (Op \ {c}) \cup kept
    BY <1>6, <1>7, <1>8
  <2>4. \E k \in SUBSET (S \ (Cl \cup {c})) :
          /\ complete => k = S \ (Cl \cup {c})
          /\ Op' = (Op \ {c}) \cup k
    <3>1. CASE complete
      <4>1. Op' = (Op \ {c}) \cup (S \ (Cl \cup {c}))
        BY <2>1, <2>2, <2>3, <1>6, <3>1
      <4>2. QED
        BY <4>1
    <3>2. CASE ~complete
      BY <2>1, <2>3, <3>2
    <3>3. QED
      BY <3>1, <3>2
  <2>5. c \in Op \/ (c \in Cl /\ ~complete)
    BY <1>3, <1>6, <1>11
  <2>6. Answer = "searching" /\ Answer' = "searching"
    BY DEF Answer
  <2> HIDE DEF kept
  <2>7. QED
    BY <1>2, <1>5, <2>4, <2>5, <2>6 DEF Graph!Explore
<1>12. ASSUME c \in Cl, complete
       PROVE  UNCHANGED Graph!vars
  <2>1. S \subseteq Q \cup Cl
    BY <1>6, <1>12 DEF ExploredIsClosed
  <2>2. Op' = Op
    BY <2>1, <1>6, <1>7, <1>8, <1>12
  <2>3. Cl' = Cl
    BY <1>5, <1>12
  <2>4. Answer' = Answer
    BY DEF Answer
  <2>5. QED
    BY <1>2, <2>2, <2>3, <2>4 DEF Graph!vars
<1>13. [Graph!Next]_(Graph!vars)
  BY <1>3, <1>11, <1>12 DEF Graph!Next
<1>14. QED
  BY <1>6, <1>7, <1>10, <1>13

\* Tracing a node as explored adds it to the explored ones, and only it.
LEMMA ExploredGrows ==
  ASSUME TypeOK, NEW n, NEW d \in {"expanded", "terminal"}, NEW out,
         \A t \in out : t.disposition \notin {"expanded", "terminal"},
         traces' = (traces \cup {Traced(n, d, Nil)}) \cup out
  PROVE  Explored' = Explored \cup {n}
<1> DEFINE t0 == Traced(n, d, Nil)
           Hits(S) == {u \in S : u.disposition \in {"expanded", "terminal"}}
<1>1. t0.node = n /\ t0.disposition = d
  BY DEF Traced
<1> HIDE DEF t0
<1>2. Hits(traces') = Hits(traces) \cup {t0}
  BY <1>1 DEF t0
<1> HIDE DEF Hits
<1>3. {u.node : u \in Hits(traces')} = {u.node : u \in Hits(traces)} \cup {n}
  BY <1>1, <1>2
<1>4. QED
  BY <1>3 DEF Explored, Hits

LEMMA ExploredStays ==
  ASSUME TypeOK, NEW out,
         \A t \in out : t.disposition \notin {"expanded", "terminal"},
         traces' = traces \cup out
  PROVE  Explored' = Explored
BY DEF Explored

\* Every step keeps the types.
LEMMA TypeStep == TypeOK /\ [Next]_vars => TypeOK'
<1> SUFFICES ASSUME TypeOK, [Next]_vars PROVE TypeOK'
  OBVIOUS
<1>1. ASSUME NEW p \in Seq(LazyStates), NEW kids \in Seq(LazyStates),
             NEW tr \in SUBSET TraceNodes, Screen(p, kids, tr)
      PROVE  /\ owner' \in [Identities -> Nodes \cup {Nil}]
             /\ fresh' \in SUBSET Nodes
             /\ traces' \in SUBSET TraceNodes
             /\ phase' = "enqueue"
  BY <1>1, OwnersAfterType, FreshClasses, ScreenedOutType DEF Screen
<1>2. ASSUME NEW n \in Nodes, NEW d \in Dispositions, NEW o \in Nodes \cup {Nil}
      PROVE  Traced(n, d, o) \in TraceNodes
  BY DEF Traced, TraceNodes
<1>3. CASE Seed
  <2>1. grammar.initial \in Seq(LazyStates) /\ <<>> \in Seq(LazyStates)
    BY DEF TypeOK, IsGrammar
  <2>2. Screen(<<>>, grammar.initial, traces) /\ traces \in SUBSET TraceNodes
    BY <1>3 DEF Seed, TypeOK
  <2>3. QED
    BY <1>1, <1>3, <2>1, <2>2 DEF Seed, TypeOK
<1>4. ASSUME NEW left \in fresh, NEW right \in fresh, Alias(left, right) PROVE TypeOK'
  <2>1. Traced(right, "verified_equivalent", left) \in TraceNodes
    BY <1>2 DEF TypeOK, Dispositions
  <2>2. QED
    BY <1>4, <2>1 DEF Alias, TypeOK
<1>5. CASE Push
  BY <1>5 DEF Push, TypeOK
<1>6. ASSUME NEW n \in queue,
             PolicyPrunes(n) \/ PolicyDefers(n) \/ ReachTerminal(n) \/ Expand(n)
      PROVE  TypeOK'
  <2>1. n \in Nodes /\ n \in Seq(LazyStates) /\ Tip(n) \in LazyStates
    BY TipType DEF TypeOK
  <2>2. /\ Traced(n, "policy_pruned", Nil) \in TraceNodes
        /\ Traced(n, "deferred", Nil) \in TraceNodes
        /\ Traced(n, "terminal", Nil) \in TraceNodes
        /\ Traced(n, "expanded", Nil) \in TraceNodes
    BY <1>2, <2>1 DEF Dispositions
  <2>3. queue' \in SUBSET Nodes /\ work' \in Nat
    BY <1>6 DEF PolicyPrunes, PolicyDefers, ReachTerminal, Expand, Pop, TypeOK
  <2>4. CASE PolicyPrunes(n)
    BY <2>2, <2>3, <2>4 DEF PolicyPrunes, TypeOK
  <2>5. CASE PolicyDefers(n)
    BY <2>2, <2>3, <2>5 DEF PolicyDefers, TypeOK
  <2>6. CASE ReachTerminal(n)
    BY <2>1, <2>2, <2>3, <2>6 DEF ReachTerminal, TypeOK
  <2>7. CASE Expand(n)
    <3>1. grammar.expand[Tip(n)] \in Seq(LazyStates)
      BY <2>1 DEF TypeOK, IsGrammar
    <3>2. traces \cup {Traced(n, "expanded", Nil)} \in SUBSET TraceNodes
      BY <2>2 DEF TypeOK
    <3>3. Screen(n, grammar.expand[Tip(n)], traces \cup {Traced(n, "expanded", Nil)})
      BY <2>7 DEF Expand
    <3>4. QED
      BY <1>1, <2>1, <2>3, <2>7, <3>1, <3>2, <3>3 DEF Expand, TypeOK
  <2>8. QED
    BY <1>6, <2>4, <2>5, <2>6, <2>7
<1>7. CASE Stop
  BY <1>7 DEF Stop, TypeOK
<1>8. CASE Finish
  BY <1>8 DEF Finish, TypeOK
<1>9. CASE UNCHANGED vars
  BY <1>9 DEF vars, TypeOK
<1>10. QED
  BY <1>3, <1>4, <1>5, <1>6, <1>7, <1>8, <1>9 DEF Next

-----------------------------------------------------------------------------
(* The steps of the search, one lemma each where they touch the graph *)

LEMMA SeedRefines ==
  ASSUME LazyInv, Seed
  PROVE  LazyInv' /\ Graph!Start
<1> USE DEF LazyInv
<1> DEFINE kids == grammar.initial
           new == {Append(<<>>, kids[i]) : i \in Eligible(kids)}
<1>1. kids \in Seq(LazyStates) /\ <<>> \in Seq(LazyStates)
  BY DEF TypeOK, IsGrammar
<1>2. /\ queue = {} /\ fresh = {} /\ traces = {} /\ complete
      /\ \A x \in Identities : owner[x] = Nil
  BY DEF Seed, PhasesFit
<1>3. /\ fresh' = new /\ phase' = "enqueue" /\ phase = "start"
      /\ owner' = OwnersAfter(<<>>, kids)
      /\ traces' = traces \cup ScreenedOut(<<>>, kids)
      /\ UNCHANGED <<grammar, mode, queue, terminals, complete, work>>
  BY DEF Seed, Screen
<1>4. Explored = {} /\ Explored' = {}
  <2>1. Explored = {}
    BY <1>2 DEF Explored
  <2>2. Explored' = Explored
    BY <1>1, <1>3, ScreenedOutType, ExploredStays
  <2>3. QED
    BY <2>1, <2>2
<1>5. /\ new \in SUBSET Nodes
      /\ ClassesOf(new) \subseteq ChildClasses(grammar, kids)
      /\ \A i \in Eligible(kids) : grammar.class[grammar.identity[kids[i]]] \in ClassesOf(new)
  BY <1>1, FreshClasses
<1>6. ChildClasses(grammar, kids) \subseteq ClassesOf(new)
  BY <1>1, <1>2, ChildrenSeen
<1> HIDE DEF new, kids
<1>7. ClassesOf(queue \cup fresh)' = ClassesOf(new) /\ ClassesOf(Seen)' = ClassesOf(new)
  BY <1>2, <1>3, <1>4 DEF ClassesOf, Seen
<1>8. ClassesOf(Explored) = {} /\ ClassesOf(Explored)' = {}
  BY <1>4 DEF ClassesOf
<1>9. OwnedIsSeen'
  <2> SUFFICES ASSUME NEW x \in Identities, owner'[x] # Nil
               PROVE  grammar.class[x] \in ClassesOf(new)
    BY <1>3, <1>7 DEF OwnedIsSeen
  <2>1. PICK i \in Eligible(kids) : grammar.identity[kids[i]] = x
    BY <1>1, <1>2, <1>3, OwnersAfterSeen
  <2>2. QED
    BY <1>5, <2>1
<1>10. TypeOK'
  BY TypeStep DEF Next
<1>11. PhasesFit' /\ ExploredIsClosed'
  BY <1>3, <1>8 DEF PhasesFit, ExploredIsClosed
<1>12. ClassGraph' = ClassGraph /\ ClassGraph.roots = ChildClasses(grammar, kids)
  BY <1>3 DEF ClassGraph, kids
<1>13. Answer = "none" /\ Answer' = "searching"
  BY <1>3 DEF Answer
<1>14. Graph!Start
  BY <1>3, <1>5, <1>6, <1>7, <1>8, <1>12, <1>13 DEF Graph!Start
<1>15. QED
  BY <1>9, <1>10, <1>11, <1>14

LEMMA ExpandRefines ==
  ASSUME LazyInv, NEW n \in queue, Expand(n)
  PROVE  LazyInv' /\ [Graph!Next]_(Graph!vars)
<1> USE DEF LazyInv
<1> DEFINE s == Tip(n)
           kids == grammar.expand[Tip(n)]
           new == {Append(n, kids[i]) : i \in Eligible(kids)}
           c == ClassOf(grammar, Tip(n))
<1>1. n \in Seq(LazyStates) /\ s \in LazyStates
  BY TipType DEF TypeOK
<1>2. kids \in Seq(LazyStates)
  BY <1>1 DEF TypeOK, IsGrammar
<1>3. /\ phase = "loop" /\ phase' = "enqueue" /\ queue' = queue \ {n} /\ fresh' = new
      /\ owner' = OwnersAfter(n, kids)
      /\ traces' = (traces \cup {Traced(n, "expanded", Nil)}) \cup ScreenedOut(n, kids)
      /\ grammar' = grammar /\ complete' = complete
      /\ s \notin grammar.terminal
  BY DEF Expand, Pop, Screen
<1>4. Explored' = Explored \cup {n}
  BY <1>1, <1>2, <1>3, ScreenedOutType, ExploredGrows
<1>5. /\ new \in SUBSET Nodes
      /\ ClassesOf(new) \subseteq ChildClasses(grammar, kids)
      /\ \A i \in Eligible(kids) : grammar.class[grammar.identity[kids[i]]] \in ClassesOf(new)
  BY <1>1, <1>2, FreshClasses
<1>6. ClassGraph.succ[c] = ChildClasses(grammar, kids)
  BY <1>1, <1>3, SuccOfClass DEF TypeOK
<1>7. complete => ChildClasses(grammar, kids) \subseteq ClassesOf(new) \cup ClassesOf(Seen)
  <2> SUFFICES ASSUME complete, NEW d \in ChildClasses(grammar, kids), d \notin ClassesOf(new)
               PROVE  d \in ClassesOf(Seen)
    OBVIOUS
  <2>1. PICK x \in Identities : owner[x] # Nil /\ grammar.class[x] = d
    BY <1>1, <1>2, ChildrenSeen
  <2>2. QED
    BY <2>1 DEF OwnedIsSeen
<1> HIDE DEF new, kids, c
<1>8. /\ ExploredIsClosed'
      /\ ClassesOf(Seen) \subseteq ClassesOf(Seen)'
      /\ ClassesOf(new) \subseteq ClassesOf(Seen)'
      /\ [Graph!Next]_(Graph!vars)
  BY <1>3, <1>4, <1>5, <1>6, <1>7, ExploreRefines DEF c
<1>9. OwnedIsSeen'
  <2> SUFFICES ASSUME complete, NEW x \in Identities, owner'[x] # Nil
               PROVE  grammar.class[x] \in ClassesOf(Seen)'
    BY <1>3 DEF OwnedIsSeen
  <2>1. CASE owner[x] # Nil
    BY <2>1, <1>8 DEF OwnedIsSeen
  <2>2. CASE owner[x] = Nil
    <3>1. PICK i \in Eligible(kids) : grammar.identity[kids[i]] = x
      BY <1>1, <1>2, <1>3, <2>2, OwnersAfterSeen
    <3>2. QED
      BY <1>5, <1>8, <3>1
  <2>3. QED
    BY <2>1, <2>2
<1>10. TypeOK'
  BY TypeStep DEF Next
<1>11. PhasesFit'
  BY <1>3 DEF PhasesFit
<1>12. QED
  BY <1>8, <1>9, <1>10, <1>11

LEMMA TerminalRefines ==
  ASSUME LazyInv, NEW n \in queue, ReachTerminal(n)
  PROVE  LazyInv' /\ [Graph!Next]_(Graph!vars)
<1> USE DEF LazyInv
<1> DEFINE c == ClassOf(grammar, Tip(n))
<1>1. Tip(n) \in LazyStates
  BY TipType DEF TypeOK
<1>2. /\ phase = "loop" /\ phase' = "loop" /\ queue' = queue \ {n}
      /\ fresh' = {} /\ owner' = owner
      /\ traces' = (traces \cup {Traced(n, "terminal", Nil)}) \cup {}
      /\ grammar' = grammar /\ complete' = complete
      /\ Tip(n) \in grammar.terminal
  BY DEF ReachTerminal, Pop, PhasesFit
<1>3. Explored' = Explored \cup {n}
  <2> DEFINE out == {}
  <2>1. /\ \A t \in out : t.disposition \notin {"expanded", "terminal"}
        /\ traces' = (traces \cup {Traced(n, "terminal", Nil)}) \cup out
    BY <1>2
  <2> HIDE DEF out
  <2>2. QED
    BY <2>1, ExploredGrows
<1>4. ClassGraph.succ[c] = {} /\ ClassesOf({}) = {}
  BY <1>1, <1>2, SuccOfClass DEF TypeOK, ClassesOf
<1> HIDE DEF c
<1>5. /\ ExploredIsClosed'
      /\ ClassesOf(Seen) \subseteq ClassesOf(Seen)'
      /\ [Graph!Next]_(Graph!vars)
  BY <1>2, <1>3, <1>4, ExploreRefines DEF c
<1>6. OwnedIsSeen' /\ PhasesFit'
  BY <1>2, <1>5 DEF OwnedIsSeen, PhasesFit
<1>7. TypeOK'
  BY TypeStep DEF Next
<1>8. QED
  BY <1>5, <1>6, <1>7

\* A node the policy declines leaves the heap, and the search is incomplete.
LEMMA DeclineRefines ==
  ASSUME LazyInv, NEW n \in queue, PolicyPrunes(n) \/ PolicyDefers(n)
  PROVE  LazyInv' /\ [Graph!Next]_(Graph!vars)
<1> USE DEF LazyInv
<1> DEFINE c == ClassOf(grammar, Tip(n))
<1>1. /\ phase = "loop" /\ phase' = "loop" /\ queue' = queue \ {n}
      /\ fresh = {} /\ fresh' = {} /\ owner' = owner
      /\ grammar' = grammar /\ complete' = FALSE
  BY DEF PolicyPrunes, PolicyDefers, Pop, PhasesFit
<1>2. PICK d \in {"policy_pruned", "deferred"} : traces' = traces \cup {Traced(n, d, Nil)}
  BY DEF PolicyPrunes, PolicyDefers
<1>3. Explored' = Explored
  <2>1. \A t \in {Traced(n, d, Nil)} : t.disposition \notin {"expanded", "terminal"}
    BY <1>2 DEF Traced
  <2> DEFINE out == {Traced(n, d, Nil)}
  <2>2. traces' = traces \cup out
    BY <1>2
  <2>3. \A t \in out : t.disposition \notin {"expanded", "terminal"}
    BY <2>1
  <2> HIDE DEF out
  <2>4. QED
    BY <2>2, <2>3, ExploredStays
<1>4. c \in Classes
  BY TipType, ClassType DEF TypeOK
<1>5. ClassesOf(Explored)' = ClassesOf(Explored)
  BY <1>1, <1>3 DEF ClassesOf
<1>6. /\ ClassesOf(queue \cup fresh) \ {c} \subseteq ClassesOf(queue \cup fresh)'
      /\ ClassesOf(queue \cup fresh)' \subseteq ClassesOf(queue \cup fresh)
  BY <1>1 DEF ClassesOf
<1>7. ClassGraph' = ClassGraph /\ Answer = "searching" /\ Answer' = "searching"
  BY <1>1 DEF ClassGraph, Answer
<1> HIDE DEF c
<1>8. Graph!Drop(c)
  BY <1>1, <1>5, <1>6, <1>7 DEF Graph!Drop
<1>9. TypeOK'
  BY TypeStep DEF Next
<1>10. OwnedIsSeen' /\ ExploredIsClosed' /\ PhasesFit'
  BY <1>1 DEF OwnedIsSeen, ExploredIsClosed, PhasesFit
<1>11. QED
  BY <1>4, <1>8, <1>9, <1>10 DEF Graph!Next

\* Merging siblings and pushing them are no steps on the classes.
LEMMA SameClassesRefine ==
  ASSUME LazyInv, TypeOK', PhasesFit', grammar' = grammar, complete' = complete, owner' = owner,
         phase = "enqueue", phase' \in {"enqueue", "loop"},
         Explored' = Explored,
         ClassesOf(queue \cup fresh)' = ClassesOf(queue \cup fresh)
  PROVE  LazyInv' /\ UNCHANGED Graph!vars
<1> USE DEF LazyInv
<1>1. ClassesOf(Explored)' = ClassesOf(Explored)
  BY DEF ClassesOf
<1>2. ClassesOf(Seen)' = ClassesOf(Seen)
  <2>1. ClassesOf(Seen) = ClassesOf(queue \cup fresh) \cup ClassesOf(Explored)
    BY DEF ClassesOf, Seen
  <2>2. ClassesOf(Seen)' = ClassesOf(queue \cup fresh)' \cup ClassesOf(Explored)'
    BY DEF ClassesOf, Seen
  <2>3. QED
    BY <1>1, <2>1, <2>2
<1>3. ClassGraph' = ClassGraph /\ Answer' = Answer
  BY DEF ClassGraph, Answer
<1>4. OwnedIsSeen' /\ ExploredIsClosed'
  BY <1>1, <1>2, <1>3 DEF OwnedIsSeen, ExploredIsClosed
<1>5. QED
  BY <1>1, <1>3, <1>4 DEF Graph!vars

LEMMA AliasRefines ==
  ASSUME LazyInv, NEW left \in fresh, NEW right \in fresh, Alias(left, right)
  PROVE  LazyInv' /\ UNCHANGED Graph!vars
<1>1. /\ phase = "enqueue" /\ phase' = phase /\ left # right
      /\ ClassOf(grammar, Tip(left)) = ClassOf(grammar, Tip(right))
      /\ fresh' = fresh \ {right} /\ queue' = queue /\ owner' = owner
      /\ grammar' = grammar /\ complete' = complete
  BY DEF Alias
<1>2. Explored' = Explored
  <2> DEFINE out == {Traced(right, "verified_equivalent", left)}
  <2>1. /\ traces' = traces \cup out
        /\ \A t \in out : t.disposition \notin {"expanded", "terminal"}
    BY DEF Alias, Traced
  <2> HIDE DEF out
  <2>2. QED
    BY <2>1, ExploredStays DEF LazyInv
<1>3. ClassesOf(queue \cup fresh)' = ClassesOf(queue \cup fresh)
  <2>1. /\ queue \cup (fresh \ {right}) \subseteq queue \cup fresh
        /\ left \in queue \cup (fresh \ {right})
        /\ \A m \in queue \cup fresh : m = right \/ m \in queue \cup (fresh \ {right})
    BY <1>1
  <2>2. ClassesOf(queue \cup fresh)
          = {ClassOf(grammar, Tip(m)) : m \in queue \cup (fresh \ {right})}
    BY <1>1, <2>1 DEF ClassesOf
  <2>3. QED
    BY <1>1, <2>2 DEF ClassesOf
<1>4. TypeOK' /\ PhasesFit'
  BY <1>1, TypeStep DEF Next, LazyInv, PhasesFit
<1>5. QED
  BY <1>1, <1>2, <1>3, <1>4, SameClassesRefine

LEMMA PushRefines ==
  ASSUME LazyInv, Push
  PROVE  LazyInv' /\ UNCHANGED Graph!vars
<1>1. /\ phase = "enqueue" /\ phase' = "loop"
      /\ fresh' = {} /\ queue' = queue \cup fresh /\ owner' = owner
      /\ grammar' = grammar /\ complete' = complete /\ traces' = traces
  BY DEF Push
<1>2. Explored' = Explored
  BY <1>1 DEF Explored
<1>3. ClassesOf(queue \cup fresh)' = ClassesOf(queue \cup fresh)
  BY <1>1 DEF ClassesOf
<1>4. TypeOK' /\ PhasesFit'
  BY <1>1, TypeStep DEF Next, LazyInv, PhasesFit
<1>5. QED
  BY <1>1, <1>2, <1>3, <1>4, SameClassesRefine

\* Ending the call, by a budget or with an empty heap.
LEMMA EndRefines ==
  ASSUME LazyInv, Stop \/ Finish
  PROVE  LazyInv' /\ [Graph!Next]_(Graph!vars)
<1> USE DEF LazyInv
<1>1. /\ phase = "loop" /\ phase' = "done"
      /\ fresh = {} /\ fresh' = fresh /\ queue' = queue /\ owner' = owner
      /\ grammar' = grammar /\ traces' = traces
  BY DEF Stop, Finish, PhasesFit
<1>2. /\ Explored' = Explored
      /\ ClassesOf(Explored)' = ClassesOf(Explored)
      /\ ClassesOf(queue \cup fresh)' = ClassesOf(queue \cup fresh)
      /\ ClassesOf(Seen)' = ClassesOf(Seen)
      /\ ClassGraph' = ClassGraph
  BY <1>1 DEF Explored, ClassesOf, Seen, ClassGraph
<1>3. Answer = "searching" /\ Answer' = IF complete' THEN "complete" ELSE "partial"
  BY <1>1 DEF Answer
<1>4. TypeOK'
  BY TypeStep DEF Next
<1>5. CASE Stop
  <2>1. complete' = FALSE
    BY <1>5 DEF Stop
  <2>2. Graph!GiveUp
    BY <1>2, <1>3, <2>1 DEF Graph!GiveUp
  <2>3. OwnedIsSeen' /\ ExploredIsClosed' /\ PhasesFit'
    BY <1>1, <2>1 DEF OwnedIsSeen, ExploredIsClosed, PhasesFit
  <2>4. QED
    BY <1>4, <2>2, <2>3 DEF Graph!Next
<1>6. CASE Finish
  <2>1. complete' = complete /\ queue = {}
    BY <1>6 DEF Finish
  <2>2. ClassesOf(queue \cup fresh) = {}
    BY <1>1, <2>1 DEF ClassesOf
  <2>3. Graph!Finish
    BY <1>2, <1>3, <2>1, <2>2 DEF Graph!Finish
  <2>4. OwnedIsSeen' /\ ExploredIsClosed' /\ PhasesFit'
    BY <1>1, <1>2, <2>1 DEF OwnedIsSeen, ExploredIsClosed, PhasesFit
  <2>5. QED
    BY <1>4, <2>3, <2>4 DEF Graph!Next
<1>7. QED
  BY <1>5, <1>6

LEMMA LazyStep == LazyInv /\ [Next]_vars => LazyInv' /\ [Graph!Next]_(Graph!vars)
<1> SUFFICES ASSUME LazyInv, [Next]_vars
             PROVE  LazyInv' /\ [Graph!Next]_(Graph!vars)
  OBVIOUS
<1>1. CASE Seed
  BY <1>1, SeedRefines DEF Graph!Next
<1>2. ASSUME NEW left \in fresh, NEW right \in fresh, Alias(left, right)
      PROVE  LazyInv' /\ [Graph!Next]_(Graph!vars)
  BY <1>2, AliasRefines
<1>3. CASE Push
  BY <1>3, PushRefines
<1>4. ASSUME NEW n \in queue,
             PolicyPrunes(n) \/ PolicyDefers(n) \/ ReachTerminal(n) \/ Expand(n)
      PROVE  LazyInv' /\ [Graph!Next]_(Graph!vars)
  BY <1>4, DeclineRefines, TerminalRefines, ExpandRefines
<1>5. CASE Stop \/ Finish
  BY <1>5, EndRefines
<1>6. CASE UNCHANGED vars
  <2>1. UNCHANGED <<grammar, phase, queue, fresh, owner, traces, complete>>
    BY <1>6 DEF vars
  <2>2. /\ Explored' = Explored
        /\ ClassesOf(Explored)' = ClassesOf(Explored)
        /\ ClassesOf(queue \cup fresh)' = ClassesOf(queue \cup fresh)
        /\ ClassesOf(Seen)' = ClassesOf(Seen)
        /\ ClassGraph' = ClassGraph
        /\ Answer' = Answer
    BY <2>1 DEF Explored, ClassesOf, Seen, ClassGraph, Answer
  <2>3. TypeOK'
    BY TypeStep DEF LazyInv
  <2>4. PhasesFit' /\ OwnedIsSeen' /\ ExploredIsClosed'
    BY <2>1, <2>2 DEF LazyInv, PhasesFit, OwnedIsSeen, ExploredIsClosed
  <2>5. QED
    BY <2>1, <2>2, <2>3, <2>4 DEF LazyInv, Graph!vars
<1>7. QED
  BY <1>1, <1>2, <1>3, <1>4, <1>5, <1>6 DEF Next

LEMMA LazyStart == Init => LazyInv /\ Graph!Init
<1> SUFFICES ASSUME Init PROVE LazyInv /\ Graph!Init
  OBVIOUS
<1>1. IsGrammar(grammar)
  BY LazyGrammarAssumption DEF Init
<1>2. TypeOK
  BY <1>1 DEF Init, TypeOK
<1>3. Explored = {} /\ ClassesOf({}) = {}
  BY DEF Init, Explored, ClassesOf
<1>4. PhasesFit /\ OwnedIsSeen /\ ExploredIsClosed
  BY <1>3 DEF Init, PhasesFit, OwnedIsSeen, ExploredIsClosed
<1>5. queue \cup fresh = {} /\ complete = TRUE /\ Answer = "none"
  BY DEF Init, Answer
<1>6. Graph!Init
  BY <1>1, <1>3, <1>5, GraphType DEF Graph!Init
<1>7. QED
  BY <1>2, <1>4, <1>6 DEF LazyInv

\* LazySearchEngine.run implements the abstract search: for every grammar that
\* respects its classes, whatever the policy declines, the verifier merges and
\* the heap prefers, complete = True is said only if no class was dropped
THEOREM LazyImplementsGraph == Spec => GraphSpec
<1>1. Spec => []LazyInv
  BY LazyStart, LazyStep, PTL DEF Spec
<1>2. QED
  BY <1>1, LazyStart, LazyStep, PTL DEF Spec, GraphSpec, Graph!Spec

-----------------------------------------------------------------------------
(* The terminals of a complete result *)

\* The terminals collected are the explored states that are terminal.
TerminalsExplored == terminals = {Tip(n) : n \in Explored} \cap grammar.terminal

LEMMA TerminalsStep == LazyInv /\ TerminalsExplored /\ [Next]_vars => TerminalsExplored'
<1> SUFFICES ASSUME LazyInv, TerminalsExplored, [Next]_vars PROVE TerminalsExplored'
  OBVIOUS
<1> USE DEF LazyInv
<1>1. ASSUME NEW out, \A t \in out : t.disposition \notin {"expanded", "terminal"},
             traces' = traces \cup out, UNCHANGED <<grammar, terminals>>
      PROVE  TerminalsExplored'
  BY <1>1, ExploredStays DEF TerminalsExplored
<1>2. CASE Seed
  <2>1. grammar.initial \in Seq(LazyStates) /\ <<>> \in Seq(LazyStates)
    BY DEF TypeOK, IsGrammar
  <2>2. /\ traces' = traces \cup ScreenedOut(<<>>, grammar.initial)
        /\ UNCHANGED <<grammar, terminals>>
    BY <1>2 DEF Seed, Screen
  <2>3. QED
    BY <1>1, <2>1, <2>2, ScreenedOutType
<1>3. ASSUME NEW left \in fresh, NEW right \in fresh, Alias(left, right)
      PROVE  TerminalsExplored'
  <2> DEFINE out == {Traced(right, "verified_equivalent", left)}
  <2>1. /\ traces' = traces \cup out
        /\ \A t \in out : t.disposition \notin {"expanded", "terminal"}
        /\ UNCHANGED <<grammar, terminals>>
    BY <1>3 DEF Alias, Traced
  <2> HIDE DEF out
  <2>2. QED
    BY <1>1, <2>1
<1>4. ASSUME NEW n \in queue, PolicyPrunes(n) \/ PolicyDefers(n)
      PROVE  TerminalsExplored'
  <2>1. PICK d \in {"policy_pruned", "deferred"} : traces' = traces \cup {Traced(n, d, Nil)}
    BY <1>4 DEF PolicyPrunes, PolicyDefers
  <2> DEFINE out == {Traced(n, d, Nil)}
  <2>2. /\ traces' = traces \cup out
        /\ \A t \in out : t.disposition \notin {"expanded", "terminal"}
        /\ UNCHANGED <<grammar, terminals>>
    BY <1>4, <2>1 DEF PolicyPrunes, PolicyDefers, Traced
  <2> HIDE DEF out
  <2>3. QED
    BY <1>1, <2>2
<1>5. ASSUME NEW n \in queue, ReachTerminal(n) PROVE TerminalsExplored'
  <2> DEFINE out == {}
  <2>1. /\ \A t \in out : t.disposition \notin {"expanded", "terminal"}
        /\ traces' = (traces \cup {Traced(n, "terminal", Nil)}) \cup out
    BY <1>5 DEF ReachTerminal
  <2> HIDE DEF out
  <2>2. Explored' = Explored \cup {n}
    BY <2>1, ExploredGrows
  <2>3. terminals' = terminals \cup {Tip(n)} /\ grammar' = grammar /\ Tip(n) \in grammar.terminal
    BY <1>5 DEF ReachTerminal
  <2>4. {Tip(m) : m \in Explored \cup {n}} = {Tip(m) : m \in Explored} \cup {Tip(n)}
    OBVIOUS
  <2>5. QED
    BY <2>2, <2>3, <2>4 DEF TerminalsExplored
<1>6. ASSUME NEW n \in queue, Expand(n) PROVE TerminalsExplored'
  <2>1. n \in Seq(LazyStates) /\ grammar.expand[Tip(n)] \in Seq(LazyStates)
    BY TipType DEF TypeOK, IsGrammar
  <2>2. /\ traces' = (traces \cup {Traced(n, "expanded", Nil)})
                       \cup ScreenedOut(n, grammar.expand[Tip(n)])
        /\ UNCHANGED <<grammar, terminals>>
        /\ Tip(n) \notin grammar.terminal
    BY <1>6 DEF Expand, Screen
  <2>3. Explored' = Explored \cup {n}
    BY <2>1, <2>2, ScreenedOutType, ExploredGrows
  <2>4. {Tip(m) : m \in Explored \cup {n}} = {Tip(m) : m \in Explored} \cup {Tip(n)}
    OBVIOUS
  <2>5. QED
    BY <2>2, <2>3, <2>4 DEF TerminalsExplored
<1>7. CASE Push \/ Stop \/ Finish \/ UNCHANGED vars
  BY <1>7 DEF Push, Stop, Finish, vars, TerminalsExplored, Explored
<1>8. QED
  BY <1>2, <1>3, <1>4, <1>5, <1>6, <1>7 DEF Next

-----------------------------------------------------------------------------
(* The promise of GraphSearch, for the graph of classes                    *)

OpenClasses == ClassesOf(queue \cup fresh) \ ClassesOf(Explored)
ClosedClasses == ClassesOf(Explored)

\* While nothing was dropped, what was seen is closed under successors up to
\* the open classes; nothing unreachable is ever seen; and a search that says
\* "complete" has left nothing open.
SeenIsClosed ==
  complete =>
    /\ Answer # "none" => ClassGraph.roots \subseteq OpenClasses \cup ClosedClasses
    /\ \A c \in ClosedClasses : ClassGraph.succ[c] \subseteq OpenClasses \cup ClosedClasses

SeenIsReachable == OpenClasses \cup ClosedClasses \subseteq Graph!Reachable

CompleteIsWhole == Answer = "complete" => complete /\ OpenClasses = {}

NothingBefore == Answer = "none" => OpenClasses = {} /\ ClosedClasses = {}

GraphInv ==
  Graph!TypeOK /\ NothingBefore /\ SeenIsClosed /\ SeenIsReachable /\ CompleteIsWhole

\* The set of reachable classes holds the roots and the successors of its members.
LEMMA ReachableClosed ==
  ASSUME ClassGraph \in Graph!Graphs
  PROVE  /\ ClassGraph.roots \subseteq Graph!Reachable
         /\ \A c \in Graph!Reachable : ClassGraph.succ[c] \subseteq Graph!Reachable
<1>1. /\ ClassGraph.roots \subseteq Classes
      /\ \A c \in Classes : ClassGraph.succ[c] \subseteq Classes
  BY DEF Graph!Graphs
<1>2. ClassGraph.roots \subseteq Graph!Reachable
  BY <1>1 DEF Graph!Reachable, Graph!ClosedUnderSucc
<1>3. ASSUME NEW c \in Graph!Reachable, NEW d \in ClassGraph.succ[c]
      PROVE  d \in Graph!Reachable
  <2>1. c \in Classes /\ \A S \in SUBSET Classes : Graph!ClosedUnderSucc(S) => c \in S
    BY DEF Graph!Reachable
  <2>2. ASSUME NEW S \in SUBSET Classes, Graph!ClosedUnderSucc(S)
        PROVE  d \in S
    BY <2>1, <2>2 DEF Graph!ClosedUnderSucc
  <2>3. QED
    BY <1>1, <2>1, <2>2 DEF Graph!Reachable
<1>4. QED
  BY <1>2, <1>3

LEMMA GraphStep == GraphInv /\ [Graph!Next]_(Graph!vars) => GraphInv'
<1> SUFFICES ASSUME GraphInv, [Graph!Next]_(Graph!vars) PROVE GraphInv'
  OBVIOUS
<1> USE DEF GraphInv
<1>0. /\ OpenClasses = ClassesOf(queue \cup fresh) \ ClassesOf(Explored)
      /\ OpenClasses' = (ClassesOf(queue \cup fresh) \ ClassesOf(Explored))'
      /\ ClosedClasses = ClassesOf(Explored)
      /\ ClosedClasses' = ClassesOf(Explored)'
  BY DEF OpenClasses, ClosedClasses
<1>1. ClassGraph' = ClassGraph
  BY DEF Graph!Next, Graph!vars, Graph!Start, Graph!Explore, Graph!Drop, Graph!GiveUp,
         Graph!Finish
<1>2. Graph!Reachable' = Graph!Reachable
  BY <1>1 DEF Graph!Reachable, Graph!ClosedUnderSucc
<1>3. /\ ClassGraph.roots \subseteq Graph!Reachable
      /\ \A c \in Graph!Reachable : ClassGraph.succ[c] \subseteq Graph!Reachable
  BY ReachableClosed DEF Graph!TypeOK
<1>t. /\ ClassGraph \in Graph!Graphs /\ OpenClasses \in SUBSET Classes
      /\ ClosedClasses \in SUBSET Classes /\ complete \in BOOLEAN
      /\ Answer \in Graph!Answers
  BY <1>0 DEF Graph!TypeOK
<1>4. CASE Graph!Start
  <2>1. /\ OpenClasses' = ClassGraph.roots /\ ClosedClasses' = ClosedClasses
        /\ complete' = complete /\ Answer = "none" /\ Answer' = "searching"
    BY <1>0, <1>4 DEF Graph!Start
  <2>2. Graph!TypeOK'
    BY <1>0, <1>1, <1>t, <2>1 DEF Graph!TypeOK, Graph!Graphs, Graph!Answers
  <2>3. QED
    BY <1>1, <1>2, <1>3, <2>1, <2>2
    DEF SeenIsClosed, SeenIsReachable, CompleteIsWhole, NothingBefore
<1>5. ASSUME NEW c \in Classes, Graph!Explore(c) PROVE GraphInv'
  <2>1. PICK kept \in SUBSET (ClassGraph.succ[c] \ ClosedClasses') :
          /\ complete => kept = ClassGraph.succ[c] \ ClosedClasses'
          /\ OpenClasses' = (OpenClasses \ {c}) \cup kept
    BY <1>0, <1>5 DEF Graph!Explore
  <2>2. /\ ClosedClasses' = ClosedClasses \cup {c}
        /\ complete' = complete /\ Answer' = Answer /\ Answer = "searching"
        /\ c \in OpenClasses \cup ClosedClasses
    BY <1>0, <1>5 DEF Graph!Explore
  <2>3. ClassGraph.succ[c] \subseteq Classes
    BY <1>t DEF Graph!Graphs
  <2>4. Graph!TypeOK'
    BY <1>0, <1>1, <1>t, <2>1, <2>2, <2>3 DEF Graph!TypeOK, Graph!Answers, Graph!Graphs
  <2>5. SeenIsClosed'
    <3>1. OpenClasses \cup ClosedClasses \subseteq OpenClasses' \cup ClosedClasses'
      BY <2>1, <2>2
    <3>2. complete => ClassGraph.succ[c] \subseteq OpenClasses' \cup ClosedClasses'
      BY <2>1, <2>2
    <3>3. QED
      BY <1>1, <2>2, <3>1, <3>2 DEF SeenIsClosed
  <2>6. SeenIsReachable'
    BY <1>2, <1>3, <2>1, <2>2 DEF SeenIsReachable
  <2>7. CompleteIsWhole' /\ NothingBefore'
    BY <2>2 DEF CompleteIsWhole, NothingBefore
  <2>8. QED
    BY <2>4, <2>5, <2>6, <2>7
<1>6. ASSUME NEW c \in Classes, Graph!Drop(c) PROVE GraphInv'
  <2>1. /\ OpenClasses' \in {OpenClasses, OpenClasses \ {c}} /\ ClosedClasses' = ClosedClasses
        /\ complete' = FALSE /\ Answer = "searching" /\ Answer' = Answer
    BY <1>0, <1>6 DEF Graph!Drop
  <2>2. Graph!TypeOK'
    BY <1>0, <1>1, <1>t, <2>1 DEF Graph!TypeOK, Graph!Graphs
  <2>3. QED
    BY <1>2, <2>1, <2>2 DEF SeenIsClosed, SeenIsReachable, CompleteIsWhole, NothingBefore
<1>7. CASE Graph!GiveUp
  <2>1. /\ OpenClasses' = OpenClasses /\ ClosedClasses' = ClosedClasses
        /\ complete' = FALSE /\ Answer = "searching" /\ Answer' = "partial"
    BY <1>0, <1>7 DEF Graph!GiveUp
  <2>2. Graph!TypeOK'
    BY <1>0, <1>1, <1>t, <2>1 DEF Graph!TypeOK, Graph!Graphs, Graph!Answers
  <2>3. QED
    BY <1>2, <2>1, <2>2 DEF SeenIsClosed, SeenIsReachable, CompleteIsWhole, NothingBefore
<1>8. CASE Graph!Finish
  <2>1. /\ OpenClasses' = OpenClasses /\ ClosedClasses' = ClosedClasses
        /\ complete' = complete /\ Answer = "searching" /\ OpenClasses = {}
        /\ Answer' = IF complete THEN "complete" ELSE "partial"
    BY <1>0, <1>8 DEF Graph!Finish
  <2>2. Graph!TypeOK'
    BY <1>0, <1>1, <1>t, <2>1 DEF Graph!TypeOK, Graph!Graphs, Graph!Answers
  <2>3. QED
    BY <1>1, <1>2, <2>1, <2>2
    DEF SeenIsClosed, SeenIsReachable, CompleteIsWhole, NothingBefore
<1>9. CASE UNCHANGED Graph!vars
  <2>1. /\ OpenClasses' = OpenClasses /\ ClosedClasses' = ClosedClasses
        /\ complete' = complete /\ Answer' = Answer
    BY <1>0, <1>9 DEF Graph!vars
  <2>2. Graph!TypeOK'
    BY <1>0, <1>1, <1>t, <2>1 DEF Graph!TypeOK, Graph!Graphs
  <2>3. QED
    BY <1>1, <1>2, <2>1, <2>2
    DEF SeenIsClosed, SeenIsReachable, CompleteIsWhole, NothingBefore
<1>10. QED
  BY <1>4, <1>5, <1>6, <1>7, <1>8, <1>9 DEF Graph!Next

\* A search of the graph of classes that says complete has explored the reachable
\* classes and no other: what GraphSearch promises of complete = True
THEOREM CompleteSearchIsExact == Graph!Spec => []Graph!CompleteIsReachable
<1>1. Graph!Init => GraphInv
  BY DEF Graph!Init, GraphInv, Graph!TypeOK, Graph!Graphs, Graph!Answers, OpenClasses,
         ClosedClasses, SeenIsClosed, SeenIsReachable, CompleteIsWhole, NothingBefore
<1>2. GraphInv => Graph!CompleteIsReachable
  <2> SUFFICES ASSUME GraphInv, Answer = "complete" PROVE ClosedClasses = Graph!Reachable
    BY DEF Graph!CompleteIsReachable, ClosedClasses
  <2>1. Graph!ClosedUnderSucc(ClosedClasses)
    BY DEF GraphInv, SeenIsClosed, CompleteIsWhole, Graph!ClosedUnderSucc
  <2>2. Graph!Reachable \subseteq ClosedClasses
    BY <2>1 DEF GraphInv, Graph!TypeOK, Graph!Reachable, ClosedClasses
  <2>3. QED
    BY <2>2 DEF GraphInv, SeenIsReachable
<1>3. QED
  BY <1>1, <1>2, GraphStep, PTL DEF Graph!Spec

\* A result of LazySearchEngine.run that says complete = True has a terminal of
\* every reachable class of terminals and of no other class; and all state has its
\* types
THEOREM CompleteLazySearchIsExact == Spec => [](TypeOK /\ LazyExact)
<1>1. Init => TerminalsExplored
  BY DEF Init, TerminalsExplored, Explored
<1>2. Spec => [](LazyInv /\ TerminalsExplored)
  BY <1>1, LazyStart, LazyStep, TerminalsStep, PTL DEF Spec
<1>3. Spec => []Graph!CompleteIsReachable
  BY CompleteSearchIsExact, LazyImplementsGraph, PTL DEF GraphSpec
<1>4. LazyInv /\ TerminalsExplored /\ Graph!CompleteIsReachable => LazyExact
  <2> SUFFICES ASSUME LazyInv, TerminalsExplored, Graph!CompleteIsReachable,
                      phase = "done", complete
               PROVE  {ClassOf(grammar, s) : s \in terminals}
                        = {c \in Graph!Reachable :
                             \E s \in LazyStates : ClassOf(grammar, s) = c /\ s \in grammar.terminal}
    BY DEF LazyExact
  <2>1. ClassesOf(Explored) = Graph!Reachable
    BY DEF Graph!CompleteIsReachable, Answer
  <2>2. \A n \in Explored : Tip(n) \in LazyStates
    BY TipType DEF LazyInv, TypeOK, Explored, TraceNodes
  <2>3. ASSUME NEW s \in terminals
        PROVE  /\ ClassOf(grammar, s) \in ClassesOf(Explored)
               /\ s \in LazyStates /\ s \in grammar.terminal
    BY <2>2 DEF TerminalsExplored, ClassesOf
  <2>4. ASSUME NEW n \in Explored, NEW s \in LazyStates,
               ClassOf(grammar, s) = ClassOf(grammar, Tip(n)), s \in grammar.terminal
        PROVE  Tip(n) \in terminals
    BY <2>2, <2>4 DEF TerminalsExplored, LazyInv, TypeOK, IsGrammar
  <2>5. QED
    BY <2>1, <2>3, <2>4 DEF ClassesOf
<1>5. LazyInv => TypeOK
  BY DEF LazyInv
<1>6. QED
  BY <1>2, <1>3, <1>4, <1>5, PTL
-----------------------------------------------------------------------------
(* The lineage: who was emitted by whom, and what became of it             *)

NodesOf(records) == {t.node : t \in records}
Emitted == NodesOf(traces)
Present == Emitted \cup queue \cup fresh

\* The nodes emitted under a path, the ones of them that screening keeps, and
\* the ones of an expanded node
Offspring(p, kids) == {Append(p, kids[i]) : i \in DOMAIN kids}
Kept(p, kids) == {Append(p, kids[i]) : i \in Eligible(kids)}
ChildrenOf(n) == Offspring(n, grammar.expand[Tip(n)])

\* A node is in one place: the heap, enqueue's hands, or the traces, once.
InOnePlace ==
  /\ queue \cap fresh = {}
  /\ Emitted \cap (queue \cup fresh) = {}
  /\ \A t, u \in traces : t.node = u.node => t = u

\* Every node is a child of one that was traced as expanded, or a root.
HasParent ==
  \A m \in Present : Len(m) > 1 =>
    /\ Traced(ParentOf(m), "expanded", Nil) \in traces
    /\ m \in ChildrenOf(ParentOf(m))

\* No child of an expanded node is ever lost.
ChildrenKept ==
  \A t \in traces : t.disposition = "expanded" =>
    t.canonicalOf = Nil /\ ChildrenOf(t.node) \subseteq Present

\* Owners and canonical owners are nodes that were emitted.
OwnersKept ==
  /\ \A x \in Identities : owner[x] # Nil => owner[x] \in Present
  /\ \A t \in traces : t.canonicalOf # Nil => t.canonicalOf \in Present

NothingLeft == phase = "done" /\ complete => queue = {}

LineageInv == InOnePlace /\ HasParent /\ ChildrenKept /\ OwnersKept /\ NothingLeft

\* An extended path determines the path and the state it was extended by.
LEMMA ParentOfAppend ==
  ASSUME NEW p \in Seq(LazyStates), NEW s \in LazyStates
  PROVE  ParentOf(Append(p, s)) = p /\ Len(Append(p, s)) = Len(p) + 1
BY DEF ParentOf

\* Screening sends each child to one place: enqueue's hands or one trace.
LEMMA ScreenedNodes ==
  ASSUME TypeOK, NEW p \in Seq(LazyStates), NEW kids \in Seq(LazyStates), EmittedOnce(kids)
  PROVE  /\ NodesOf(ScreenedOut(p, kids)) \cup Kept(p, kids) = Offspring(p, kids)
         /\ NodesOf(ScreenedOut(p, kids)) \cap Kept(p, kids) = {}
         /\ \A t, u \in ScreenedOut(p, kids) : t.node = u.node => t = u
<1>1. \A i \in DOMAIN kids : kids[i] \in LazyStates
  OBVIOUS
<1>2. ASSUME NEW i \in DOMAIN kids, NEW j \in DOMAIN kids, Append(p, kids[i]) = Append(p, kids[j])
      PROVE  i = j
  <2>1. kids[i] = kids[j]
    BY <1>1, <1>2, TipOfAppend
  <2>2. QED
    BY <2>1 DEF EmittedOnce
<1>3. Eligible(kids) \subseteq {j \in DOMAIN kids : Possible(grammar, kids[j])}
  BY DEF Eligible
<1> DEFINE out == ScreenedOut(p, kids)
           seen == NodesOf(out)
           Closed == {j \in DOMAIN kids : ~Possible(grammar, kids[j])}
           Again == {j \in DOMAIN kids : Possible(grammar, kids[j])} \ Eligible(kids)
           A(i) == Traced(Append(p, kids[i]), grammar.status[kids[i]], Nil)
           B(i) == Traced(Append(p, kids[i]), "canonical_duplicate",
                          OwnersAfter(p, kids)[grammar.identity[kids[i]]])
<1>4. out = {A(i) : i \in Closed} \cup {B(i) : i \in Again}
  BY DEF ScreenedOut
<1>5. \A i \in DOMAIN kids : A(i).node = Append(p, kids[i]) /\ B(i).node = Append(p, kids[i])
  BY DEF Traced
<1>6. /\ Closed \cup Again \cup Eligible(kids) = DOMAIN kids
      /\ Closed \cap Again = {} /\ Eligible(kids) \cap (Closed \cup Again) = {}
  BY <1>3
<1> HIDE DEF A, B, Closed, Again, out
<1>7. seen = {Append(p, kids[i]) : i \in Closed \cup Again}
  BY <1>4, <1>5, <1>6 DEF NodesOf
<1> HIDE DEF seen
<1>8. seen \cup Kept(p, kids) = Offspring(p, kids)
  BY <1>6, <1>7 DEF Offspring, Kept
<1>9. seen \cap Kept(p, kids) = {}
  BY <1>2, <1>6, <1>7 DEF Kept
<1>10. ASSUME NEW t \in out, NEW u \in out, t.node = u.node PROVE t = u
  <2>1. PICK i \in Closed \cup Again : /\ t.node = Append(p, kids[i])
                                       /\ i \in Closed => t = A(i)
                                       /\ i \in Again => t = B(i)
    BY <1>4, <1>5, <1>6
  <2>2. PICK j \in Closed \cup Again : /\ u.node = Append(p, kids[j])
                                       /\ j \in Closed => u = A(j)
                                       /\ j \in Again => u = B(j)
    BY <1>4, <1>5, <1>6
  <2>3. i = j
    BY <1>2, <1>6, <1>10, <2>1, <2>2
  <2>4. QED
    BY <2>1, <2>2, <2>3
<1>11. QED
  BY <1>8, <1>9, <1>10 DEF seen, out

\* An owner after screening is an owner from before or one of the new nodes.
LEMMA ScreenedOwners ==
  ASSUME TypeOK, NEW p \in Seq(LazyStates), NEW kids \in Seq(LazyStates)
  PROVE  /\ \A x \in Identities : OwnersAfter(p, kids)[x] \in {owner[x]} \cup Kept(p, kids)
         /\ \A t \in ScreenedOut(p, kids) :
              t.canonicalOf \in {Nil} \cup {owner[x] : x \in Identities} \cup Kept(p, kids)
<1>1. ASSUME NEW x \in Identities PROVE OwnersAfter(p, kids)[x] \in {owner[x]} \cup Kept(p, kids)
  <2> DEFINE c == CHOOSE i \in Eligible(kids) : grammar.identity[kids[i]] = x
  <2>1. CASE \E i \in Eligible(kids) : grammar.identity[kids[i]] = x
    <3>1. c \in Eligible(kids)
      BY <2>1
    <3>2. OwnersAfter(p, kids)[x] = Append(p, kids[c])
      BY <2>1 DEF OwnersAfter
    <3> HIDE DEF c
    <3>3. QED
      BY <3>1, <3>2 DEF Kept
  <2>2. CASE ~\E i \in Eligible(kids) : grammar.identity[kids[i]] = x
    BY <2>2 DEF OwnersAfter
  <2>3. QED
    BY <2>1, <2>2
<1>2. \A k \in DOMAIN kids : grammar.identity[kids[k]] \in Identities
  BY ClassType DEF TypeOK
<1>3. \A k \in DOMAIN kids : OwnersAfter(p, kids)[grammar.identity[kids[k]]]
                               \in {owner[x] : x \in Identities} \cup Kept(p, kids)
  BY <1>1, <1>2
<1>4. QED
  BY <1>1, <1>3 DEF ScreenedOut, Traced

\* A node of the heap or of enqueue's hands gets its trace, and stays childless.
LEMMA MovedNode ==
  ASSUME LineageInv, NEW n \in queue \cup fresh, NEW t, t.node = n,
         t.disposition # "expanded", t.canonicalOf \in {Nil} \cup Present,
         traces' = traces \cup {t}, queue' = queue \ {n}, fresh' = fresh \ {n},
         UNCHANGED <<grammar, owner>>, NothingLeft'
  PROVE  LineageInv'
<1>1. Emitted' = Emitted \cup {n}
  BY DEF Emitted, NodesOf
<1>2. Present' = Present
  BY <1>1 DEF Present
<1>3. n \notin Emitted
  BY DEF LineageInv, InOnePlace
<1>4. InOnePlace'
  <2>1. (queue \cap fresh = {})' /\ (Emitted \cap (queue \cup fresh) = {})'
    BY <1>1 DEF LineageInv, InOnePlace
  <2>2. \A u \in traces : u.node # t.node
    BY <1>3 DEF Emitted, NodesOf
  <2>3. QED
    BY <2>1, <2>2 DEF LineageInv, InOnePlace
<1>5. \A m : ChildrenOf(m)' = ChildrenOf(m)
  BY DEF ChildrenOf
<1>6. HasParent'
  BY <1>2, <1>5 DEF LineageInv, HasParent
<1>7. ChildrenKept'
  BY <1>2, <1>5 DEF LineageInv, ChildrenKept
<1>8. OwnersKept'
  BY <1>2 DEF LineageInv, OwnersKept
<1>9. QED
  BY <1>4, <1>6, <1>7, <1>8 DEF LineageInv

\* Screening the children of the root, or of a node just taken from the heap.
LEMMA ScreenLineage ==
  ASSUME TypeOK, LineageInv, fresh = {}, NEW p \in Seq(LazyStates), NEW kids \in Seq(LazyStates),
         EmittedOnce(kids), \A m \in Present, s \in LazyStates : m # Append(p, s),
         NEW base, Screen(p, kids, base), grammar' = grammar,
         \/ p = <<>> /\ base = traces /\ queue' = queue
         \/ /\ p \in queue /\ queue' = queue \ {p}
            /\ base = traces \cup {Traced(p, "expanded", Nil)}
            /\ kids = grammar.expand[Tip(p)]
  PROVE  LineageInv'
<1> DEFINE out == ScreenedOut(p, kids)
           new == Kept(p, kids)
           seen == NodesOf(out)
           e == Traced(p, "expanded", Nil)
<1>1. traces' = base \cup out /\ fresh' = new /\ owner' = OwnersAfter(p, kids)
      /\ phase' = "enqueue"
  BY DEF Screen, Kept
<1>2. /\ seen \cup new = Offspring(p, kids)
      /\ seen \cap new = {}
      /\ \A t, u \in out : t.node = u.node => t = u
  BY ScreenedNodes
<1>3. /\ \A x \in Identities : OwnersAfter(p, kids)[x] \in {owner[x]} \cup new
      /\ \A t \in out : t.canonicalOf \in {Nil} \cup {owner[x] : x \in Identities} \cup new
  BY ScreenedOwners
<1>4. \A t \in out : t.disposition \notin {"expanded", "terminal"}
  BY ScreenedOutType
<1>5. e.node = p /\ e.canonicalOf = Nil /\ e.disposition = "expanded"
  BY DEF Traced
<1>6. \A m \in Offspring(p, kids) : /\ m \notin Present /\ m # p
                                    /\ ParentOf(m) = p /\ Len(m) = Len(p) + 1
  <2>1. \A i \in DOMAIN kids : kids[i] \in LazyStates
    OBVIOUS
  <2>2. \A i \in DOMAIN kids : /\ ParentOf(Append(p, kids[i])) = p
                               /\ Len(Append(p, kids[i])) = Len(p) + 1
                               /\ Append(p, kids[i]) \notin Present
    BY <2>1, ParentOfAppend
  <2>3. Len(p) # Len(p) + 1
    OBVIOUS
  <2>4. QED
    BY <2>2, <2>3 DEF Offspring
<1> HIDE DEF out, new, seen, e
<1>7. /\ NodesOf(base) \cup queue' = Emitted \cup queue
      /\ NodesOf(base) \cap queue' = {}
      /\ traces \subseteq base
  BY <1>5 DEF LineageInv, InOnePlace, Emitted, NodesOf, e
<1>8. /\ Emitted' = NodesOf(base) \cup seen
      /\ \A t \in out : t.node \in seen
  BY <1>1 DEF Emitted, NodesOf, seen
<1>9. Present' = Present \cup Offspring(p, kids)
  BY <1>1, <1>2, <1>7, <1>8 DEF Present
<1>10. InOnePlace'
  <2>1. NodesOf(base) \cup queue' \subseteq Present
    BY <1>7 DEF Present
  <2>2. (queue \cap fresh = {})' /\ (Emitted \cap (queue \cup fresh) = {})'
    BY <1>1, <1>2, <1>6, <1>7, <1>8, <2>1
  <2>3. \A t, u \in base : t.node = u.node => t = u
    <3>1. CASE base = traces
      BY <3>1 DEF LineageInv, InOnePlace
    <3>2. CASE base = traces \cup {e} /\ p \in queue
      <4>1. p \notin Emitted
        BY <3>2 DEF LineageInv, InOnePlace
      <4>2. \A t \in traces : t.node # e.node
        BY <1>5, <4>1 DEF Emitted, NodesOf
      <4>3. QED
        BY <3>2, <4>2 DEF LineageInv, InOnePlace
    <3>3. QED
      BY <3>1, <3>2 DEF e
  <2>4. \A t \in base, u \in out : t.node # u.node
    BY <1>2, <1>6, <1>8, <2>1 DEF NodesOf
  <2>5. QED
    BY <1>1, <1>2, <2>2, <2>3, <2>4 DEF InOnePlace
<1>11. \A m : ChildrenOf(m)' = ChildrenOf(m)
  BY DEF ChildrenOf
<1>12. HasParent'
  <2>1. ASSUME NEW m \in Present, Len(m) > 1
        PROVE  Traced(ParentOf(m), "expanded", Nil) \in traces' /\ m \in ChildrenOf(ParentOf(m))
    BY <1>1, <1>7, <2>1 DEF LineageInv, HasParent
  <2>2. ASSUME NEW m \in Offspring(p, kids), Len(m) > 1
        PROVE  Traced(ParentOf(m), "expanded", Nil) \in traces' /\ m \in ChildrenOf(ParentOf(m))
    <3>1. ParentOf(m) = p /\ p # <<>>
      BY <1>6, <2>2
    <3>2. e \in traces' /\ kids = grammar.expand[Tip(p)]
      BY <1>1, <3>1 DEF e
    <3>3. QED
      BY <3>1, <3>2 DEF e, ChildrenOf
  <2>3. QED
    BY <1>9, <1>11, <2>1, <2>2 DEF HasParent
<1>13. ChildrenKept'
  <2>1. ASSUME NEW t \in traces', t.disposition = "expanded"
        PROVE  t.canonicalOf = Nil /\ ChildrenOf(t.node) \subseteq Present'
    <3>1. CASE t \in traces
      BY <1>9, <2>1, <3>1 DEF LineageInv, ChildrenKept
    <3>2. CASE t \notin traces
      <4>1. t = e /\ kids = grammar.expand[Tip(p)]
        BY <1>1, <1>4, <2>1, <3>2 DEF e
      <4>2. QED
        BY <1>5, <1>9, <4>1 DEF ChildrenOf
    <3>3. QED
      BY <3>1, <3>2
  <2>2. QED
    BY <1>11, <2>1 DEF ChildrenKept
<1>14. OwnersKept'
  <2>1. new \subseteq Present'
    BY <1>2, <1>9
  <2>2. \A x \in Identities : owner'[x] # Nil => owner'[x] \in Present'
    BY <1>1, <1>3, <1>9, <2>1 DEF LineageInv, OwnersKept
  <2>3. \A x \in Identities : owner[x] # Nil => owner[x] \in Present'
    BY <1>9 DEF LineageInv, OwnersKept
  <2>4. ASSUME NEW t \in traces', t.canonicalOf # Nil PROVE t.canonicalOf \in Present'
    <3>1. CASE t \in traces
      BY <1>9, <2>4, <3>1 DEF LineageInv, OwnersKept
    <3>2. CASE t \in out
      BY <1>3, <2>1, <2>3, <2>4, <3>2
    <3>3. CASE t = e
      BY <1>5, <2>4, <3>3
    <3>4. QED
      BY <1>1, <3>1, <3>2, <3>3 DEF e
  <2>5. QED
    BY <2>2, <2>4 DEF OwnersKept
<1>15. NothingLeft'
  BY <1>1 DEF NothingLeft
<1>16. QED
  BY <1>10, <1>12, <1>13, <1>14, <1>15 DEF LineageInv

LEMMA LineageStep == LazyInv /\ LineageInv /\ [Next]_vars => LineageInv'
<1> SUFFICES ASSUME LazyInv, LineageInv, [Next]_vars PROVE LineageInv'
  OBVIOUS
<1> USE DEF LazyInv
<1>1. CASE Seed
  <2>1. /\ fresh = {} /\ queue = {} /\ traces = {} /\ grammar' = grammar /\ queue' = queue
        /\ Screen(<<>>, grammar.initial, traces)
    BY <1>1 DEF Seed, PhasesFit
  <2>2. <<>> \in Seq(LazyStates) /\ grammar.initial \in Seq(LazyStates)
        /\ EmittedOnce(grammar.initial)
    BY DEF TypeOK, IsGrammar
  <2>3. Present = {}
    BY <2>1 DEF Present, Emitted, NodesOf
  <2>4. QED
    BY <2>1, <2>2, <2>3, ScreenLineage
<1>2. ASSUME NEW left \in fresh, NEW right \in fresh, Alias(left, right)
      PROVE  LineageInv'
  <2> DEFINE t == Traced(right, "verified_equivalent", left)
  <2>1. t.node = right /\ t.disposition # "expanded" /\ t.canonicalOf = left
    BY DEF Traced
  <2>2. left \in Present /\ right \in queue \cup fresh
    BY DEF Present
  <2>3. queue' = queue \ {right}
    BY <1>2 DEF Alias, LineageInv, InOnePlace
  <2>4. /\ traces' = traces \cup {t} /\ fresh' = fresh \ {right}
        /\ UNCHANGED <<grammar, owner>> /\ NothingLeft'
    BY <1>2 DEF Alias, NothingLeft
  <2> HIDE DEF t
  <2>5. QED
    BY <2>1, <2>2, <2>3, <2>4, MovedNode
<1>3. CASE Push
  <2>1. /\ queue' = queue \cup fresh /\ fresh' = {} /\ phase' = "loop"
        /\ UNCHANGED <<grammar, owner, traces>>
    BY <1>3 DEF Push
  <2>2. Emitted' = Emitted /\ Present' = Present
    BY <2>1 DEF Emitted, Present
  <2>3. \A m : ChildrenOf(m)' = ChildrenOf(m)
    BY <2>1 DEF ChildrenOf
  <2>4. InOnePlace' /\ NothingLeft'
    BY <2>1, <2>2 DEF LineageInv, InOnePlace, NothingLeft
  <2>5. HasParent' /\ ChildrenKept' /\ OwnersKept'
    BY <2>1, <2>2, <2>3 DEF LineageInv, HasParent, ChildrenKept, OwnersKept
  <2>6. QED
    BY <2>4, <2>5 DEF LineageInv
<1>4. ASSUME NEW n \in queue, PolicyPrunes(n) \/ PolicyDefers(n) \/ ReachTerminal(n)
      PROVE  LineageInv'
  <2>1. PICK d \in {"policy_pruned", "deferred", "terminal"} :
          traces' = traces \cup {Traced(n, d, Nil)}
    BY <1>4 DEF PolicyPrunes, PolicyDefers, ReachTerminal
  <2>2. /\ phase = "loop" /\ queue' = queue \ {n} /\ phase' = phase /\ fresh' = fresh
        /\ UNCHANGED <<grammar, owner>>
    BY <1>4 DEF PolicyPrunes, PolicyDefers, ReachTerminal, Pop
  <2> DEFINE t == Traced(n, d, Nil)
  <2>3. t.node = n /\ t.disposition # "expanded" /\ t.canonicalOf = Nil
    BY DEF Traced
  <2>4. fresh' = fresh \ {n} /\ NothingLeft'
    BY <2>2 DEF PhasesFit, NothingLeft
  <2> HIDE DEF t
  <2>5. QED
    BY <2>1, <2>2, <2>3, <2>4, MovedNode DEF t
<1>5. ASSUME NEW n \in queue, Expand(n) PROVE LineageInv'
  <2>1. /\ n \in Seq(LazyStates) /\ Tip(n) \in LazyStates /\ n \in Nodes
        /\ grammar.expand[Tip(n)] \in Seq(LazyStates)
        /\ EmittedOnce(grammar.expand[Tip(n)])
    BY TipType DEF TypeOK, IsGrammar
  <2>2. /\ fresh = {} /\ queue' = queue \ {n} /\ grammar' = grammar
        /\ Screen(n, grammar.expand[Tip(n)], traces \cup {Traced(n, "expanded", Nil)})
    BY <1>5 DEF Expand, Pop, PhasesFit
  <2>3. ASSUME NEW m \in Present, NEW s \in LazyStates, m = Append(n, s) PROVE FALSE
    <3>1. ParentOf(m) = n /\ Len(m) = Len(n) + 1
      BY <2>1, <2>3, ParentOfAppend
    <3>2. Len(n) > 0
      BY <2>1 DEF Nodes
    <3>3. Traced(n, "expanded", Nil) \in traces
      BY <3>1, <3>2, <2>1 DEF LineageInv, HasParent
    <3>4. Traced(n, "expanded", Nil).node = n
      BY DEF Traced
    <3>5. n \in Emitted
      BY <3>3, <3>4 DEF Emitted, NodesOf
    <3>6. QED
      BY <3>5 DEF LineageInv, InOnePlace
  <2>4. QED
    BY <2>1, <2>2, <2>3, ScreenLineage
<1>6. CASE Stop \/ Finish \/ UNCHANGED vars
  <2>1. UNCHANGED <<grammar, owner, traces, queue, fresh>>
    BY <1>6 DEF Stop, Finish, vars
  <2>2. Emitted' = Emitted /\ Present' = Present
    BY <2>1 DEF Emitted, Present
  <2>3. \A m : ChildrenOf(m)' = ChildrenOf(m)
    BY <2>1 DEF ChildrenOf
  <2>4. NothingLeft'
    BY <1>6 DEF Stop, Finish, vars, LineageInv, NothingLeft
  <2>5. InOnePlace' /\ HasParent' /\ ChildrenKept' /\ OwnersKept'
    BY <2>1, <2>2, <2>3 DEF LineageInv, InOnePlace, HasParent, ChildrenKept, OwnersKept
  <2>6. QED
    BY <2>4, <2>5 DEF LineageInv
<1>7. QED
  BY <1>1, <1>2, <1>3, <1>4, <1>5, <1>6 DEF Next

LEMMA LineageInvariant == Spec => [](LazyInv /\ LineageInv)
<1>1. Init => LineageInv
  BY DEF Init, LineageInv, InOnePlace, HasParent, ChildrenKept, OwnersKept, NothingLeft,
         Present, Emitted, NodesOf
<1>2. QED
  BY <1>1, LazyStart, LazyStep, LineageStep, PTL DEF Spec

\* The lineage that _build_trace exports is closed: the parent of every node was
\* traced as expanded, and no node is traced twice
THEOREM LineageClosed == Spec => []Lineage
<1>1. LineageInv => Lineage
  BY DEF LineageInv, InOnePlace, HasParent, Lineage, Present, Emitted, NodesOf
<1>2. QED
  BY <1>1, LineageInvariant, PTL

\* A complete result accounts for every child: the recounted numbers are what the
\* grammar emitted, and every canonical owner it names is one of its nodes
THEOREM CompleteLineageIsWhole == Spec => []ExhaustiveIsWhole
<1>1. ASSUME LazyInv, LineageInv, phase = "done", complete, NEW t \in traces,
             t.disposition = "expanded"
      PROVE  ChildCount(t.node) = Len(grammar.expand[Tip(t.node)])
  <2> DEFINE n == t.node
             kids == grammar.expand[Tip(n)]
             C == {u \in traces : Len(u.node) > 1 /\ ParentOf(u.node) = n}
  <2>1. /\ n \in Nodes /\ n \in Seq(LazyStates) /\ Len(n) > 0 /\ Tip(n) \in LazyStates
        /\ kids \in Seq(LazyStates) /\ EmittedOnce(kids)
    <3>1. n \in Nodes /\ IsGrammar(grammar)
      BY <1>1 DEF LazyInv, TypeOK, TraceNodes
    <3>2. n \in Seq(LazyStates) /\ Tip(n) \in LazyStates
      BY <3>1, TipType
    <3>3. kids \in Seq(LazyStates) /\ EmittedOnce(kids)
      BY <3>1, <3>2 DEF IsGrammar
    <3>4. Len(n) > 0
      BY <3>1 DEF Nodes
    <3>5. QED
      BY <3>1, <3>2, <3>3, <3>4
  <2>2. Present = Emitted
    BY <1>1 DEF LazyInv, PhasesFit, LineageInv, NothingLeft, Present
  <2>3. \A i \in 1 .. Len(kids) : \E u \in traces : u.node = Append(n, kids[i])
    <3>1. ChildrenOf(n) \subseteq Emitted
      BY <1>1, <2>2 DEF LineageInv, ChildrenKept
    <3>2. \A i \in 1 .. Len(kids) : Append(n, kids[i]) \in ChildrenOf(n)
      BY <2>1 DEF ChildrenOf, Offspring
    <3> HIDE DEF kids, n
    <3>3. \A i \in 1 .. Len(kids) : Append(n, kids[i]) \in {u.node : u \in traces}
      BY <3>1, <3>2 DEF Emitted, NodesOf
    <3>4. QED
      BY <3>3
  <2>4. \A i \in 1 .. Len(kids) : kids[i] \in LazyStates
    BY <2>1
  <2>5. \A u \in C : \E i \in 1 .. Len(kids) : u.node = Append(n, kids[i])
    BY <1>1, <2>1 DEF LineageInv, HasParent, ChildrenOf, Offspring, Present, Emitted, NodesOf
  <2>6. \A i \in 1 .. Len(kids) : /\ ParentOf(Append(n, kids[i])) = n
                                  /\ Len(Append(n, kids[i])) > 1
                                  /\ Tip(Append(n, kids[i])) = kids[i]
    BY <2>1, <2>4, ParentOfAppend, TipOfAppend
  <2>7. \A i, j \in 1 .. Len(kids) : kids[i] = kids[j] => i = j
    BY <2>1 DEF EmittedOnce
  <2>8. \A u, v \in C : u.node = v.node => u = v
    BY <1>1 DEF LineageInv, InOnePlace
  <2>9. C = {u \in traces : Len(u.node) > 1 /\ ParentOf(u.node) = n} /\ Len(kids) \in Nat
    BY <2>1
  <2> DEFINE f == [i \in 1 .. Len(kids) |-> CHOOSE u \in C : u.node = Append(n, kids[i])]
  <2>10. \A i \in 1 .. Len(kids) : \E u \in C : u.node = Append(n, kids[i])
    BY <2>3, <2>6
  <2> HIDE DEF C, kids, n
  <2>11. \A i \in 1 .. Len(kids) : f[i] \in C /\ f[i].node = Append(n, kids[i])
    BY <2>10
  <2> HIDE DEF f
  <2>12. f \in Bijection(1 .. Len(kids), C)
    <3>1. f \in [1 .. Len(kids) -> C]
      BY <2>11 DEF f
    <3>2. \A i, j \in 1 .. Len(kids) : f[i] = f[j] => i = j
      BY <2>6, <2>7, <2>11
    <3>3. \A u \in C : \E i \in 1 .. Len(kids) : f[i] = u
      <4> TAKE u \in C
      <4>1. PICK i \in 1 .. Len(kids) : u.node = Append(n, kids[i])
        BY <2>5
      <4>2. f[i] \in C /\ f[i].node = u.node
        BY <2>11, <4>1
      <4>3. f[i] = u
        BY <2>8, <4>2
      <4>4. QED
        BY <4>3
    <3>4. QED
      BY <3>1, <3>2, <3>3 DEF Bijection, Injection, Surjection, IsInjective
  <2>13. Cardinality(C) = Len(kids)
    BY <2>9, <2>12, FS_CountingElements DEF ExistsBijection
  <2>14. QED
    BY <2>13 DEF ChildCount, C, kids, n
<1>2. ASSUME LazyInv, LineageInv, phase = "done", complete, NEW t \in traces,
             t.canonicalOf # Nil
      PROVE  \E u \in traces : u.node = t.canonicalOf
  BY <1>2 DEF LazyInv, PhasesFit, LineageInv, NothingLeft, OwnersKept, Present, Emitted, NodesOf
<1>3. LazyInv /\ LineageInv => ExhaustiveIsWhole
  BY <1>1, <1>2 DEF ExhaustiveIsWhole
<1>4. QED
  BY <1>3, LineageInvariant, PTL

-----------------------------------------------------------------------------
(* The budget on nodes alone ends a search, of an endless grammar too      *)

\* How many nodes the search may still take off its heap before OverBudget stops it
NodesLeft ==
  IF Cardinality(traces) < NodeBudget(mode) THEN NodeBudget(mode) - Cardinality(traces) ELSE 0

\* The phases a call still has before it, if it takes no further node
PhasesLeft ==
  CASE phase = "start" -> 3 [] phase = "enqueue" -> 2 [] phase = "loop" -> 1 [] OTHER -> 0

\* Every step comes nearer to the end: in the nodes that may be taken, then in the
\* phases, then in the children enqueue still has to merge or to push.
ComesNearer ==
  \/ NodesLeft' < NodesLeft
  \/ /\ NodesLeft' = NodesLeft
     /\ \/ PhasesLeft' < PhasesLeft
        \/ PhasesLeft' = PhasesLeft /\ Cardinality(fresh') < Cardinality(fresh)

\* The traces and the children in enqueue's hands are finitely many.
FinitelyMany == IsFiniteSet(traces) /\ IsFiniteSet(fresh)

\* The values of a function on a finite set are finitely many.
LEMMA ImageIsFinite ==
  ASSUME NEW S, IsFiniteSet(S), NEW f
  PROVE  IsFiniteSet({f[i] : i \in S})
<1> DEFINE T == {f[i] : i \in S}
           h == [i \in S |-> f[i]]
<1>1. h \in Surjection(S, T)
  BY DEF Surjection
<1>2. QED
  BY <1>1, FS_Surjection

\* Screening a list of children yields finitely many of both.
LEMMA ScreenIsFinite ==
  ASSUME NEW p, NEW kids \in Seq(LazyStates), NEW base, IsFiniteSet(base),
         Screen(p, kids, base)
  PROVE  FinitelyMany' /\ IsFiniteSet(traces') /\ base \subseteq traces'
<1> DEFINE Closed == {j \in DOMAIN kids : ~Possible(grammar, kids[j])}
           Again == {j \in DOMAIN kids : Possible(grammar, kids[j])} \ Eligible(kids)
           A == [i \in Closed |-> Traced(Append(p, kids[i]), grammar.status[kids[i]], Nil)]
           B == [i \in Again |-> Traced(Append(p, kids[i]), "canonical_duplicate",
                                        OwnersAfter(p, kids)[grammar.identity[kids[i]]])]
           C == [i \in Eligible(kids) |-> Append(p, kids[i])]
<1>1. IsFiniteSet(DOMAIN kids)
  <2>1. DOMAIN kids = 1 .. Len(kids) /\ Len(kids) \in Nat
    OBVIOUS
  <2>2. QED
    BY <2>1, FS_Interval
<1>2. IsFiniteSet(Closed) /\ IsFiniteSet(Again) /\ IsFiniteSet(Eligible(kids))
  <2>1. Closed \in SUBSET DOMAIN kids /\ Again \in SUBSET DOMAIN kids
        /\ Eligible(kids) \in SUBSET DOMAIN kids
    BY DEF Eligible
  <2> HIDE DEF Closed, Again
  <2>2. QED
    BY <1>1, <2>1, FS_Subset
<1>3. ScreenedOut(p, kids) = {A[i] : i \in Closed} \cup {B[i] : i \in Again}
  BY DEF ScreenedOut
<1>4. {Append(p, kids[i]) : i \in Eligible(kids)} = {C[i] : i \in Eligible(kids)}
  OBVIOUS
<1>5. /\ IsFiniteSet({A[i] : i \in Closed}) /\ IsFiniteSet({B[i] : i \in Again})
      /\ IsFiniteSet({C[i] : i \in Eligible(kids)})
  <2> HIDE DEF A, B, C, Closed, Again
  <2>1. QED
    BY <1>2, ImageIsFinite
<1>6. IsFiniteSet(base \cup ScreenedOut(p, kids))
  <2> HIDE DEF A, B, Closed, Again
  <2>1. IsFiniteSet(ScreenedOut(p, kids))
    BY <1>3, <1>5, FS_Union
  <2>2. QED
    BY <2>1, FS_Union
<1>7. traces' = base \cup ScreenedOut(p, kids)
      /\ fresh' = {Append(p, kids[i]) : i \in Eligible(kids)}
  BY DEF Screen
<1> HIDE DEF A, B, C, Closed, Again
<1>8. QED
  BY <1>4, <1>5, <1>6, <1>7 DEF FinitelyMany

\* With more nodes traced, no more may be taken; a node taken within the budget
\* costs one of them.
LEMMA NodesLeftFalls ==
  ASSUME TypeOK, mode' = mode, IsFiniteSet(traces), IsFiniteSet(traces'), traces \subseteq traces'
  PROVE  /\ NodesLeft \in Nat /\ NodesLeft' \in Nat
         /\ NodesLeft' <= NodesLeft
         /\ Cardinality(traces) < NodeBudget(mode) /\ traces' # traces => NodesLeft' < NodesLeft
<1>1. /\ Cardinality(traces) \in Nat /\ Cardinality(traces') \in Nat
      /\ Cardinality(traces) <= Cardinality(traces')
      /\ traces' # traces => Cardinality(traces) # Cardinality(traces')
  BY FS_CardinalityType, FS_Subset
<1>2. NodeBudget(mode) \in Nat
  BY LazyAssumption DEF TypeOK
<1>3. /\ NodesLeft = IF Cardinality(traces) < NodeBudget(mode)
                       THEN NodeBudget(mode) - Cardinality(traces) ELSE 0
      /\ NodesLeft' = IF Cardinality(traces') < NodeBudget(mode)
                        THEN NodeBudget(mode) - Cardinality(traces') ELSE 0
  BY DEF NodesLeft
<1>4. QED
  BY <1>1, <1>2, <1>3

\* A node taken off the heap was not traced before, and is now.
LEMMA TakenIsNew ==
  ASSUME LineageInv, NEW n \in queue \cup fresh, NEW d, NEW o, Traced(n, d, o) \in traces'
  PROVE  traces' # traces
<1>1. Traced(n, d, o).node = n
  BY DEF Traced
<1>2. n \notin Emitted
  BY DEF LineageInv, InOnePlace
<1>3. Traced(n, d, o) \notin traces
  BY <1>1, <1>2 DEF Emitted, NodesOf
<1>4. QED
  BY <1>3

\* One step keeps both finite and comes nearer to the end.
LEMMA StepComesNearer ==
  ASSUME LazyInv, LineageInv, FinitelyMany, Next
  PROVE  FinitelyMany' /\ ComesNearer
<1> USE DEF LazyInv
<1>1. IsFiniteSet(traces) /\ IsFiniteSet(fresh)
  BY DEF FinitelyMany
<1>2. CASE Seed
  <2>1. /\ Screen(<<>>, grammar.initial, traces) /\ mode' = mode /\ phase = "start"
        /\ phase' = "enqueue" /\ grammar.initial \in Seq(LazyStates)
    BY <1>2 DEF Seed, Screen, TypeOK, IsGrammar
  <2>2. FinitelyMany' /\ IsFiniteSet(traces') /\ traces \subseteq traces'
    BY <1>1, <2>1, ScreenIsFinite
  <2>3. NodesLeft \in Nat /\ NodesLeft' \in Nat /\ NodesLeft' <= NodesLeft
    BY <1>1, <2>1, <2>2, NodesLeftFalls
  <2>4. PhasesLeft' < PhasesLeft
    BY <2>1 DEF PhasesLeft
  <2>5. QED
    BY <2>2, <2>3, <2>4 DEF ComesNearer
<1>3. ASSUME NEW left \in fresh, NEW right \in fresh, Alias(left, right)
      PROVE  FinitelyMany' /\ ComesNearer
  <2>1. /\ traces' = traces \cup {Traced(right, "verified_equivalent", left)}
        /\ fresh' = fresh \ {right} /\ phase' = phase /\ mode' = mode
    BY <1>3 DEF Alias
  <2>2. IsFiniteSet(traces') /\ IsFiniteSet(fresh') /\ Cardinality(fresh') = Cardinality(fresh) - 1
        /\ Cardinality(fresh) \in Nat
    BY <1>1, <2>1, FS_AddElement, FS_RemoveElement, FS_CardinalityType
  <2>3. NodesLeft \in Nat /\ NodesLeft' \in Nat /\ NodesLeft' <= NodesLeft
    BY <1>1, <2>1, <2>2, NodesLeftFalls
  <2>4. PhasesLeft' = PhasesLeft /\ Cardinality(fresh') < Cardinality(fresh)
    BY <2>1, <2>2 DEF PhasesLeft
  <2>5. QED
    BY <2>2, <2>3, <2>4 DEF ComesNearer, FinitelyMany
<1>4. CASE Push
  <2>1. fresh' = {} /\ UNCHANGED <<traces, mode>> /\ phase = "enqueue" /\ phase' = "loop"
    BY <1>4 DEF Push
  <2>2. QED
    BY <1>1, <2>1, FS_EmptySet DEF FinitelyMany, ComesNearer, NodesLeft, PhasesLeft
<1>5. ASSUME NEW n \in queue, PolicyPrunes(n) \/ PolicyDefers(n) \/ ReachTerminal(n) \/ Expand(n)
      PROVE  FinitelyMany' /\ ComesNearer
  <2>1. mode' = mode /\ ~OverBudget
    BY <1>5 DEF PolicyPrunes, PolicyDefers, ReachTerminal, Expand, Pop
  <2>2. PICK d \in {"policy_pruned", "deferred", "terminal", "expanded"} :
          \/ traces' = traces \cup {Traced(n, d, Nil)} /\ fresh' = fresh
          \/ Screen(n, grammar.expand[Tip(n)], traces \cup {Traced(n, d, Nil)})
    BY <1>5 DEF PolicyPrunes, PolicyDefers, ReachTerminal, Expand
  <2> DEFINE base == traces \cup {Traced(n, d, Nil)}
  <2>3. IsFiniteSet(base)
    BY <1>1, FS_AddElement
  <2>4. grammar.expand[Tip(n)] \in Seq(LazyStates)
    <3>1. Tip(n) \in LazyStates
      BY TipType DEF TypeOK
    <3>2. QED
      BY <3>1 DEF TypeOK, IsGrammar
  <2>5. FinitelyMany' /\ IsFiniteSet(traces') /\ base \subseteq traces'
    <3>1. CASE traces' = base /\ fresh' = fresh
      BY <1>1, <2>3, <3>1 DEF FinitelyMany
    <3>2. CASE Screen(n, grammar.expand[Tip(n)], base)
      <4> HIDE DEF base
      <4>1. QED
        BY <2>3, <2>4, <3>2, ScreenIsFinite
    <3>3. QED
      BY <2>2, <3>1, <3>2
  <2>6. traces \subseteq traces' /\ traces' # traces
    BY <2>5, TakenIsNew
  <2>7. Cardinality(traces) < NodeBudget(mode)
    <3>1. ~(Cardinality(traces) >= NodeBudget(mode))
      BY <2>1 DEF OverBudget
    <3>2. Cardinality(traces) \in Nat /\ NodeBudget(mode) \in Nat
      BY <1>1, FS_CardinalityType, LazyAssumption DEF TypeOK
    <3>3. QED
      BY <3>1, <3>2
  <2>8. NodesLeft' < NodesLeft
    BY <1>1, <2>1, <2>5, <2>6, <2>7, NodesLeftFalls
  <2>9. QED
    BY <2>5, <2>8 DEF ComesNearer
<1>6. CASE Stop \/ Finish
  <2>1. UNCHANGED <<traces, fresh, mode>> /\ phase = "loop" /\ phase' = "done"
    BY <1>6 DEF Stop, Finish
  <2>2. QED
    BY <1>1, <2>1 DEF FinitelyMany, ComesNearer, NodesLeft, PhasesLeft
<1>7. QED
  BY <1>2, <1>3, <1>4, <1>5, <1>6 DEF Next

\* A call of the search is finite because of its budget on nodes alone: also when
\* the grammar has no end of states, and whatever is merged, pruned or deferred.
\* The three numbers are natural, and every step lowers one of them and leaves the
\* ones before it as they are.
THEOREM LazyRunsAreFinite ==
  Spec => /\ [](NodesLeft \in Nat /\ PhasesLeft \in Nat /\ Cardinality(fresh) \in Nat)
          /\ [][ComesNearer]_vars
<1>1. Init => FinitelyMany
  BY FS_EmptySet DEF Init, FinitelyMany
<1>2. LazyInv /\ LineageInv /\ FinitelyMany /\ [Next]_vars => FinitelyMany' /\ [ComesNearer]_vars
  <2> SUFFICES ASSUME LazyInv, LineageInv, FinitelyMany, [Next]_vars
               PROVE  FinitelyMany' /\ [ComesNearer]_vars
    OBVIOUS
  <2>1. CASE UNCHANGED vars
    BY <2>1 DEF vars, FinitelyMany
  <2>2. CASE Next
    BY <2>2, StepComesNearer
  <2>3. QED
    BY <2>1, <2>2
<1>3. ASSUME LazyInv, FinitelyMany
      PROVE  NodesLeft \in Nat /\ PhasesLeft \in Nat /\ Cardinality(fresh) \in Nat
  <2>1. Cardinality(traces) \in Nat /\ Cardinality(fresh) \in Nat
    BY <1>3, FS_CardinalityType DEF FinitelyMany
  <2>2. NodeBudget(mode) \in Nat
    BY <1>3, LazyAssumption DEF LazyInv, TypeOK
  <2>3. QED
    BY <2>1, <2>2 DEF NodesLeft, PhasesLeft
<1>4. LazyInv /\ FinitelyMany => NodesLeft \in Nat /\ PhasesLeft \in Nat /\ Cardinality(fresh) \in Nat
  BY <1>3
<1>5. QED
  BY <1>1, <1>2, <1>4, LineageInvariant, PTL DEF Spec

=============================================================================
