------------------------ MODULE CanonicalSearchProofs ------------------------
(***************************************************************************)
(* Theorems about CanonicalSearch for every grammar, sibling order, budget *)
(* and number of stops and crashes.                                        *)
(***************************************************************************)
EXTENDS CanonicalSearch, FiniteSetTheorems, SequenceTheorems, TLAPS

\* Only the record being expanded is out of the deque, and only while its
\* children are added.
CurWhileExpanding == cur # Nil => phase = "expanding"

\* The inductive invariant behind the first two theorems.
FrontierInv == TypeOK /\ FrontierOwned /\ CurWhileExpanding

-----------------------------------------------------------------------------
\* An ordering of a finite set is a sequence that lists it without repetition.
LEMMA OrderingIsSequence ==
  ASSUME NEW S, IsFiniteSet(S), NEW o \in Orderings(S)
  PROVE  /\ o \in Seq(S)
         /\ DOMAIN o = 1..Len(o)
         /\ \A x \in S : \E i \in DOMAIN o : o[i] = x
         /\ \A i, j \in DOMAIN o : o[i] = o[j] => i = j
<1>1. Cardinality(S) \in Nat
  BY FS_CardinalityType
<1>2. o \in [1..Cardinality(S) -> S]
  BY DEF Orderings
<1>3. o \in Seq(S) /\ DOMAIN o = 1..Len(o)
  BY <1>1, <1>2
<1>4. QED
  BY <1>3 DEF Orderings

\* The head and tail of a nonempty sequence.
LEMMA HeadTailTypes ==
  ASSUME NEW T, NEW q \in Seq(T), q # <<>>
  PROVE  /\ Head(q) \in T
         /\ Tail(q) \in Seq(T)
         /\ Len(q) \in Nat \ {0}
         /\ DOMAIN q = 1..Len(q)
         /\ Head(q) = q[1]
         /\ DOMAIN Tail(q) = 1..(Len(q) - 1)
         /\ \A i \in 1..(Len(q) - 1) : Tail(q)[i] = q[i + 1]
OBVIOUS

\* The grammar's operators have the types the protocol gives them.
LEMMA GrammarTypes ==
  ASSUME TypeOK
  PROVE  /\ IsGrammar(g)
         /\ \A s \in States, a \in Actions : Apply(s, a) \in States \cup {Nil}
         /\ \A s \in States : IsFiniteSet(EnabledActions(g, s))
<1>1. IsGrammar(g)
  BY GrammarAssumption DEF TypeOK
<1>2. \A s \in States, a \in Actions : Apply(s, a) \in States \cup {Nil}
  BY <1>1 DEF IsGrammar, Apply
<1>3. \A s \in States : IsFiniteSet(EnabledActions(g, s))
  BY <1>1, GrammarAssumption, FS_Subset DEF IsGrammar
<1>4. QED
  BY <1>1, <1>2, <1>3

\* Only sequences of realized children are ever pending.
LEMMA RankedChildren ==
  ASSUME TypeOK, NEW work \in WorkItems, table[work.id] \in Records,
         NEW por, NEW order \in Ranked(ViableActions(work, por))
  PROVE  [i \in DOMAIN order |->
            [act |-> order[i], st |-> Apply(table[work.id].rep, order[i])]]
           \in Seq([act : Actions, st : States])
<1> DEFINE rep == table[work.id].rep
           S == ViableActions(work, por)
<1>1. rep \in States
  BY DEF Records
<1>2. /\ S \subseteq EnabledActions(g, rep)
      /\ S \subseteq Actions
      /\ \A a \in S : Apply(rep, a) \in States
  BY <1>1, GrammarTypes DEF ViableActions, IsGrammar
<1>3. IsFiniteSet(S)
  BY <1>1, <1>2, GrammarTypes, FS_Subset
<1>4. order \in Orderings(S)
  BY DEF Ranked
<1>5. order \in Seq(S) /\ DOMAIN order = 1..Len(order)
  BY <1>3, <1>4, OrderingIsSequence
<1>6. \A i \in DOMAIN order : order[i] \in S
  BY <1>5
<1>7. \A i \in DOMAIN order :
        [act |-> order[i], st |-> Apply(rep, order[i])] \in [act : Actions, st : States]
  BY <1>2, <1>6
<1>8. Len(order) \in Nat
  BY <1>5
<1> HIDE DEF rep, S
<1>9. QED
  BY <1>5, <1>7, <1>8 DEF rep

-----------------------------------------------------------------------------
\* A queued work item, and the item being expanded, have a record.
LEMMA QueuedItemsKnown ==
  ASSUME FrontierInv
  PROVE  /\ \A i \in DOMAIN queue :
              /\ queue[i] \in WorkItems
              /\ table[queue[i].id] \in Records
              /\ table[queue[i].id].status = "queued"
         /\ cur # Nil => /\ cur \in WorkItems
                         /\ table[cur.id] \in Records
                         /\ table[cur.id].status = "queued"
<1> USE DEF FrontierInv, TypeOK
<1>1. \A i \in DOMAIN queue : queue[i] \in WorkItems
  OBVIOUS
<1>2. \A i \in DOMAIN queue : queue[i].id \in QueuedIds
  BY DEF FrontierOwned
<1>3. cur # Nil => cur \in WorkItems /\ cur.id \in QueuedIds
  BY DEF FrontierOwned
<1>4. \A id \in QueuedIds : table[id] \in Records /\ table[id].status = "queued"
  BY DEF QueuedIds, Known, Tables
<1>5. QED
  BY <1>1, <1>2, <1>3, <1>4

\* Before the search starts there is no frontier.
LEMMA InitFrontier == Init => FrontierInv
<1> SUFFICES ASSUME Init PROVE FrontierInv
  OBVIOUS
<1> USE DEF Init
<1>1. TypeOK
  BY DEF TypeOK, Phases, Tables, EmptyTable
<1>2. QueuedIds = {}
  BY DEF QueuedIds, Known, EmptyTable
<1>3. FrontierOwned
  BY <1>2 DEF FrontierOwned
<1>4. QED
  BY <1>1, <1>3 DEF FrontierInv, CurWhileExpanding

\* add_state queues a child exactly when it enters a record for it.
LEMMA AddStateFrontier ==
  ASSUME FrontierInv, AddState
  PROVE  FrontierInv'
<1> DEFINE child == Head(pending)
           id == Canon(g, child.st)
           path == ChildPath(child.act)
           prev == IF cur = Nil THEN Nil ELSE table[cur.id].rep
           depth == IF cur = Nil THEN 0 ELSE table[cur.id].dmin + 1
<1>1. child \in [act : Actions, st : States] /\ pending' \in Seq([act : Actions, st : States])
  BY HeadTailTypes DEF FrontierInv, TypeOK, AddState
<1>2. id \in Ids
  BY <1>1, GrammarTypes DEF FrontierInv, IsGrammar
<1>3. /\ path \in Paths
      /\ prev \in States \cup {Nil}
      /\ depth \in Nat
  <2>1. cur # Nil => cur \in WorkItems /\ table[cur.id] \in Records
    BY QueuedItemsKnown
  <2>2. path \in Paths
    BY <1>1, <2>1 DEF ChildPath, WorkItems, Paths
  <2>3. QED
    BY <2>1, <2>2 DEF Records
<1>4. table \in Tables /\ queue \in Seq(WorkItems)
  BY DEF FrontierInv, TypeOK
<1>5. CASE Interned(id)
  <2> DEFINE new == Rediscovered(table[id], path, depth)
  <2>1. table[id] \in Records
    BY <1>2, <1>4, <1>5 DEF Interned, Tables
  <2>2. new \in Records /\ new.status = table[id].status
    BY <1>3, <2>1 DEF Rediscovered, Records, Least, Greatest
  <2>3. table' = [table EXCEPT ![id] = new] /\ queue' = queue
    BY <1>5 DEF AddState
  <2> HIDE DEF new
  <2>4. table' \in Tables
    BY <1>2, <1>4, <2>2, <2>3 DEF Tables
  <2>5. QueuedIds' = QueuedIds
    BY <1>2, <1>4, <2>1, <2>2, <2>3, NilAssumption DEF QueuedIds, Known, Tables
  <2>6. TypeOK'
    BY <1>1, <2>3, <2>4 DEF FrontierInv, TypeOK, AddState
  <2>7. FrontierOwned'
    BY <2>3, <2>5 DEF FrontierInv, FrontierOwned, AddState
  <2>8. QED
    BY <2>6, <2>7 DEF FrontierInv, CurWhileExpanding, AddState
<1>6. CASE ~Interned(id)
  <2> DEFINE new == NewRecord(child.st, path, depth)
             item == [id |-> id, path |-> path, prev |-> prev]
  <2>1. new \in Records /\ new.status = "queued"
    BY <1>1, <1>3 DEF NewRecord, Records, Statuses
  <2>2. item \in WorkItems /\ item.id = id
    BY <1>2, <1>3 DEF WorkItems
  <2>3. table' = [table EXCEPT ![id] = new] /\ queue' = Append(queue, item)
    BY <1>6 DEF AddState
  <2>4. table[id] = Nil
    BY <1>6 DEF Interned
  <2> HIDE DEF new, item, id
  <2>5. table' \in Tables /\ queue' \in Seq(WorkItems)
    BY <1>2, <1>4, <2>1, <2>2, <2>3 DEF Tables
  <2>6. QueuedIds' = QueuedIds \cup {id} /\ id \notin QueuedIds
    BY <1>2, <1>4, <2>1, <2>3, <2>4, NilAssumption DEF QueuedIds, Known, Tables
  <2>7. TypeOK'
    BY <1>1, <2>3, <2>5 DEF FrontierInv, TypeOK, AddState
  <2>8. FrontierOwned'
    <3>1. /\ DOMAIN queue = 1..Len(queue)
          /\ DOMAIN queue' = 1..(Len(queue) + 1)
          /\ Len(queue) \in Nat
          /\ \A i \in DOMAIN queue : queue'[i] = queue[i]
          /\ queue'[Len(queue) + 1] = item
      BY <1>4, <2>2, <2>3
    <3>2. \A i \in DOMAIN queue : queue[i].id # id
      BY <2>6 DEF FrontierInv, FrontierOwned
    <3>3. cur # Nil => cur.id # id
      BY <2>6 DEF FrontierInv, FrontierOwned
    <3>4. cur' = cur
      BY DEF AddState
    <3>5. \A i, j \in DOMAIN queue' : queue'[i].id = queue'[j].id => i = j
      BY <2>2, <3>1, <3>2 DEF FrontierInv, FrontierOwned
    <3>6. {queue'[i].id : i \in DOMAIN queue'} = {queue[i].id : i \in DOMAIN queue} \cup {id}
      BY <2>2, <3>1
    <3>7. QED
      BY <2>2, <2>6, <3>1, <3>3, <3>4, <3>5, <3>6 DEF FrontierInv, FrontierOwned
  <2>9. QED
    BY <2>7, <2>8 DEF FrontierInv, CurWhileExpanding, AddState
<1>7. QED
  BY <1>5, <1>6

\* Taking the head off the deque: its id leaves the set of queued ids in the
\* deque, and no other item has it.
LEMMA HeadIsUnique ==
  ASSUME FrontierInv, queue # <<>>, cur = Nil
  PROVE  /\ Head(queue) \in WorkItems
         /\ Tail(queue) \in Seq(WorkItems)
         /\ table[Head(queue).id] \in Records
         /\ table[Head(queue).id].status = "queued"
         /\ \A i, j \in DOMAIN Tail(queue) : Tail(queue)[i].id = Tail(queue)[j].id => i = j
         /\ \A i \in DOMAIN Tail(queue) : Tail(queue)[i].id # Head(queue).id
         /\ QueuedIds = {Tail(queue)[i].id : i \in DOMAIN Tail(queue)} \cup {Head(queue).id}
<1>1. queue \in Seq(WorkItems)
  BY DEF FrontierInv, TypeOK
<1>2. /\ Len(queue) \in Nat \ {0}
      /\ DOMAIN queue = 1..Len(queue)
      /\ Head(queue) = queue[1]
      /\ DOMAIN Tail(queue) = 1..(Len(queue) - 1)
      /\ \A i \in 1..(Len(queue) - 1) : Tail(queue)[i] = queue[i + 1]
      /\ Head(queue) \in WorkItems
      /\ Tail(queue) \in Seq(WorkItems)
  BY <1>1, HeadTailTypes
<1>3. table[Head(queue).id] \in Records /\ table[Head(queue).id].status = "queued"
  BY <1>2, QueuedItemsKnown
<1>4. \A i, j \in DOMAIN queue : queue[i].id = queue[j].id => i = j
  BY DEF FrontierInv, FrontierOwned
<1>5. QueuedIds = {queue[i].id : i \in DOMAIN queue}
  BY DEF FrontierInv, FrontierOwned
<1>6. {queue[i].id : i \in DOMAIN queue}
        = {Tail(queue)[i].id : i \in DOMAIN Tail(queue)} \cup {Head(queue).id}
  <2>1. ASSUME NEW i \in DOMAIN queue
        PROVE  queue[i].id \in {Tail(queue)[k].id : k \in DOMAIN Tail(queue)} \cup {Head(queue).id}
    <3>1. CASE i = 1
      BY <1>2, <3>1
    <3>2. CASE i # 1
      <4>1. i - 1 \in DOMAIN Tail(queue) /\ Tail(queue)[i - 1] = queue[i]
        BY <1>2, <3>2
      <4>2. QED
        BY <4>1
    <3>3. QED
      BY <3>1, <3>2
  <2>2. ASSUME NEW i \in DOMAIN Tail(queue)
        PROVE  Tail(queue)[i].id \in {queue[k].id : k \in DOMAIN queue}
    BY <1>2
  <2>3. QED
    BY <1>2, <2>1, <2>2
<1>7. \A i, j \in DOMAIN Tail(queue) : Tail(queue)[i].id = Tail(queue)[j].id => i = j
  BY <1>2, <1>4
<1>8. \A i \in DOMAIN Tail(queue) : Tail(queue)[i].id # Head(queue).id
  BY <1>2, <1>4
<1>9. QED
  BY <1>2, <1>3, <1>5, <1>6, <1>7, <1>8

\* Giving a queued record another status takes its id, and no other, out of
\* the queued ids.
LEMMA StatusChange ==
  ASSUME TypeOK, NEW id \in Ids, table[id] \in Records, NEW status \in Statuses \ {"queued"},
         table' = [table EXCEPT ![id] = WithStatus(@, status)]
  PROVE  table' \in Tables /\ QueuedIds' = QueuedIds \ {id}
<1> DEFINE new == WithStatus(table[id], status)
<1>1. new \in Records /\ new.status # "queued"
  BY DEF WithStatus, Records
<1>2. table \in Tables /\ table' = [table EXCEPT ![id] = new]
  BY DEF TypeOK
<1> HIDE DEF new
<1>3. QED
  BY <1>1, <1>2, NilAssumption DEF Tables, QueuedIds, Known

\* An item leaves the deque to become terminal, or to be the one in hand.
LEMMA PopFrontier ==
  ASSUME FrontierInv, Pop
  PROVE  FrontierInv'
<1> DEFINE work == Head(queue)
           record == table[work.id]
<1>1. cur = Nil /\ queue # <<>> /\ queue' = Tail(queue) /\ phase = "loop"
  BY DEF FrontierInv, CurWhileExpanding, Pop
<1>2. /\ work \in WorkItems
      /\ queue' \in Seq(WorkItems)
      /\ record \in Records
      /\ record.status = "queued"
      /\ \A i, j \in DOMAIN queue' : queue'[i].id = queue'[j].id => i = j
      /\ \A i \in DOMAIN queue' : queue'[i].id # work.id
      /\ QueuedIds = {queue'[i].id : i \in DOMAIN queue'} \cup {work.id}
  BY <1>1, HeadIsUnique
<1>3. work.id \in Ids
  BY <1>2 DEF WorkItems
<1>4. CASE /\ record.rep \in TerminalStates(g)
           /\ table' = [table EXCEPT ![work.id] = WithStatus(@, "terminal")]
           /\ terminals' = terminals \cup {work.id}
           /\ UNCHANGED <<phase, cur, pending, built>>
  <2>1. table' \in Tables /\ QueuedIds' = QueuedIds \ {work.id}
    <3>1. "terminal" \in Statuses \ {"queued"} /\ TypeOK
      BY DEF FrontierInv, Statuses
    <3>2. table[work.id] \in Records
      BY <1>2
    <3> HIDE DEF work
    <3>3. QED
      BY <1>3, <1>4, <3>1, <3>2, StatusChange
  <2>2. TypeOK'
    BY <1>2, <1>3, <1>4, <2>1 DEF FrontierInv, TypeOK, Pop
  <2>3. QueuedIds' = {queue'[i].id : i \in DOMAIN queue'}
    BY <1>2, <2>1
  <2>4. cur' = Nil
    BY <1>1, <1>4
  <2>5. FrontierOwned'
    BY <1>2, <2>3, <2>4 DEF FrontierOwned
  <2>6. QED
    BY <2>2, <2>4, <2>5 DEF FrontierInv, CurWhileExpanding
<1>5. CASE /\ record.rep \notin TerminalStates(g)
           /\ \E por \in PorChoices(EnabledActions(g, record.rep)) :
              \E order \in Ranked(ViableActions(work, por)) :
                pending' = [i \in DOMAIN order |->
                              [act |-> order[i], st |-> Apply(record.rep, order[i])]]
           /\ built' = built + IF Native(g)
                               THEN Len(pending')
                               ELSE Cardinality({a \in EnabledActions(g, record.rep) :
                                                   Apply(record.rep, a) # Nil})
           /\ cur' = work
           /\ phase' = "expanding"
           /\ UNCHANGED <<table, terminals>>
  <2>1. pending' \in Seq([act : Actions, st : States])
    <3>1. PICK por \in PorChoices(EnabledActions(g, record.rep)) :
          \E order \in Ranked(ViableActions(work, por)) :
            pending' = [i \in DOMAIN order |->
                          [act |-> order[i], st |-> Apply(record.rep, order[i])]]
      BY <1>5
    <3>2. PICK order \in Ranked(ViableActions(work, por)) :
            pending' = [i \in DOMAIN order |->
                          [act |-> order[i], st |-> Apply(record.rep, order[i])]]
      BY <3>1
    <3>3. TypeOK /\ work \in WorkItems /\ table[work.id] \in Records
      BY <1>2 DEF FrontierInv
    <3> HIDE DEF work
    <3>4. QED
      BY <3>2, <3>3, RankedChildren
  <2>2. Cardinality({a \in EnabledActions(g, record.rep) : Apply(record.rep, a) # Nil}) \in Nat
    <3>1. record.rep \in States
      BY <1>2 DEF Records
    <3>2. IsFiniteSet(EnabledActions(g, record.rep))
      BY <3>1, GrammarTypes DEF FrontierInv
    <3>3. IsFiniteSet({a \in EnabledActions(g, record.rep) : Apply(record.rep, a) # Nil})
      BY <3>2, FS_Subset
    <3>4. QED
      BY <3>3, FS_CardinalityType
  <2>3. Len(pending') \in Nat
    BY <2>1
  <2>4. built' \in Nat
    BY <1>5, <2>2, <2>3 DEF FrontierInv, TypeOK
  <2>5. TypeOK'
    BY <1>2, <1>5, <2>1, <2>4 DEF FrontierInv, TypeOK, Pop, Phases
  <2>6. work # Nil
    BY <1>2, NilAssumption
  <2>7. QueuedIds' = QueuedIds
    BY <1>5 DEF QueuedIds, Known
  <2>8. FrontierOwned'
    BY <1>2, <1>5, <2>6, <2>7 DEF FrontierOwned
  <2>9. QED
    BY <1>5, <2>5, <2>8 DEF FrontierInv, CurWhileExpanding
<1>6. QED
  BY <1>2, <1>4, <1>5 DEF Pop

\* The record in hand stops being queued when its last child was added.
LEMMA EndExpansionFrontier ==
  ASSUME FrontierInv, EndExpansion
  PROVE  FrontierInv'
<1>1. CASE cur = Nil
  <2>1. TypeOK' /\ CurWhileExpanding' /\ QueuedIds' = QueuedIds
    BY <1>1 DEF FrontierInv, TypeOK, EndExpansion, Phases, CurWhileExpanding, QueuedIds, Known
  <2>2. FrontierOwned'
    BY <1>1, <2>1 DEF FrontierInv, FrontierOwned, EndExpansion
  <2>3. QED
    BY <2>1, <2>2 DEF FrontierInv
<1>2. CASE cur # Nil
  <2>1. cur \in WorkItems /\ table[cur.id] \in Records
    BY <1>2, QueuedItemsKnown
  <2>2. cur.id \in Ids
    BY <2>1 DEF WorkItems
  <2>3. table' \in Tables /\ QueuedIds' = QueuedIds \ {cur.id}
    <3>1. "expanded" \in Statuses \ {"queued"} /\ TypeOK
      BY DEF FrontierInv, Statuses
    <3>2. table' = [table EXCEPT ![cur.id] = WithStatus(@, "expanded")]
      BY <1>2 DEF EndExpansion
    <3>3. QED
      BY <2>1, <2>2, <3>1, <3>2, StatusChange
  <2>4. TypeOK' /\ CurWhileExpanding'
    BY <2>3 DEF FrontierInv, TypeOK, EndExpansion, Phases, CurWhileExpanding
  <2>5. FrontierOwned'
    BY <1>2, <2>3 DEF FrontierInv, FrontierOwned, EndExpansion
  <2>6. QED
    BY <2>4, <2>5 DEF FrontierInv
<1>3. QED
  BY <1>1, <1>2

\* A cleared process has no frontier.
LEMMA ClearedFrontier ==
  ASSUME ClearMemory
  PROVE  /\ FrontierOwned' /\ CurWhileExpanding'
         /\ table' \in Tables /\ queue' \in Seq(WorkItems) /\ cur' = Nil
         /\ pending' \in Seq([act : Actions, st : States])
         /\ terminals' \in SUBSET Ids /\ complete' \in BOOLEAN /\ built' \in Nat
<1> USE DEF ClearMemory
<1>1. QueuedIds' = {}
  BY DEF EmptyTable, QueuedIds, Known
<1>2. QED
  BY <1>1 DEF FrontierOwned, CurWhileExpanding, EmptyTable, Tables

\* The frontier of a checkpoint is finite.
LEMMA UnexploredFinite ==
  ASSUME NEW saved
  PROVE  IsFiniteSet(Unexplored(saved)) /\ Unexplored(saved) \subseteq Ids
BY GrammarAssumption, FS_Subset DEF Unexplored

\* A frontier path is restored as a work item.
LEMMA RestoredItemType ==
  ASSUME NEW id \in Ids, NEW path \in Paths
  PROVE  RestoredItem(id, path) \in WorkItems /\ RestoredItem(id, path).id = id
<1>1. ReplayedParent(path) \in States \cup {Nil}
  BY DEF ReplayedParent
<1>2. QED
  BY <1>1 DEF RestoredItem, WorkItems

\* A resumed frontier holds the queued records of the checkpoint once each.
LEMMA ResumeFrontier ==
  ASSUME FrontierInv, Resume
  PROVE  FrontierInv'
<1> DEFINE saved == disk.table
           frontier == Unexplored(saved)
<1>1. disk \in Checkpoints /\ saved \in Tables
  BY DEF FrontierInv, TypeOK, Resume, Checkpoints
<1>2. cur = Nil
  BY DEF FrontierInv, CurWhileExpanding, Resume
<1>3. CASE \A id \in frontier : Replayable(saved[id].path)
  <2>1. PICK order \in Orderings(frontier) :
          queue' = [i \in DOMAIN order |-> RestoredItem(order[i], saved[order[i]].path)]
    BY <1>3 DEF Resume
  <2>2. /\ table' = saved /\ terminals' = disk.terminals /\ built' = disk.built
        /\ complete' = TRUE /\ phase' = "loop" /\ cur' = Nil /\ pending' = pending
        /\ UNCHANGED <<g, disk, stops, crashes>>
    BY <1>2, <1>3 DEF Resume
  <2>3. /\ order \in Seq(frontier)
        /\ DOMAIN order = 1..Len(order)
        /\ \A x \in frontier : \E i \in DOMAIN order : order[i] = x
        /\ \A i, j \in DOMAIN order : order[i] = order[j] => i = j
    BY <2>1, UnexploredFinite, OrderingIsSequence
  <2>4. \A id \in frontier : id \in Ids /\ saved[id] \in Records /\ saved[id].path \in Paths
    BY <1>1 DEF Unexplored, Tables, Records
  <2>5. \A i \in DOMAIN order : order[i] \in frontier
    BY <2>3
  <2> HIDE DEF frontier, saved
  <2>6. \A i \in DOMAIN order :
          /\ RestoredItem(order[i], saved[order[i]].path) \in WorkItems
          /\ RestoredItem(order[i], saved[order[i]].path).id = order[i]
    BY <2>4, <2>5, RestoredItemType
  <2>7. Len(order) \in Nat
    BY <2>3
  <2>8. /\ queue' \in Seq(WorkItems)
        /\ DOMAIN queue' = DOMAIN order
        /\ \A i \in DOMAIN queue' : queue'[i].id = order[i]
    BY <2>1, <2>3, <2>6, <2>7
  <2>9. QueuedIds' = frontier
    BY <2>2 DEF QueuedIds, Known, frontier, Unexplored
  <2>10. {queue'[i].id : i \in DOMAIN queue'} = frontier
    BY <2>3, <2>5, <2>8
  <2>11. FrontierOwned'
    BY <2>2, <2>3, <2>8, <2>9, <2>10 DEF FrontierOwned
  <2>12. TypeOK'
    BY <1>1, <2>2, <2>8 DEF FrontierInv, TypeOK, Phases, Checkpoints
  <2>13. QED
    BY <2>2, <2>11, <2>12 DEF FrontierInv, CurWhileExpanding
<1>4. CASE ~(\A id \in frontier : Replayable(saved[id].path))
  <2>1. phase' = "failed" /\ ClearMemory /\ UNCHANGED <<g, disk, stops, crashes>>
    BY <1>4 DEF Resume
  <2>2. QED
    BY <2>1, ClearedFrontier DEF FrontierInv, TypeOK, Phases
<1>5. QED
  BY <1>3, <1>4

\* The steps that leave the table, the deque and the item in hand alone.
LEMMA FrontierUntouched ==
  ASSUME FrontierInv, UNCHANGED <<table, queue, cur>>, TypeOK', CurWhileExpanding'
  PROVE  FrontierInv'
<1>1. QueuedIds' = QueuedIds
  BY DEF QueuedIds, Known
<1>2. QED
  BY <1>1 DEF FrontierInv, FrontierOwned

\* Every step keeps the invariant.
LEMMA NextFrontier ==
  ASSUME FrontierInv, [Next]_vars
  PROVE  FrontierInv'
<1> USE DEF CurWhileExpanding
<1>1. CASE Start
  <2>1. InitialStates(g) \in Seq([act : Actions, st : States])
    BY GrammarTypes DEF FrontierInv, IsGrammar
  <2>2. Len(InitialStates(g)) \in Nat
    BY <2>1
  <2>3. TypeOK' /\ CurWhileExpanding'
    BY <1>1, <2>1, <2>2 DEF FrontierInv, TypeOK, Start, Phases
  <2>4. QED
    BY <1>1, <2>3, FrontierUntouched DEF Start
<1>2. CASE AddState
  BY <1>2, AddStateFrontier
<1>3. CASE EndExpansion
  BY <1>3, EndExpansionFrontier
<1>4. CASE Pop
  BY <1>4, PopFrontier
<1>5. CASE StopAtBudget
  <2>1. TypeOK' /\ CurWhileExpanding'
    BY <1>5 DEF FrontierInv, TypeOK, StopAtBudget, Phases
  <2>2. QED
    BY <1>5, <2>1, FrontierUntouched DEF StopAtBudget
<1>6. CASE Finish
  <2>1. TypeOK' /\ CurWhileExpanding'
    BY <1>6 DEF FrontierInv, TypeOK, Finish, Phases
  <2>2. QED
    BY <1>6, <2>1, FrontierUntouched DEF Finish
<1>7. CASE Save
  <2>1. Checkpoint \in Checkpoints
    BY DEF FrontierInv, TypeOK, Checkpoint, Checkpoints
  <2>2. TypeOK' /\ CurWhileExpanding'
    BY <1>7, <2>1 DEF FrontierInv, TypeOK, Save, Phases
  <2>3. QED
    BY <1>7, <2>2, FrontierUntouched DEF Save
<1>8. CASE StopAtLimit
  <2>1. stops' \in Nat
    BY <1>8 DEF FrontierInv, TypeOK, StopAtLimit
  <2>2. CurWhileExpanding'
    BY <1>8 DEF FrontierInv, StopAtLimit
  <2>3. TypeOK'
    BY <1>8, <2>1 DEF FrontierInv, TypeOK, StopAtLimit, Phases
  <2>4. QED
    BY <1>8, <2>2, <2>3, FrontierUntouched DEF StopAtLimit
<1>9. CASE Crash
  <2>1. TypeOK'
    BY <1>9, ClearedFrontier DEF FrontierInv, TypeOK, Crash, Phases
  <2>2. QED
    BY <1>9, <2>1, ClearedFrontier DEF FrontierInv, Crash
<1>10. CASE Resume
  BY <1>10, ResumeFrontier
<1>11. CASE Ended \/ UNCHANGED vars
  <2>1. TypeOK' /\ CurWhileExpanding'
    BY <1>11 DEF FrontierInv, TypeOK, Ended, vars
  <2>2. QED
    BY <1>11, <2>1, FrontierUntouched DEF Ended, vars
<1>12. QED
  BY <1>1, <1>2, <1>3, <1>4, <1>5, <1>6, <1>7, <1>8, <1>9, <1>10, <1>11 DEF Next, Engine

\* The invariant holds throughout every behaviour.
LEMMA FrontierInvariant == Spec => []FrontierInv
<1>1. Init => FrontierInv
  BY InitFrontier
<1>2. FrontierInv /\ [Next]_vars => FrontierInv'
  BY NextFrontier
<1>3. QED
  BY <1>1, <1>2, PTL DEF Spec

\* The variables of the engine always have the types of the Python objects:
\* no step reads a record, a work item or a checkpoint that is not there.
THEOREM TypeCorrect == Spec => []TypeOK
<1>1. FrontierInv => TypeOK
  BY DEF FrontierInv
<1>2. QED
  BY <1>1, FrontierInvariant, PTL

\* The deque and the item in hand hold every canonical state that is still
\* to be explored exactly once, over any number of stops, crashes and resumes.
THEOREM FrontierCorrect == Spec => []FrontierOwned
<1>1. FrontierInv => FrontierOwned
  BY DEF FrontierInv
<1>2. QED
  BY <1>1, FrontierInvariant, PTL

-----------------------------------------------------------------------------
(***************************************************************************)
(* Completeness.  A search that reports complete has exactly the reachable *)
(* canonical terminals: what a drained table must record for that, and     *)
(* that every step keeps it.  Which successors may be missing while POR    *)
(* is on is the subject of a section below.                                *)
(***************************************************************************)
\* Canonically equal states have canonically equal successors.
Equivariant(gr) ==
  \A s, t \in States, a \in Actions :
    Canon(gr, s) = Canon(gr, t) /\ ApplyAction(gr, s, a) # Nil =>
      \E b \in Actions :
        /\ ApplyAction(gr, t, b) # Nil
        /\ Canon(gr, ApplyAction(gr, t, b)) = Canon(gr, ApplyAction(gr, s, a))

-----------------------------------------------------------------------------
\* What a table records is reachable, under its own identity.
TableSound(tab) ==
  \A id \in Ids : tab[id] # Nil =>
    /\ Canon(g, tab[id].rep) = id
    /\ tab[id].rep \in Reachable
    /\ tab[id].status = "terminal" => tab[id].rep \in TerminalStates(g)
    /\ tab[id].status = "expanded" => tab[id].rep \notin TerminalStates(g)

HasState(tab, s) == tab[Canon(g, s)] # Nil

\* Every successor of an expanded record has a record.
Explored(tab) ==
  \A id \in Ids, a \in Actions :
    /\ tab[id] # Nil
    /\ tab[id].status = "expanded"
    /\ Apply(tab[id].rep, a) # Nil
    => HasState(tab, Apply(tab[id].rep, a))

\* The roots have records.
Rooted(tab) == \A i \in DOMAIN InitialStates(g) : HasState(tab, InitialStates(g)[i].st)

\* The terminal ids are those of the records marked terminal.
TerminalsMarked(tab, ids) ==
  \A id \in Ids : id \in ids <=> (tab[id] # Nil /\ tab[id].status = "terminal")

\* While children are added, every successor of the record in hand (or every
\* root) has a record or is still pending.
PendingCovers ==
  /\ \A i \in DOMAIN pending : pending[i].st \in Reachable
  /\ phase = "expanding" =>
       \A i \in DOMAIN InitialStates(g) :
         \/ HasState(table, InitialStates(g)[i].st)
         \/ cur = Nil /\ \E j \in DOMAIN pending : pending[j].st = InitialStates(g)[i].st
  /\ cur # Nil => table[cur.id].rep \notin TerminalStates(g)

CompleteMeansDrained == phase \in {"result", "done"} /\ complete => queue = <<>>

CoverInv ==
  /\ TableSound(table)
  /\ TerminalsMarked(table, terminals)
  /\ phase \in {"loop", "result", "stopped", "done"} => Rooted(table)
  /\ PendingCovers
  /\ CompleteMeansDrained
  /\ disk # Nil => /\ TableSound(disk.table)
                   /\ Rooted(disk.table)
                   /\ TerminalsMarked(disk.table, disk.terminals)

-----------------------------------------------------------------------------
\* An element of a sequence.
LEMMA ElementType ==
  ASSUME NEW T, NEW q \in Seq(T), NEW i \in DOMAIN q
  PROVE  q[i] \in T
OBVIOUS

\* Reachable is closed, and it is the least closed set.
LEMMA ReachableClosed ==
  ASSUME TypeOK
  PROVE  /\ Reachable \subseteq States
         /\ \A i \in DOMAIN InitialStates(g) : InitialStates(g)[i].st \in Reachable
         /\ \A s \in Reachable, a \in Actions : Apply(s, a) # Nil => Apply(s, a) \in Reachable
<1>1. Reachable \subseteq States
  BY DEF Reachable
<1>2. \A i \in DOMAIN InitialStates(g) : InitialStates(g)[i].st \in States
  <2>1. InitialStates(g) \in Seq([act : Actions, st : States])
    BY GrammarTypes DEF IsGrammar
  <2>2. \A i \in DOMAIN InitialStates(g) : InitialStates(g)[i] \in [act : Actions, st : States]
    BY <2>1, ElementType
  <2>3. QED
    BY <2>2
<1>3. \A i \in DOMAIN InitialStates(g) : InitialStates(g)[i].st \in Reachable
  BY <1>2 DEF Reachable, ClosedUnderActions
<1>4. ASSUME NEW s \in Reachable, NEW a \in Actions, Apply(s, a) # Nil
      PROVE  Apply(s, a) \in Reachable
  <2>1. Apply(s, a) \in States
    BY <1>1, <1>4, GrammarTypes
  <2>2. ASSUME NEW S \in SUBSET States, ClosedUnderActions(S)
        PROVE  Apply(s, a) \in S
    <3>1. s \in S
      BY <2>2 DEF Reachable
    <3>2. QED
      BY <1>4, <2>2, <3>1 DEF ClosedUnderActions
  <2>3. QED
    BY <2>1, <2>2 DEF Reachable
<1>5. QED
  BY <1>1, <1>3, <1>4

\* The conclusion: a drained search has the reachable terminals.
LEMMA DrainedIsExact ==
  ASSUME FrontierInv, CoverInv, Explored(table), Equivariant(g), phase \in {"result", "done"}, complete
  PROVE  terminals = {Canon(g, s) : s \in Reachable \cap TerminalStates(g)}
<1>1. queue = <<>> /\ cur = Nil
  BY DEF CoverInv, CompleteMeansDrained, FrontierInv, CurWhileExpanding
<1>2. QueuedIds = {}
  <2>1. {queue[i].id : i \in DOMAIN queue} = {}
    BY <1>1
  <2>2. QED
    BY <1>1, <2>1 DEF FrontierInv, FrontierOwned
<1>3. \A id \in Ids : table[id] # Nil =>
        /\ table[id] \in Records
        /\ table[id].rep \in States
        /\ table[id].status \in {"expanded", "terminal"}
  BY <1>2 DEF FrontierInv, TypeOK, Tables, Records, Statuses, QueuedIds, Known
<1>4. IsGrammar(g) /\ TypeOK
  BY GrammarTypes DEF FrontierInv
<1> DEFINE U == {s \in States : HasState(table, s)}
<1>5. ClosedUnderActions(U)
  <2>1. \A i \in DOMAIN InitialStates(g) : InitialStates(g)[i].st \in U
    BY <1>4, ReachableClosed DEF CoverInv, Rooted
  <2>2. ASSUME NEW s \in U, NEW a \in Actions, Apply(s, a) # Nil
        PROVE  Apply(s, a) \in U
    <3> DEFINE r == table[Canon(g, s)].rep
    <3>1. Canon(g, s) \in Ids /\ table[Canon(g, s)] # Nil
      BY <1>4 DEF HasState, IsGrammar
    <3>2. r \in States /\ Canon(g, r) = Canon(g, s)
      BY <1>3, <3>1 DEF CoverInv, TableSound
    <3>3. s \in States /\ ApplyAction(g, s, a) # Nil /\ Apply(s, a) = ApplyAction(g, s, a)
      BY <2>2, NilAssumption DEF Apply
    <3>4. s \notin TerminalStates(g)
      BY <1>4, <3>3 DEF IsGrammar
    <3>5. r \notin TerminalStates(g)
      BY <1>4, <3>2, <3>3, <3>4 DEF IsGrammar
    <3>6. table[Canon(g, s)].status = "expanded"
      BY <1>3, <3>1, <3>5 DEF CoverInv, TableSound
    <3>7. PICK b \in Actions : /\ ApplyAction(g, r, b) # Nil
                               /\ Canon(g, ApplyAction(g, r, b)) = Canon(g, ApplyAction(g, s, a))
      BY <3>2, <3>3 DEF Equivariant
    <3>8. Apply(r, b) = ApplyAction(g, r, b)
      BY <3>2, NilAssumption DEF Apply
    <3>9. HasState(table, Apply(r, b))
      BY <3>1, <3>6, <3>7, <3>8 DEF Explored
    <3>10. Apply(s, a) \in States
      BY <1>4, <2>2, <3>3, GrammarTypes
    <3>11. QED
      BY <3>3, <3>7, <3>8, <3>9, <3>10 DEF HasState
  <2>3. QED
    BY <2>1, <2>2 DEF ClosedUnderActions
<1>6. Reachable \subseteq U
  BY <1>5 DEF Reachable
<1>7. ASSUME NEW s \in Reachable \cap TerminalStates(g)
      PROVE  Canon(g, s) \in terminals
  <2>1. s \in States /\ Canon(g, s) \in Ids /\ table[Canon(g, s)] # Nil
    BY <1>4, <1>6 DEF HasState, IsGrammar
  <2>2. table[Canon(g, s)].rep \in TerminalStates(g)
    BY <1>3, <1>4, <2>1 DEF CoverInv, TableSound, IsGrammar
  <2>3. table[Canon(g, s)].status = "terminal"
    BY <1>3, <2>1, <2>2 DEF CoverInv, TableSound
  <2>4. QED
    BY <2>1, <2>3 DEF CoverInv, TerminalsMarked
<1>8. ASSUME NEW id \in terminals
      PROVE  \E s \in Reachable \cap TerminalStates(g) : id = Canon(g, s)
  <2>1. id \in Ids /\ table[id] # Nil /\ table[id].status = "terminal"
    BY DEF FrontierInv, TypeOK, CoverInv, TerminalsMarked
  <2>2. QED
    BY <2>1 DEF CoverInv, TableSound
<1>9. QED
  BY <1>7, <1>8

-----------------------------------------------------------------------------
\* The grammar of a search never changes, so neither does what it reaches.
LEMMA GrammarFixed ==
  ASSUME [Next]_vars
  PROVE  g' = g
BY DEF Next, Engine, Start, AddState, EndExpansion, Pop, StopAtBudget, Finish, Save,
       StopAtLimit, Crash, Resume, Ended, vars

\* What is reachable depends on the grammar alone.
LEMMA ReachableFixed ==
  ASSUME g' = g
  PROVE  Reachable' = Reachable
BY DEF Reachable, ClosedUnderActions, Apply

\* Nothing is recorded before the search starts.
LEMMA InitCover == Init => CoverInv
BY DEF Init, CoverInv, TableSound, TerminalsMarked, PendingCovers,
       CompleteMeansDrained, EmptyTable

\* The part of the invariant that is about the checkpoint file.
DiskCovers ==
  disk # Nil => /\ TableSound(disk.table)
                /\ Rooted(disk.table)
                /\ TerminalsMarked(disk.table, disk.terminals)

\* A step that leaves the checkpoint file alone leaves its meaning alone.
LEMMA DiskUntouched ==
  ASSUME DiskCovers, g' = g, disk' = disk
  PROVE  DiskCovers'
BY ReachableFixed DEF DiskCovers, TableSound, Rooted, TerminalsMarked, HasState, Apply

\* A cleared process claims nothing.
LEMMA ClearedCover ==
  ASSUME ClearMemory
  PROVE  /\ TableSound(table)' /\ TerminalsMarked(table, terminals)'
         /\ pending' = <<>> /\ cur' = Nil
BY DEF ClearMemory, EmptyTable, TableSound, TerminalsMarked

\* Starting: every root is pending.
LEMMA StartCover ==
  ASSUME FrontierInv, CoverInv, Start
  PROVE  CoverInv'
<1>1. g' = g /\ Reachable' = Reachable
  BY ReachableFixed DEF Start
<1>2. UNCHANGED <<table, terminals, disk, cur, queue>> /\ cur = Nil /\ phase' = "expanding"
  BY DEF Start, FrontierInv, CurWhileExpanding
<1>3. DiskCovers'
  BY <1>1, <1>2, DiskUntouched DEF CoverInv, DiskCovers
<1>4. pending' = InitialStates(g) /\ \A i \in DOMAIN InitialStates(g) : InitialStates(g)[i].st \in Reachable
  BY ReachableClosed DEF Start, FrontierInv
<1>5. PendingCovers'
  BY <1>1, <1>2, <1>4 DEF PendingCovers
<1>6. TableSound(table)' /\ TerminalsMarked(table, terminals)'
  BY <1>1, <1>2 DEF CoverInv, TableSound, TerminalsMarked, HasState, Apply
<1>7. QED
  BY <1>2, <1>3, <1>5, <1>6 DEF CoverInv, DiskCovers, CompleteMeansDrained

\* What add_state leaves in the table: a record for the child's identity, the
\* representative and status of a record that was there before unchanged.
LEMMA AddedRecord ==
  ASSUME FrontierInv, AddState, NEW id, id = Canon(g, Head(pending).st)
  PROVE  /\ id \in Ids
         /\ DOMAIN table' = Ids
         /\ \A x \in Ids \ {id} : table'[x] = table[x]
         /\ table'[id] # Nil
         /\ table[id] = Nil => /\ table'[id].rep = Head(pending).st
                              /\ table'[id].status = "queued"
         /\ table[id] # Nil => /\ table'[id].rep = table[id].rep
                              /\ table'[id].status = table[id].status
<1> DEFINE child == Head(pending)
           path  == ChildPath(child.act)
           depth == IF cur = Nil THEN 0 ELSE table[cur.id].dmin + 1
<1>1. /\ pending # <<>>
      /\ pending \in Seq([act : Actions, st : States])
      /\ table \in Tables
      /\ TypeOK
  BY DEF FrontierInv, TypeOK, AddState
<1>2. child \in [act : Actions, st : States]
  BY <1>1, HeadTailTypes
<1>3. id \in Ids
  BY <1>1, <1>2, GrammarTypes DEF IsGrammar
<1>4. path \in Paths /\ depth \in Nat
  <2>1. cur # Nil => cur \in WorkItems /\ table[cur.id] \in Records
    BY QueuedItemsKnown
  <2>2. path \in Paths
    BY <1>2, <2>1 DEF ChildPath, WorkItems, Paths
  <2>3. QED
    BY <2>1, <2>2 DEF Records
<1>5. CASE table[id] # Nil
  <2> DEFINE new == Rediscovered(table[id], path, depth)
  <2>1. table[id] \in Records
    BY <1>1, <1>3, <1>5 DEF Tables
  <2>2. new \in Records /\ new.status = table[id].status /\ new.rep = table[id].rep
    BY <1>4, <2>1 DEF Rediscovered, Records, Least, Greatest
  <2>3. table' = [table EXCEPT ![id] = new]
    BY <1>5 DEF AddState, Interned
  <2> HIDE DEF new
  <2>4. QED
    BY <1>1, <1>3, <1>5, <2>2, <2>3, NilAssumption DEF Tables
<1>6. CASE table[id] = Nil
  <2> DEFINE new == NewRecord(child.st, path, depth)
  <2>1. new \in Records /\ new.status = "queued" /\ new.rep = child.st
    BY <1>2, <1>4 DEF NewRecord, Records, Statuses
  <2>2. table' = [table EXCEPT ![id] = new]
    BY <1>6 DEF AddState, Interned
  <2> HIDE DEF new
  <2>3. QED
    BY <1>1, <1>3, <1>6, <2>1, <2>2, NilAssumption DEF Tables
<1>7. QED
  BY <1>5, <1>6

\* What had a record or was pending still has, or is.
LEMMA PendingAdded ==
  ASSUME FrontierInv, AddState
  PROVE  \A s \in States :
           HasState(table, s) \/ (\E j \in DOMAIN pending : pending[j].st = s)
             => HasState(table', s) \/ (\E j \in DOMAIN pending' : pending'[j].st = s)
<1> DEFINE child == Head(pending)
           id == Canon(g, child.st)
<1>1. pending # <<>> /\ pending' = Tail(pending) /\ pending \in Seq([act : Actions, st : States])
      /\ table \in Tables /\ TypeOK
  BY DEF AddState, FrontierInv, TypeOK
<1>2. /\ child = pending[1]
      /\ Len(pending) \in Nat \ {0}
      /\ DOMAIN pending = 1..Len(pending)
      /\ DOMAIN Tail(pending) = 1..(Len(pending) - 1)
      /\ \A i \in 1..(Len(pending) - 1) : Tail(pending)[i] = pending[i + 1]
  BY <1>1, HeadTailTypes
<1>3. id \in Ids /\ (\A x \in Ids \ {id} : table'[x] = table[x]) /\ table'[id] # Nil
  BY AddedRecord
<1>4. Canon(g, child.st) = id
  OBVIOUS
<1> HIDE DEF child, id
<1>5. \A s \in States : Canon(g, s) \in Ids /\ (HasState(table, s) => HasState(table', s))
  BY <1>1, <1>3, GrammarTypes DEF HasState, IsGrammar
<1>6. SUFFICES ASSUME NEW s \in States, NEW j \in DOMAIN pending, pending[j].st = s,
                      ~HasState(table', s)
               PROVE  \E k \in DOMAIN pending' : pending'[k].st = s
  BY <1>5
<1>7. j # 1
  BY <1>2, <1>3, <1>4, <1>6 DEF HasState
<1>8. j - 1 \in DOMAIN pending' /\ pending'[j - 1] = pending[j]
  BY <1>1, <1>2, <1>6, <1>7
<1>9. QED
  BY <1>6, <1>8

\* Adding a child moves it from the pending children to the table.
LEMMA AddStateCover ==
  ASSUME FrontierInv, CoverInv, AddState
  PROVE  CoverInv'
<1> DEFINE child == Head(pending)
           id == Canon(g, child.st)
<1>1. g' = g /\ Reachable' = Reachable
  BY ReachableFixed DEF AddState
<1>2. /\ UNCHANGED <<terminals, disk, cur, phase>>
      /\ phase = "expanding"
      /\ pending # <<>>
      /\ pending' = Tail(pending)
  BY DEF AddState
<1>3. /\ pending \in Seq([act : Actions, st : States])
      /\ table \in Tables
      /\ TypeOK
  BY DEF FrontierInv, TypeOK
<1>4. /\ child \in [act : Actions, st : States]
      /\ child = pending[1]
      /\ Len(pending) \in Nat \ {0}
      /\ DOMAIN pending = 1..Len(pending)
      /\ DOMAIN Tail(pending) = 1..(Len(pending) - 1)
      /\ \A i \in 1..(Len(pending) - 1) : Tail(pending)[i] = pending[i + 1]
  BY <1>2, <1>3, HeadTailTypes
<1>5. 1 \in DOMAIN pending /\ child.st \in States /\ child.st \in Reachable
  BY <1>4 DEF CoverInv, PendingCovers
<1>6. /\ id \in Ids
      /\ DOMAIN table' = Ids
      /\ \A x \in Ids \ {id} : table'[x] = table[x]
      /\ table'[id] # Nil
      /\ table[id] = Nil => table'[id].rep = child.st /\ table'[id].status = "queued"
      /\ table[id] # Nil => table'[id].rep = table[id].rep /\ table'[id].status = table[id].status
  BY AddedRecord
<1>7. Canon(g, child.st) = id
  OBVIOUS
<1> HIDE DEF child, id
<1>8. \A s \in States : Canon(g, s) \in Ids /\ (HasState(table, s) => HasState(table', s))
  BY <1>3, <1>6, GrammarTypes DEF HasState, IsGrammar
<1>9. TableSound(table)'
  BY <1>1, <1>5, <1>6, <1>7 DEF CoverInv, TableSound
<1>12. TerminalsMarked(table, terminals)'
  BY <1>2, <1>6 DEF CoverInv, TerminalsMarked
<1>13. \A s \in States : HasState(table, s) \/ (\E j \in DOMAIN pending : pending[j].st = s)
          => HasState(table', s) \/ (\E j \in DOMAIN pending' : pending'[j].st = s)
  BY PendingAdded
<1>14. PendingCovers'
  <2>1. \A i \in DOMAIN pending' : pending'[i].st \in Reachable
    BY <1>2, <1>4 DEF CoverInv, PendingCovers
  <2>2. \A i \in DOMAIN InitialStates(g) :
          \/ HasState(table', InitialStates(g)[i].st)
          \/ cur = Nil /\ \E j \in DOMAIN pending' : pending'[j].st = InitialStates(g)[i].st
    <3>1. \A i \in DOMAIN InitialStates(g) : InitialStates(g)[i].st \in States
      BY <1>3, ReachableClosed
    <3>2. QED
      BY <1>2, <1>8, <1>13, <3>1 DEF CoverInv, PendingCovers
  <2>3. ASSUME cur # Nil
        PROVE  table'[cur.id].rep \notin TerminalStates(g)
    <3>1. cur.id \in Ids /\ table[cur.id] # Nil
      BY <2>3, QueuedItemsKnown, NilAssumption DEF WorkItems
    <3>2. table'[cur.id].rep = table[cur.id].rep
      BY <1>6, <3>1
    <3>3. QED
      BY <2>3, <3>2 DEF CoverInv, PendingCovers
  <2>4. QED
    BY <1>1, <1>2, <2>1, <2>2, <2>3 DEF PendingCovers, HasState, Apply
<1>15. DiskCovers'
  BY <1>1, <1>2, DiskUntouched DEF CoverInv, DiskCovers
<1>16. QED
  BY <1>2, <1>9, <1>12, <1>14, <1>15 DEF CoverInv, DiskCovers, CompleteMeansDrained

\* Changing the status of a record that is in the table, as a step of the loop
\* does, keeps the states the table has.
LEMMA StatusKeepsStates ==
  ASSUME TypeOK, NEW id \in Ids, table[id] \in Records, NEW status \in Statuses,
         table' = [table EXCEPT ![id] = WithStatus(@, status)]
  PROVE  /\ \A x \in Ids \ {id} : table'[x] = table[x]
         /\ table'[id] # Nil
         /\ table'[id].rep = table[id].rep
         /\ table'[id].status = status
         /\ \A s \in States : HasState(table, s) => HasState(table', s)
         /\ \A x \in Ids : table[x] # Nil <=> table'[x] # Nil
<1> DEFINE new == WithStatus(table[id], status)
<1>1. new \in Records /\ new.rep = table[id].rep /\ new.status = status
  BY DEF WithStatus, Records
<1>2. table \in Tables /\ table' = [table EXCEPT ![id] = new]
  BY DEF TypeOK
<1> HIDE DEF new
<1>3. /\ \A x \in Ids \ {id} : table'[x] = table[x]
      /\ table'[id] = new
  BY <1>2 DEF Tables
<1>4. new # Nil /\ table[id] # Nil
  BY <1>1, NilAssumption
<1>5. \A x \in Ids : table[x] # Nil <=> table'[x] # Nil
  BY <1>3, <1>4
<1>6. \A s \in States : Canon(g, s) \in Ids
  BY GrammarTypes DEF IsGrammar
<1>7. QED
  BY <1>1, <1>3, <1>4, <1>5, <1>6 DEF HasState

\* The successor of a record's representative is a state.
LEMMA SuccessorType ==
  ASSUME TypeOK, NEW x \in Ids, table[x] # Nil, NEW a \in Actions,
         Apply(table[x].rep, a) # Nil
  PROVE  Apply(table[x].rep, a) \in States
<1>1. table[x] \in Records
  BY DEF TypeOK, Tables
<1>2. table[x].rep \in States
  BY <1>1 DEF Records
<1>3. QED
  BY <1>2, GrammarTypes

\* Taking an item off the deque: a terminal is marked, or the successors of a
\* state become pending.
LEMMA PopCover ==
  ASSUME FrontierInv, CoverInv, Pop
  PROVE  CoverInv'
<1> DEFINE work == Head(queue)
           record == table[work.id]
<1>1. g' = g /\ Reachable' = Reachable /\ disk' = disk
  BY ReachableFixed DEF Pop
<1>2. cur = Nil /\ queue # <<>> /\ phase = "loop" /\ TypeOK
  BY DEF FrontierInv, CurWhileExpanding, Pop
<1>3. work \in WorkItems /\ record \in Records /\ record.status = "queued"
  BY <1>2, HeadIsUnique
<1>4. work.id \in Ids /\ record # Nil /\ record.rep \in States
  BY <1>3, NilAssumption DEF WorkItems, Records
<1>5. DiskCovers'
  BY <1>1, DiskUntouched DEF CoverInv, DiskCovers
<1>6. CASE /\ record.rep \in TerminalStates(g)
           /\ table' = [table EXCEPT ![work.id] = WithStatus(@, "terminal")]
           /\ terminals' = terminals \cup {work.id}
           /\ UNCHANGED <<phase, cur, pending, built>>
  <2>1. "terminal" \in Statuses
    BY DEF Statuses
  <2> HIDE DEF work
  <2>2. /\ \A x \in Ids \ {work.id} : table'[x] = table[x]
        /\ table'[work.id] # Nil
        /\ table'[work.id].rep = table[work.id].rep
        /\ table'[work.id].status = "terminal"
        /\ \A s \in States : HasState(table, s) => HasState(table', s)
        /\ \A x \in Ids : table[x] # Nil <=> table'[x] # Nil
    BY <1>2, <1>3, <1>4, <1>6, <2>1, StatusKeepsStates
  <2>3. TableSound(table)'
    BY <1>1, <1>4, <1>6, <2>2 DEF CoverInv, TableSound
  <2>5. TerminalsMarked(table, terminals)'
    BY <1>4, <1>6, <2>2 DEF CoverInv, TerminalsMarked
  <2>6. Rooted(table)'
    <3>1. \A i \in DOMAIN InitialStates(g) : InitialStates(g)[i].st \in States
      BY <1>2, ReachableClosed
    <3>2. QED
      BY <1>1, <1>2, <2>2, <3>1 DEF CoverInv, Rooted, HasState
  <2>7. PendingCovers' /\ CompleteMeansDrained'
    BY <1>1, <1>2, <1>6 DEF CoverInv, PendingCovers, CompleteMeansDrained
  <2>8. QED
    BY <1>5, <2>3, <2>5, <2>6, <2>7 DEF CoverInv, DiskCovers
<1>7. CASE /\ record.rep \notin TerminalStates(g)
           /\ \E por \in PorChoices(EnabledActions(g, record.rep)) :
              \E order \in Ranked(ViableActions(work, por)) :
                pending' = [i \in DOMAIN order |->
                              [act |-> order[i], st |-> Apply(record.rep, order[i])]]
           /\ cur' = work
           /\ phase' = "expanding"
           /\ UNCHANGED <<table, terminals>>
  <2>1. PICK por \in PorChoices(EnabledActions(g, record.rep)) :
          \E order \in Ranked(ViableActions(work, por)) :
            pending' = [i \in DOMAIN order |->
                          [act |-> order[i], st |-> Apply(record.rep, order[i])]]
    BY <1>7
  <2>2. PICK order \in Ranked(ViableActions(work, por)) :
          pending' = [i \in DOMAIN order |->
                        [act |-> order[i], st |-> Apply(record.rep, order[i])]]
    BY <2>1
  <2> HIDE DEF work
  <2>5. record.rep \in Reachable
    BY <1>4 DEF CoverInv, TableSound
  <2>6. \A i \in DOMAIN order : order[i] \in Actions /\ Apply(record.rep, order[i]) # Nil
    <3>1. order \in Orderings(ViableActions(work, por))
      BY DEF Ranked
    <3>2. \A i \in DOMAIN order : order[i] \in ViableActions(work, por)
      BY <3>1 DEF Orderings
    <3>3. \A a \in ViableActions(work, por) : a \in Actions /\ Apply(record.rep, a) # Nil
      BY <1>2, <1>4, GrammarTypes DEF ViableActions, IsGrammar
    <3>4. QED
      BY <3>2, <3>3
  <2>7. \A i \in DOMAIN pending' : pending'[i].st \in Reachable
    BY <1>2, <2>2, <2>5, <2>6, ReachableClosed
  <2>8. /\ TableSound(table)' /\ TerminalsMarked(table, terminals)'
        /\ \A i \in DOMAIN InitialStates(g) : HasState(table, InitialStates(g)[i].st)
    BY <1>1, <1>2, <1>7 DEF CoverInv, TableSound, TerminalsMarked, HasState, Apply, Rooted
  <2>9. PendingCovers'
    BY <1>1, <1>7, <2>7, <2>8 DEF PendingCovers, HasState, Apply
  <2>10. QED
    BY <1>5, <1>7, <2>8, <2>9 DEF CoverInv, DiskCovers, CompleteMeansDrained
<1>8. QED
  BY <1>3, <1>6, <1>7 DEF Pop

\* The last child is in the table: the record in hand is explored, or the
\* roots are.
LEMMA EndExpansionCover ==
  ASSUME FrontierInv, CoverInv, EndExpansion
  PROVE  CoverInv'
<1>1. /\ g' = g /\ Reachable' = Reachable
      /\ UNCHANGED <<pending, terminals, disk>>
      /\ pending = <<>> /\ phase = "expanding" /\ phase' = "loop" /\ cur' = Nil
      /\ TypeOK
  BY ReachableFixed DEF EndExpansion, FrontierInv
<1>2. DiskCovers'
  BY <1>1, DiskUntouched DEF CoverInv, DiskCovers
<1>3. PendingCovers' /\ CompleteMeansDrained'
  BY <1>1 DEF PendingCovers, CompleteMeansDrained
<1>4. \A i \in DOMAIN InitialStates(g) : /\ HasState(table, InitialStates(g)[i].st)
                                       /\ InitialStates(g)[i].st \in States
  BY <1>1, ReachableClosed DEF CoverInv, PendingCovers
<1>5. CASE cur = Nil
  <2>1. table' = table
    BY <1>5 DEF EndExpansion
  <2>2. /\ TableSound(table)' /\ TerminalsMarked(table, terminals)'
        /\ Rooted(table)'
    BY <1>1, <1>4, <2>1 DEF CoverInv, TableSound, TerminalsMarked, HasState, Apply, Rooted
  <2>3. QED
    BY <1>2, <1>3, <2>2 DEF CoverInv, DiskCovers
<1>6. CASE cur # Nil
  <2>1. cur \in WorkItems /\ table[cur.id] \in Records /\ table[cur.id].status = "queued"
    BY <1>6, QueuedItemsKnown
  <2>2. cur.id \in Ids /\ table[cur.id] # Nil /\ "expanded" \in Statuses
    BY <2>1, NilAssumption DEF WorkItems, Statuses
  <2>3. table' = [table EXCEPT ![cur.id] = WithStatus(@, "expanded")]
    BY <1>6 DEF EndExpansion
  <2>4. /\ \A x \in Ids \ {cur.id} : table'[x] = table[x]
        /\ table'[cur.id] # Nil
        /\ table'[cur.id].rep = table[cur.id].rep
        /\ table'[cur.id].status = "expanded"
        /\ \A s \in States : HasState(table, s) => HasState(table', s)
        /\ \A x \in Ids : table[x] # Nil <=> table'[x] # Nil
    BY <1>1, <2>1, <2>2, <2>3, StatusKeepsStates
  <2>5. table[cur.id].rep \notin TerminalStates(g)
    BY <1>1, <1>6 DEF CoverInv, PendingCovers
  <2>6. TableSound(table)'
    BY <1>1, <2>2, <2>4, <2>5 DEF CoverInv, TableSound
  <2>8. TerminalsMarked(table, terminals)'
    BY <1>1, <2>1, <2>2, <2>4 DEF CoverInv, TerminalsMarked
  <2>9. Rooted(table)'
    BY <1>1, <1>4, <2>4 DEF Rooted, HasState
  <2>10. QED
    BY <1>2, <1>3, <2>6, <2>8, <2>9 DEF CoverInv, DiskCovers
<1>7. QED
  BY <1>5, <1>6

\* Leaving the loop, and saving: the table does not change.
LEMMA StopCover ==
  ASSUME FrontierInv, CoverInv, StopAtBudget \/ StopAtLimit \/ Finish \/ Save
  PROVE  CoverInv'
<1>1. /\ g' = g /\ Reachable' = Reachable
      /\ UNCHANGED <<table, queue, cur, pending, terminals>>
      /\ phase \in {"loop", "result"}
      /\ phase' \in {"result", "done", "stopped"}
      /\ cur = Nil
  BY ReachableFixed DEF StopAtBudget, StopAtLimit, Finish, Save, FrontierInv, CurWhileExpanding
<1>2. /\ TableSound(table)' /\ TerminalsMarked(table, terminals)'
      /\ Rooted(table) /\ Rooted(table)'
  BY <1>1 DEF CoverInv, TableSound, TerminalsMarked, HasState, Apply, Rooted
<1>3. PendingCovers'
  BY <1>1 DEF CoverInv, PendingCovers
<1>4. CompleteMeansDrained'
  BY DEF StopAtBudget, StopAtLimit, Finish, Save, CoverInv, CompleteMeansDrained
<1>5. DiskCovers'
  <2>1. CASE disk' = disk
    BY <1>1, <2>1, DiskUntouched DEF CoverInv, DiskCovers
  <2>2. CASE disk' = Checkpoint
    <3>1. disk'.table = table /\ disk'.terminals = terminals
      BY <2>2 DEF Checkpoint
    <3>2. QED
      BY <1>1, <1>2, <3>1 DEF DiskCovers, CoverInv, TableSound, TerminalsMarked, HasState,
                           Apply, Rooted
  <2>3. QED
    BY <2>1, <2>2 DEF StopAtBudget, StopAtLimit, Finish, Save
<1>6. QED
  BY <1>2, <1>3, <1>4, <1>5 DEF CoverInv, DiskCovers

\* A resumed search covers what its checkpoint covered.
LEMMA ResumeCover ==
  ASSUME FrontierInv, CoverInv, Resume
  PROVE  CoverInv'
<1>1. /\ g' = g /\ Reachable' = Reachable /\ disk' = disk /\ disk # Nil
      /\ cur = Nil
  BY ReachableFixed DEF Resume, FrontierInv, CurWhileExpanding
<1>2. DiskCovers'
  BY <1>1, DiskUntouched DEF CoverInv, DiskCovers
<1>3. CASE phase' = "failed" /\ ClearMemory
  BY <1>2, <1>3, ClearedCover DEF CoverInv, DiskCovers, PendingCovers, CompleteMeansDrained
<1>4. CASE /\ table' = disk.table
           /\ terminals' = disk.terminals
           /\ phase' = "loop"
           /\ UNCHANGED <<cur, pending>>
  <2>1. /\ TableSound(table)' /\ TerminalsMarked(table, terminals)'
        /\ Rooted(table)'
    BY <1>1, <1>4 DEF CoverInv, TableSound, TerminalsMarked, HasState, Apply, Rooted
  <2>2. PendingCovers' /\ CompleteMeansDrained'
    BY <1>1, <1>4 DEF CoverInv, PendingCovers, CompleteMeansDrained
  <2>3. QED
    BY <1>2, <2>1, <2>2 DEF CoverInv, DiskCovers
<1>5. QED
  BY <1>3, <1>4 DEF Resume

\* Every step keeps the invariant.
LEMMA NextCover ==
  ASSUME FrontierInv, CoverInv, [Next]_vars
  PROVE  CoverInv'
<1>1. CASE Crash
  <2>1. g' = g /\ disk' = disk /\ ClearMemory /\ phase' = "crashed"
    BY <1>1 DEF Crash
  <2>2. DiskCovers'
    BY <2>1, DiskUntouched DEF CoverInv, DiskCovers
  <2>3. QED
    BY <2>1, <2>2, ClearedCover DEF CoverInv, DiskCovers, PendingCovers, CompleteMeansDrained
<1>2. CASE Ended \/ UNCHANGED vars
  <2>1. UNCHANGED vars /\ Reachable' = Reachable
    BY <1>2, ReachableFixed DEF Ended, vars
  <2>2. QED
    BY <2>1 DEF vars, CoverInv, TableSound, TerminalsMarked, HasState, Apply, Rooted,
             PendingCovers, CompleteMeansDrained
<1>3. QED
  BY <1>1, <1>2, StartCover, AddStateCover, PopCover, EndExpansionCover, StopCover, ResumeCover
     DEF Next, Engine

LEMMA CoverInvariant == Spec => []CoverInv
<1>1. FrontierInv /\ CoverInv /\ [Next]_vars => CoverInv'
  BY NextCover
<1>2. QED
  BY <1>1, InitCover, FrontierInvariant, PTL DEF Spec

-----------------------------------------------------------------------------
(***************************************************************************)
(* Budgets over resumes.                                                   *)
(***************************************************************************)
\* A search that goes on from a spent checkpoint is back at the top of the loop
\* with work left and a budget exhausted, until it stops incomplete.
SpentStaysSpent ==
  disk # Nil /\ Spent(disk) =>
    /\ phase \notin {"expanding", "done"}
    /\ phase = "loop" => BudgetExhausted /\ queue # <<>>
    /\ phase = "result" => ~complete /\ BudgetExhausted /\ queue # <<>>

DoneIsComplete == phase = "done" => complete

SpentInv == SpentStaysSpent /\ CompleteMeansDrained /\ DoneIsComplete

\* The checkpoint of a complete result has nothing queued: it is not spent.
LEMMA CompleteNotSpent ==
  ASSUME FrontierInv, CompleteMeansDrained, phase = "result", complete
  PROVE  ~Spent(Checkpoint)
<1>1. queue = <<>> /\ cur = Nil
  BY DEF CompleteMeansDrained, FrontierInv, CurWhileExpanding
<1>2. QueuedIds = {}
  BY <1>1 DEF FrontierInv, FrontierOwned
<1>3. \A id \in Ids : ~(table[id] # Nil /\ table[id].status = "queued")
  BY <1>2 DEF QueuedIds, Known
<1>4. QED
  BY <1>3 DEF Spent, Checkpoint

\* A resumed spent checkpoint brings its counters and a nonempty frontier back.
LEMMA ResumeSpent ==
  ASSUME FrontierInv, Resume, Spent(disk)
  PROVE  /\ phase' = "loop" => (BudgetExhausted /\ queue # <<>>)'
         /\ phase' \in {"loop", "failed"}
<1> DEFINE frontier == Unexplored(disk.table)
<1>1. CASE \A id \in frontier : Replayable(disk.table[id].path)
  <2>1. PICK order \in Orderings(frontier) :
          queue' = [i \in DOMAIN order |-> RestoredItem(order[i], disk.table[order[i]].path)]
    BY <1>1 DEF Resume
  <2>2. table' = disk.table /\ built' = disk.built /\ phase' = "loop" /\ g' = g
    BY <1>1 DEF Resume
  <2>3. PICK id \in frontier : TRUE
    BY DEF Spent, Unexplored
  <2>4. PICK i \in DOMAIN order : order[i] = id
    BY <2>1, <2>3 DEF Orderings
  <2> HIDE DEF frontier
  <2>5. i \in DOMAIN queue'
    BY <2>1, <2>4
  <2>6. queue' # <<>>
    BY <2>5
  <2>7. BudgetExhausted'
    BY <2>2 DEF Spent, BudgetExhausted, Known
  <2>8. QED
    BY <2>2, <2>6, <2>7
<1>2. CASE ~(\A id \in frontier : Replayable(disk.table[id].path))
  BY <1>2 DEF Resume
<1>3. QED
  BY <1>1, <1>2

LEMMA NextSpent ==
  ASSUME FrontierInv, SpentInv, [Next]_vars
  PROVE  SpentInv'
<1> USE DEF SpentInv
<1>1. g \in Grammars /\ complete \in BOOLEAN
  BY DEF FrontierInv, TypeOK
<1>2. CASE Start
  <2>1. disk = Nil /\ disk' = disk /\ phase' = "expanding"
    BY <1>2 DEF Start
  <2>2. QED
    BY <2>1 DEF SpentStaysSpent, CompleteMeansDrained, DoneIsComplete
<1>3. CASE AddState \/ EndExpansion
  <2>1. phase = "expanding" /\ phase' \in {"expanding", "loop"} /\ UNCHANGED <<g, disk>>
    BY <1>3 DEF AddState, EndExpansion
  <2>2. ~(disk # Nil /\ Spent(disk))
    BY <2>1 DEF SpentStaysSpent
  <2>3. ~(disk # Nil /\ Spent(disk))'
    BY <2>1, <2>2 DEF Spent
  <2>4. QED
    BY <2>1, <2>3 DEF SpentStaysSpent, CompleteMeansDrained, DoneIsComplete
<1>4. CASE Pop
  <2>1. /\ phase = "loop" /\ ~BudgetExhausted /\ phase' \in {"expanding", "loop"}
        /\ UNCHANGED <<g, disk>>
    BY <1>4 DEF Pop
  <2>2. ~(disk # Nil /\ Spent(disk))
    BY <2>1 DEF SpentStaysSpent
  <2>3. ~(disk # Nil /\ Spent(disk))'
    BY <2>1, <2>2 DEF Spent
  <2>4. QED
    BY <2>1, <2>3 DEF SpentStaysSpent, CompleteMeansDrained, DoneIsComplete
<1>5. CASE StopAtBudget \/ StopAtLimit
  <2>1. /\ phase = "loop" /\ phase' = "result" /\ complete' = FALSE
        /\ UNCHANGED <<g, disk, table, queue, built>>
    BY <1>5 DEF StopAtBudget, StopAtLimit
  <2>2. disk # Nil /\ Spent(disk) => BudgetExhausted /\ queue # <<>>
    BY <2>1 DEF SpentStaysSpent
  <2>3. (disk # Nil /\ Spent(disk) => BudgetExhausted /\ queue # <<>>)'
    BY <2>1, <2>2 DEF Spent, BudgetExhausted, Known
  <2>4. QED
    BY <2>1, <2>3 DEF SpentStaysSpent, CompleteMeansDrained, DoneIsComplete
<1>6. CASE Finish
  <2>1. /\ phase = "loop" /\ queue = <<>> /\ queue' = queue /\ phase' = "result"
        /\ UNCHANGED <<g, disk>>
    BY <1>6 DEF Finish
  <2>2. ~(disk # Nil /\ Spent(disk))
    BY <2>1 DEF SpentStaysSpent
  <2>3. ~(disk # Nil /\ Spent(disk))'
    BY <2>1, <2>2 DEF Spent
  <2>4. QED
    BY <2>1, <2>3 DEF SpentStaysSpent, CompleteMeansDrained, DoneIsComplete
<1>7. CASE Save
  <2>1. /\ phase = "result" /\ UNCHANGED <<g, complete, queue>>
        /\ phase' = IF complete THEN "done" ELSE "stopped"
        /\ disk' = IF SaveOnCompletion \/ ~complete THEN Checkpoint ELSE disk
    BY <1>7 DEF Save
  <2>2. CASE ~complete
    BY <2>1, <2>2 DEF SpentStaysSpent, CompleteMeansDrained, DoneIsComplete
  <2>3. CASE complete
    <3>1. ~Spent(Checkpoint)
      BY <2>1, <2>3, CompleteNotSpent
    <3>2. ~(disk # Nil /\ Spent(disk))
      BY <2>1, <2>3 DEF SpentStaysSpent
    <3>3. disk' \in {Checkpoint, disk} /\ g' = g
      BY <2>1
    <3>4. ~(disk # Nil /\ Spent(disk))'
      BY <3>1, <3>2, <3>3 DEF Spent
    <3>5. QED
      BY <2>1, <2>3, <3>4 DEF SpentStaysSpent, CompleteMeansDrained, DoneIsComplete
  <2>4. QED
    BY <2>2, <2>3
<1>8. CASE Crash
  <2>1. phase' = "crashed"
    BY <1>8 DEF Crash
  <2>2. QED
    BY <2>1 DEF SpentStaysSpent, CompleteMeansDrained, DoneIsComplete
<1>9. CASE Resume
  <2>1. UNCHANGED <<g, disk>> /\ disk # Nil /\ phase' \in {"loop", "failed"}
    BY <1>9 DEF Resume
  <2>2. Spent(disk)' = Spent(disk)
    BY <2>1 DEF Spent
  <2>3. QED
    BY <1>9, <2>1, <2>2, ResumeSpent DEF SpentStaysSpent, CompleteMeansDrained, DoneIsComplete
<1>10. CASE Ended \/ UNCHANGED vars
  <2>1. UNCHANGED vars
    BY <1>10 DEF Ended
  <2>2. QED
    BY <2>1 DEF vars, SpentStaysSpent, CompleteMeansDrained, DoneIsComplete, Spent,
             BudgetExhausted, Known
<1>11. QED
  BY <1>2, <1>3, <1>4, <1>5, <1>6, <1>7, <1>8, <1>9, <1>10 DEF Next, Engine

LEMMA SpentInvariant == Spec => []SpentInv
<1>1. Init => SpentInv
  BY DEF Init, SpentInv, SpentStaysSpent, CompleteMeansDrained, DoneIsComplete
<1>2. QED
  BY <1>1, NextSpent, FrontierInvariant, PTL DEF Spec

\* The counters of a checkpoint come back with it: a search that a budget stopped
\* never ends complete under the same budgets, however often it is resumed
THEOREM BudgetStaysSpent == Spec => []BudgetSpentForGood
<1>1. SpentInv => BudgetSpentForGood
  BY DEF SpentInv, SpentStaysSpent, BudgetSpentForGood
<1>2. QED
  BY <1>1, SpentInvariant, PTL

-----------------------------------------------------------------------------
(***************************************************************************)
(* Paths.  A checkpoint holds no states: a resumed search finds them again *)
(* by replaying paths.  Replay is a recursive function; what it does at    *)
(* every place of a path follows from the least place where it would not.  *)
(***************************************************************************)
\* A nonempty set of naturals has a least element.
LEMMA LeastNumber ==
  ASSUME NEW T \in SUBSET Nat, T # {}
  PROVE  \E i \in T : \A j \in T : ~(j < i)
<1> DEFINE R == OpToRel(<, Nat)
<1>1. IsWellFoundedOn(R, Nat)
  BY NatLessThanWellFounded
<1>2. \A x, y \in Nat : x < y => <<x, y>> \in R
  BY DEF OpToRel
<1> HIDE DEF R
<1>3. PICK i \in T : \A j \in T : ~(<<j, i>> \in R)
  BY <1>1, WFMin
<1>4. QED
  BY <1>2, <1>3

\* h is the replay of the first n actions of a path.
Follows(h, path, n) ==
  h = [i \in 1..n |-> IF i = 1 THEN InitialWith(path[1]) ELSE Apply(h[i - 1], path[i])]

\* Each number of actions of a path has a replay.
LEMMA ReplayExists ==
  ASSUME NEW path, NEW n \in Nat
  PROVE  \E h : Follows(h, path, n)
<1> DEFINE T == {m \in Nat : ~\E h : Follows(h, path, m)}
<1>1. SUFFICES ASSUME T # {} PROVE FALSE
  OBVIOUS
<1>2. PICK m \in T : \A j \in T : ~(j < m)
  <2> HIDE DEF T
  <2>1. T \in SUBSET Nat
    BY DEF T
  <2>2. QED
    BY <1>1, <2>1, LeastNumber
<1>3. CASE m = 0
  <2> DEFINE h == [i \in 1..0 |-> Nil]
  <2>1. Follows(h, path, 0)
    BY DEF Follows
  <2>2. QED
    BY <1>2, <1>3, <2>1
<1>4. CASE m # 0
  <2>1. m \in Nat /\ m - 1 \in Nat /\ m - 1 < m
    BY <1>4
  <2>2. PICK h : Follows(h, path, m - 1)
    BY <1>2, <2>1
  <2> DEFINE next == IF m = 1 THEN InitialWith(path[1]) ELSE Apply(h[m - 1], path[m])
             k == [i \in 1..m |-> IF i = m THEN next ELSE h[i]]
  <2>3. \A i \in 1..(m - 1) : h[i] = IF i = 1 THEN InitialWith(path[1])
                                            ELSE Apply(h[i - 1], path[i])
    BY <2>2 DEF Follows
  <2>4. \A i \in 1..m : k[i] = IF i = 1 THEN InitialWith(path[1])
                                      ELSE Apply(k[i - 1], path[i])
    <3> TAKE i \in 1..m
    <3>1. CASE i = m
      BY <2>1, <3>1
    <3>2. CASE i # m
      BY <2>1, <2>3, <3>2
    <3>3. QED
      BY <3>1, <3>2
  <2>5. k = [i \in 1..m |-> k[i]]
    OBVIOUS
  <2> HIDE DEF k
  <2>6. Follows(k, path, m)
    BY <2>4, <2>5 DEF Follows
  <2>7. QED
    BY <1>2, <2>6
<1>5. QED
  BY <1>3, <1>4

\* _replay_path_states applies the actions of a path one after the other.
LEMMA ReplayUnfolds ==
  ASSUME NEW path \in Paths, NEW i \in 1..Len(path)
  PROVE  Replay(path)[i] = IF i = 1 THEN InitialWith(path[1])
                                    ELSE Apply(Replay(path)[i - 1], path[i])
<1>1. Len(path) \in Nat
  BY DEF Paths
<1>2. Replay(path) = CHOOSE h : Follows(h, path, Len(path))
  BY DEF Replay, Follows
<1>3. Follows(Replay(path), path, Len(path))
  BY <1>1, <1>2, ReplayExists
<1>4. QED
  BY <1>3 DEF Follows

\* A longer path is replayed like its beginning.
LEMMA ReplayPrefix ==
  ASSUME NEW path \in Paths, NEW act \in Actions, NEW i \in 1..Len(path)
  PROVE  Replay(Append(path, act))[i] = Replay(path)[i]
<1> DEFINE long == Append(path, act)
           T == {j \in 1..Len(path) : Replay(long)[j] # Replay(path)[j]}
<1>1. /\ long \in Paths /\ Len(path) \in Nat /\ Len(long) = Len(path) + 1
      /\ \A j \in 1..Len(path) : j \in 1..Len(long) /\ long[j] = path[j]
  BY DEF Paths
<1> HIDE DEF long
<1>2. SUFFICES ASSUME T # {} PROVE FALSE
  BY DEF long
<1>3. PICK j \in T : \A k \in T : ~(k < j)
  <2> HIDE DEF T
  <2>1. T \in SUBSET Nat
    BY <1>1 DEF T
  <2>2. QED
    BY <1>2, <2>1, LeastNumber
<1>4. j \in 1..Len(path) /\ j \in 1..Len(long) /\ long[j] = path[j]
  BY <1>1, <1>3
<1>5. Replay(long)[j] = IF j = 1 THEN InitialWith(long[1])
                                 ELSE Apply(Replay(long)[j - 1], long[j])
  BY <1>1, <1>4, ReplayUnfolds
<1>6. Replay(path)[j] = IF j = 1 THEN InitialWith(path[1])
                                 ELSE Apply(Replay(path)[j - 1], path[j])
  BY <1>4, ReplayUnfolds
<1>7. CASE j = 1
  BY <1>3, <1>4, <1>5, <1>6, <1>7
<1>8. CASE j # 1
  <2>1. j - 1 \in 1..Len(path) /\ j - 1 < j
    BY <1>1, <1>4, <1>8
  <2>2. Replay(long)[j - 1] = Replay(path)[j - 1]
    BY <1>3, <2>1
  <2>3. QED
    BY <1>3, <1>4, <1>5, <1>6, <1>8, <2>2
<1>9. QED
  BY <1>7, <1>8

\* Where a path leads
EndOf(path) == Replay(path)[Len(path)]

\* An appended action is applied where the path led.
LEMMA EndOfAppend ==
  ASSUME NEW path \in Paths, path # <<>>, NEW act \in Actions
  PROVE  /\ Append(path, act) \in Paths /\ Append(path, act) # <<>>
         /\ EndOf(Append(path, act)) = Apply(EndOf(path), act)
<1> DEFINE long == Append(path, act)
           n == Len(path)
<1>1. /\ long \in Paths /\ long # <<>> /\ n \in Nat /\ n \in 1..n /\ Len(long) = n + 1
      /\ n + 1 \in 1..Len(long) /\ n + 1 # 1 /\ (n + 1) - 1 = n /\ long[n + 1] = act
  BY DEF Paths
<1> HIDE DEF long, n
<1>2. Replay(long)[n + 1] = Apply(Replay(long)[n], act)
  BY <1>1, ReplayUnfolds
<1>3. Replay(long)[n] = Replay(path)[n]
  BY <1>1, ReplayPrefix DEF long, n
<1>4. QED
  BY <1>1, <1>2, <1>3 DEF EndOf, long, n

LEMMA EndOfRoot ==
  ASSUME NEW act \in Actions
  PROVE  <<act>> \in Paths /\ <<act>> # <<>> /\ EndOf(<<act>>) = InitialWith(act)
<1>1. <<act>> \in Paths /\ Len(<<act>>) = 1 /\ <<act>>[1] = act /\ 1 \in 1..Len(<<act>>)
      /\ <<act>> # <<>>
  BY DEF Paths
<1>2. Replay(<<act>>)[1] = InitialWith(act)
  BY <1>1, ReplayUnfolds
<1>3. QED
  BY <1>1, <1>2 DEF EndOf

\* Replays depend on the grammar alone.
LEMMA EndOfFixed ==
  ASSUME g' = g, NEW path
  PROVE  EndOf(path)' = EndOf(path)
BY DEF EndOf, Replay, InitialWith, Apply

-----------------------------------------------------------------------------
\* Canonically equal states are equal: no two identities are interchangeable.
Faithful(gr) == \A s, t \in States : Canon(gr, s) = Canon(gr, t) => s = t

\* The first action of a path tells the roots apart.
RootsApart(gr) ==
  \A i, j \in DOMAIN InitialStates(gr) :
    InitialStates(gr)[i].act = InitialStates(gr)[j].act => i = j

InHand == Elements(queue) \cup ({cur} \ {Nil})

\* The path of every record leads to its canonical state.
RecordsLead(tab) ==
  \A id \in Ids, r \in Records : tab[id] = r =>
    /\ r.path # <<>> /\ EndOf(r.path) \in States /\ Canon(g, EndOf(r.path)) = id
    /\ Canon(g, r.rep) = id

\* The path of a work item leads to the very state its record holds; the record
\* itself may have got another path since the item was queued.
ItemsLead == \A work \in InHand : work.path # <<>> /\ EndOf(work.path) = table[work.id].rep

\* A pending child is where its action leads from the item in hand.
PendingLead ==
  phase = "expanding" =>
    \A child \in Elements(pending) :
      IF cur = Nil THEN EndOf(<<child.act>>) = child.st
      ELSE Apply(table[cur.id].rep, child.act) = child.st

NotRefused == Native(g) => phase # "failed"

PathInv ==
  /\ RecordsLead(table) /\ ItemsLead /\ PendingLead /\ NotRefused
  /\ disk # Nil => RecordsLead(disk.table)

\* What is in hand has a record, and what is in the table is a record.
LEMMA InHandKnown ==
  ASSUME FrontierInv
  PROVE  /\ \A work \in InHand : work \in WorkItems /\ work.id \in Ids /\ work.path \in Paths
                                 /\ table[work.id] \in Records
         /\ \A id \in Ids : table[id] # Nil <=> table[id] \in Records
<1>1. \A work \in InHand : work \in WorkItems /\ table[work.id] \in Records
  BY QueuedItemsKnown DEF InHand, Elements
<1>2. \A id \in Ids : table[id] # Nil <=> table[id] \in Records
  BY NilAssumption DEF FrontierInv, TypeOK, Tables
<1>3. QED
  BY <1>1, <1>2 DEF WorkItems

LEMMA DiskStays ==
  ASSUME g' = g, disk' = disk, disk # Nil => RecordsLead(disk.table)
  PROVE  (disk # Nil => RecordsLead(disk.table))'
BY EndOfFixed DEF RecordsLead

\* Items stay right if their records keep their states.
LEMMA ItemsStay ==
  ASSUME FrontierInv, ItemsLead, g' = g, InHand' \subseteq InHand,
         \A id \in Ids : table[id] \in Records => table'[id].rep = table[id].rep
  PROVE  ItemsLead'
<1>1. ASSUME NEW work \in InHand'
      PROVE  work.path # <<>> /\ EndOf(work.path)' = table'[work.id].rep
  <2>1. work \in InHand /\ work.id \in Ids /\ table[work.id] \in Records
    BY InHandKnown
  <2>2. EndOf(work.path)' = EndOf(work.path)
    BY EndOfFixed
  <2>3. QED
    BY <2>1, <2>2 DEF ItemsLead
<1>2. QED
  BY <1>1 DEF ItemsLead

\* A change of status changes neither path nor state.
LEMMA StatusKeepsPaths ==
  ASSUME FrontierInv, NEW x \in Ids, table[x] \in Records, NEW status \in Statuses, g' = g,
         table' = [table EXCEPT ![x] = WithStatus(@, status)], RecordsLead(table)
  PROVE  /\ RecordsLead(table)'
         /\ \A id \in Ids : table[id] \in Records => table'[id].rep = table[id].rep
<1>1. table \in Tables
  BY DEF FrontierInv, TypeOK
<1>2. \A id \in Ids \ {x} : table'[id] = table[id]
  BY <1>1 DEF Tables
<1>3. table'[x] = WithStatus(table[x], status)
  BY <1>1 DEF Tables
<1>4. table'[x].path = table[x].path /\ table'[x].rep = table[x].rep
  BY <1>3 DEF WithStatus
<1>5. ASSUME NEW id \in Ids, NEW r \in Records, table'[id] = r
      PROVE  /\ r.path # <<>> /\ EndOf(r.path)' \in States /\ Canon(g, EndOf(r.path)') = id
             /\ Canon(g, r.rep) = id
  <2>1. EndOf(r.path)' = EndOf(r.path)
    BY EndOfFixed
  <2>2. CASE id # x
    BY <1>2, <1>5, <2>1, <2>2 DEF RecordsLead
  <2>3. CASE id = x
    <3>1. r.path = table[x].path /\ r.rep = table[x].rep
      BY <1>4, <1>5, <2>3
    <3>2. QED
      BY <2>1, <2>3, <3>1 DEF RecordsLead
  <2>4. QED
    BY <2>2, <2>3
<1>6. QED
  BY <1>2, <1>4, <1>5 DEF RecordsLead

\* A child that add_state is given is where its path leads.
LEMMA ChildLeads ==
  ASSUME FrontierInv, PathInv, phase = "expanding", pending # <<>>,
         NEW child, child = Head(pending), NEW path, path = ChildPath(child.act)
  PROVE  /\ child \in [act : Actions, st : States] /\ child \in Elements(pending)
         /\ path \in Paths /\ path # <<>> /\ EndOf(path) = child.st
<1>1. child \in [act : Actions, st : States] /\ child \in Elements(pending)
  <2> DEFINE Children == [act : Actions, st : States]
  <2>1. pending \in Seq(Children)
    BY DEF FrontierInv, TypeOK
  <2> HIDE DEF Children
  <2>2. /\ Head(pending) \in Children /\ Head(pending) = pending[1]
        /\ Len(pending) \in Nat \ {0} /\ DOMAIN pending = 1..Len(pending)
    BY <2>1, HeadTailTypes
  <2>3. 1 \in DOMAIN pending
    BY <2>2
  <2>4. QED
    BY <2>2, <2>3 DEF Elements, Children
<1>2. CASE cur = Nil
  <2>1. path = <<child.act>>
    BY <1>2 DEF ChildPath
  <2>2. EndOf(<<child.act>>) = child.st
    BY <1>1, <1>2 DEF PathInv, PendingLead
  <2>3. QED
    BY <1>1, <2>1, <2>2, EndOfRoot
<1>3. CASE cur # Nil
  <2>1. path = Append(cur.path, child.act) /\ cur \in InHand
    BY <1>3 DEF ChildPath, InHand
  <2>2. cur.path \in Paths /\ cur.path # <<>> /\ EndOf(cur.path) = table[cur.id].rep
    BY <2>1, InHandKnown DEF PathInv, ItemsLead
  <2>3. Apply(table[cur.id].rep, child.act) = child.st
    BY <1>1, <1>3 DEF PathInv, PendingLead
  <2>4. QED
    BY <1>1, <2>1, <2>2, <2>3, EndOfAppend
<1>4. QED
  BY <1>2, <1>3

\* add_state gives a new record the path and the state of the child, and an old
\* one at most another path to its canonical state.
LEMMA AddStatePaths ==
  ASSUME FrontierInv, PathInv, AddState
  PROVE  PathInv'
<1> DEFINE child == Head(pending)
           x == Canon(g, child.st)
           path == ChildPath(child.act)
<1>1. /\ phase = "expanding" /\ pending # <<>> /\ pending' = Tail(pending)
      /\ UNCHANGED <<g, phase, cur, disk>>
  BY DEF AddState
<1>2. /\ child \in [act : Actions, st : States]
      /\ path \in Paths /\ path # <<>> /\ EndOf(path) = child.st
  BY <1>1, ChildLeads
<1>3. x \in Ids /\ child.st \in States
  BY <1>2, GrammarTypes DEF FrontierInv, IsGrammar
<1>4. table \in Tables
  BY DEF FrontierInv, TypeOK
<1>5. Elements(pending') \subseteq Elements(pending)
  <2>1. pending \in Seq([act : Actions, st : States])
    BY DEF FrontierInv, TypeOK
  <2>2. \A i \in DOMAIN Tail(pending) : i + 1 \in DOMAIN pending /\ Tail(pending)[i] = pending[i + 1]
    BY <1>1, <2>1
  <2>3. QED
    BY <1>1, <2>2 DEF Elements
<1>6. PICK depth \in {0} \cup {table[cur.id].dmin + 1} :
        /\ x \in Ids
        /\ IF Interned(x)
           THEN table' = [table EXCEPT ![x] = Rediscovered(@, path, depth)] /\ queue' = queue
           ELSE /\ table' = [table EXCEPT ![x] = NewRecord(child.st, path, depth)]
                /\ \E prev : queue' = Append(queue, [id |-> x, path |-> path, prev |-> prev])
  BY <1>3 DEF AddState
<1> HIDE DEF child, x, path
<1>7. \A id \in Ids \ {x} : table'[id] = table[id]
  BY <1>4, <1>6 DEF Tables
<1>8. /\ table'[x].path \in {path} \cup (IF table[x] # Nil THEN {table[x].path} ELSE {})
      /\ table'[x].rep = IF table[x] # Nil THEN table[x].rep ELSE child.st
  <2>1. CASE Interned(x)
    <3>1. table'[x] = Rediscovered(table[x], path, depth) /\ table[x] # Nil
      BY <1>3, <1>4, <1>6, <2>1 DEF Tables, Interned
    <3>2. QED
      BY <3>1 DEF Rediscovered
  <2>2. CASE ~Interned(x)
    <3>1. table'[x] = NewRecord(child.st, path, depth) /\ table[x] = Nil
      BY <1>3, <1>4, <1>6, <2>2 DEF Tables, Interned
    <3>2. QED
      BY <3>1 DEF NewRecord
  <2>3. QED
    BY <2>1, <2>2
<1>9. RecordsLead(table)'
  <2>1. ASSUME NEW id \in Ids, NEW r \in Records, table'[id] = r
        PROVE  /\ r.path # <<>> /\ EndOf(r.path)' \in States /\ Canon(g, EndOf(r.path)') = id
               /\ Canon(g, r.rep) = id
    <3>1. EndOf(r.path)' = EndOf(r.path)
      BY <1>1, EndOfFixed
    <3>2. CASE id # x
      BY <1>7, <2>1, <3>1, <3>2 DEF PathInv, RecordsLead
    <3>3. CASE id = x /\ table[x] = Nil
      BY <1>2, <1>3, <1>8, <2>1, <3>1, <3>3 DEF x
    <3>4. CASE id = x /\ table[x] # Nil
      <4>1. table[x] \in Records
        BY <1>3, <3>4, InHandKnown
      <4>2. /\ table[x].path # <<>> /\ EndOf(table[x].path) \in States
            /\ Canon(g, EndOf(table[x].path)) = x /\ Canon(g, table[x].rep) = x
        BY <1>3, <4>1 DEF PathInv, RecordsLead
      <4>3. r.path \in {path, table[x].path} /\ r.rep = table[x].rep
        BY <1>8, <2>1, <3>4
      <4>4. QED
        BY <1>2, <1>3, <3>1, <3>4, <4>2, <4>3 DEF x
    <3>5. QED
      BY <3>2, <3>3, <3>4
  <2>2. QED
    BY <1>1, <2>1 DEF RecordsLead
<1>10. \A id \in Ids : table[id] \in Records => table'[id].rep = table[id].rep
  BY <1>7, <1>8, InHandKnown
<1>11. ItemsLead'
  <2>1. CASE Interned(x)
    <3>1. InHand' = InHand
      BY <1>1, <1>6, <2>1 DEF InHand, Elements
    <3>2. QED
      BY <1>1, <1>10, <3>1, ItemsStay DEF PathInv
  <2>2. CASE ~Interned(x)
    <3>1. PICK prev : queue' = Append(queue, [id |-> x, path |-> path, prev |-> prev])
      BY <1>6, <2>2
    <3> DEFINE item == [id |-> x, path |-> path, prev |-> prev]
    <3>2. item.id = x /\ item.path = path
      OBVIOUS
    <3>3. queue \in Seq(WorkItems) /\ queue' = Append(queue, item)
      BY <3>1 DEF FrontierInv, TypeOK
    <3> HIDE DEF item
    <3>4. Elements(queue') \subseteq Elements(queue) \cup {item}
      BY <3>3 DEF Elements
    <3>5. InHand' \subseteq InHand \cup {item}
      BY <1>1, <3>4 DEF InHand
    <3>6. ASSUME NEW work \in InHand'
          PROVE  work.path # <<>> /\ EndOf(work.path)' = table'[work.id].rep
      <4>1. EndOf(work.path)' = EndOf(work.path)
        BY <1>1, EndOfFixed
      <4>2. CASE work \in InHand
        <5>1. work.id \in Ids /\ table[work.id] \in Records
          BY <4>2, InHandKnown
        <5>2. QED
          BY <1>10, <4>1, <4>2, <5>1 DEF PathInv, ItemsLead
      <4>3. CASE work = item
        <5>1. table[x] = Nil
          BY <2>2 DEF Interned
        <5>2. QED
          BY <1>2, <1>8, <3>2, <4>1, <4>3, <5>1
      <4>4. QED
        BY <3>5, <4>2, <4>3
    <3>7. QED
      BY <3>6 DEF ItemsLead
  <2>3. QED
    BY <2>1, <2>2
<1>12. PendingLead'
  <2>1. ASSUME NEW c \in Elements(pending')
        PROVE  IF cur = Nil THEN EndOf(<<c.act>>)' = c.st
               ELSE Apply(table'[cur.id].rep, c.act) = c.st
    <3>1. c \in Elements(pending)
      BY <1>5
    <3>2. EndOf(<<c.act>>)' = EndOf(<<c.act>>)
      BY <1>1, EndOfFixed
    <3>3. cur # Nil => cur.id \in Ids /\ table[cur.id] \in Records
      BY InHandKnown DEF InHand
    <3>4. QED
      BY <1>1, <1>10, <3>1, <3>2, <3>3 DEF PathInv, PendingLead
  <2>2. QED
    BY <1>1, <2>1 DEF PendingLead, Apply
<1>13. QED
  BY <1>1, <1>9, <1>11, <1>12, DiskStays DEF PathInv, NotRefused

\* The ranked children of a popped item are where the actions lead.
LEMMA PopPaths ==
  ASSUME FrontierInv, PathInv, Pop
  PROVE  PathInv'
<1> DEFINE work == Head(queue)
           record == table[work.id]
<1>1. /\ cur = Nil /\ queue # <<>> /\ queue' = Tail(queue) /\ phase = "loop"
      /\ UNCHANGED <<g, disk>>
  BY DEF FrontierInv, CurWhileExpanding, Pop
<1>2. queue \in Seq(WorkItems)
  BY DEF FrontierInv, TypeOK
<1>3. work \in Elements(queue) /\ Elements(queue') \subseteq Elements(queue)
  <2>1. /\ Head(queue) = queue[1] /\ Len(queue) \in Nat \ {0} /\ DOMAIN queue = 1..Len(queue)
        /\ DOMAIN Tail(queue) = 1..(Len(queue) - 1)
        /\ \A i \in 1..(Len(queue) - 1) : Tail(queue)[i] = queue[i + 1]
    BY <1>1, <1>2, HeadTailTypes
  <2>2. 1 \in DOMAIN queue /\ \A i \in 1..(Len(queue) - 1) : i + 1 \in DOMAIN queue
    BY <2>1
  <2>3. QED
    BY <1>1, <2>1, <2>2 DEF Elements
<1>4. work \in InHand /\ work.id \in Ids /\ record \in Records
  BY <1>3, InHandKnown DEF InHand
<1>5. CASE UNCHANGED <<table, phase, cur>>
  <2>1. InHand' \subseteq InHand
    BY <1>1, <1>3, <1>5 DEF InHand
  <2>2. ItemsLead'
    BY <1>1, <1>5, <2>1, ItemsStay DEF PathInv
  <2>3. RecordsLead(table)'
    BY <1>1, <1>5, EndOfFixed DEF PathInv, RecordsLead
  <2>4. QED
    BY <1>1, <1>5, <2>2, <2>3, DiskStays DEF PathInv, PendingLead, NotRefused
<1>6. CASE /\ table' = [table EXCEPT ![work.id] = WithStatus(@, "terminal")]
           /\ UNCHANGED <<phase, cur>>
  <2>1. InHand' \subseteq InHand
    BY <1>1, <1>3, <1>6 DEF InHand
  <2>2. /\ RecordsLead(table)'
        /\ \A id \in Ids : table[id] \in Records => table'[id].rep = table[id].rep
    BY <1>1, <1>4, <1>6, StatusKeepsPaths DEF PathInv, Statuses
  <2>3. ItemsLead'
    BY <1>1, <2>1, <2>2, ItemsStay DEF PathInv
  <2>4. QED
    BY <1>1, <1>6, <2>2, <2>3, DiskStays DEF PathInv, PendingLead, NotRefused
<1>7. CASE /\ cur' = work /\ phase' = "expanding" /\ table' = table
           /\ \E por, order :
                pending' = [i \in DOMAIN order |->
                              [act |-> order[i], st |-> Apply(record.rep, order[i])]]
  <2>1. InHand' \subseteq InHand
    BY <1>1, <1>3, <1>7 DEF InHand
  <2>2. ItemsLead'
    BY <1>1, <1>7, <2>1, ItemsStay DEF PathInv
  <2>3. RecordsLead(table)'
    BY <1>1, <1>7, EndOfFixed DEF PathInv, RecordsLead
  <2>4. PendingLead'
    <3>1. work # Nil
      BY <1>4, InHandKnown, NilAssumption
    <3>2. \A child \in Elements(pending') : child.st = Apply(record.rep, child.act)
      BY <1>7 DEF Elements
    <3>3. QED
      BY <1>1, <1>7, <3>1, <3>2 DEF PendingLead, Apply
  <2>5. QED
    BY <1>1, <1>7, <2>2, <2>3, <2>4, DiskStays DEF PathInv, NotRefused
<1>8. QED
  BY <1>5, <1>6, <1>7 DEF Pop

LEMMA EndExpansionPaths ==
  ASSUME FrontierInv, PathInv, EndExpansion
  PROVE  PathInv'
<1>1. /\ phase' = "loop" /\ cur' = Nil /\ UNCHANGED <<g, queue, disk>>
      /\ table' = IF cur = Nil THEN table ELSE [table EXCEPT ![cur.id] = WithStatus(@, "expanded")]
  BY DEF EndExpansion
<1>2. InHand' \subseteq InHand
  BY <1>1 DEF InHand, Elements
<1>3. /\ RecordsLead(table)'
      /\ \A id \in Ids : table[id] \in Records => table'[id].rep = table[id].rep
  <2>1. CASE cur = Nil
    BY <1>1, <2>1, EndOfFixed DEF PathInv, RecordsLead
  <2>2. CASE cur # Nil
    <3>1. cur.id \in Ids /\ table[cur.id] \in Records
      BY <2>2, InHandKnown DEF InHand
    <3>2. QED
      BY <1>1, <2>2, <3>1, StatusKeepsPaths DEF PathInv, Statuses
  <2>3. QED
    BY <2>1, <2>2
<1>4. ItemsLead'
  BY <1>1, <1>2, <1>3, ItemsStay DEF PathInv
<1>5. QED
  BY <1>1, <1>3, <1>4, DiskStays DEF PathInv, PendingLead, NotRefused

LEMMA ClearedPaths ==
  ASSUME ClearMemory, phase' # "expanding", NotRefused', g' = g, disk' = disk,
         disk # Nil => RecordsLead(disk.table)
  PROVE  PathInv'
<1>1. InHand' = {}
  BY DEF ClearMemory, InHand, Elements
<1>2. RecordsLead(table)'
  BY NilAssumption DEF ClearMemory, RecordsLead, EmptyTable
<1>3. QED
  BY <1>1, <1>2, DiskStays DEF PathInv, ItemsLead, PendingLead

\* A resumed item is where its path leads, if no two states share an identity.
LEMMA ResumePaths ==
  ASSUME FrontierInv, PathInv, Resume, Native(g) => Faithful(g)
  PROVE  PathInv'
<1> DEFINE saved == disk.table
           frontier == Unexplored(saved)
<1>1. /\ disk \in Checkpoints /\ saved \in Tables /\ cur = Nil /\ disk # Nil
      /\ UNCHANGED <<g, disk>> /\ RecordsLead(saved)
  BY DEF FrontierInv, TypeOK, Resume, Checkpoints, CurWhileExpanding, PathInv
<1>2. \A id \in frontier : id \in Ids /\ saved[id] \in Records
  BY <1>1 DEF Unexplored, Tables
<1>3. \A id \in frontier : /\ saved[id].path \in Paths /\ saved[id].path # <<>>
                           /\ EndOf(saved[id].path) \in States
                           /\ Canon(g, EndOf(saved[id].path)) = id
                           /\ Canon(g, saved[id].rep) = id /\ saved[id].rep \in States
  BY <1>1, <1>2 DEF RecordsLead, Records
<1>4. CASE \A id \in frontier : Replayable(saved[id].path)
  <2>1. PICK order \in Orderings(frontier) :
          queue' = [i \in DOMAIN order |-> RestoredItem(order[i], saved[order[i]].path)]
    BY <1>4 DEF Resume
  <2>2. table' = saved /\ phase' = "loop" /\ cur' = Nil
    BY <1>1, <1>4 DEF Resume
  <2>3. \A i \in DOMAIN order : order[i] \in frontier
    BY <2>1 DEF Orderings
  <2> HIDE DEF frontier, saved
  <2>4. InHand' = Elements(queue)'
    BY <2>2 DEF InHand
  <2>5. ASSUME NEW work \in Elements(queue)'
        PROVE  work.path # <<>> /\ EndOf(work.path)' = table'[work.id].rep
    <3>1. PICK i \in DOMAIN order : work = RestoredItem(order[i], saved[order[i]].path)
      BY <2>1 DEF Elements
    <3>2. order[i] \in frontier
      BY <2>3
    <3>3. work.id = order[i] /\ work.path = saved[order[i]].path
      BY <3>1 DEF RestoredItem
    <3>4. Faithful(g)
      BY <1>4, <3>2 DEF Replayable
    <3>5. EndOf(work.path) = saved[order[i]].rep /\ work.path # <<>>
      BY <1>3, <3>2, <3>3, <3>4 DEF Faithful
    <3>6. EndOf(work.path)' = EndOf(work.path)
      BY <1>1, EndOfFixed
    <3>7. QED
      BY <2>2, <3>3, <3>5, <3>6
  <2>6. ItemsLead'
    BY <2>4, <2>5 DEF ItemsLead
  <2>7. RecordsLead(table)'
    BY <1>1, <2>2, EndOfFixed DEF RecordsLead
  <2>8. QED
    BY <1>1, <2>2, <2>6, <2>7, DiskStays DEF PathInv, PendingLead, NotRefused
<1>5. CASE ~(\A id \in frontier : Replayable(saved[id].path))
  <2>1. phase' = "failed" /\ ClearMemory
    BY <1>5 DEF Resume
  <2>2. PICK id \in frontier : ~Replayable(saved[id].path)
    BY <1>5
  <2>3. EndOf(saved[id].path) # Nil
    BY <1>3, NilAssumption
  <2>4. ~Native(g)
    BY <2>2, <2>3 DEF Replayable, EndOf
  <2>5. NotRefused'
    BY <1>1, <2>4 DEF NotRefused
  <2>6. QED
    BY <1>1, <2>1, <2>5, ClearedPaths
<1>6. QED
  BY <1>4, <1>5

\* A root is found again by its action.
LEMMA RootFound ==
  ASSUME TypeOK, RootsApart(g), NEW k \in DOMAIN InitialStates(g)
  PROVE  InitialWith(InitialStates(g)[k].act) = InitialStates(g)[k].st
<1> DEFINE act == InitialStates(g)[k].act
           matches == {i \in DOMAIN InitialStates(g) : InitialStates(g)[i].act = act}
           first == CHOOSE i \in matches : \A j \in matches : i <= j
<1>1. matches = {k}
  BY DEF RootsApart
<1>2. InitialStates(g) \in Seq([act : Actions, st : States])
  BY GrammarTypes DEF IsGrammar
<1>3. k \in Nat
  BY <1>2
<1> HIDE DEF matches
<1>4. first \in matches
  <2>1. \E i \in matches : \A j \in matches : i <= j
    BY <1>1, <1>3
  <2>2. QED
    BY <2>1
<1>5. InitialWith(act) = IF matches = {} THEN Nil ELSE InitialStates(g)[first].st
  BY DEF InitialWith, matches
<1> HIDE DEF first
<1>6. first = k /\ matches # {}
  BY <1>1, <1>4
<1>7. QED
  BY <1>5, <1>6

LEMMA NextPaths ==
  ASSUME FrontierInv, PathInv, [Next]_vars, RootsApart(g), Native(g) => Faithful(g)
  PROVE  PathInv'
<1>1. CASE Start
  <2>1. /\ phase' = "expanding" /\ pending' = InitialStates(g)
        /\ UNCHANGED <<g, table, queue, cur, disk>>
        /\ phase \in {"idle", "crashed"}
    BY <1>1 DEF Start
  <2>2. cur = Nil
    BY <2>1 DEF FrontierInv, CurWhileExpanding
  <2>3. InitialStates(g) \in Seq([act : Actions, st : States])
    BY GrammarTypes DEF FrontierInv, IsGrammar
  <2>4. ASSUME NEW child \in Elements(pending') PROVE EndOf(<<child.act>>)' = child.st
    <3>1. PICK k \in DOMAIN InitialStates(g) : child = InitialStates(g)[k]
      BY <2>1 DEF Elements
    <3>2. child.act \in Actions
      <4> DEFINE Roots == [act : Actions, st : States]
      <4>1. InitialStates(g) \in Seq(Roots)
        BY <2>3
      <4> HIDE DEF Roots
      <4>2. child \in Roots
        BY <3>1, <4>1, ElementType
      <4>3. QED
        BY <4>2 DEF Roots
    <3>3. EndOf(<<child.act>>)' = EndOf(<<child.act>>)
      BY <2>1, EndOfFixed
    <3>4. QED
      BY <3>1, <3>2, <3>3, EndOfRoot, RootFound DEF FrontierInv
  <2>5. PendingLead'
    BY <2>1, <2>2, <2>4 DEF PendingLead
  <2>6. InHand' \subseteq InHand
    BY <2>1 DEF InHand, Elements
  <2>7. ItemsLead'
    BY <2>1, <2>6, ItemsStay DEF PathInv
  <2>8. RecordsLead(table)'
    BY <2>1, EndOfFixed DEF PathInv, RecordsLead
  <2>9. QED
    BY <2>1, <2>5, <2>7, <2>8, DiskStays DEF PathInv, NotRefused
<1>2. CASE StopAtBudget \/ StopAtLimit \/ Finish \/ Ended \/ UNCHANGED vars
  <2>1. /\ UNCHANGED <<g, table, queue, cur, pending, disk>>
        /\ phase' = "result" \/ phase' = phase
    BY <1>2 DEF StopAtBudget, StopAtLimit, Finish, Ended, vars
  <2>2. InHand' \subseteq InHand
    BY <2>1 DEF InHand, Elements
  <2>3. ItemsLead'
    BY <2>1, <2>2, ItemsStay DEF PathInv
  <2>4. RecordsLead(table)'
    BY <2>1, EndOfFixed DEF PathInv, RecordsLead
  <2>5. PendingLead'
    <3>1. \A act : EndOf(<<act>>)' = EndOf(<<act>>)
      BY <2>1, EndOfFixed
    <3>2. CASE phase' = "result"
      BY <3>2 DEF PendingLead
    <3>3. CASE phase' = phase
      <4>1. ASSUME NEW child \in Elements(pending), phase = "expanding"
            PROVE  IF cur = Nil THEN EndOf(<<child.act>>)' = child.st
                   ELSE Apply(table[cur.id].rep, child.act) = child.st
        BY <3>1, <4>1 DEF PathInv, PendingLead
      <4>2. QED
        BY <2>1, <3>3, <4>1 DEF PendingLead, Apply, Elements
    <3>4. QED
      BY <2>1, <3>2, <3>3
  <2>6. QED
    BY <2>1, <2>3, <2>4, <2>5, DiskStays DEF PathInv, NotRefused
<1>3. CASE Save
  <2>1. /\ UNCHANGED <<g, table, queue, cur>> /\ phase' \in {"done", "stopped"}
        /\ disk' \in {disk, Checkpoint}
    BY <1>3 DEF Save
  <2>2. InHand' \subseteq InHand
    BY <2>1 DEF InHand, Elements
  <2>3. ItemsLead'
    BY <2>1, <2>2, ItemsStay DEF PathInv
  <2>4. RecordsLead(table)'
    BY <2>1, EndOfFixed DEF PathInv, RecordsLead
  <2>5. (disk # Nil => RecordsLead(disk.table))'
    <3>1. CASE disk' = disk
      BY <2>1, <3>1, DiskStays DEF PathInv
    <3>2. CASE disk' = Checkpoint
      <4>1. disk'.table = table
        BY <3>2 DEF Checkpoint
      <4>2. QED
        BY <2>1, <2>4, <4>1 DEF RecordsLead
    <3>3. QED
      BY <2>1, <3>1, <3>2
  <2>6. QED
    BY <2>1, <2>3, <2>4, <2>5 DEF PathInv, PendingLead, NotRefused
<1>4. CASE Crash
  <2>1. g' = g /\ disk' = disk /\ ClearMemory /\ phase' = "crashed"
    BY <1>4 DEF Crash
  <2>2. QED
    BY <2>1, ClearedPaths DEF PathInv, NotRefused
<1>5. QED
  BY <1>1, <1>2, <1>3, <1>4, AddStatePaths, PopPaths, EndExpansionPaths, ResumePaths
     DEF Next, Engine

\* What a grammar must be for paths to tell states apart: its roots have distinct
\* actions and, where a search can be resumed, no two states share an identity.
Distinct(gr) == RootsApart(gr) /\ (Native(gr) => Faithful(gr))

LEMMA PathInvariant == Spec => [](Distinct(g) => PathInv)
<1>1. Init => PathInv
  BY NilAssumption DEF Init, PathInv, RecordsLead, EmptyTable, ItemsLead, InHand, Elements,
     PendingLead, NotRefused
<1>2. FrontierInv /\ (Distinct(g) => PathInv) /\ [Next]_vars => (Distinct(g) => PathInv)'
  <2> SUFFICES ASSUME FrontierInv, Distinct(g) => PathInv, [Next]_vars, Distinct(g)'
               PROVE  PathInv'
    OBVIOUS
  <2>1. g' = g
    BY GrammarFixed
  <2>2. Distinct(g)
    BY <2>1
  <2>3. QED
    BY <2>2, NextPaths DEF Distinct
<1>3. QED
  BY <1>1, <1>2, FrontierInvariant, PTL DEF Spec

\* Replaying the discovery path of any record ends in its canonical state, if the
\* roots have distinct actions and, where a search can be resumed, no two states
\* share an identity.
THEOREM PathsAreReplayed ==
  ASSUME \A gr \in Grammars : Distinct(gr)
  PROVE  Spec => []PathsLead
<1>1. FrontierInv /\ PathInv => PathsLead
  <2> SUFFICES ASSUME FrontierInv, PathInv, NEW id \in Known
               PROVE  PathLeadsTo(table[id].path, id)
    BY DEF PathsLead
  <2>1. id \in Ids /\ table[id] \in Records
    BY InHandKnown DEF Known
  <2>2. /\ table[id].path # <<>> /\ EndOf(table[id].path) \in States
        /\ Canon(g, EndOf(table[id].path)) = id
    BY <2>1 DEF PathInv, RecordsLead
  <2>3. EndOf(table[id].path) # Nil
    BY <2>2, NilAssumption
  <2>4. QED
    BY <2>2, <2>3 DEF PathLeadsTo, EndOf
<1>2. FrontierInv => Distinct(g)
  BY DEF FrontierInv, TypeOK
<1>3. QED
  BY <1>1, <1>2, PathInvariant, FrontierInvariant, PTL

\* Under the same assumptions the engine never refuses a checkpoint it wrote: the
\* ValueError of _replay_path_states is for others' files.
THEOREM OwnCheckpointsAccepted ==
  ASSUME \A gr \in Grammars : Distinct(gr)
  PROVE  Spec => []ResumeAccepted
<1>1. PathInv => ResumeAccepted
  BY DEF PathInv, NotRefused, ResumeAccepted
<1>2. FrontierInv => Distinct(g)
  BY DEF FrontierInv, TypeOK
<1>3. QED
  BY <1>1, <1>2, PathInvariant, FrontierInvariant, PTL

-----------------------------------------------------------------------------
(***************************************************************************)
(* Partial-order reduction.  An action that POR leaves out after a path is *)
(* left to the other order of the last two actions.  That order may be     *)
(* left out in turn, but for an action with a greater key, and the state   *)
(* between the two was reached from an earlier one: following what was     *)
(* left out, either the key grows or the path gets shorter, so the trail   *)
(* ends at a child that was added.                                         *)
(***************************************************************************)
\* POR leaves act to the other order at the end of path.
Postponed(path, act) ==
  /\ Reduces(g)
  /\ \E before \in Paths, last \in Actions :
       /\ before # <<>> /\ path = Append(before, last)
       /\ Key(g, act) < Key(g, last)
       /\ Independent(EndOf(before), last, act)

Expanded(tab) == {id \in Ids : tab[id] # Nil /\ tab[id].status = "expanded"}

\* A path that ends at a root, or goes on from one that an item was expanded with.
\* P says with which path each record was expanded; the record itself may have
\* got another one since.
Descends(path, E, P) ==
  \/ \E act \in Actions : path = <<act>>
  \/ \E u \in E, act \in Actions : path = Append(P[u], act)

ItemDescends(work, E, P) ==
  \/ \E act \in Actions : work.path = <<act>> /\ work.prev = Nil
  \/ \E u \in E, act \in Actions : work.path = Append(P[u], act) /\ work.prev = EndOf(P[u])

\* The paths of the expansions form a tree, from which every path of a record comes.
Tree(tab, E, P) ==
  /\ \A u \in E : P[u] # <<>> /\ EndOf(P[u]) = tab[u].rep /\ Descends(P[u], E, P)
  /\ \A id \in Ids : tab[id] # Nil => Descends(tab[id].path, E, P)

\* Each successor of an expanded record has a record or is left to the other order.
Covered(tab, P) ==
  \A u \in Expanded(tab), a \in Actions :
    Apply(tab[u].rep, a) # Nil => HasState(tab, Apply(tab[u].rep, a)) \/ Postponed(P[u], a)

\* What is expanded or being expanded
Grown == Expanded(table) \cup (IF cur = Nil THEN {} ELSE {cur.id})

CurCovered(P) ==
  cur # Nil =>
    /\ P[cur.id] = cur.path
    /\ \A a \in Actions : Apply(table[cur.id].rep, a) # Nil =>
         \/ HasState(table, Apply(table[cur.id].rep, a))
         \/ \E j \in DOMAIN pending : pending[j].st = Apply(table[cur.id].rep, a)
         \/ Postponed(cur.path, a)

Descended(P) ==
  Reduces(g) => Tree(table, Grown, P) /\ \A work \in InHand : ItemDescends(work, Grown, P)

MemoryReduced(P) == Covered(table, P) /\ CurCovered(P) /\ Descended(P)

DiskReduced(P) ==
  /\ Covered(disk.table, P)
  /\ Reduces(g) => Tree(disk.table, Expanded(disk.table), P)

ReduceInv ==
  /\ \E P \in [Ids -> Paths] : MemoryReduced(P)
  /\ disk # Nil => \E P \in [Ids -> Paths] : DiskReduced(P)

-----------------------------------------------------------------------------
LEMMA PostponedFixed ==
  ASSUME g' = g, NEW path, NEW act
  PROVE  Postponed(path, act)' <=> Postponed(path, act)
<1>1. \A before : EndOf(before)' = EndOf(before)
  BY EndOfFixed
<1>2. \A before, last : Independent(EndOf(before), last, act)' <=> Independent(EndOf(before), last, act)
  BY <1>1 DEF Independent, StaticScreen, Apply
<1>3. QED
  BY <1>2 DEF Postponed, Reduces

\* Of all keys of a set of actions, one is such that no other member has a greater one.
LEMMA GreatestKey ==
  ASSUME TypeOK, NEW S \in SUBSET Actions, S # {}
  PROVE  \E a \in S : \A b \in S : ~(Key(g, a) < Key(g, b))
<1> DEFINE Above(a) == {b \in Actions : Key(g, a) < Key(g, b)}
           T == {Cardinality(Above(a)) : a \in S}
<1>1. \A a \in Actions : IsFiniteSet(Above(a)) /\ Cardinality(Above(a)) \in Nat
  BY GrammarAssumption, FS_Subset, FS_CardinalityType
<1>2. T \in SUBSET Nat /\ T # {}
  BY <1>1
<1>3. PICK n \in T : \A m \in T : ~(m < n)
  <2> HIDE DEF T
  <2>1. QED
    BY <1>2, LeastNumber
<1>4. PICK a \in S : n = Cardinality(Above(a))
  BY <1>3
<1>5. ASSUME NEW b \in S, Key(g, a) < Key(g, b) PROVE FALSE
  <2>1. \A c \in Actions : Key(g, c) \in Nat
    BY GrammarTypes DEF IsGrammar
  <2>2. Above(b) \subseteq Above(a)
    BY <1>5, <2>1
  <2>3. b \in Above(a) /\ b \notin Above(b)
    BY <1>5, <2>1
  <2>4. Cardinality(Above(b)) <= Cardinality(Above(a)) /\ Cardinality(Above(b)) # Cardinality(Above(a))
    <3> DEFINE A == Above(a)
               B == Above(b)
    <3>1. IsFiniteSet(A) /\ B \in SUBSET A /\ A # B
      BY <1>1, <2>2, <2>3
    <3> HIDE DEF A, B
    <3>2. Cardinality(B) <= Cardinality(A) /\ (Cardinality(A) = Cardinality(B) => A = B)
      BY <3>1, FS_Subset
    <3>3. QED
      BY <3>1, <3>2 DEF A, B
  <2>5. Cardinality(Above(b)) \in T
    OBVIOUS
  <2>6. Cardinality(Above(b)) < Cardinality(Above(a))
    <3> DEFINE m == Cardinality(Above(a))
               k == Cardinality(Above(b))
    <3>1. m \in Nat /\ k \in Nat /\ k <= m /\ k # m
      BY <1>1, <2>4
    <3> HIDE DEF m, k
    <3>2. k < m
      BY <3>1
    <3>3. QED
      BY <3>2 DEF m, k
  <2>7. QED
    BY <1>3, <1>4, <2>5, <2>6
<1>6. QED
  BY <1>4, <1>5

\* Of some records, one has the shortest path.
LEMMA ShortestPath ==
  ASSUME NEW E \in SUBSET Ids, E # {}, NEW P \in [Ids -> Paths]
  PROVE  \E u \in E : \A v \in E : ~(Len(P[v]) < Len(P[u]))
<1> DEFINE L == {Len(P[u]) : u \in E}
<1>1. L # {} /\ L \in SUBSET Nat
  <2>1. \A u \in E : Len(P[u]) \in Nat
    BY DEF Paths
  <2>2. QED
    BY <2>1
<1>2. PICK n \in L : \A m \in L : ~(m < n)
  <2> HIDE DEF L
  <2>1. QED
    BY <1>1, LeastNumber
<1>3. QED
  BY <1>2

\* What is left to the other order: in a drained search the last two actions may
\* be exchanged, and the record between them has been expanded if there is one.
LEMMA OtherOrder ==
  ASSUME FrontierInv, CoverInv, Faithful(g), cur = Nil, queue = <<>>,
         NEW P \in [Ids -> Paths], Tree(table, Expanded(table), P),
         NEW u \in Expanded(table), NEW a \in Actions, Postponed(P[u], a)
  PROVE  \E v \in Expanded(table), last \in Actions, y \in States, w \in Ids :
           /\ Len(P[u]) = Len(P[v]) + 1
           /\ Key(g, a) < Key(g, last)
           /\ y = Apply(table[v].rep, a) /\ w = Canon(g, y)
           /\ HasState(table, y) => /\ w \in Expanded(table) /\ table[w].rep = y
                                    /\ Apply(y, last) # Nil
                                    /\ Canon(g, Apply(y, last)) = Canon(g, Apply(table[u].rep, a))
<1>1. TypeOK /\ IsGrammar(g)
  BY GrammarTypes DEF FrontierInv
<1>2. PICK before \in Paths, last \in Actions :
        /\ before # <<>> /\ P[u] = Append(before, last)
        /\ Key(g, a) < Key(g, last)
        /\ Independent(EndOf(before), last, a)
  BY DEF Postponed
<1>3. Len(P[u]) = Len(before) + 1 /\ Len(before) \in Nat \ {0}
  BY <1>2 DEF Paths
<1>4. PICK v \in Expanded(table) : before = P[v]
  <2>1. Descends(P[u], Expanded(table), P)
    BY DEF Tree
  <2>2. \A act \in Actions : P[u] # <<act>>
    <3>1. \A act \in Actions : Len(<<act>>) = 1
      OBVIOUS
    <3>2. Len(P[u]) # 1
      BY <1>3
    <3>3. QED
      BY <3>1, <3>2
  <2>3. PICK v \in Expanded(table), act \in Actions : P[u] = Append(P[v], act)
    BY <2>1, <2>2 DEF Descends
  <2>4. before = P[v]
    <3> DEFINE p == P[v]
    <3>1. /\ Append(before, last) = Append(p, act)
          /\ p \in Seq(Actions) /\ before \in Seq(Actions)
      BY <1>2, <2>3 DEF Paths, Expanded
    <3> HIDE DEF p
    <3>2. before = p
      BY <3>1, AppendInjective
    <3>3. QED
      BY <3>2 DEF p
  <2>5. QED
    BY <2>4
<1> DEFINE x == table[v].rep
<1>5. x \in States /\ EndOf(before) = x /\ table[u].rep = Apply(x, last)
  <2>1. v \in Ids /\ table[v] \in Records
    BY <1>1, NilAssumption DEF Expanded, TypeOK, Tables
  <2>2. x \in States
    BY <2>1 DEF Records
  <2>3. EndOf(P[v]) = x /\ EndOf(P[u]) = table[u].rep
    BY DEF Tree
  <2>4. QED
    BY <1>2, <1>4, <2>2, <2>3, EndOfAppend
<1>6. /\ Apply(Apply(x, last), a) # Nil /\ Apply(Apply(x, a), last) # Nil
      /\ Canon(g, Apply(Apply(x, last), a)) = Canon(g, Apply(Apply(x, a), last))
  BY <1>2, <1>5 DEF Independent
<1> HIDE DEF x
<1>7. PICK y \in States : y = Apply(x, a) /\ y # Nil
  <2>1. Apply(x, a) # Nil
    BY <1>6 DEF Apply
  <2>2. QED
    BY <1>1, <1>5, <2>1, GrammarTypes, NilAssumption DEF Apply
<1>8. PICK w \in Ids : w = Canon(g, y)
  BY <1>1 DEF IsGrammar
<1>9. ASSUME HasState(table, y) PROVE w \in Expanded(table) /\ table[w].rep = y
  <2>1. table[w] # Nil
    BY <1>8, <1>9 DEF HasState
  <2>2. table[w] \in Records
    BY <1>1, <2>1 DEF TypeOK, Tables
  <2>3. table[w].rep \in States /\ Canon(g, table[w].rep) = w
    BY <2>1, <2>2 DEF CoverInv, TableSound, Records
  <2>4. table[w].rep = y
    BY <1>8, <2>3 DEF Faithful
  <2>5. y \notin TerminalStates(g)
    <3>1. last \in EnabledActions(g, y)
      BY <1>1, <1>6, <1>7 DEF Apply, IsGrammar
    <3>2. QED
      BY <1>1, <3>1 DEF IsGrammar
  <2>6. table[w].status # "terminal"
    BY <2>1, <2>4, <2>5 DEF CoverInv, TableSound
  <2>7. table[w].status # "queued"
    <3>1. {queue[i].id : i \in DOMAIN queue} = {}
      OBVIOUS
    <3>2. w \notin QueuedIds
      BY <3>1 DEF FrontierInv, FrontierOwned
    <3>3. QED
      BY <2>1, <3>2 DEF QueuedIds, Known
  <2>8. QED
    BY <2>1, <2>2, <2>4, <2>6, <2>7 DEF Records, Statuses, Expanded
<1>10. QED
  BY <1>2, <1>3, <1>4, <1>5, <1>6, <1>7, <1>8, <1>9 DEF x

\* Following what was left out ends: in a drained search every successor of an
\* expanded record has a record.
LEMMA NothingPostponed ==
  ASSUME FrontierInv, CoverInv, Reduces(g) => Faithful(g), cur = Nil, queue = <<>>,
         NEW P \in [Ids -> Paths], MemoryReduced(P)
  PROVE  Explored(table)
<1> DEFINE Lost(u, a) == Apply(table[u].rep, a) # Nil /\ ~HasState(table, Apply(table[u].rep, a))
           S == {a \in Actions : \E u \in Expanded(table) : Lost(u, a)}
<1>1. SUFFICES ASSUME S # {} PROVE FALSE
  BY DEF Explored, Expanded
<1>2. PICK a \in S : \A b \in S : ~(Key(g, a) < Key(g, b))
  <2> HIDE DEF S
  <2>1. S \subseteq Actions /\ TypeOK
    BY DEF S, FrontierInv
  <2>2. QED
    BY <1>1, <2>1, GreatestKey
<1>3. PICK u \in Expanded(table) :
        Lost(u, a) /\ \A v \in Expanded(table) : Lost(v, a) => ~(Len(P[v]) < Len(P[u]))
  <2> HIDE DEF Lost
  <2>1. \E u \in {v \in Expanded(table) : Lost(v, a)} :
          \A v \in {v \in Expanded(table) : Lost(v, a)} : ~(Len(P[v]) < Len(P[u]))
    BY <1>2, ShortestPath DEF Expanded
  <2>2. QED
    BY <2>1
<1>4. Postponed(P[u], a)
  BY <1>2, <1>3 DEF MemoryReduced, Covered
<1>5. PICK v \in Expanded(table), last \in Actions, y \in States, w \in Ids :
        /\ Len(P[u]) = Len(P[v]) + 1
        /\ Key(g, a) < Key(g, last)
        /\ y = Apply(table[v].rep, a) /\ w = Canon(g, y)
        /\ HasState(table, y) => /\ w \in Expanded(table) /\ table[w].rep = y
                                 /\ Apply(y, last) # Nil
                                 /\ Canon(g, Apply(y, last)) = Canon(g, Apply(table[u].rep, a))
  <2>1. Faithful(g) /\ Tree(table, Expanded(table), P)
    BY <1>4 DEF Postponed, MemoryReduced, Descended, Grown
  <2>2. QED
    BY <1>2, <1>4, <2>1, OtherOrder
<1>6. HasState(table, y)
  <2>1. Len(P[v]) \in Nat
    BY DEF Expanded, Paths
  <2>2. ~Lost(v, a)
    BY <1>3, <1>5, <2>1
  <2>3. QED
    BY <1>5, <2>2, NilAssumption
<1>7. ~Lost(w, last)
  BY <1>2, <1>5, <1>6
<1>8. QED
  BY <1>3, <1>5, <1>6, <1>7 DEF HasState

-----------------------------------------------------------------------------
\* A path descends from more, if the paths of what was there stay.
LEMMA DescendsOn ==
  ASSUME NEW E, NEW F, NEW P, NEW Q, \A u \in E : u \in F /\ Q[u] = P[u]
  PROVE  /\ \A path : Descends(path, E, P) => Descends(path, F, Q)
         /\ g' = g => \A work : ItemDescends(work, E, P) => ItemDescends(work, F, Q)'
<1>1. \A path : Descends(path, E, P) => Descends(path, F, Q)
  BY DEF Descends
<1>2. ASSUME g' = g, NEW work, ItemDescends(work, E, P) PROVE ItemDescends(work, F, Q)'
  <2>1. \A path : EndOf(path)' = EndOf(path)
    BY <1>2, EndOfFixed
  <2>2. QED
    BY <1>2, <2>1 DEF ItemDescends
<1>3. QED
  BY <1>1, <1>2

\* What is covered stays covered while records keep their states and none is
\* marked expanded.
LEMMA CoveredStays ==
  ASSUME TypeOK, g' = g, NEW P, NEW Q, Covered(table, P),
         \A id \in Ids : table[id] # Nil => table'[id] # Nil /\ table'[id].rep = table[id].rep,
         Expanded(table)' \subseteq Expanded(table), \A u \in Expanded(table) : Q[u] = P[u]
  PROVE  Covered(table, Q)'
<1> SUFFICES ASSUME NEW u \in Expanded(table)', NEW a \in Actions, Apply(table[u].rep, a)' # Nil
             PROVE  HasState(table, Apply(table[u].rep, a))' \/ Postponed(Q[u], a)'
  BY DEF Covered
<1>1. u \in Expanded(table) /\ u \in Ids /\ table[u] # Nil /\ table'[u].rep = table[u].rep
  BY DEF Expanded
<1>2. Apply(table[u].rep, a)' = Apply(table[u].rep, a)
  BY <1>1 DEF Apply
<1>3. Apply(table[u].rep, a) \in States
  BY <1>1, <1>2, SuccessorType
<1>4. HasState(table, Apply(table[u].rep, a)) \/ Postponed(P[u], a)
  BY <1>1, <1>2 DEF Covered
<1>5. CASE HasState(table, Apply(table[u].rep, a))
  <2>1. Canon(g, Apply(table[u].rep, a)) \in Ids
    BY <1>3, GrammarTypes DEF IsGrammar
  <2>2. QED
    BY <1>1, <1>2, <1>5, <2>1 DEF HasState
<1>6. CASE Postponed(P[u], a)
  BY <1>1, <1>6, PostponedFixed
<1>7. QED
  BY <1>4, <1>5, <1>6

\* The tree stays while records keep their states.
LEMMA TreeStays ==
  ASSUME g' = g, NEW E, E \subseteq Ids, NEW F, NEW P, NEW Q, Tree(table, E, P),
         \A u \in E : u \in F /\ Q[u] = P[u] /\ table'[u].rep = table[u].rep,
         \A u \in F \ E : Q[u] # <<>> /\ EndOf(Q[u]) = table'[u].rep /\ Descends(Q[u], F, Q),
         \A id \in Ids : table'[id] # Nil =>
           \/ table[id] # Nil /\ table'[id].path = table[id].path
           \/ Descends(table'[id].path, F, Q)
  PROVE  Tree(table, F, Q)'
<1>1. \A path : EndOf(path)' = EndOf(path)
  BY EndOfFixed
<1>2. \A path : Descends(path, E, P) => Descends(path, F, Q)
  BY DescendsOn
<1>3. ASSUME NEW u \in F PROVE Q[u] # <<>> /\ EndOf(Q[u]) = table'[u].rep /\ Descends(Q[u], F, Q)
  BY <1>2 DEF Tree
<1>4. ASSUME NEW id \in Ids, table'[id] # Nil PROVE Descends(table'[id].path, F, Q)
  BY <1>2, <1>4 DEF Tree
<1>5. QED
  BY <1>1, <1>3, <1>4 DEF Tree, Descends

\* A step that leaves the checkpoint alone leaves what it covers alone.
LEMMA DiskReducedStays ==
  ASSUME TypeOK, g' = g, disk' = disk, ReduceInv
  PROVE  (disk # Nil => \E P \in [Ids -> Paths] : DiskReduced(P))'
<1>1. ASSUME NEW P \in [Ids -> Paths], DiskReduced(P) PROVE DiskReduced(P)'
  <2>1. \A path : EndOf(path)' = EndOf(path)
    BY EndOfFixed
  <2>2. \A path, a : Postponed(path, a)' <=> Postponed(path, a)
    BY PostponedFixed
  <2>3. Covered(disk.table, P)'
    BY <1>1, <2>2 DEF DiskReduced, Covered, HasState, Apply, Expanded
  <2>4. (Reduces(g) => Tree(disk.table, Expanded(disk.table), P))'
    BY <1>1, <2>1 DEF DiskReduced, Tree, Reduces, Expanded, Descends
  <2>5. QED
    BY <2>3, <2>4 DEF DiskReduced
<1>2. QED
  BY <1>1 DEF ReduceInv

\* add_state gives a record at most the path of the child, which goes on from the
\* one in hand.
LEMMA AddedPath ==
  ASSUME FrontierInv, AddState, NEW id \in Ids, table'[id] # Nil
  PROVE  \/ table[id] # Nil /\ table'[id].path = table[id].path
         \/ table'[id].path = ChildPath(Head(pending).act)
<1> DEFINE x == Canon(g, Head(pending).st)
           path == ChildPath(Head(pending).act)
<1>1. x \in Ids /\ (\A y \in Ids \ {x} : table'[y] = table[y])
  BY AddedRecord
<1>2. table \in Tables
  BY DEF FrontierInv, TypeOK
<1>3. PICK depth :
        table' = [table EXCEPT ![x] = IF Interned(x) THEN Rediscovered(@, path, depth)
                                      ELSE NewRecord(Head(pending).st, path, depth)]
  BY DEF AddState
<1> HIDE DEF x, path
<1>4. table'[x] = IF Interned(x) THEN Rediscovered(table[x], path, depth)
                  ELSE NewRecord(Head(pending).st, path, depth)
  BY <1>1, <1>2, <1>3 DEF Tables
<1>5. CASE id # x
  BY <1>1, <1>5
<1>6. CASE id = x /\ Interned(x)
  BY <1>4, <1>6 DEF Rediscovered, Interned, path
<1>7. CASE id = x /\ ~Interned(x)
  BY <1>4, <1>7 DEF NewRecord, path
<1>8. QED
  BY <1>5, <1>6, <1>7

LEMMA ChildDescends ==
  ASSUME NEW P, MemoryReduced(P), Reduces(g), NEW act \in Actions,
         NEW work, work.path = ChildPath(act),
         work.prev = IF cur = Nil THEN Nil ELSE table[cur.id].rep
  PROVE  Descends(work.path, Grown, P) /\ ItemDescends(work, Grown, P)
<1>1. CASE cur = Nil
  BY <1>1 DEF ChildPath, Descends, ItemDescends
<1>2. CASE cur # Nil
  <2>1. work.path = Append(P[cur.id], act) /\ cur.id \in Grown
    BY <1>2 DEF ChildPath, MemoryReduced, CurCovered, Grown
  <2>2. work.prev = EndOf(P[cur.id])
    BY <1>2, <2>1 DEF MemoryReduced, Descended, Tree
  <2>3. QED
    BY <2>1, <2>2 DEF Descends, ItemDescends
<1>3. QED
  BY <1>1, <1>2

LEMMA AddStateReduces ==
  ASSUME FrontierInv, AddState, NEW P \in [Ids -> Paths], MemoryReduced(P)
  PROVE  MemoryReduced(P)'
<1> DEFINE child == Head(pending)
           x == Canon(g, child.st)
           path == ChildPath(child.act)
           prev == IF cur = Nil THEN Nil ELSE table[cur.id].rep
           item == [id |-> x, path |-> path, prev |-> prev]
<1>1. /\ phase = "expanding" /\ pending # <<>> /\ pending' = Tail(pending)
      /\ UNCHANGED <<g, cur, disk>> /\ TypeOK
  BY DEF AddState, FrontierInv
<1>3. child.act \in Actions
  <2> DEFINE Children == [act : Actions, st : States]
  <2>1. pending \in Seq(Children)
    BY <1>1 DEF TypeOK
  <2> HIDE DEF Children
  <2>2. child \in Children
    BY <1>1, <2>1, HeadTailTypes
  <2>3. QED
    BY <2>2 DEF Children
<1>4. \A id \in Ids :
        /\ table[id] # Nil => /\ table'[id] # Nil /\ table'[id].rep = table[id].rep
                              /\ table'[id].status = table[id].status
        /\ table[id] = Nil /\ table'[id] # Nil => table'[id].status = "queued"
  BY AddedRecord
<1>5. Expanded(table)' = Expanded(table) /\ Grown' = Grown
  BY <1>1, <1>4 DEF Expanded, Grown
<1>6. \A id \in Ids : table'[id] # Nil =>
        \/ table[id] # Nil /\ table'[id].path = table[id].path
        \/ table'[id].path = path
  BY AddedPath
<1>7. InHand' \subseteq InHand \cup {item}
  <2>1. queue' = queue \/ queue' = Append(queue, item)
    BY DEF AddState
  <2> HIDE DEF item
  <2>2. queue \in Seq(WorkItems)
    BY <1>1 DEF TypeOK
  <2>3. Elements(queue') \subseteq Elements(queue) \cup {item}
    BY <2>1, <2>2 DEF Elements
  <2>4. QED
    BY <1>1, <2>3 DEF InHand
<1>8. item.path = path /\ item.prev = prev
  OBVIOUS
<1>9. Reduces(g) => Descends(path, Grown, P) /\ ItemDescends(item, Grown, P)
  <2> HIDE DEF item, child
  <2>1. QED
    BY <1>3, <1>8, ChildDescends
<1>10. Covered(table, P)'
  BY <1>1, <1>4, <1>5, CoveredStays DEF MemoryReduced
<1>11. CurCovered(P)'
  <2> SUFFICES ASSUME cur # Nil PROVE CurCovered(P)'
    BY <1>1 DEF CurCovered
  <2>1. cur.id \in Ids /\ table[cur.id] # Nil
    BY QueuedItemsKnown, NilAssumption DEF WorkItems
  <2>2. P[cur.id] = cur.path /\ table'[cur.id].rep = table[cur.id].rep
    BY <1>4, <2>1 DEF MemoryReduced, CurCovered
  <2> DEFINE rep == table[cur.id].rep
  <2>3. ASSUME NEW a \in Actions, Apply(rep, a) # Nil
        PROVE  \/ HasState(table', Apply(rep, a))
               \/ \E j \in DOMAIN pending' : pending'[j].st = Apply(rep, a)
               \/ Postponed(cur.path, a)
    <3>1. Apply(rep, a) \in States
      BY <1>1, <2>1, <2>3, SuccessorType
    <3>2. \/ HasState(table, Apply(rep, a))
          \/ \E j \in DOMAIN pending : pending[j].st = Apply(rep, a)
          \/ Postponed(cur.path, a)
      BY <2>3 DEF MemoryReduced, CurCovered
    <3>3. QED
      BY <3>1, <3>2, PendingAdded
  <2>4. PICK path1 : path1 = cur.path /\ path1 = cur'.path
    BY <1>1
  <2>5. \A a : Postponed(path1, a)' <=> Postponed(path1, a)
    BY <1>1, PostponedFixed
  <2>6. \A a \in Actions : Apply(rep, a) # Nil =>
          \/ HasState(table, Apply(rep, a))'
          \/ \E j \in DOMAIN pending' : pending'[j].st = Apply(rep, a)
          \/ Postponed(path1, a)'
    <3>1. \A a \in Actions : Apply(table[cur.id].rep, a)' = Apply(rep, a)
      BY <1>1, <2>2 DEF Apply
    <3>2. QED
      BY <1>1, <2>3, <2>4, <2>5, <3>1 DEF HasState
  <2>7. QED
    BY <1>1, <2>2, <2>4, <2>6 DEF CurCovered, Apply
<1>12. Descended(P)'
  <2> SUFFICES ASSUME Reduces(g)
               PROVE  Tree(table, Grown, P)' /\ \A work \in InHand' : ItemDescends(work, Grown, P)'
    BY <1>1 DEF Descended, Reduces
  <2>1. PICK E \in SUBSET Ids : E = Grown
    BY QueuedItemsKnown DEF Grown, Expanded, WorkItems
  <2>2. E = Grown' /\ \A u \in E : table'[u].rep = table[u].rep
    BY <1>4, <1>5, <2>1, QueuedItemsKnown, NilAssumption DEF Grown, Expanded
  <2>3. Tree(table, E, P) /\ \A work \in InHand : ItemDescends(work, E, P)
    BY <2>1 DEF MemoryReduced, Descended
  <2>4. Tree(table, E, P)'
    <3> HIDE DEF path
    <3>1. Descends(path, E, P)
      BY <1>9, <2>1
    <3>2. QED
      BY <1>1, <1>6, <2>2, <2>3, <3>1, TreeStays
  <2>5. ASSUME NEW work \in InHand' PROVE ItemDescends(work, E, P)'
    <3> HIDE DEF item
    <3>1. ItemDescends(work, E, P)
      BY <1>7, <1>9, <2>1, <2>3
    <3>2. QED
      BY <1>1, <3>1, DescendsOn
  <2>6. QED
    BY <2>2, <2>4, <2>5 DEF Tree, ItemDescends, Descends
<1>13. QED
  BY <1>10, <1>11, <1>12 DEF MemoryReduced

LEMMA AddStateReduced ==
  ASSUME FrontierInv, ReduceInv, AddState
  PROVE  ReduceInv'
<1>1. TypeOK /\ UNCHANGED <<g, disk>>
  BY DEF AddState, FrontierInv
<1>2. \A P \in [Ids -> Paths] : MemoryReduced(P) => MemoryReduced(P)'
  BY AddStateReduces
<1>3. QED
  BY <1>1, <1>2, DiskReducedStays DEF ReduceInv

\* Of the legal actions of a popped item, those that do not become pending children
\* were left out by POR, if no action has declared dependencies.
LEMMA PopDecides ==
  ASSUME TypeOK, Unconstrained(g), NEW work \in WorkItems, table[work.id] \in Records,
         NEW por \in PorChoices(EnabledActions(g, table[work.id].rep)),
         NEW order \in Ranked(ViableActions(work, por)),
         NEW a \in Actions, Apply(table[work.id].rep, a) # Nil
  PROVE  (\E i \in DOMAIN order : order[i] = a) \/ (Reduces(g) /\ PorAvoided(work, a))
<1> DEFINE rep == table[work.id].rep
           S == ViableActions(work, por)
<1>1. rep \in States /\ rep # Nil
  BY NilAssumption DEF Records
<1>2. por /\ PorAvoided(work, a) => Reduces(g)
  BY DEF PorChoices, PorAvoided, Independent, Reduces
<1>3. a \in EnabledActions(g, rep)
  BY <1>1, GrammarTypes DEF Apply, IsGrammar
<1>4. ~DependencyBlocked(a, work.path)
  BY DEF DependencyBlocked, Unconstrained
<1>5. CASE por /\ PorAvoided(work, a)
  BY <1>2, <1>5
<1>6. CASE ~(por /\ PorAvoided(work, a))
  <2>1. a \in S
    BY <1>3, <1>4, <1>6 DEF ViableActions
  <2> HIDE DEF S
  <2>2. order \in Orderings(S)
    BY DEF Ranked, S
  <2>3. QED
    BY <2>1, <2>2 DEF Orderings
<1>7. QED
  BY <1>5, <1>6

\* What POR leaves out at an item is left to the other order of its last two actions.
LEMMA AvoidedIsPostponed ==
  ASSUME NEW P \in [Ids -> Paths], NEW E \in SUBSET Ids, \A u \in E : P[u] # <<>>,
         Reduces(g), NEW work, ItemDescends(work, E, P), NEW a, PorAvoided(work, a)
  PROVE  Postponed(work.path, a)
<1>1. CASE \E act \in Actions : work.path = <<act>> /\ work.prev = Nil
  <2>1. Independent(Nil, LastAction(work.path), a)
    BY <1>1 DEF PorAvoided
  <2>2. QED
    BY <2>1 DEF Independent, Apply
<1>2. CASE \E u \in E, act \in Actions : work.path = Append(P[u], act) /\ work.prev = EndOf(P[u])
  <2>1. PICK u \in E, act \in Actions : work.path = Append(P[u], act) /\ work.prev = EndOf(P[u])
    BY <1>2
  <2>2. P[u] \in Paths /\ P[u] # <<>>
    OBVIOUS
  <2>3. LastAction(work.path) = act
    <3> DEFINE p == P[u]
    <3>1. p \in Seq(Actions) /\ work.path = Append(p, act)
      BY <2>1, <2>2 DEF Paths
    <3> HIDE DEF p
    <3>2. QED
      BY <3>1 DEF LastAction
  <2>4. Key(g, a) < Key(g, act) /\ Independent(EndOf(P[u]), act, a)
    BY <2>1, <2>3 DEF PorAvoided
  <2>5. QED
    BY <2>1, <2>2, <2>4 DEF Postponed
<1>3. QED
  BY <1>1, <1>2 DEF ItemDescends

\* The rest of the deque stays in hand.
LEMMA TailInHand ==
  ASSUME FrontierInv, queue # <<>>, queue' = Tail(queue), cur = Nil
  PROVE  /\ Head(queue) \in InHand
         /\ Elements(queue)' \subseteq InHand
<1>1. queue \in Seq(WorkItems)
  BY DEF FrontierInv, TypeOK
<1>2. /\ Head(queue) = queue[1] /\ Len(queue) \in Nat \ {0} /\ DOMAIN queue = 1..Len(queue)
      /\ DOMAIN Tail(queue) = 1..(Len(queue) - 1)
      /\ \A i \in 1..(Len(queue) - 1) : Tail(queue)[i] = queue[i + 1]
  BY <1>1, HeadTailTypes
<1>3. 1 \in DOMAIN queue /\ \A i \in 1..(Len(queue) - 1) : i + 1 \in DOMAIN queue
  BY <1>2
<1>4. QED
  BY <1>2, <1>3 DEF Elements, InHand

\* The item taken in hand has its successors pending, but for what POR leaves out.
LEMMA PopOffers ==
  ASSUME FrontierInv, Unconstrained(g), NEW P \in [Ids -> Paths], MemoryReduced(P),
         NEW W \in WorkItems, W \in InHand, cur = Nil, table[W.id] \in Records,
         \E por \in PorChoices(EnabledActions(g, table[W.id].rep)) :
         \E order \in Ranked(ViableActions(W, por)) :
           pending' = [i \in DOMAIN order |->
                         [act |-> order[i], st |-> Apply(table[W.id].rep, order[i])]]
  PROVE  /\ \A a \in Actions : Apply(table[W.id].rep, a) # Nil =>
              \/ \E j \in DOMAIN pending' : pending'[j].st = Apply(table[W.id].rep, a)
              \/ Postponed(W.path, a)
         /\ \A j \in DOMAIN pending' : \E a \in Actions : pending'[j].st = Apply(table[W.id].rep, a)
<1>1. TypeOK
  BY DEF FrontierInv
<1>2. PICK por \in PorChoices(EnabledActions(g, table[W.id].rep)) :
        \E order \in Ranked(ViableActions(W, por)) :
          pending' = [i \in DOMAIN order |->
                        [act |-> order[i], st |-> Apply(table[W.id].rep, order[i])]]
  OBVIOUS
<1>3. PICK order \in Ranked(ViableActions(W, por)) :
        pending' = [i \in DOMAIN order |->
                      [act |-> order[i], st |-> Apply(table[W.id].rep, order[i])]]
  BY <1>2
<1>4. ASSUME NEW a \in Actions, Apply(table[W.id].rep, a) # Nil
      PROVE  \/ \E j \in DOMAIN pending' : pending'[j].st = Apply(table[W.id].rep, a)
             \/ Postponed(W.path, a)
  <2>1. (\E i \in DOMAIN order : order[i] = a) \/ (Reduces(g) /\ PorAvoided(W, a))
    BY <1>1, <1>4, PopDecides
  <2>2. CASE \E i \in DOMAIN order : order[i] = a
    BY <1>3, <2>2
  <2>3. CASE Reduces(g) /\ PorAvoided(W, a)
    <3>1. PICK E \in SUBSET Ids : E = Grown
      BY DEF Grown, Expanded
    <3>2. ItemDescends(W, E, P) /\ \A u \in E : P[u] # <<>>
      BY <2>3, <3>1 DEF MemoryReduced, Descended, Tree
    <3>3. QED
      BY <2>3, <3>2, AvoidedIsPostponed
  <2>4. QED
    BY <2>1, <2>2, <2>3
<1>5. \A i \in DOMAIN order : order[i] \in Actions
  <2>1. order \in Orderings(ViableActions(W, por))
    BY DEF Ranked
  <2>2. \A i \in DOMAIN order : order[i] \in ViableActions(W, por)
    BY <2>1 DEF Orderings
  <2>3. ViableActions(W, por) \subseteq Actions
    <3>1. table[W.id].rep \in States
      BY DEF Records
    <3>2. QED
      BY <1>1, <3>1, GrammarTypes DEF ViableActions, IsGrammar
  <2>4. QED
    BY <2>2, <2>3
<1>6. \A j \in DOMAIN pending' : \E a \in Actions : pending'[j].st = Apply(table[W.id].rep, a)
  BY <1>3, <1>5
<1>7. QED
  BY <1>4, <1>6

\* A popped item is marked terminal, or expanded with the path it was queued with.
LEMMA PopReduces ==
  ASSUME FrontierInv, Reduces(g) => PathInv, Unconstrained(g), Pop,
         NEW P \in [Ids -> Paths], MemoryReduced(P)
  PROVE  \E Q \in [Ids -> Paths] : MemoryReduced(Q)' /\ \A u \in Grown : Q[u] = P[u]
<1> DEFINE work == Head(queue)
           record == table[work.id]
<1>1. /\ cur = Nil /\ queue # <<>> /\ queue' = Tail(queue) /\ phase = "loop" /\ TypeOK
      /\ UNCHANGED <<g, disk>>
  BY DEF FrontierInv, CurWhileExpanding, Pop
<1>2. /\ work \in WorkItems /\ work.id \in Ids /\ record \in Records /\ record.status = "queued"
      /\ record # Nil /\ work # Nil
  BY <1>1, HeadIsUnique, NilAssumption DEF WorkItems
<1>3. work \in InHand /\ Elements(queue)' \subseteq InHand
  BY <1>1, TailInHand
<1>6. PICK E \in SUBSET Ids : E = Grown
  BY <1>1 DEF Grown, Expanded
<1>7. E = Expanded(table) /\ work.id \notin E
  BY <1>1, <1>2, <1>6 DEF Grown, Expanded
<1>8. Reduces(g) => Tree(table, E, P) /\ \A item \in InHand : ItemDescends(item, E, P)
  BY <1>6 DEF MemoryReduced, Descended
<1>9. CASE /\ table' = [table EXCEPT ![work.id] = WithStatus(@, "terminal")]
           /\ UNCHANGED cur
  <2> HIDE DEF work
  <2>1. /\ \A x \in Ids \ {work.id} : table'[x] = table[x]
        /\ table'[work.id] = WithStatus(table[work.id], "terminal")
    BY <1>1, <1>2, <1>9 DEF TypeOK, Tables
  <2>2. /\ table'[work.id].status = "terminal" /\ table'[work.id].rep = table[work.id].rep
        /\ table'[work.id].path = table[work.id].path /\ table'[work.id] # Nil
    <3>1. WithStatus(table[work.id], "terminal") \in Records
      BY <1>2 DEF WithStatus, Records, Statuses
    <3>2. QED
      BY <2>1, <3>1, NilAssumption DEF WithStatus
  <2>3. Expanded(table)' = E /\ Grown' = E
    BY <1>1, <1>7, <1>9, <2>1, <2>2 DEF Expanded, Grown
  <2>4. \A x \in Ids : table[x] # Nil => table'[x] # Nil /\ table'[x].rep = table[x].rep
    BY <2>1, <2>2
  <2>5. Covered(table, P)'
    BY <1>1, <1>7, <2>3, <2>4, CoveredStays DEF MemoryReduced
  <2>6. CurCovered(P)'
    BY <1>1, <1>9 DEF CurCovered
  <2>7. Descended(P)'
    <3> SUFFICES ASSUME Reduces(g)
                 PROVE  Tree(table, Grown, P)' /\ \A item \in InHand' : ItemDescends(item, Grown, P)'
      BY <1>1 DEF Descended, Reduces
    <3>1. Tree(table, E, P)'
      <4>1. \A id \in Ids : table'[id] # Nil => table[id] # Nil /\ table'[id].path = table[id].path
        BY <1>2, <2>1, <2>2
      <4>2. \A u \in E : table'[u].rep = table[u].rep
        BY <1>7, <2>4 DEF Expanded
      <4>3. QED
        BY <1>1, <1>8, <4>1, <4>2, TreeStays
    <3>2. ASSUME NEW item \in InHand' PROVE ItemDescends(item, E, P)'
      <4>1. ItemDescends(item, E, P)
        BY <1>1, <1>3, <1>8, <1>9 DEF InHand
      <4>2. QED
        BY <1>1, <4>1, DescendsOn
    <3>3. QED
      BY <2>3, <3>1, <3>2 DEF Tree, ItemDescends, Descends
  <2>8. MemoryReduced(P)'
    BY <2>5, <2>6, <2>7 DEF MemoryReduced
  <2>9. QED
    BY <2>8
<1>10. CASE /\ \E por \in PorChoices(EnabledActions(g, record.rep)) :
               \E order \in Ranked(ViableActions(work, por)) :
                 pending' = [i \in DOMAIN order |->
                               [act |-> order[i], st |-> Apply(record.rep, order[i])]]
            /\ cur' = work
            /\ UNCHANGED table
  <2>3. PICK W \in WorkItems : W = work
    BY <1>2
  <2>1. PICK Q \in [Ids -> Paths] : Q[W.id] = W.path /\ \A u \in Ids \ {W.id} : Q[u] = P[u]
    <3> DEFINE R == [P EXCEPT ![W.id] = W.path]
    <3>1. R \in [Ids -> Paths] /\ R[W.id] = W.path /\ \A u \in Ids \ {W.id} : R[u] = P[u]
      BY DEF WorkItems
    <3>2. QED
      BY <3>1
  <2> DEFINE F == E \cup {W.id}
  <2> HIDE DEF work
  <2>4. cur' = W /\ W # Nil /\ W.id \in Ids /\ W \in InHand /\ W.id \notin E
    BY <1>2, <1>3, <1>7, <1>10, <2>3
  <2>5. Covered(table, Q)'
    <3>1. \A u \in Expanded(table) : Q[u] = P[u]
      BY <1>7, <2>1, <2>4
    <3>2. Expanded(table)' = Expanded(table)
      BY <1>10 DEF Expanded
    <3>3. QED
      BY <1>1, <1>10, <3>1, <3>2, CoveredStays DEF MemoryReduced
  <2>6. CurCovered(Q)'
    <3>1. \A a \in Actions : Apply(table[W.id].rep, a) # Nil =>
            \/ \E j \in DOMAIN pending' : pending'[j].st = Apply(table[W.id].rep, a)
            \/ Postponed(W.path, a)
      BY <1>1, <1>2, <1>10, <2>3, <2>4, PopOffers
    <3>2. \A a : Postponed(W.path, a)' <=> Postponed(W.path, a)
      BY <1>1, PostponedFixed
    <3>3. \A a \in Actions : Apply(table[W.id].rep, a)' = Apply(table[W.id].rep, a)
      BY <1>1, <1>10 DEF Apply
    <3>4. Q[W.id] = W.path
      BY <2>1, <2>3
    <3>5. QED
      BY <2>4, <3>1, <3>2, <3>3, <3>4 DEF CurCovered, Apply
  <2>7. Grown' = F
    <3>1. Expanded(table)' = E
      BY <1>7, <1>10 DEF Expanded
    <3>2. QED
      BY <2>3, <2>4, <3>1 DEF Grown
  <2>8. Descended(Q)'
    <3> SUFFICES ASSUME Reduces(g)
                 PROVE  Tree(table, Grown, Q)' /\ \A item \in InHand' : ItemDescends(item, Grown, Q)'
      BY <1>1 DEF Descended, Reduces
    <3>1. \A u \in E : u \in F /\ Q[u] = P[u]
      BY <2>1, <2>4
    <3>2. W.path # <<>> /\ EndOf(W.path) = table[W.id].rep
      BY <2>4 DEF PathInv, ItemsLead
    <3>3. Descends(W.path, F, Q)
      <4>1. Descends(W.path, E, P)
        BY <1>8, <2>4 DEF ItemDescends, Descends
      <4>2. QED
        BY <3>1, <4>1, DescendsOn
    <3>4. Tree(table, F, Q)'
      <4>1. \A u \in F \ E : Q[u] # <<>> /\ EndOf(Q[u]) = table'[u].rep /\ Descends(Q[u], F, Q)
        BY <1>10, <2>1, <2>3, <3>2, <3>3
      <4>2. \A id \in Ids : table'[id] # Nil => table[id] # Nil /\ table'[id].path = table[id].path
        BY <1>10
      <4>3. \A u \in E : table'[u].rep = table[u].rep
        BY <1>10
      <4> HIDE DEF F
      <4>4. QED
        BY <1>1, <1>8, <3>1, <4>1, <4>2, <4>3, TreeStays
    <3>5. ASSUME NEW item \in InHand' PROVE ItemDescends(item, F, Q)'
      <4>1. ItemDescends(item, E, P)
        BY <1>3, <1>8, <2>4 DEF InHand
      <4> HIDE DEF F
      <4>2. QED
        BY <1>1, <3>1, <4>1, DescendsOn
    <3> HIDE DEF F
    <3>6. QED
      BY <2>7, <3>4, <3>5 DEF Tree, ItemDescends, Descends
  <2>9. MemoryReduced(Q)'
    BY <2>5, <2>6, <2>8 DEF MemoryReduced
  <2>10. \A u \in Grown : Q[u] = P[u]
    BY <1>6, <2>1, <2>4
  <2>11. QED
    BY <2>9, <2>10
<1>11. QED
  BY <1>2, <1>9, <1>10 DEF Pop

LEMMA PopReduced ==
  ASSUME FrontierInv, ReduceInv, Reduces(g) => PathInv, Unconstrained(g), Pop
  PROVE  ReduceInv'
<1>1. TypeOK /\ UNCHANGED <<g, disk>>
  BY DEF Pop, FrontierInv
<1>2. ASSUME NEW P \in [Ids -> Paths], MemoryReduced(P)
      PROVE  \E Q \in [Ids -> Paths] : MemoryReduced(Q)'
  BY <1>2, PopReduces
<1>3. QED
  BY <1>1, <1>2, DiskReducedStays DEF ReduceInv

\* The last child is added: what was covered of the item in hand is covered of its
\* record.
LEMMA EndExpansionReduces ==
  ASSUME FrontierInv, EndExpansion, NEW P \in [Ids -> Paths], MemoryReduced(P)
  PROVE  MemoryReduced(P)'
<1>1. /\ pending = <<>> /\ cur' = Nil /\ TypeOK /\ UNCHANGED <<g, queue, disk>>
      /\ table' = IF cur = Nil THEN table ELSE [table EXCEPT ![cur.id] = WithStatus(@, "expanded")]
  BY DEF EndExpansion, FrontierInv
<1>3. PICK E \in SUBSET Ids : E = Grown
  BY QueuedItemsKnown DEF Grown, Expanded, WorkItems
<1>4. /\ \A id \in Ids : /\ table'[id] # Nil <=> table[id] # Nil
                         /\ table[id] # Nil => /\ table'[id].rep = table[id].rep
                                               /\ table'[id].path = table[id].path
      /\ Expanded(table)' = E
  <2>1. CASE cur = Nil
    BY <1>1, <1>3, <2>1 DEF Grown, Expanded
  <2>2. CASE cur # Nil
    <3>1. PICK x \in Ids : x = cur.id /\ table[x] \in Records
      BY <2>2, QueuedItemsKnown DEF WorkItems
    <3>2. /\ \A id \in Ids \ {x} : table'[id] = table[id]
          /\ table'[x] = WithStatus(table[x], "expanded")
      BY <1>1, <2>2, <3>1 DEF TypeOK, Tables
    <3>3. WithStatus(table[x], "expanded") \in Records
      BY <3>1 DEF WithStatus, Records, Statuses
    <3>4. /\ table'[x] # Nil /\ table[x] # Nil /\ table'[x].status = "expanded"
          /\ table'[x].rep = table[x].rep /\ table'[x].path = table[x].path
      BY <3>1, <3>2, <3>3, NilAssumption DEF WithStatus
    <3>5. E = Expanded(table) \cup {x}
      BY <1>3, <2>2, <3>1 DEF Grown
    <3>6. Expanded(table)' = E
      BY <3>2, <3>4, <3>5 DEF Expanded
    <3>7. QED
      BY <3>2, <3>4, <3>6
  <2>3. QED
    BY <2>1, <2>2
<1>5. Grown' = E
  BY <1>1, <1>4 DEF Grown
<1>6. Covered(table, P)'
  <2> SUFFICES ASSUME NEW u \in E, NEW a \in Actions, Apply(table[u].rep, a)' # Nil
               PROVE  HasState(table, Apply(table[u].rep, a))' \/ Postponed(P[u], a)'
    BY <1>4 DEF Covered
  <2>1. u \in Ids /\ table[u] # Nil /\ table'[u].rep = table[u].rep
    <3>1. E \subseteq {id \in Ids : table[id] # Nil}
      BY <1>3, QueuedItemsKnown, NilAssumption DEF Grown, Expanded
    <3>2. QED
      BY <1>4, <3>1
  <2>2. Apply(table[u].rep, a)' = Apply(table[u].rep, a)
    BY <1>1, <2>1 DEF Apply
  <2>3. Apply(table[u].rep, a) \in States
    BY <1>1, <2>1, <2>2, SuccessorType
  <2>4. HasState(table, Apply(table[u].rep, a)) \/ Postponed(P[u], a)
    <3>1. CASE u \in Expanded(table)
      BY <2>2, <3>1 DEF MemoryReduced, Covered
    <3>2. CASE cur # Nil /\ u = cur.id
      BY <1>1, <2>2, <3>2 DEF MemoryReduced, CurCovered
    <3>3. QED
      BY <1>3, <3>1, <3>2 DEF Grown
  <2>5. CASE HasState(table, Apply(table[u].rep, a))
    <3>1. Canon(g, Apply(table[u].rep, a)) \in Ids
      BY <1>1, <2>3, GrammarTypes DEF IsGrammar
    <3>2. QED
      BY <1>1, <1>4, <2>2, <2>5, <3>1 DEF HasState
  <2>6. CASE Postponed(P[u], a)
    BY <1>1, <2>6, PostponedFixed
  <2>7. QED
    BY <2>4, <2>5, <2>6
<1>7. Descended(P)'
  <2> SUFFICES ASSUME Reduces(g)
               PROVE  Tree(table, Grown, P)' /\ \A work \in InHand' : ItemDescends(work, Grown, P)'
    BY <1>1 DEF Descended, Reduces
  <2>1. Tree(table, E, P) /\ \A work \in InHand : ItemDescends(work, E, P)
    BY <1>3 DEF MemoryReduced, Descended
  <2>2. Tree(table, E, P)'
    <3>1. \A u \in E : table'[u].rep = table[u].rep
      <4>1. E \subseteq {id \in Ids : table[id] # Nil}
        BY <1>3, QueuedItemsKnown, NilAssumption DEF Grown, Expanded
      <4>2. QED
        BY <1>4, <4>1
    <3>2. QED
      BY <1>1, <1>4, <2>1, <3>1, TreeStays
  <2>3. ASSUME NEW work \in InHand' PROVE ItemDescends(work, E, P)'
    <3>1. ItemDescends(work, E, P)
      BY <1>1, <2>1 DEF InHand, Elements
    <3>2. QED
      BY <1>1, <3>1, DescendsOn
  <2>4. QED
    BY <1>5, <2>2, <2>3 DEF Tree, ItemDescends, Descends
<1>8. CurCovered(P)'
  BY <1>1 DEF CurCovered
<1>9. QED
  BY <1>6, <1>7, <1>8 DEF MemoryReduced

LEMMA EndExpansionReduced ==
  ASSUME FrontierInv, ReduceInv, EndExpansion
  PROVE  ReduceInv'
<1>1. TypeOK /\ UNCHANGED <<g, disk>>
  BY DEF EndExpansion, FrontierInv
<1>2. \A P \in [Ids -> Paths] : MemoryReduced(P) => MemoryReduced(P)'
  BY EndExpansionReduces
<1>3. QED
  BY <1>1, <1>2, DiskReducedStays DEF ReduceInv

\* A step that leaves the records and the deque alone.
LEMMA MemoryReducedStays ==
  ASSUME UNCHANGED <<g, table, queue, cur>>, pending' = pending \/ cur = Nil,
         NEW P, MemoryReduced(P)
  PROVE  MemoryReduced(P)'
<1>1. \A path : EndOf(path)' = EndOf(path)
  BY EndOfFixed
<1>2. \A path, a : Postponed(path, a)' <=> Postponed(path, a)
  BY PostponedFixed
<1>3. Expanded(table)' = Expanded(table) /\ Grown' = Grown /\ InHand' = InHand
  BY DEF Expanded, Grown, InHand, Elements
<1>4. Covered(table, P)'
  BY <1>2, <1>3 DEF MemoryReduced, Covered, HasState, Apply
<1>5. CurCovered(P)'
  <2>1. CASE cur = Nil
    BY <2>1 DEF CurCovered
  <2>2. CASE pending' = pending
    <3>1. PICK path : path = cur.path /\ path = cur'.path
      OBVIOUS
    <3>2. \A a : Postponed(path, a)' <=> Postponed(path, a)
      BY <1>2
    <3>3. CASE cur # Nil
      <4>1. /\ P[cur.id] = path
            /\ \A a \in Actions : Apply(table[cur.id].rep, a) # Nil =>
                 \/ HasState(table, Apply(table[cur.id].rep, a))
                 \/ \E j \in DOMAIN pending : pending[j].st = Apply(table[cur.id].rep, a)
                 \/ Postponed(path, a)
        BY <3>1, <3>3 DEF MemoryReduced, CurCovered
      <4>2. QED
        BY <2>2, <3>1, <3>2, <4>1 DEF CurCovered, HasState, Apply
    <3>4. QED
      BY <2>1, <3>3
  <2>3. QED
    BY <2>1, <2>2
<1>6. Descended(P)'
  <2>1. Reduces(g)' <=> Reduces(g)
    BY DEF Reduces
  <2>2. Tree(table, Grown, P) => Tree(table, Grown, P)'
    BY <1>1, <1>3 DEF Tree, Descends
  <2>3. \A work : ItemDescends(work, Grown, P) => ItemDescends(work, Grown, P)'
    BY <1>1, <1>3 DEF ItemDescends
  <2>4. QED
    BY <1>3, <2>1, <2>2, <2>3 DEF MemoryReduced, Descended
<1>7. QED
  BY <1>4, <1>5, <1>6 DEF MemoryReduced

\* A checkpoint covers what the search covered.
LEMMA SaveReduced ==
  ASSUME FrontierInv, ReduceInv, Save
  PROVE  ReduceInv'
<1>1. /\ UNCHANGED <<g, table, queue, cur, pending>> /\ cur = Nil /\ TypeOK
      /\ disk' = disk \/ disk' = Checkpoint
  BY DEF Save, FrontierInv, CurWhileExpanding
<1>2. PICK P \in [Ids -> Paths] : MemoryReduced(P)
  BY DEF ReduceInv
<1>3. MemoryReduced(P)'
  BY <1>1, <1>2, MemoryReducedStays
<1>4. CASE disk' = disk
  BY <1>1, <1>3, <1>4, DiskReducedStays DEF ReduceInv
<1>5. CASE disk' = Checkpoint
  <2>1. disk'.table = table' /\ Grown' = Expanded(table)'
    BY <1>1, <1>5 DEF Checkpoint, Grown
  <2>2. Covered(disk.table, P)'
    BY <1>3, <2>1 DEF MemoryReduced, Covered, HasState, Expanded
  <2>3. (Reduces(g) => Tree(disk.table, Expanded(disk.table), P))'
    BY <1>3, <2>1 DEF MemoryReduced, Descended, Tree, Expanded
  <2>4. QED
    BY <1>3, <2>2, <2>3 DEF ReduceInv, DiskReduced
<1>6. QED
  BY <1>1, <1>4, <1>5

LEMMA ClearedReduced ==
  ASSUME TypeOK, ReduceInv, ClearMemory, g' = g, disk' = disk
  PROVE  ReduceInv'
<1> DEFINE P == [id \in Ids |-> <<>>]
<1>1. P \in [Ids -> Paths]
  BY DEF Paths
<1>2. InHand' = {} /\ cur' = Nil /\ Grown' = {} /\ Expanded(table)' = {}
      /\ \A id \in Ids : table'[id] = Nil
  BY DEF ClearMemory, InHand, Elements, Grown, Expanded, EmptyTable
<1> HIDE DEF P
<1>3. MemoryReduced(P)'
  BY <1>2 DEF MemoryReduced, Covered, CurCovered, Descended, Tree
<1>4. QED
  BY <1>1, <1>3, DiskReducedStays DEF ReduceInv

\* A path of a checkpoint is replayed to the very state it went on from.
LEMMA RestoredDescends ==
  ASSUME NEW E \in SUBSET Ids, NEW P \in [Ids -> Paths],
         \A u \in E : P[u] # <<>> /\ EndOf(P[u]) \in States,
         NEW id, NEW path, Descends(path, E, P)
  PROVE  ItemDescends(RestoredItem(id, path), E, P)
<1>1. CASE \E act \in Actions : path = <<act>>
  <2>1. Len(path) = 1
    BY <1>1
  <2>2. ReplayedParent(path) = Nil
    BY <2>1 DEF ReplayedParent
  <2>3. QED
    BY <1>1, <2>2 DEF ItemDescends, RestoredItem
<1>2. CASE \E u \in E, act \in Actions : path = Append(P[u], act)
  <2>1. PICK u \in E, act \in Actions : path = Append(P[u], act)
    BY <1>2
  <2> DEFINE p == P[u]
             n == Len(p)
  <2>2. p \in Paths /\ p # <<>> /\ EndOf(p) \in States /\ path = Append(p, act)
    BY <2>1
  <2> HIDE DEF p
  <2>3. n \in Nat /\ n \in 1..n /\ Len(path) = n + 1 /\ n + 1 > 1 /\ (n + 1) - 1 = n
    BY <2>2 DEF Paths
  <2>4. Replay(path)[n] = EndOf(p)
    BY <2>2, <2>3, ReplayPrefix DEF EndOf
  <2> HIDE DEF n
  <2>5. ReplayedParent(path) = EndOf(p)
    <3>1. Len(path) > 1 /\ Replay(path)[Len(path) - 1] = EndOf(p)
      BY <2>3, <2>4
    <3>2. {s \in States : Len(path) > 1 /\ s = Replay(path)[Len(path) - 1]} = {EndOf(p)}
      BY <2>2, <3>1
    <3>3. QED
      BY <3>2 DEF ReplayedParent
  <2>6. QED
    BY <2>1, <2>5 DEF ItemDescends, RestoredItem, p
<1>3. QED
  BY <1>1, <1>2 DEF Descends

LEMMA ResumeReduced ==
  ASSUME FrontierInv, ReduceInv, Resume
  PROVE  ReduceInv'
<1>1. /\ disk # Nil /\ cur = Nil /\ TypeOK /\ UNCHANGED <<g, disk>>
      /\ disk \in Checkpoints /\ disk.table \in Tables
  BY DEF Resume, FrontierInv, CurWhileExpanding, TypeOK, Checkpoints
<1>2. CASE ClearMemory
  BY <1>1, <1>2, ClearedReduced
<1>3. CASE \E order \in Orderings(Unexplored(disk.table)) :
             /\ queue' = [i \in DOMAIN order |->
                            RestoredItem(order[i], disk.table[order[i]].path)]
             /\ table' = disk.table /\ UNCHANGED <<cur, pending>>
  <2>1. PICK P \in [Ids -> Paths] : DiskReduced(P)
    BY <1>1 DEF ReduceInv
  <2>2. PICK E \in SUBSET Ids : E = Expanded(disk.table)
    BY DEF Expanded
  <2>3. Expanded(table)' = E /\ Grown' = E /\ cur' = Nil /\ table' = disk.table
    BY <1>1, <1>3, <2>2 DEF Expanded, Grown
  <2>4. \A path : EndOf(path)' = EndOf(path)
    BY <1>1, EndOfFixed
  <2>5. \A path, a : Postponed(path, a)' <=> Postponed(path, a)
    BY <1>1, PostponedFixed
  <2>6. Covered(table, P)'
    BY <1>1, <2>1, <2>2, <2>3, <2>5 DEF DiskReduced, Covered, HasState, Apply
  <2>7. Descended(P)'
    <3> SUFFICES ASSUME Reduces(g)
                 PROVE  Tree(table, Grown, P)' /\ \A work \in InHand' : ItemDescends(work, Grown, P)'
      BY <1>1 DEF Descended, Reduces
    <3>1. Tree(disk.table, E, P)
      BY <2>1, <2>2 DEF DiskReduced
    <3>2. Tree(table, Grown, P)'
      BY <2>3, <2>4, <3>1 DEF Tree, Descends
    <3>3. ASSUME NEW work \in InHand' PROVE ItemDescends(work, E, P)
      <4>1. PICK order \in Orderings(Unexplored(disk.table)) :
              queue' = [i \in DOMAIN order |->
                          RestoredItem(order[i], disk.table[order[i]].path)]
        BY <1>3
      <4>2. PICK i \in DOMAIN order : work = RestoredItem(order[i], disk.table[order[i]].path)
        BY <2>3, <4>1 DEF InHand, Elements
      <4>3. order[i] \in Ids /\ disk.table[order[i]] # Nil
        BY DEF Orderings, Unexplored
      <4>4. PICK id : id = order[i] /\ id \in Ids
        BY <4>3
      <4>5. PICK path : path = disk.table[id].path
        OBVIOUS
      <4>6. Descends(path, E, P)
        BY <3>1, <4>3, <4>4, <4>5 DEF Tree
      <4>7. \A u \in E : P[u] # <<>> /\ EndOf(P[u]) \in States
        <5>1. \A u \in E : disk.table[u].rep \in States
          BY <1>1, <2>2 DEF Expanded, Tables, Records
        <5>2. QED
          BY <3>1, <5>1 DEF Tree
      <4>8. QED
        BY <4>2, <4>4, <4>5, <4>6, <4>7, RestoredDescends
    <3>4. \A work \in InHand' : ItemDescends(work, E, P)'
      BY <1>1, <3>3, DescendsOn
    <3>5. QED
      BY <2>3, <3>2, <3>4 DEF ItemDescends
  <2>8. MemoryReduced(P)'
    BY <2>3, <2>6, <2>7 DEF MemoryReduced, CurCovered
  <2>9. QED
    BY <1>1, <2>8, DiskReducedStays DEF ReduceInv
<1>4. QED
  BY <1>2, <1>3 DEF Resume

LEMMA NextReduced ==
  ASSUME FrontierInv, ReduceInv, Reduces(g) => PathInv, Unconstrained(g), [Next]_vars
  PROVE  ReduceInv'
<1>1. CASE Start \/ StopAtBudget \/ StopAtLimit \/ Finish \/ Ended \/ UNCHANGED vars
  <2>1. UNCHANGED <<g, table, queue, cur, disk>> /\ TypeOK
    BY <1>1 DEF Start, StopAtBudget, StopAtLimit, Finish, Ended, vars, FrontierInv
  <2>2. pending' = pending \/ cur = Nil
    BY <1>1 DEF Start, StopAtBudget, StopAtLimit, Finish, Ended, vars, FrontierInv,
                CurWhileExpanding
  <2>3. \A P \in [Ids -> Paths] : MemoryReduced(P) => MemoryReduced(P)'
    BY <2>1, <2>2, MemoryReducedStays
  <2>4. QED
    BY <2>1, <2>3, DiskReducedStays DEF ReduceInv
<1>2. CASE Crash
  <2>1. g' = g /\ disk' = disk /\ ClearMemory /\ TypeOK
    BY <1>2 DEF Crash, FrontierInv
  <2>2. QED
    BY <2>1, ClearedReduced
<1>3. QED
  BY <1>1, <1>2, AddStateReduced, PopReduced, EndExpansionReduced, SaveReduced, ResumeReduced
     DEF Next, Engine

\* The searches that lose nothing: POR leaves nothing out and equal states have equal
\* successors, or no two states share an identity and the roots have distinct actions.
Lossless(gr) ==
  \/ ~Reduces(gr) /\ Equivariant(gr)
  \/ Faithful(gr) /\ RootsApart(gr)

LEMMA ReduceInvariant == Spec => [](Unconstrained(g) /\ Lossless(g) => ReduceInv)
<1>1. Init => ReduceInv
  <2> SUFFICES ASSUME Init PROVE ReduceInv
    OBVIOUS
  <2> DEFINE P == [id \in Ids |-> <<>>]
  <2>1. P \in [Ids -> Paths]
    BY DEF Paths
  <2>2. InHand = {} /\ cur = Nil /\ disk = Nil /\ Grown = {} /\ Expanded(table) = {}
        /\ \A id \in Ids : table[id] = Nil
    BY DEF Init, InHand, Elements, Grown, Expanded, EmptyTable
  <2> HIDE DEF P
  <2>3. MemoryReduced(P)
    BY <2>2 DEF MemoryReduced, Covered, CurCovered, Descended, Tree
  <2>4. QED
    BY <2>1, <2>2, <2>3 DEF ReduceInv
<1>2. ASSUME FrontierInv, Distinct(g) => PathInv, Unconstrained(g) /\ Lossless(g) => ReduceInv,
             [Next]_vars, (Unconstrained(g) /\ Lossless(g))'
      PROVE  ReduceInv'
  <2>1. g' = g
    BY <1>2, GrammarFixed
  <2>2. Unconstrained(g) /\ Lossless(g)
    BY <1>2, <2>1
  <2>3. Reduces(g) => PathInv
    BY <1>2, <2>2 DEF Lossless, Distinct
  <2>4. QED
    BY <1>2, <2>2, <2>3, NextReduced
<1>3. FrontierInv /\ (Distinct(g) => PathInv) /\ (Unconstrained(g) /\ Lossless(g) => ReduceInv)
      /\ [Next]_vars => (Unconstrained(g) /\ Lossless(g) => ReduceInv)'
  BY <1>2
<1>4. QED
  BY <1>1, <1>3, FrontierInvariant, PathInvariant, PTL DEF Spec

\* What the invariants say of a complete search that loses nothing.
LEMMA LosslessIsExact ==
  ASSUME FrontierInv, CoverInv, Lossless(g), Unconstrained(g) => ReduceInv
  PROVE  TerminalsExact /\ Equivariant(g)
<1>1. Faithful(g) => Equivariant(g)
  BY DEF Faithful, Equivariant
<1>2. Equivariant(g) /\ (Reduces(g) => Faithful(g))
  BY <1>1 DEF Lossless
<1>3. ASSUME phase \in {"result", "done"}, complete, Unconstrained(g)
      PROVE  terminals = {Canon(g, s) : s \in Reachable \cap TerminalStates(g)}
  <2>1. queue = <<>> /\ cur = Nil
    BY <1>3 DEF CoverInv, CompleteMeansDrained, FrontierInv, CurWhileExpanding
  <2>2. PICK P \in [Ids -> Paths] : MemoryReduced(P)
    BY <1>3 DEF ReduceInv
  <2>3. Explored(table)
    BY <1>2, <2>1, <2>2, NothingPostponed
  <2>4. QED
    BY <1>2, <1>3, <2>3, DrainedIsExact
<1>4. QED
  BY <1>2, <1>3 DEF TerminalsExact

\* A complete result holds exactly the reachable canonical terminals: with any
\* sibling order, budgets, stops, crashes and resumes, and with POR on, however the
\* cost gate decides, where no two states share an identity.
THEOREM CompleteIsExact ==
  ASSUME \A gr \in Grammars : Lossless(gr)
  PROVE  Spec => []TerminalsExact
<1>1. ASSUME FrontierInv, CoverInv, Unconstrained(g) /\ Lossless(g) => ReduceInv
      PROVE  TerminalsExact
  <2>1. Lossless(g)
    BY <1>1 DEF FrontierInv, TypeOK
  <2>2. QED
    BY <1>1, <2>1, LosslessIsExact
<1>2. FrontierInv /\ CoverInv /\ (Unconstrained(g) /\ Lossless(g) => ReduceInv) => TerminalsExact
  BY <1>1
<1>3. QED
  BY <1>2, FrontierInvariant, CoverInvariant, ReduceInvariant, PTL

-----------------------------------------------------------------------------
(***************************************************************************)
(* Declared requirements and conflicts.  The dependency filter tests the   *)
(* path of first discovery, although other histories lead to the same      *)
(* identity.  That loses nothing where the identity determines which of    *)
(* the declared actions were taken: every path to it is then as good.      *)
(***************************************************************************)
Histories == [Ids -> SUBSET Actions]

\* H[id] holds the declared actions in every history that leads to id.
RecordsHistory(gr, H) ==
  /\ \A i \in DOMAIN InitialStates(gr) :
       H[Canon(gr, InitialStates(gr)[i].st)] = {InitialStates(gr)[i].act} \cap Declared(gr)
  /\ \A s \in States, a \in Actions :
       ApplyAction(gr, s, a) # Nil =>
         H[Canon(gr, ApplyAction(gr, s, a))] = H[Canon(gr, s)] \cup ({a} \cap Declared(gr))

\* Canonically equal states have canonically equal successors, by actions that
\* declare no more.
LegallyEquivariant(gr) ==
  \A s, t \in States, a \in Actions :
    Canon(gr, s) = Canon(gr, t) /\ ApplyAction(gr, s, a) # Nil =>
      \E b \in Actions :
        /\ ApplyAction(gr, t, b) # Nil
        /\ Canon(gr, ApplyAction(gr, t, b)) = Canon(gr, ApplyAction(gr, s, a))
        /\ Footprint(gr, b).requires \subseteq Footprint(gr, a).requires
        /\ Footprint(gr, b).conflicts \subseteq Footprint(gr, a).conflicts

Legal(H, s, a) == Apply(s, a) # Nil /\ Permitted(a, H[Canon(g, s)])

ClosedUnderLegal(H, S) ==
  /\ \A i \in DOMAIN InitialStates(g) : InitialStates(g)[i].st \in S
  /\ \A s \in S, a \in Actions : Legal(H, s, a) => Apply(s, a) \in S

LegalStates(H) == {s \in States : \A S \in SUBSET States : ClosedUnderLegal(H, S) => s \in S}

-----------------------------------------------------------------------------
\* The histories of at most n + 1 actions, from those of at most n
Longer(Q) == Q \cup UNION {LegalSteps(p) : p \in Q}

Grows(w, n) == w = [i \in 0..n |-> IF i = 0 THEN LegalRoots ELSE Longer(w[i - 1])]

LEMMA GrowthExists ==
  ASSUME NEW n \in Nat
  PROVE  \E w : Grows(w, n)
<1> DEFINE T == {m \in Nat : ~\E w : Grows(w, m)}
<1>1. SUFFICES ASSUME T # {} PROVE FALSE
  OBVIOUS
<1>2. PICK m \in T : \A j \in T : ~(j < m)
  <2> HIDE DEF T
  <2>1. T \in SUBSET Nat
    BY DEF T
  <2>2. QED
    BY <1>1, <2>1, LeastNumber
<1>3. CASE m = 0
  <2> DEFINE w == [i \in 0..0 |-> LegalRoots]
  <2>1. Grows(w, 0)
    BY DEF Grows
  <2>2. QED
    BY <1>2, <1>3, <2>1
<1>4. CASE m # 0
  <2>1. m \in Nat /\ m - 1 \in Nat /\ m - 1 < m
    BY <1>4
  <2>2. PICK w : Grows(w, m - 1)
    BY <1>2, <2>1
  <2> DEFINE k == [i \in 0..m |-> IF i = m THEN Longer(w[m - 1]) ELSE w[i]]
  <2>3. \A i \in 0..(m - 1) : w[i] = IF i = 0 THEN LegalRoots ELSE Longer(w[i - 1])
    BY <2>2 DEF Grows
  <2>4. \A i \in 0..m : k[i] = IF i = 0 THEN LegalRoots ELSE Longer(k[i - 1])
    <3> TAKE i \in 0..m
    <3>1. CASE i = m
      BY <1>4, <2>1, <3>1
    <3>2. CASE i # m
      BY <2>1, <2>3, <3>2
    <3>3. QED
      BY <3>1, <3>2
  <2>5. k = [i \in 0..m |-> k[i]]
    OBVIOUS
  <2> HIDE DEF k
  <2>6. Grows(k, m)
    BY <2>4, <2>5 DEF Grows
  <2>7. QED
    BY <1>2, <2>6
<1>5. QED
  BY <1>3, <1>4

\* How many steps are looked at: as many as there are identities, or more.
LEMMA BoundIsEnough ==
  ASSUME TypeOK
  PROVE  /\ Cardinality(Ids) \in Nat
         /\ LegalBound \in Nat
         /\ Cardinality(Ids) <= LegalBound
<1>1. Declared(g) \subseteq Actions
  BY GrammarTypes DEF Declared, IsGrammar, Footprints
<1>2. IsFiniteSet(Declared(g))
  BY <1>1, GrammarAssumption, FS_Subset
<1> DEFINE c == Cardinality(Ids)
           d == Cardinality(Declared(g))
<1>3. c \in Nat /\ d \in Nat
  BY <1>2, GrammarAssumption, FS_CardinalityType
<1>4. LegalBound = c * (d + 1)
  BY DEF LegalBound
<1> HIDE DEF c, d
<1>5. c * (d + 1) = c * d + c /\ c * d \in Nat
  BY <1>3
<1>6. QED
  BY <1>3, <1>4, <1>5 DEF c

LEMMA LegalWithinUnfolds ==
  ASSUME TypeOK
  PROVE  \A n \in 0..LegalBound :
           LegalWithin[n] = IF n = 0 THEN LegalRoots ELSE Longer(LegalWithin[n - 1])
<1>1. LegalBound \in Nat
  BY BoundIsEnough
<1>2. LegalWithin = CHOOSE w : Grows(w, LegalBound)
  BY DEF LegalWithin, Grows, Longer
<1>3. Grows(LegalWithin, LegalBound)
  BY <1>1, <1>2, GrowthExists
<1>4. QED
  BY <1>3 DEF Grows

\* What a permitted action declares is declared, so that the filter's test of a
\* path and the promise's test of a history are the same.
Taken(path) == Elements(path) \cap Declared(g)

LEMMA BlockedByHistory ==
  ASSUME NEW a \in Actions, NEW path
  PROVE  DependencyBlocked(a, path) <=> ~Permitted(a, Taken(path))
<1>1. Footprint(g, a).requires \subseteq Declared(g) /\ Footprint(g, a).conflicts \subseteq Declared(g)
  BY DEF Declared
<1>2. QED
  BY <1>1 DEF DependencyBlocked, Permitted, Taken

\* The legal states contain the roots and are closed, and are the least such set.
LEMMA LegalStatesClosed ==
  ASSUME TypeOK, NEW H
  PROVE  /\ LegalStates(H) \subseteq States
         /\ \A i \in DOMAIN InitialStates(g) : InitialStates(g)[i].st \in LegalStates(H)
         /\ \A s \in LegalStates(H), a \in Actions : Legal(H, s, a) => Apply(s, a) \in LegalStates(H)
         /\ \A S \in SUBSET States : ClosedUnderLegal(H, S) => LegalStates(H) \subseteq S
<1>1. LegalStates(H) \subseteq States
      /\ \A S \in SUBSET States : ClosedUnderLegal(H, S) => LegalStates(H) \subseteq S
  BY DEF LegalStates
<1>2. \A i \in DOMAIN InitialStates(g) : InitialStates(g)[i].st \in States
  BY ReachableClosed
<1>3. \A i \in DOMAIN InitialStates(g) : InitialStates(g)[i].st \in LegalStates(H)
  BY <1>2 DEF LegalStates, ClosedUnderLegal
<1>4. ASSUME NEW s \in LegalStates(H), NEW a \in Actions, Legal(H, s, a)
      PROVE  Apply(s, a) \in LegalStates(H)
  <2>1. Apply(s, a) \in States
    BY <1>1, <1>4, GrammarTypes DEF Legal
  <2>2. ASSUME NEW S \in SUBSET States, ClosedUnderLegal(H, S)
        PROVE  Apply(s, a) \in S
    <3>1. s \in S
      BY <2>2 DEF LegalStates
    <3>2. QED
      BY <1>4, <2>2, <3>1 DEF ClosedUnderLegal
  <2>3. QED
    BY <2>1, <2>2 DEF LegalStates
<1>5. QED
  BY <1>1, <1>3, <1>4

\* The history of a state under H grows with each action.
LEMMA HistoryGrows ==
  ASSUME TypeOK, NEW H, RecordsHistory(g, H), NEW s \in States, NEW a \in Actions,
         Apply(s, a) # Nil
  PROVE  H[Canon(g, Apply(s, a))] = H[Canon(g, s)] \cup ({a} \cap Declared(g))
BY NilAssumption DEF RecordsHistory, Apply

\* Every pair that some number of steps yields is a legal state with its history.
LEMMA LegalPairs ==
  ASSUME TypeOK, NEW H \in Histories, RecordsHistory(g, H)
  PROVE  \A n \in 0..LegalBound : \A p \in LegalWithin[n] :
           p[1] \in LegalStates(H) /\ p[2] = H[Canon(g, p[1])]
<1> DEFINE Good(p) == p[1] \in LegalStates(H) /\ p[2] = H[Canon(g, p[1])]
           T == {n \in 0..LegalBound : ~\A p \in LegalWithin[n] : Good(p)}
<1>1. SUFFICES ASSUME T # {} PROVE FALSE
  OBVIOUS
<1>2. LegalBound \in Nat
  BY BoundIsEnough
<1>3. PICK n \in T : \A j \in T : ~(j < n)
  <2> HIDE DEF T
  <2>1. T \in SUBSET Nat
    BY <1>2 DEF T
  <2>2. QED
    BY <1>1, <2>1, LeastNumber
<1>4. n \in 0..LegalBound /\ ~\A p \in LegalWithin[n] : Good(p)
  OBVIOUS
<1>5. CASE n = 0
  <2>1. LegalWithin[n] = LegalRoots
    BY <1>4, <1>5, LegalWithinUnfolds
  <2>2. ASSUME NEW p \in LegalRoots PROVE Good(p)
    <3>1. PICK i \in DOMAIN InitialStates(g) :
            p = <<InitialStates(g)[i].st, {InitialStates(g)[i].act} \cap Declared(g)>>
      BY <2>2 DEF LegalRoots
    <3>2. H[Canon(g, InitialStates(g)[i].st)] = {InitialStates(g)[i].act} \cap Declared(g)
      BY DEF RecordsHistory
    <3>3. QED
      BY <3>1, <3>2, LegalStatesClosed
  <2>3. QED
    BY <1>4, <2>1, <2>2
<1>6. CASE n # 0
  <2>1. n - 1 \in 0..LegalBound /\ n - 1 < n
    BY <1>2, <1>4, <1>6
  <2>2. \A p \in LegalWithin[n - 1] : Good(p)
    <3> HIDE DEF Good
    <3>1. QED
      BY <1>3, <2>1
  <2>3. LegalWithin[n] = Longer(LegalWithin[n - 1])
    BY <1>4, <1>6, LegalWithinUnfolds
  <2>4. ASSUME NEW p \in LegalWithin[n - 1], NEW q \in LegalSteps(p) PROVE Good(q)
    <3>1. Good(p)
      BY <2>2
    <3>2. PICK a \in Actions : /\ Apply(p[1], a) # Nil /\ Permitted(a, p[2])
                               /\ q = <<Apply(p[1], a), p[2] \cup ({a} \cap Declared(g))>>
      BY DEF LegalSteps
    <3>3. Legal(H, p[1], a)
      BY <3>1, <3>2 DEF Legal
    <3>4. Apply(p[1], a) \in LegalStates(H) /\ p[1] \in States
      BY <3>1, <3>3, LegalStatesClosed
    <3>5. H[Canon(g, Apply(p[1], a))] = p[2] \cup ({a} \cap Declared(g))
      BY <3>1, <3>2, <3>4, HistoryGrows
    <3>6. QED
      BY <3>2, <3>4, <3>5
  <2> HIDE DEF Good
  <2>5. \A p \in LegalWithin[n] : Good(p)
    BY <2>2, <2>3, <2>4 DEF Longer
  <2>6. QED
    BY <1>4, <2>5
<1>7. QED
  BY <1>5, <1>6

\* The identities that n steps yield
Within(n) == {Canon(g, p[1]) : p \in LegalWithin[n]}

LEMMA WithinGrows ==
  ASSUME TypeOK, NEW n \in 1..LegalBound
  PROVE  /\ n - 1 \in 0..LegalBound
         /\ LegalWithin[n - 1] \subseteq LegalWithin[n]
         /\ Within(n - 1) \subseteq Within(n)
<1>1. LegalBound \in Nat
  BY BoundIsEnough
<1>2. n - 1 \in 0..LegalBound /\ n \in 0..LegalBound /\ n # 0
  BY <1>1
<1>3. LegalWithin[n] = Longer(LegalWithin[n - 1])
  BY <1>2, LegalWithinUnfolds
<1>4. LegalWithin[n - 1] \subseteq LegalWithin[n]
  BY <1>3 DEF Longer
<1>5. QED
  BY <1>2, <1>4 DEF Within

\* The roots are there from the start, and what is there stays.
LEMMA WithinMonotonic ==
  ASSUME TypeOK, NEW n \in 0..LegalBound
  PROVE  /\ LegalRoots \subseteq LegalWithin[n]
         /\ Within(n) \subseteq Within(LegalBound)
<1>1. LegalBound \in Nat
  BY BoundIsEnough
<1>2. LegalRoots \subseteq LegalWithin[n]
  <2> DEFINE T == {m \in 0..LegalBound : ~(LegalRoots \subseteq LegalWithin[m])}
  <2>1. SUFFICES ASSUME T # {} PROVE FALSE
    OBVIOUS
  <2>2. PICK m \in T : \A j \in T : ~(j < m)
    <3> HIDE DEF T
    <3>1. T \in SUBSET Nat
      BY <1>1 DEF T
    <3>2. QED
      BY <2>1, <3>1, LeastNumber
  <2>3. CASE m = 0
    BY <2>3, LegalWithinUnfolds
  <2>4. CASE m # 0
    <3>1. m \in 1..LegalBound /\ m - 1 < m
      BY <1>1, <2>4
    <3>2. m - 1 \in 0..LegalBound /\ LegalWithin[m - 1] \subseteq LegalWithin[m]
      BY <3>1, WithinGrows
    <3>3. LegalRoots \subseteq LegalWithin[m - 1]
      BY <2>2, <3>1, <3>2
    <3>4. QED
      BY <3>2, <3>3
  <2>5. QED
    BY <2>3, <2>4
<1>3. Within(n) \subseteq Within(LegalBound)
  <2> DEFINE T == {k \in 0..LegalBound : ~(Within(LegalBound - k) \subseteq Within(LegalBound))}
  <2>1. LegalBound - n \in 0..LegalBound /\ LegalBound - (LegalBound - n) = n
    BY <1>1
  <2>2. SUFFICES ASSUME T # {} PROVE FALSE
    <3>1. CASE T = {}
      <4>1. LegalBound - n \notin T
        BY <3>1
      <4> HIDE DEF T
      <4>2. Within(LegalBound - (LegalBound - n)) \subseteq Within(LegalBound)
        BY <2>1, <4>1 DEF T
      <4>3. QED
        BY <2>1, <4>2
    <3>2. QED
      BY <2>2, <3>1
  <2>3. PICK k \in T : \A j \in T : ~(j < k)
    <3> HIDE DEF T
    <3>1. T \in SUBSET Nat
      BY <1>1 DEF T
    <3>2. QED
      BY <2>2, <3>1, LeastNumber
  <2>4. k # 0
    <3>1. LegalBound - 0 = LegalBound
      BY <1>1
    <3>2. QED
      BY <3>1
  <2>5. /\ k - 1 \in 0..LegalBound /\ k - 1 < k
        /\ LegalBound - (k - 1) \in 1..LegalBound
        /\ (LegalBound - (k - 1)) - 1 = LegalBound - k
    BY <1>1, <2>4
  <2>6. Within(LegalBound - (k - 1)) \subseteq Within(LegalBound)
    BY <2>3, <2>5
  <2>7. Within(LegalBound - k) \subseteq Within(LegalBound - (k - 1))
    BY <2>5, WithinGrows
  <2>8. QED
    BY <2>6, <2>7
<1>4. QED
  BY <1>2, <1>3

\* Within the bound, a step adds no identity, or all have been met.
LEMMA GrowthEnds ==
  ASSUME TypeOK
  PROVE  \/ \E n \in 1..LegalBound : Within(n) = Within(n - 1)
         \/ Within(LegalBound) = Ids
<1>1. LegalBound \in Nat /\ Cardinality(Ids) \in Nat /\ Cardinality(Ids) <= LegalBound
  BY BoundIsEnough
<1>2. \A n \in 0..LegalBound : Within(n) \subseteq Ids
  <2> SUFFICES ASSUME NEW n \in 0..LegalBound, NEW p \in LegalWithin[n]
               PROVE  Canon(g, p[1]) \in Ids
    BY DEF Within
  <2> DEFINE T == {m \in 0..LegalBound : ~\A q \in LegalWithin[m] : q[1] \in States}
  <2>1. T = {}
    <3>1. SUFFICES ASSUME T # {} PROVE FALSE
      OBVIOUS
    <3>2. PICK m \in T : \A j \in T : ~(j < m)
      <4> HIDE DEF T
      <4>1. T \in SUBSET Nat
        BY <1>1 DEF T
      <4>2. QED
        BY <3>1, <4>1, LeastNumber
    <3>3. CASE m = 0
      <4>1. LegalWithin[m] = LegalRoots
        BY <3>3, LegalWithinUnfolds
      <4>2. \A i \in DOMAIN InitialStates(g) : InitialStates(g)[i].st \in States
        BY ReachableClosed
      <4>3. QED
        BY <4>1, <4>2 DEF LegalRoots
    <3>4. CASE m # 0
      <4>1. m - 1 \in 0..LegalBound /\ m - 1 < m
        BY <1>1, <3>4
      <4>2. \A q \in LegalWithin[m - 1] : q[1] \in States
        BY <3>2, <4>1
      <4>3. LegalWithin[m] = Longer(LegalWithin[m - 1])
        BY <3>4, LegalWithinUnfolds
      <4>4. ASSUME NEW q \in LegalWithin[m - 1], NEW r \in LegalSteps(q) PROVE r[1] \in States
        BY <4>2, GrammarTypes DEF LegalSteps
      <4>5. QED
        BY <4>2, <4>3, <4>4 DEF Longer
    <3>5. QED
      BY <3>3, <3>4
  <2>2. p[1] \in States
    BY <2>1
  <2>3. QED
    BY <2>2, GrammarTypes DEF IsGrammar
<1>3. \A n \in 0..LegalBound : /\ IsFiniteSet(Within(n))
                               /\ Cardinality(Within(n)) \in Nat
                               /\ Cardinality(Within(n)) <= Cardinality(Ids)
  <2> TAKE n \in 0..LegalBound
  <2> DEFINE W == Within(n)
  <2>1. W \in SUBSET Ids
    BY <1>2
  <2> HIDE DEF W
  <2>2. IsFiniteSet(W) /\ Cardinality(W) <= Cardinality(Ids)
    BY <2>1, GrammarAssumption, FS_Subset
  <2>3. Cardinality(W) \in Nat
    BY <2>2, FS_CardinalityType
  <2>4. QED
    BY <2>2, <2>3 DEF W
<1>4. SUFFICES ASSUME \A n \in 1..LegalBound : Within(n) # Within(n - 1)
               PROVE  Within(LegalBound) = Ids
  OBVIOUS
<1> DEFINE size(n) == Cardinality(Within(n))
           T == {n \in 0..LegalBound : size(n) < n}
<1>5. T = {}
  <2>1. SUFFICES ASSUME T # {} PROVE FALSE
    OBVIOUS
  <2>2. PICK n \in T : \A j \in T : ~(j < n)
    <3> HIDE DEF T
    <3>1. T \in SUBSET Nat
      BY <1>1 DEF T
    <3>2. QED
      BY <2>1, <3>1, LeastNumber
  <2>3. n \in 0..LegalBound /\ size(n) < n /\ size(n) \in Nat
    BY <1>3
  <2>4. n \in 1..LegalBound /\ n - 1 \in 0..LegalBound /\ n - 1 < n
    <3> HIDE DEF size
    <3>1. QED
      BY <1>1, <2>3
  <2>5. size(n - 1) \in Nat /\ ~(size(n - 1) < n - 1)
    BY <1>3, <2>2, <2>4
  <2>6. Within(n - 1) \subseteq Within(n) /\ Within(n - 1) # Within(n)
    BY <1>4, <2>4, WithinGrows
  <2>7. size(n - 1) <= size(n) /\ size(n - 1) # size(n)
    <3> DEFINE A == Within(n)
               B == Within(n - 1)
    <3>1. IsFiniteSet(A) /\ B \in SUBSET A /\ A # B
      BY <1>3, <2>3, <2>6
    <3> HIDE DEF A, B
    <3>2. Cardinality(B) <= Cardinality(A) /\ (Cardinality(A) = Cardinality(B) => A = B)
      BY <3>1, FS_Subset
    <3>3. QED
      BY <3>1, <3>2 DEF A, B
  <2> HIDE DEF size
  <2>8. QED
    BY <1>1, <2>3, <2>4, <2>5, <2>7
<1>6. Cardinality(Within(LegalBound)) = Cardinality(Ids)
  <2>1. LegalBound \in 0..LegalBound
    BY <1>1
  <2>2. ~(size(LegalBound) < LegalBound)
    BY <1>5, <2>1
  <2>3. size(LegalBound) \in Nat /\ size(LegalBound) <= Cardinality(Ids)
    BY <1>3, <2>1
  <2>4. size(LegalBound) = Cardinality(Ids)
    <3> HIDE DEF size
    <3>1. QED
      BY <1>1, <2>2, <2>3
  <2>5. QED
    BY <2>4
<1>7. Within(LegalBound) \in SUBSET Ids
  BY <1>1, <1>2
<1> DEFINE W == Within(LegalBound)
<1> HIDE DEF W
<1>8. W \in SUBSET Ids /\ Cardinality(W) = Cardinality(Ids)
  BY <1>6, <1>7 DEF W
<1>9. W = Ids
  BY <1>8, GrammarAssumption, FS_Subset
<1>10. QED
  BY <1>9 DEF W

\* The identities of the states that bounded histories reach are those of all
\* legal states.
LEMMA LegalIdentities ==
  ASSUME TypeOK, NEW H \in Histories, RecordsHistory(g, H), LegallyEquivariant(g)
  PROVE  /\ \A s \in LegallyReachable : s \in LegalStates(H)
         /\ \A s \in LegalStates(H) : \E t \in LegallyReachable : Canon(g, t) = Canon(g, s)
<1>1. LegalBound \in Nat /\ LegalBound \in 0..LegalBound
  BY BoundIsEnough
<1>2. \A s \in LegallyReachable : s \in LegalStates(H)
  BY <1>1, LegalPairs DEF LegallyReachable
<1>3. ASSUME NEW s \in LegalStates(H)
      PROVE  Canon(g, s) \in Within(LegalBound)
  <2>1. s \in States /\ Canon(g, s) \in Ids
    BY LegalStatesClosed, GrammarTypes DEF IsGrammar
  <2>2. CASE Within(LegalBound) = Ids
    BY <2>1, <2>2
  <2>3. CASE \E n \in 1..LegalBound : Within(n) = Within(n - 1)
    <3>1. PICK n \in 1..LegalBound : Within(n) = Within(n - 1)
      BY <2>3
    <3>2. PICK m \in 0..LegalBound : m = n - 1 /\ m + 1 = n /\ n # 0 /\ n \in 0..LegalBound
      BY <1>1
    <3> DEFINE C == {t \in States : Canon(g, t) \in Within(m)}
    <3>3. \A i \in DOMAIN InitialStates(g) : InitialStates(g)[i].st \in C
      <4> TAKE i \in DOMAIN InitialStates(g)
      <4> DEFINE root == <<InitialStates(g)[i].st, {InitialStates(g)[i].act} \cap Declared(g)>>
      <4>1. root \in LegalWithin[m]
        BY <3>2, WithinMonotonic DEF LegalRoots
      <4>2. root[1] = InitialStates(g)[i].st /\ InitialStates(g)[i].st \in States
        BY ReachableClosed
      <4> HIDE DEF root
      <4>3. QED
        BY <4>1, <4>2 DEF Within
    <3>4. ASSUME NEW t \in C, NEW a \in Actions, Legal(H, t, a)
          PROVE  Apply(t, a) \in C
      <4>1. t \in States /\ Apply(t, a) # Nil /\ Permitted(a, H[Canon(g, t)])
        BY <3>4 DEF Legal
      <4>2. Apply(t, a) \in States /\ Apply(t, a) = ApplyAction(g, t, a)
        BY <4>1, GrammarTypes, NilAssumption DEF Apply
      <4>3. PICK p \in LegalWithin[m] : Canon(g, t) = Canon(g, p[1])
        BY DEF Within
      <4>4. p[1] \in States /\ p[2] = H[Canon(g, p[1])]
        BY <3>2, LegalPairs, LegalStatesClosed
      <4>5. PICK b \in Actions :
              /\ ApplyAction(g, p[1], b) # Nil
              /\ Canon(g, ApplyAction(g, p[1], b)) = Canon(g, ApplyAction(g, t, a))
              /\ Footprint(g, b).requires \subseteq Footprint(g, a).requires
              /\ Footprint(g, b).conflicts \subseteq Footprint(g, a).conflicts
        BY <4>1, <4>2, <4>3, <4>4 DEF LegallyEquivariant
      <4>6. Permitted(b, p[2]) /\ Apply(p[1], b) = ApplyAction(g, p[1], b)
        BY <4>1, <4>3, <4>4, <4>5, NilAssumption DEF Permitted, Apply
      <4> DEFINE q == <<Apply(p[1], b), p[2] \cup ({b} \cap Declared(g))>>
      <4>7. q \in LegalSteps(p) /\ q[1] = Apply(p[1], b)
        BY <4>5, <4>6 DEF LegalSteps
      <4> HIDE DEF q
      <4>8. q \in LegalWithin[n]
        <5>1. LegalWithin[n] = Longer(LegalWithin[m])
          BY <3>2, LegalWithinUnfolds
        <5>2. QED
          BY <4>7, <5>1 DEF Longer
      <4>9. Canon(g, Apply(t, a)) \in Within(n)
        BY <4>2, <4>5, <4>6, <4>7, <4>8 DEF Within
      <4>10. QED
        BY <3>1, <3>2, <4>2, <4>9
    <3>5. LegalStates(H) \subseteq C
      <4>1. C \in SUBSET States /\ ClosedUnderLegal(H, C)
        BY <3>3, <3>4 DEF ClosedUnderLegal
      <4> HIDE DEF C
      <4>2. QED
        BY <4>1, LegalStatesClosed
    <3>6. Canon(g, s) \in Within(m)
      BY <3>5
    <3>7. QED
      BY <3>2, <3>6, WithinMonotonic
  <2>4. QED
    BY <2>2, <2>3, GrowthEnds
<1>4. QED
  BY <1>2, <1>3 DEF Within, LegallyReachable

-----------------------------------------------------------------------------
\* Paths and states of the records agree with the histories, and every record is
\* of a legal state.
TableLegal(tab, H) ==
  \A id \in Ids : tab[id] # Nil =>
    Taken(tab[id].path) = H[id] /\ tab[id].rep \in LegalStates(H)

ItemsLegal(H) == \A work \in InHand : Taken(work.path) = H[work.id]

PendingLegal(H) ==
  phase = "expanding" =>
    \A child \in Elements(pending) :
      /\ child.st \in LegalStates(H)
      /\ Taken(ChildPath(child.act)) = H[Canon(g, child.st)]

\* The legal successors of what was expanded have records.
LegalExplored(tab, H) ==
  \A id \in Ids, a \in Actions :
    /\ tab[id] # Nil
    /\ tab[id].status = "expanded"
    /\ Legal(H, tab[id].rep, a)
    => HasState(tab, Apply(tab[id].rep, a))

CurLegal(H) ==
  cur # Nil =>
    \A a \in Actions : Legal(H, table[cur.id].rep, a) =>
      \/ HasState(table, Apply(table[cur.id].rep, a))
      \/ \E j \in DOMAIN pending : pending[j].st = Apply(table[cur.id].rep, a)

DiskLegal(H) == disk # Nil => TableLegal(disk.table, H) /\ LegalExplored(disk.table, H)

LegalInv(H) ==
  /\ TableLegal(table, H) /\ ItemsLegal(H) /\ PendingLegal(H)
  /\ LegalExplored(table, H) /\ CurLegal(H) /\ DiskLegal(H)

\* Legality depends on the grammar alone.
LEMMA LegalFixed ==
  ASSUME g' = g, NEW H
  PROVE  /\ LegalStates(H)' = LegalStates(H)
         /\ \A path : Taken(path)' = Taken(path)
         /\ \A s, a : Legal(H, s, a)' <=> Legal(H, s, a)
BY DEF LegalStates, ClosedUnderLegal, Legal, Permitted, Apply, Taken, Declared

LEMMA DiskLegalStays ==
  ASSUME g' = g, disk' = disk, NEW H, DiskLegal(H)
  PROVE  DiskLegal(H)'
BY LegalFixed DEF DiskLegal, TableLegal, LegalExplored, HasState, Legal, Apply, Permitted

\* The declared actions of a path that goes on
LEMMA TakenAppend ==
  ASSUME NEW path \in Paths, NEW act \in Actions
  PROVE  /\ Taken(Append(path, act)) = Taken(path) \cup ({act} \cap Declared(g))
         /\ Taken(<<act>>) = {act} \cap Declared(g)
<1>1. Elements(Append(path, act)) = Elements(path) \cup {act}
  <2>1. /\ Len(path) \in Nat /\ DOMAIN path = 1..Len(path)
        /\ DOMAIN Append(path, act) = 1..(Len(path) + 1)
        /\ \A i \in 1..Len(path) : Append(path, act)[i] = path[i]
        /\ Append(path, act)[Len(path) + 1] = act
    BY DEF Paths
  <2>2. Len(path) + 1 \in 1..(Len(path) + 1) /\ 1..Len(path) \subseteq 1..(Len(path) + 1)
    BY <2>1
  <2>3. \A i \in 1..(Len(path) + 1) : i \in 1..Len(path) \/ i = Len(path) + 1
    BY <2>1
  <2>4. QED
    BY <2>1, <2>2, <2>3 DEF Elements
<1>2. Elements(<<act>>) = {act}
  BY DEF Elements
<1>3. QED
  BY <1>1, <1>2 DEF Taken

\* What add_state is given: a child, one of those pending.
LEMMA HeadPending ==
  ASSUME TypeOK, pending # <<>>
  PROVE  /\ Head(pending) \in [act : Actions, st : States]
         /\ Head(pending) \in Elements(pending)
         /\ Elements(Tail(pending)) \subseteq Elements(pending)
<1> DEFINE Children == [act : Actions, st : States]
<1>1. pending \in Seq(Children)
  BY DEF TypeOK
<1> HIDE DEF Children
<1>2. /\ Head(pending) \in Children /\ Head(pending) = pending[1]
      /\ Len(pending) \in Nat \ {0} /\ DOMAIN pending = 1..Len(pending)
      /\ DOMAIN Tail(pending) = 1..(Len(pending) - 1)
      /\ \A i \in 1..(Len(pending) - 1) : Tail(pending)[i] = pending[i + 1]
  BY <1>1, HeadTailTypes
<1>3. 1 \in DOMAIN pending /\ \A i \in 1..(Len(pending) - 1) : i + 1 \in DOMAIN pending
  BY <1>2
<1>4. QED
  BY <1>2, <1>3 DEF Elements, Children

\* A child gets a path whose history is that of its identity.
LEMMA AddStateLegal ==
  ASSUME FrontierInv, NEW H, LegalInv(H), AddState
  PROVE  LegalInv(H)'
<1> DEFINE child == Head(pending)
           x == Canon(g, child.st)
           path == ChildPath(child.act)
           prev == IF cur = Nil THEN Nil ELSE table[cur.id].rep
           item == [id |-> x, path |-> path, prev |-> prev]
<1>1. /\ phase = "expanding" /\ pending # <<>> /\ pending' = Tail(pending)
      /\ UNCHANGED <<g, cur, disk, phase>> /\ TypeOK
  BY DEF AddState, FrontierInv
<1>2. /\ child \in Elements(pending) /\ child.st \in States /\ child.act \in Actions
      /\ Elements(pending') \subseteq Elements(pending)
  BY <1>1, HeadPending
<1>3. Taken(path) = H[x] /\ child.st \in LegalStates(H)
  BY <1>1, <1>2 DEF LegalInv, PendingLegal
<1>4. /\ x \in Ids
      /\ \A id \in Ids \ {x} : table'[id] = table[id]
      /\ table'[x] # Nil
      /\ table[x] = Nil => table'[x].rep = child.st /\ table'[x].status = "queued"
      /\ table[x] # Nil => table'[x].rep = table[x].rep /\ table'[x].status = table[x].status
  BY AddedRecord
<1>5. \A id \in Ids : table'[id] # Nil =>
        \/ table[id] # Nil /\ table'[id].path = table[id].path
        \/ table'[id].path = path
  BY AddedPath
<1>6. InHand' \subseteq InHand \cup {item}
  <2>1. queue' = queue \/ queue' = Append(queue, item)
    BY DEF AddState
  <2> HIDE DEF item
  <2>2. queue \in Seq(WorkItems)
    BY <1>1 DEF TypeOK
  <2>3. Elements(queue') \subseteq Elements(queue) \cup {item}
    BY <2>1, <2>2 DEF Elements
  <2>4. QED
    BY <1>1, <2>3 DEF InHand
<1>7. item.path = path /\ item.id = x
  OBVIOUS
<1>8. /\ LegalStates(H)' = LegalStates(H)
      /\ \A p : Taken(p)' = Taken(p)
      /\ \A s, a : Legal(H, s, a)' <=> Legal(H, s, a)
  BY <1>1, LegalFixed
<1>9. \A s \in States : Canon(g, s) \in Ids /\ (HasState(table, s) => HasState(table', s))
  BY <1>1, <1>4, GrammarTypes DEF HasState, IsGrammar
<1>10. TableLegal(table, H)'
  <2> SUFFICES ASSUME NEW id \in Ids, table'[id] # Nil
               PROVE  Taken(table'[id].path) = H[id] /\ table'[id].rep \in LegalStates(H)
    BY <1>8 DEF TableLegal
  <2>1. CASE id # x
    BY <1>4, <2>1 DEF LegalInv, TableLegal
  <2>2. CASE id = x
    <3> HIDE DEF child, x, path
    <3>1. table'[x].rep \in LegalStates(H)
      BY <1>3, <1>4 DEF LegalInv, TableLegal
    <3>2. Taken(table'[x].path) = H[x]
      BY <1>3, <1>4, <1>5 DEF LegalInv, TableLegal
    <3>3. QED
      BY <2>2, <3>1, <3>2
  <2>3. QED
    BY <2>1, <2>2
<1>11. ItemsLegal(H)'
  <2> HIDE DEF item, child, x, path
  <2>1. \A work \in InHand' : Taken(work.path) = H[work.id]
    BY <1>3, <1>6, <1>7 DEF LegalInv, ItemsLegal
  <2>2. QED
    BY <1>8, <2>1 DEF ItemsLegal
<1>12. PendingLegal(H)'
  <2>1. \A c \in Elements(pending') : /\ c.st \in LegalStates(H)
                                      /\ Taken(ChildPath(c.act)) = H[Canon(g, c.st)]
    BY <1>1, <1>2 DEF LegalInv, PendingLegal
  <2>2. \A act : ChildPath(act)' = ChildPath(act)
    BY <1>1 DEF ChildPath
  <2>3. \A act : Taken(ChildPath(act))' = Taken(ChildPath(act))
    BY <1>1, <2>2 DEF Taken, Elements, Declared
  <2>4. QED
    BY <1>1, <1>8, <2>1, <2>3 DEF PendingLegal, Elements
<1>13. LegalExplored(table, H)'
  <2> SUFFICES ASSUME NEW id \in Ids, NEW a \in Actions, table'[id] # Nil,
                      table'[id].status = "expanded", Legal(H, table'[id].rep, a)
               PROVE  HasState(table', Apply(table'[id].rep, a))
    BY <1>1, <1>8 DEF LegalExplored, HasState, Apply, Legal, Permitted
  <2> HIDE DEF child, x
  <2>1. table[id] # Nil /\ table'[id].rep = table[id].rep /\ table[id].status = "expanded"
    BY <1>4
  <2>2. HasState(table, Apply(table[id].rep, a)) /\ Apply(table[id].rep, a) # Nil
    BY <2>1 DEF LegalInv, LegalExplored, Legal
  <2>3. Apply(table[id].rep, a) \in States
    BY <1>1, <2>1, <2>2, SuccessorType
  <2>4. QED
    BY <1>9, <2>1, <2>2, <2>3
<1>14. CurLegal(H)'
  <2> SUFFICES ASSUME cur # Nil, NEW a \in Actions, Legal(H, table'[cur.id].rep, a)
               PROVE  \/ HasState(table', Apply(table'[cur.id].rep, a))
                      \/ \E j \in DOMAIN pending' : pending'[j].st = Apply(table'[cur.id].rep, a)
    BY <1>1, <1>8 DEF CurLegal, HasState, Apply, Legal, Permitted
  <2>1. cur.id \in Ids /\ table[cur.id] # Nil
    BY QueuedItemsKnown, NilAssumption DEF WorkItems
  <2> HIDE DEF child, x
  <2>2. table'[cur.id].rep = table[cur.id].rep
    BY <1>4, <2>1
  <2>3. \/ HasState(table, Apply(table[cur.id].rep, a))
        \/ \E j \in DOMAIN pending : pending[j].st = Apply(table[cur.id].rep, a)
    BY <2>2 DEF LegalInv, CurLegal
  <2>4. Apply(table[cur.id].rep, a) \in States
    BY <1>1, <2>1, <2>2, SuccessorType DEF Legal
  <2>5. QED
    BY <2>2, <2>3, <2>4, PendingAdded
<1>15. DiskLegal(H)'
  BY <1>1, DiskLegalStays DEF LegalInv
<1>16. QED
  BY <1>10, <1>11, <1>12, <1>13, <1>14, <1>15 DEF LegalInv

\* Without POR the legal actions of a popped item are the ones that become pending.
LEMMA PopTakesLegal ==
  ASSUME TypeOK, ~Reduces(g), NEW H, NEW work \in WorkItems, table[work.id] \in Records,
         Canon(g, table[work.id].rep) = work.id, Taken(work.path) = H[work.id],
         NEW por \in PorChoices(EnabledActions(g, table[work.id].rep)),
         NEW order \in Ranked(ViableActions(work, por))
  PROVE  /\ \A i \in DOMAIN order : order[i] \in Actions /\ Legal(H, table[work.id].rep, order[i])
         /\ \A a \in Actions : Legal(H, table[work.id].rep, a) => \E i \in DOMAIN order : order[i] = a
<1> DEFINE rep == table[work.id].rep
           S == ViableActions(work, por)
<1>1. rep \in States /\ rep # Nil
  BY NilAssumption DEF Records
<1>2. \A a : ~(por /\ PorAvoided(work, a))
  BY DEF PorChoices, PorAvoided, Independent, Reduces
<1>3. \A a \in Actions : DependencyBlocked(a, work.path) <=> ~Permitted(a, H[Canon(g, rep)])
  BY BlockedByHistory
<1>4. \A a \in S : a \in Actions /\ Legal(H, rep, a)
  <2>1. \A a \in S : a \in Actions
    BY <1>1, GrammarTypes DEF ViableActions, IsGrammar
  <2>2. QED
    BY <1>3, <2>1 DEF ViableActions, Legal
<1>5. \A a \in Actions : Legal(H, rep, a) => a \in S
  <2> SUFFICES ASSUME NEW a \in Actions, Legal(H, rep, a) PROVE a \in S
    OBVIOUS
  <2>1. a \in EnabledActions(g, rep)
    BY <1>1, GrammarTypes DEF Legal, Apply, IsGrammar
  <2>2. QED
    BY <1>2, <1>3, <2>1 DEF ViableActions, Legal
<1>6. order \in Orderings(S)
  BY DEF Ranked
<1> HIDE DEF S
<1>7. QED
  BY <1>4, <1>5, <1>6 DEF Orderings

\* A change of status, other than to "expanded", keeps what the table promises.
LEMMA StatusKeepsLegal ==
  ASSUME FrontierInv, NEW x \in Ids, table[x] \in Records, NEW status \in Statuses, g' = g,
         table' = [table EXCEPT ![x] = WithStatus(@, status)], NEW H, LegalInv(H)
  PROVE  /\ TableLegal(table, H)'
         /\ \A s \in States : HasState(table, s) => HasState(table', s)
         /\ \A id \in Ids : table[id] # Nil <=> table'[id] # Nil
         /\ \A id \in Ids : table[id] # Nil => table'[id].rep = table[id].rep
         /\ \A id \in Ids \ {x} : table'[id] = table[id]
         /\ table'[x].status = status
<1>1. /\ \A id \in Ids \ {x} : table'[id] = table[id]
      /\ table'[x] # Nil
      /\ table'[x].rep = table[x].rep
      /\ table'[x].status = status
      /\ \A s \in States : HasState(table, s) => HasState(table', s)
      /\ \A id \in Ids : table[id] # Nil <=> table'[id] # Nil
  BY StatusKeepsStates DEF FrontierInv
<1>2. table'[x].path = table[x].path
  <2>1. table'[x] = WithStatus(table[x], status)
    BY DEF FrontierInv, TypeOK, Tables
  <2>2. QED
    BY <2>1 DEF WithStatus
<1>3. TableLegal(table, H)'
  <2>1. \A id \in Ids : table'[id] # Nil =>
          Taken(table'[id].path) = H[id] /\ table'[id].rep \in LegalStates(H)
    BY <1>1, <1>2 DEF LegalInv, TableLegal
  <2>2. QED
    BY <2>1, LegalFixed DEF TableLegal
<1>4. QED
  BY <1>1, <1>3

\* A popped item's legal actions become pending, with the histories they lead to.
LEMMA PopLegal ==
  ASSUME FrontierInv, CoverInv, ~Reduces(g), NEW H, RecordsHistory(g, H), LegalInv(H), Pop
  PROVE  LegalInv(H)'
<1> DEFINE work == Head(queue)
           record == table[work.id]
<1>1. /\ cur = Nil /\ queue # <<>> /\ queue' = Tail(queue) /\ phase = "loop" /\ TypeOK
      /\ UNCHANGED <<g, disk>>
  BY DEF FrontierInv, CurWhileExpanding, Pop
<1>2. /\ work \in WorkItems /\ work.id \in Ids /\ record \in Records /\ record.status = "queued"
      /\ record # Nil /\ work # Nil
  BY <1>1, HeadIsUnique, NilAssumption DEF WorkItems
<1>3. work \in InHand /\ Elements(queue)' \subseteq InHand
  BY <1>1, TailInHand
<1>4. /\ LegalStates(H)' = LegalStates(H)
      /\ \A p : Taken(p)' = Taken(p)
      /\ \A s, a : Legal(H, s, a)' <=> Legal(H, s, a)
  BY <1>1, LegalFixed
<1>5. DiskLegal(H)'
  BY <1>1, DiskLegalStays DEF LegalInv
<1>6. Canon(g, record.rep) = work.id /\ Taken(work.path) = H[work.id]
      /\ record.rep \in LegalStates(H) /\ record.rep \in States /\ work.path \in Paths
  BY <1>2, <1>3 DEF CoverInv, TableSound, LegalInv, ItemsLegal, TableLegal, Records, WorkItems
<1>7. CASE /\ table' = [table EXCEPT ![work.id] = WithStatus(@, "terminal")]
           /\ UNCHANGED <<phase, cur, pending>>
  <2> HIDE DEF work
  <2>1. /\ TableLegal(table, H)'
        /\ \A s \in States : HasState(table, s) => HasState(table', s)
        /\ \A id \in Ids : table[id] # Nil <=> table'[id] # Nil
        /\ \A id \in Ids : table[id] # Nil => table'[id].rep = table[id].rep
        /\ \A id \in Ids \ {work.id} : table'[id] = table[id]
        /\ table'[work.id].status = "terminal"
    BY <1>1, <1>2, <1>7, StatusKeepsLegal DEF Statuses
  <2>2. ItemsLegal(H)'
    <3>1. InHand' \subseteq InHand
      BY <1>1, <1>3, <1>7 DEF InHand
    <3>2. QED
      BY <1>4, <3>1 DEF LegalInv, ItemsLegal
  <2>3. LegalExplored(table, H)'
    <3> SUFFICES ASSUME NEW id \in Ids, NEW a \in Actions, table'[id] # Nil,
                        table'[id].status = "expanded", Legal(H, table'[id].rep, a)
                 PROVE  HasState(table', Apply(table'[id].rep, a))
      BY <1>1, <1>4 DEF LegalExplored, HasState, Apply, Legal, Permitted
    <3>1. id # work.id /\ table'[id] = table[id]
      BY <2>1
    <3>2. HasState(table, Apply(table[id].rep, a)) /\ Apply(table[id].rep, a) # Nil
      BY <3>1 DEF LegalInv, LegalExplored, Legal
    <3>3. Apply(table[id].rep, a) \in States
      BY <1>1, <3>1, <3>2, SuccessorType
    <3>4. QED
      BY <2>1, <3>1, <3>2, <3>3
  <2>4. PendingLegal(H)' /\ CurLegal(H)'
    BY <1>1, <1>7 DEF PendingLegal, CurLegal
  <2>5. QED
    BY <1>5, <2>1, <2>2, <2>3, <2>4 DEF LegalInv
<1>8. CASE /\ \E por \in PorChoices(EnabledActions(g, record.rep)) :
              \E order \in Ranked(ViableActions(work, por)) :
                pending' = [i \in DOMAIN order |->
                              [act |-> order[i], st |-> Apply(record.rep, order[i])]]
           /\ cur' = work
           /\ UNCHANGED table
  <2>1. PICK por \in PorChoices(EnabledActions(g, record.rep)) :
          \E order \in Ranked(ViableActions(work, por)) :
            pending' = [i \in DOMAIN order |->
                          [act |-> order[i], st |-> Apply(record.rep, order[i])]]
    BY <1>8
  <2>2. PICK order \in Ranked(ViableActions(work, por)) :
          pending' = [i \in DOMAIN order |->
                        [act |-> order[i], st |-> Apply(record.rep, order[i])]]
    BY <2>1
  <2> HIDE DEF work
  <2>3. /\ \A i \in DOMAIN order : order[i] \in Actions /\ Legal(H, record.rep, order[i])
        /\ \A a \in Actions : Legal(H, record.rep, a) => \E i \in DOMAIN order : order[i] = a
    BY <1>1, <1>2, <1>6, PopTakesLegal
  <2>4. TableLegal(table, H)'
    BY <1>4, <1>8 DEF LegalInv, TableLegal
  <2>5. ItemsLegal(H)'
    <3>1. InHand' \subseteq InHand
      BY <1>1, <1>3, <1>8 DEF InHand
    <3>2. QED
      BY <1>4, <3>1 DEF LegalInv, ItemsLegal
  <2>6. LegalExplored(table, H)'
    BY <1>1, <1>4, <1>8 DEF LegalInv, LegalExplored, HasState, Apply, Legal, Permitted
  <2>7. PendingLegal(H)'
    <3>1. ASSUME NEW child \in Elements(pending')
          PROVE  /\ child.st \in LegalStates(H)
                 /\ Taken(Append(work.path, child.act)) = H[Canon(g, child.st)]
      <4>1. PICK i \in DOMAIN order : child = [act |-> order[i], st |-> Apply(record.rep, order[i])]
        BY <2>2 DEF Elements
      <4>2. PICK a \in Actions : a = order[i] /\ Legal(H, record.rep, a)
        BY <2>3
      <4>3. child.act = a /\ child.st = Apply(record.rep, a) /\ Apply(record.rep, a) # Nil
        BY <4>1, <4>2 DEF Legal
      <4>4. child.st \in LegalStates(H)
        BY <1>1, <1>6, <4>2, <4>3, LegalStatesClosed
      <4>5. H[Canon(g, child.st)] = H[work.id] \cup ({a} \cap Declared(g))
        BY <1>1, <1>6, <4>3, HistoryGrows
      <4>6. QED
        BY <1>6, <4>3, <4>4, <4>5, TakenAppend
    <3>2. \A act : ChildPath(act)' = Append(work.path, act)
      BY <1>2, <1>8 DEF ChildPath
    <3>3. \A act : Taken(ChildPath(act))' = Taken(Append(work.path, act))
      BY <1>1, <3>2 DEF Taken, Elements, Declared
    <3>4. QED
      BY <1>1, <1>4, <3>1, <3>3 DEF PendingLegal, Elements
  <2>8. CurLegal(H)'
    <3>1. \A a \in Actions : Legal(H, record.rep, a) =>
            \E j \in DOMAIN pending' : pending'[j].st = Apply(record.rep, a)
      BY <2>2, <2>3
    <3>2. QED
      BY <1>1, <1>4, <1>8, <3>1 DEF CurLegal, Apply, Legal, Permitted
  <2>9. QED
    BY <1>5, <2>4, <2>5, <2>6, <2>7, <2>8 DEF LegalInv
<1>9. QED
  BY <1>2, <1>7, <1>8 DEF Pop

\* The record in hand is explored when no child is left.
LEMMA EndExpansionLegal ==
  ASSUME FrontierInv, NEW H, LegalInv(H), EndExpansion
  PROVE  LegalInv(H)'
<1>1. /\ pending = <<>> /\ cur' = Nil /\ phase' = "loop" /\ TypeOK /\ UNCHANGED <<g, queue, disk>>
      /\ table' = IF cur = Nil THEN table ELSE [table EXCEPT ![cur.id] = WithStatus(@, "expanded")]
  BY DEF EndExpansion, FrontierInv
<1>2. /\ LegalStates(H)' = LegalStates(H)
      /\ \A p : Taken(p)' = Taken(p)
      /\ \A s, a : Legal(H, s, a)' <=> Legal(H, s, a)
  BY <1>1, LegalFixed
<1>3. ItemsLegal(H)'
  <2>1. InHand' \subseteq InHand
    BY <1>1 DEF InHand, Elements
  <2>2. QED
    BY <1>2, <2>1 DEF LegalInv, ItemsLegal
<1>4. PendingLegal(H)' /\ CurLegal(H)' /\ DiskLegal(H)'
  BY <1>1, DiskLegalStays DEF PendingLegal, CurLegal, LegalInv
<1>5. TableLegal(table, H)' /\ LegalExplored(table, H)'
  <2>1. CASE cur = Nil
    BY <1>1, <1>2, <2>1 DEF LegalInv, TableLegal, LegalExplored, HasState, Apply, Legal, Permitted
  <2>2. CASE cur # Nil
    <3>1. PICK x \in Ids : x = cur.id /\ table[x] \in Records
      BY <2>2, QueuedItemsKnown DEF WorkItems
    <3>2. /\ TableLegal(table, H)'
          /\ \A s \in States : HasState(table, s) => HasState(table', s)
          /\ \A id \in Ids : table[id] # Nil <=> table'[id] # Nil
          /\ \A id \in Ids : table[id] # Nil => table'[id].rep = table[id].rep
          /\ \A id \in Ids \ {x} : table'[id] = table[id]
      BY <1>1, <2>2, <3>1, StatusKeepsLegal DEF Statuses
    <3>3. ASSUME NEW id \in Ids, NEW a \in Actions, table'[id] # Nil,
                 table'[id].status = "expanded", Legal(H, table'[id].rep, a)
          PROVE  HasState(table', Apply(table'[id].rep, a))
      <4>1. table[id] # Nil /\ table'[id].rep = table[id].rep
        BY <3>2, <3>3
      <4>2. Apply(table[id].rep, a) \in States
        BY <1>1, <3>3, <4>1, SuccessorType DEF Legal
      <4>3. HasState(table, Apply(table[id].rep, a))
        <5>1. CASE id = x
          BY <1>1, <2>2, <3>1, <3>3, <4>1, <5>1 DEF LegalInv, CurLegal
        <5>2. CASE id # x
          BY <3>2, <3>3, <4>1, <5>2 DEF LegalInv, LegalExplored
        <5>3. QED
          BY <5>1, <5>2
      <4>4. QED
        BY <3>2, <4>1, <4>2, <4>3
    <3>4. LegalExplored(table, H)'
      BY <1>1, <1>2, <3>3 DEF LegalExplored, HasState, Apply, Legal, Permitted
    <3>5. QED
      BY <3>2, <3>4
  <2>3. QED
    BY <2>1, <2>2
<1>6. QED
  BY <1>3, <1>4, <1>5 DEF LegalInv

\* Every root is pending, with its own action as history.
LEMMA StartLegal ==
  ASSUME FrontierInv, NEW H, RecordsHistory(g, H), LegalInv(H), Start
  PROVE  LegalInv(H)'
<1>1. /\ phase' = "expanding" /\ pending' = InitialStates(g) /\ cur = Nil /\ TypeOK
      /\ UNCHANGED <<g, table, queue, cur, disk>>
  BY DEF Start, FrontierInv, CurWhileExpanding
<1>2. /\ LegalStates(H)' = LegalStates(H)
      /\ \A p : Taken(p)' = Taken(p)
      /\ \A s, a : Legal(H, s, a)' <=> Legal(H, s, a)
  BY <1>1, LegalFixed
<1>3. /\ TableLegal(table, H)' /\ LegalExplored(table, H)'
      /\ ItemsLegal(H)' /\ CurLegal(H)' /\ DiskLegal(H)'
  <2>1. InHand' = InHand
    BY <1>1 DEF InHand, Elements
  <2>2. DiskLegal(H)'
    BY <1>1, DiskLegalStays DEF LegalInv
  <2>3. QED
    BY <1>1, <1>2, <2>1, <2>2 DEF LegalInv, TableLegal, LegalExplored, ItemsLegal, CurLegal,
                                  HasState, Apply, Legal, Permitted
<1>4. PendingLegal(H)'
  <2>1. ASSUME NEW child \in Elements(pending')
        PROVE  child.st \in LegalStates(H) /\ Taken(<<child.act>>) = H[Canon(g, child.st)]
    <3>1. PICK i \in DOMAIN InitialStates(g) : child = InitialStates(g)[i]
      BY <1>1 DEF Elements
    <3>2. child.st \in LegalStates(H)
      BY <1>1, <3>1, LegalStatesClosed
    <3>3. H[Canon(g, child.st)] = {child.act} \cap Declared(g)
      BY <3>1 DEF RecordsHistory
    <3>4. QED
      BY <3>2, <3>3 DEF Taken, Elements
  <2>2. \A act : ChildPath(act)' = <<act>>
    BY <1>1 DEF ChildPath
  <2>3. \A act : Taken(ChildPath(act))' = Taken(<<act>>)
    BY <1>1, <2>2 DEF Taken, Elements, Declared
  <2>4. QED
    BY <1>1, <1>2, <2>1, <2>3 DEF PendingLegal, Elements
<1>5. QED
  BY <1>3, <1>4 DEF LegalInv

\* Leaving the loop and saving: memory stays, and the file may become its copy.
LEMMA StopLegal ==
  ASSUME FrontierInv, NEW H, LegalInv(H), StopAtBudget \/ StopAtLimit \/ Finish \/ Save
  PROVE  LegalInv(H)'
<1>1. /\ UNCHANGED <<g, table, queue, cur, pending>> /\ cur = Nil
      /\ phase' \in {"result", "done", "stopped"}
      /\ disk' = disk \/ disk' = Checkpoint
  BY DEF StopAtBudget, StopAtLimit, Finish, Save, FrontierInv, CurWhileExpanding
<1>2. /\ LegalStates(H)' = LegalStates(H)
      /\ \A p : Taken(p)' = Taken(p)
      /\ \A s, a : Legal(H, s, a)' <=> Legal(H, s, a)
  BY <1>1, LegalFixed
<1>3. TableLegal(table, H)' /\ LegalExplored(table, H)'
  BY <1>1, <1>2 DEF LegalInv, TableLegal, LegalExplored, HasState, Apply, Legal, Permitted
<1>4. ItemsLegal(H)' /\ CurLegal(H)' /\ PendingLegal(H)'
  <2>1. InHand' = InHand
    BY <1>1 DEF InHand, Elements
  <2>2. QED
    BY <1>1, <1>2, <2>1 DEF LegalInv, ItemsLegal, CurLegal, PendingLegal
<1>5. DiskLegal(H)'
  <2>1. CASE disk' = disk
    BY <1>1, <2>1, DiskLegalStays DEF LegalInv
  <2>2. CASE disk' = Checkpoint
    <3>1. disk'.table = table'
      BY <1>1, <2>2 DEF Checkpoint
    <3>2. QED
      BY <1>3, <3>1 DEF DiskLegal, TableLegal, LegalExplored, HasState
  <2>3. QED
    BY <1>1, <2>1, <2>2
<1>6. QED
  BY <1>3, <1>4, <1>5 DEF LegalInv

LEMMA ClearedLegal ==
  ASSUME ClearMemory, g' = g, disk' = disk, NEW H, LegalInv(H)
  PROVE  LegalInv(H)'
<1>1. InHand' = {} /\ cur' = Nil /\ pending' = <<>> /\ \A id \in Ids : table'[id] = Nil
  BY DEF ClearMemory, InHand, Elements, EmptyTable
<1>2. Elements(pending)' = {}
  BY <1>1 DEF Elements
<1>3. DiskLegal(H)'
  BY DiskLegalStays DEF LegalInv
<1>4. QED
  BY <1>1, <1>2, <1>3 DEF LegalInv, TableLegal, LegalExplored, ItemsLegal, PendingLegal, CurLegal

\* A resumed item has the path of its record.
LEMMA ResumeLegal ==
  ASSUME FrontierInv, NEW H, LegalInv(H), Resume
  PROVE  LegalInv(H)'
<1>1. disk # Nil /\ cur = Nil /\ TypeOK /\ UNCHANGED <<g, disk>>
  BY DEF Resume, FrontierInv, CurWhileExpanding
<1>2. CASE ClearMemory
  BY <1>1, <1>2, ClearedLegal
<1>3. CASE \E order \in Orderings(Unexplored(disk.table)) :
             /\ queue' = [i \in DOMAIN order |->
                            RestoredItem(order[i], disk.table[order[i]].path)]
             /\ table' = disk.table /\ phase' = "loop" /\ UNCHANGED <<cur, pending>>
  <2>1. PICK order \in Orderings(Unexplored(disk.table)) :
          queue' = [i \in DOMAIN order |->
                      RestoredItem(order[i], disk.table[order[i]].path)]
    BY <1>3
  <2>2. /\ LegalStates(H)' = LegalStates(H)
        /\ \A p : Taken(p)' = Taken(p)
        /\ \A s, a : Legal(H, s, a)' <=> Legal(H, s, a)
    BY <1>1, LegalFixed
  <2>3. TableLegal(disk.table, H) /\ LegalExplored(disk.table, H)
    BY <1>1 DEF LegalInv, DiskLegal
  <2>4. TableLegal(table, H)' /\ LegalExplored(table, H)'
    BY <1>1, <1>3, <2>2, <2>3 DEF TableLegal, LegalExplored, HasState, Apply, Legal, Permitted
  <2>5. ASSUME NEW work \in InHand' PROVE Taken(work.path) = H[work.id]
    <3>1. PICK i \in DOMAIN order : work = RestoredItem(order[i], disk.table[order[i]].path)
      BY <1>1, <1>3, <2>1, <2>5 DEF InHand, Elements
    <3>2. order[i] \in Ids /\ disk.table[order[i]] # Nil
      BY DEF Orderings, Unexplored
    <3>3. work.id = order[i] /\ work.path = disk.table[order[i]].path
      BY <3>1 DEF RestoredItem
    <3>4. QED
      BY <2>3, <3>2, <3>3 DEF TableLegal
  <2>6. ItemsLegal(H)'
    BY <2>2, <2>5 DEF ItemsLegal
  <2>7. PendingLegal(H)' /\ CurLegal(H)' /\ DiskLegal(H)'
    BY <1>1, <1>3, DiskLegalStays DEF PendingLegal, CurLegal, LegalInv
  <2>8. QED
    BY <2>4, <2>6, <2>7 DEF LegalInv
<1>4. QED
  BY <1>2, <1>3 DEF Resume

LEMMA NextLegal ==
  ASSUME FrontierInv, CoverInv, ~Reduces(g), NEW H, RecordsHistory(g, H), LegalInv(H),
         [Next]_vars
  PROVE  LegalInv(H)'
<1>1. CASE Ended \/ UNCHANGED vars
  <2>1. UNCHANGED <<g, phase, table, queue, cur, pending, disk>>
    BY <1>1 DEF Ended, vars
  <2>2. /\ LegalStates(H)' = LegalStates(H)
        /\ \A p : Taken(p)' = Taken(p)
        /\ \A s, a : Legal(H, s, a)' <=> Legal(H, s, a)
    BY <2>1, LegalFixed
  <2>3. /\ TableLegal(table, H)' /\ LegalExplored(table, H)' /\ CurLegal(H)' /\ DiskLegal(H)'
    <3>1. DiskLegal(H)'
      BY <2>1, DiskLegalStays DEF LegalInv
    <3>2. QED
      BY <2>1, <2>2, <3>1 DEF LegalInv, TableLegal, LegalExplored, CurLegal, HasState, Apply,
                              Legal, Permitted
  <2>4. ItemsLegal(H)' /\ PendingLegal(H)'
    <3>1. InHand' = InHand /\ Elements(pending)' = Elements(pending)
      BY <2>1 DEF InHand, Elements
    <3>2. \A act : Taken(ChildPath(act))' = Taken(ChildPath(act))
      BY <2>1 DEF Taken, Elements, Declared, ChildPath
    <3>3. QED
      BY <2>1, <2>2, <3>1, <3>2 DEF LegalInv, ItemsLegal, PendingLegal
  <2>5. QED
    BY <2>3, <2>4 DEF LegalInv
<1>2. CASE Crash
  <2>1. g' = g /\ disk' = disk /\ ClearMemory
    BY <1>2 DEF Crash
  <2>2. QED
    BY <2>1, ClearedLegal
<1>3. QED
  BY <1>1, <1>2, StartLegal, AddStateLegal, PopLegal, EndExpansionLegal, StopLegal, ResumeLegal
     DEF Next, Engine

HistoryInv == ~Reduces(g) => \A H \in Histories : RecordsHistory(g, H) => LegalInv(H)

LEMMA HistoryInvariant == Spec => []HistoryInv
<1>1. Init => HistoryInv
  <2> SUFFICES ASSUME Init, NEW H \in Histories PROVE LegalInv(H)
    BY DEF HistoryInv
  <2>1. /\ InHand = {} /\ cur = Nil /\ disk = Nil /\ phase = "idle"
        /\ \A id \in Ids : table[id] = Nil
    BY DEF Init, InHand, Elements, EmptyTable
  <2>2. QED
    BY <2>1 DEF LegalInv, TableLegal, LegalExplored, ItemsLegal, PendingLegal, CurLegal, DiskLegal
<1>2. ASSUME FrontierInv, CoverInv, HistoryInv, [Next]_vars
      PROVE  HistoryInv'
  <2>1. g' = g
    BY <1>2, GrammarFixed
  <2>2. ASSUME ~Reduces(g), NEW H \in Histories, RecordsHistory(g, H) PROVE LegalInv(H)'
    BY <1>2, <2>2, NextLegal DEF HistoryInv
  <2>3. QED
    BY <2>1, <2>2 DEF HistoryInv, RecordsHistory, Reduces, Declared
<1>3. FrontierInv /\ CoverInv /\ HistoryInv /\ [Next]_vars => HistoryInv'
  BY <1>2
<1>4. QED
  BY <1>1, <1>3, FrontierInvariant, CoverInvariant, PTL DEF Spec

-----------------------------------------------------------------------------
\* A drained search has the terminals among the legal states.
LEMMA DrainedIsLegal ==
  ASSUME FrontierInv, CoverInv, NEW H \in Histories, RecordsHistory(g, H), LegalInv(H),
         LegallyEquivariant(g), phase \in {"result", "done"}, complete
  PROVE  terminals = {Canon(g, s) : s \in LegalStates(H) \cap TerminalStates(g)}
<1>1. queue = <<>> /\ cur = Nil
  BY DEF CoverInv, CompleteMeansDrained, FrontierInv, CurWhileExpanding
<1>2. QueuedIds = {}
  <2>1. {queue[i].id : i \in DOMAIN queue} = {}
    BY <1>1
  <2>2. QED
    BY <1>1, <2>1 DEF FrontierInv, FrontierOwned
<1>3. \A id \in Ids : table[id] # Nil =>
        /\ table[id].rep \in States
        /\ table[id].status \in {"expanded", "terminal"}
  BY <1>2 DEF FrontierInv, TypeOK, Tables, Records, Statuses, QueuedIds, Known
<1>4. IsGrammar(g) /\ TypeOK
  BY GrammarTypes DEF FrontierInv
<1> DEFINE U == {s \in States : HasState(table, s)}
<1>5. ClosedUnderLegal(H, U)
  <2>1. \A i \in DOMAIN InitialStates(g) : InitialStates(g)[i].st \in U
    BY <1>4, ReachableClosed DEF CoverInv, Rooted
  <2>2. ASSUME NEW s \in U, NEW a \in Actions, Legal(H, s, a)
        PROVE  Apply(s, a) \in U
    <3> DEFINE r == table[Canon(g, s)].rep
    <3>1. Canon(g, s) \in Ids /\ table[Canon(g, s)] # Nil
      BY <1>4 DEF HasState, IsGrammar
    <3>2. r \in States /\ Canon(g, r) = Canon(g, s)
      BY <1>3, <3>1 DEF CoverInv, TableSound
    <3>3. /\ s \in States /\ ApplyAction(g, s, a) # Nil /\ Apply(s, a) = ApplyAction(g, s, a)
          /\ Permitted(a, H[Canon(g, s)])
      BY <2>2, NilAssumption DEF Legal, Apply
    <3>4. r \notin TerminalStates(g)
      <4>1. s \notin TerminalStates(g)
        BY <1>4, <3>3 DEF IsGrammar
      <4>2. QED
        BY <1>4, <3>2, <3>3, <4>1 DEF IsGrammar
    <3>5. table[Canon(g, s)].status = "expanded"
      BY <1>3, <3>1, <3>4 DEF CoverInv, TableSound
    <3>6. PICK b \in Actions : /\ ApplyAction(g, r, b) # Nil
                               /\ Canon(g, ApplyAction(g, r, b)) = Canon(g, ApplyAction(g, s, a))
                               /\ Footprint(g, b).requires \subseteq Footprint(g, a).requires
                               /\ Footprint(g, b).conflicts \subseteq Footprint(g, a).conflicts
      BY <3>2, <3>3 DEF LegallyEquivariant
    <3>7. Apply(r, b) = ApplyAction(g, r, b) /\ Legal(H, r, b)
      BY <3>2, <3>3, <3>6, NilAssumption DEF Legal, Apply, Permitted
    <3>8. HasState(table, Apply(r, b))
      BY <3>1, <3>5, <3>7 DEF LegalInv, LegalExplored
    <3>9. Apply(s, a) \in States
      BY <1>4, <3>3, GrammarTypes
    <3>10. QED
      BY <3>3, <3>6, <3>7, <3>8, <3>9 DEF HasState
  <2>3. QED
    BY <2>1, <2>2 DEF ClosedUnderLegal
<1>6. LegalStates(H) \subseteq U
  BY <1>4, <1>5, LegalStatesClosed
<1>7. ASSUME NEW s \in LegalStates(H) \cap TerminalStates(g)
      PROVE  Canon(g, s) \in terminals
  <2>1. s \in States /\ Canon(g, s) \in Ids /\ table[Canon(g, s)] # Nil
    BY <1>4, <1>6 DEF HasState, IsGrammar
  <2>2. table[Canon(g, s)].rep \in TerminalStates(g)
    BY <1>3, <1>4, <2>1 DEF CoverInv, TableSound, IsGrammar
  <2>3. table[Canon(g, s)].status = "terminal"
    BY <1>3, <2>1, <2>2 DEF CoverInv, TableSound
  <2>4. QED
    BY <2>1, <2>3 DEF CoverInv, TerminalsMarked
<1>8. ASSUME NEW id \in terminals
      PROVE  \E s \in LegalStates(H) \cap TerminalStates(g) : id = Canon(g, s)
  <2>1. id \in Ids /\ table[id] # Nil /\ table[id].status = "terminal"
    BY DEF FrontierInv, TypeOK, CoverInv, TerminalsMarked
  <2>2. QED
    BY <2>1 DEF CoverInv, TableSound, LegalInv, TableLegal
<1>9. QED
  BY <1>7, <1>8

\* The terminals of bounded histories are those of the legal states.
LEMMA LegalTerminals ==
  ASSUME TypeOK, NEW H \in Histories, RecordsHistory(g, H), LegallyEquivariant(g)
  PROVE  {Canon(g, s) : s \in LegallyReachable \cap TerminalStates(g)}
           = {Canon(g, s) : s \in LegalStates(H) \cap TerminalStates(g)}
<1>1. /\ \A s \in LegallyReachable : s \in LegalStates(H)
      /\ \A s \in LegalStates(H) : \E t \in LegallyReachable : Canon(g, t) = Canon(g, s)
  BY LegalIdentities
<1>2. LegalStates(H) \subseteq States
  BY LegalStatesClosed
<1>3. \A s, t \in States : Canon(g, s) = Canon(g, t) =>
        (s \in TerminalStates(g) <=> t \in TerminalStates(g))
  BY GrammarTypes DEF IsGrammar
<1>4. ASSUME NEW s \in LegalStates(H) \cap TerminalStates(g)
      PROVE  \E t \in LegallyReachable \cap TerminalStates(g) : Canon(g, t) = Canon(g, s)
  BY <1>1, <1>2, <1>3
<1>5. QED
  BY <1>1, <1>4

\* Without declared dependencies every reachable state is legal.
LEMMA UnconstrainedLegal ==
  ASSUME TypeOK, Unconstrained(g), Equivariant(g)
  PROVE  \E H \in Histories : /\ RecordsHistory(g, H) /\ LegallyEquivariant(g)
                              /\ LegalStates(H) = Reachable
<1> DEFINE H == [id \in Ids |-> {}]
<1>1. H \in Histories
  BY DEF Histories
<1>2. Declared(g) = {}
  BY DEF Declared, Unconstrained
<1>3. \A s \in States : H[Canon(g, s)] = {}
  BY GrammarTypes DEF IsGrammar
<1> HIDE DEF H
<1>4. RecordsHistory(g, H)
  <2>1. \A i \in DOMAIN InitialStates(g) : InitialStates(g)[i].st \in States
    BY ReachableClosed
  <2>2. \A s \in States, a \in Actions :
          ApplyAction(g, s, a) # Nil => ApplyAction(g, s, a) \in States
    BY GrammarTypes DEF IsGrammar
  <2>3. QED
    BY <1>2, <1>3, <2>1, <2>2 DEF RecordsHistory
<1>5. LegallyEquivariant(g)
  BY DEF LegallyEquivariant, Equivariant, Unconstrained
<1>6. \A s \in States, a \in Actions : Legal(H, s, a) <=> Apply(s, a) # Nil
  BY DEF Legal, Permitted, Unconstrained
<1>7. \A S \in SUBSET States : ClosedUnderLegal(H, S) <=> ClosedUnderActions(S)
  BY <1>6 DEF ClosedUnderLegal, ClosedUnderActions
<1>8. LegalStates(H) = Reachable
  BY <1>7 DEF LegalStates, Reachable
<1>9. QED
  BY <1>1, <1>4, <1>5, <1>8

\* The searches whose dependency filter loses nothing: no action declares anything,
\* or POR leaves nothing out and the identities record what was taken.
KeepsDependencies(gr) ==
  \/ Unconstrained(gr) /\ Lossless(gr)
  \/ /\ ~Reduces(gr) /\ LegallyEquivariant(gr)
     /\ \E H \in Histories : RecordsHistory(gr, H)

\* A complete result holds exactly the canonical terminals of the histories in which
\* every action finds its requirements, and none of its conflicts, before it, although
\* the filter only knows the path of first discovery and a resumed search another.
THEOREM DependenciesKept ==
  ASSUME \A gr \in Grammars : KeepsDependencies(gr)
  PROVE  Spec => []DependencyTerminalsExact
<1>1. ASSUME FrontierInv, CoverInv, HistoryInv, Unconstrained(g) /\ Lossless(g) => ReduceInv
      PROVE  DependencyTerminalsExact
  <2> SUFFICES ASSUME phase \in {"result", "done"}, complete
               PROVE  terminals = {Canon(g, s) : s \in LegallyReachable \cap TerminalStates(g)}
    BY DEF DependencyTerminalsExact
  <2>1. TypeOK /\ KeepsDependencies(g)
    BY <1>1 DEF FrontierInv, TypeOK
  <2>2. CASE Unconstrained(g) /\ Lossless(g)
    <3>1. TerminalsExact /\ Equivariant(g)
      BY <1>1, <2>2, LosslessIsExact
    <3>2. terminals = {Canon(g, s) : s \in Reachable \cap TerminalStates(g)}
      BY <2>2, <3>1 DEF TerminalsExact
    <3>3. PICK H \in Histories : /\ RecordsHistory(g, H) /\ LegallyEquivariant(g)
                                 /\ LegalStates(H) = Reachable
      BY <2>1, <2>2, <3>1, UnconstrainedLegal
    <3>4. QED
      BY <2>1, <3>2, <3>3, LegalTerminals
  <2>3. CASE /\ ~Reduces(g) /\ LegallyEquivariant(g)
             /\ \E H \in Histories : RecordsHistory(g, H)
    <3>1. PICK H \in Histories : RecordsHistory(g, H)
      BY <2>3
    <3>2. LegalInv(H)
      BY <1>1, <2>3, <3>1 DEF HistoryInv
    <3>3. QED
      BY <1>1, <2>1, <2>3, <3>1, <3>2, DrainedIsLegal, LegalTerminals
  <2>4. QED
    BY <2>1, <2>2, <2>3 DEF KeepsDependencies
<1>2. FrontierInv /\ CoverInv /\ HistoryInv /\ (Unconstrained(g) /\ Lossless(g) => ReduceInv)
      => DependencyTerminalsExact
  BY <1>1
<1>3. QED
  BY <1>2, FrontierInvariant, CoverInvariant, HistoryInvariant, ReduceInvariant, PTL

-----------------------------------------------------------------------------
(***************************************************************************)
(* Depths.  Without a stop the search is breadth-first: no item of the     *)
(* deque is more than one action deeper than one before it or the one in   *)
(* hand, so the first depth of a record is its least.  A resume may put    *)
(* the deque out of order, but by one action only.  Children are then one  *)
(* or two actions deeper than the shallowest item, and no record that was  *)
(* expanded is ever found at a smaller depth.                              *)
(***************************************************************************)
Roots == {InitialStates(g)[i].st : i \in DOMAIN InitialStates(g)}

\* What one more action reaches
Onward(S) == S \cup UNION {Successors(s) : s \in S}

Spreads(w, n) == w = [k \in 0..n |-> IF k = 0 THEN Roots ELSE Onward(w[k - 1])]

LEMMA SpreadExists ==
  ASSUME NEW n \in Nat
  PROVE  \E w : Spreads(w, n)
<1> DEFINE T == {m \in Nat : ~\E w : Spreads(w, m)}
<1>1. SUFFICES ASSUME T # {} PROVE FALSE
  OBVIOUS
<1>2. PICK m \in T : \A j \in T : ~(j < m)
  <2> HIDE DEF T
  <2>1. T \in SUBSET Nat
    BY DEF T
  <2>2. QED
    BY <1>1, <2>1, LeastNumber
<1>3. CASE m = 0
  <2> DEFINE w == [k \in 0..0 |-> Roots]
  <2>1. Spreads(w, 0)
    BY DEF Spreads
  <2>2. QED
    BY <1>2, <1>3, <2>1
<1>4. CASE m # 0
  <2>1. m \in Nat /\ m - 1 \in Nat /\ m - 1 < m
    BY <1>4
  <2>2. PICK w : Spreads(w, m - 1)
    BY <1>2, <2>1
  <2> DEFINE v == [k \in 0..m |-> IF k = m THEN Onward(w[m - 1]) ELSE w[k]]
  <2>3. \A k \in 0..(m - 1) : w[k] = IF k = 0 THEN Roots ELSE Onward(w[k - 1])
    BY <2>2 DEF Spreads
  <2>4. \A k \in 0..m : v[k] = IF k = 0 THEN Roots ELSE Onward(v[k - 1])
    <3> TAKE k \in 0..m
    <3>1. CASE k = m
      BY <1>4, <2>1, <3>1
    <3>2. CASE k # m
      BY <2>1, <2>3, <3>2
    <3>3. QED
      BY <3>1, <3>2
  <2>5. v = [k \in 0..m |-> v[k]]
    OBVIOUS
  <2> HIDE DEF v
  <2>6. Spreads(v, m)
    BY <2>4, <2>5 DEF Spreads
  <2>7. QED
    BY <1>2, <2>6
<1>5. QED
  BY <1>3, <1>4

\* Looking further ahead does not change what was reached before.
LEMMA SpreadsAgree ==
  ASSUME NEW n \in Nat, NEW w, Spreads(w, n), NEW v, Spreads(v, n + 1)
  PROVE  \A k \in 0..n : w[k] = v[k]
<1> DEFINE T == {k \in 0..n : w[k] # v[k]}
<1>1. SUFFICES ASSUME T # {} PROVE FALSE
  OBVIOUS
<1>2. PICK k \in T : \A j \in T : ~(j < k)
  <2>1. T \in SUBSET Nat
    OBVIOUS
  <2> HIDE DEF T
  <2>2. QED
    BY <1>1, <2>1, LeastNumber
<1>3. k \in 0..n /\ k \in 0..(n + 1) /\ w[k] # v[k]
  BY <1>2
<1>4. /\ w[k] = IF k = 0 THEN Roots ELSE Onward(w[k - 1])
      /\ v[k] = IF k = 0 THEN Roots ELSE Onward(v[k - 1])
  BY <1>3 DEF Spreads
<1>5. k # 0
  BY <1>3, <1>4
<1>6. k - 1 \in 0..n /\ k - 1 < k
  BY <1>3, <1>5
<1>7. w[k - 1] = v[k - 1]
  BY <1>2, <1>6
<1>8. QED
  BY <1>3, <1>4, <1>7

\* The states that n actions or fewer reach
ReachedIn(n) == (CHOOSE w : Spreads(w, n))[n]

LEMMA ReachedUnfolds ==
  ASSUME NEW n \in Nat
  PROVE  /\ ReachedIn(0) = Roots
         /\ ReachedIn(n + 1) = Onward(ReachedIn(n))
         /\ WithinActions(n) = {Canon(g, s) : s \in ReachedIn(n)}
<1>1. ASSUME NEW m \in Nat PROVE Spreads(CHOOSE w : Spreads(w, m), m)
  BY SpreadExists
<1>2. ReachedIn(0) = Roots
  <2>1. PICK w : w = (CHOOSE v : Spreads(v, 0))
    OBVIOUS
  <2>2. Spreads(w, 0)
    BY <1>1, <2>1
  <2>3. w[0] = Roots
    BY <2>2 DEF Spreads
  <2>4. QED
    BY <2>1, <2>3 DEF ReachedIn
<1>3. ReachedIn(n + 1) = Onward(ReachedIn(n))
  <2>1. PICK w : w = (CHOOSE v : Spreads(v, n))
    OBVIOUS
  <2>2. PICK x : x = (CHOOSE v : Spreads(v, n + 1))
    OBVIOUS
  <2>3. Spreads(w, n) /\ Spreads(x, n + 1)
    BY <1>1, <2>1, <2>2
  <2>4. w[n] = x[n]
    BY <2>3, SpreadsAgree
  <2>5. x[n + 1] = Onward(x[n])
    <3>1. n + 1 \in 0..(n + 1) /\ n + 1 # 0 /\ (n + 1) - 1 = n
      OBVIOUS
    <3>2. x[n + 1] = IF n + 1 = 0 THEN Roots ELSE Onward(x[(n + 1) - 1])
      BY <2>3, <3>1 DEF Spreads
    <3>3. QED
      BY <3>1, <3>2
  <2>6. QED
    BY <2>1, <2>2, <2>4, <2>5 DEF ReachedIn
<1>4. WithinActions(n) = {Canon(g, s) : s \in ReachedIn(n)}
  BY DEF WithinActions, ReachedIn, Spreads, Roots, Onward
<1>5. QED
  BY <1>2, <1>3, <1>4

\* They are states, and depend on the grammar alone.
LEMMA ReachedStates ==
  ASSUME TypeOK, NEW n \in Nat
  PROVE  ReachedIn(n) \subseteq States
<1> DEFINE T == {m \in Nat : ~(ReachedIn(m) \subseteq States)}
<1>1. SUFFICES ASSUME T # {} PROVE FALSE
  OBVIOUS
<1>2. PICK m \in T : \A j \in T : ~(j < m)
  <2>1. T \in SUBSET Nat
    OBVIOUS
  <2> HIDE DEF T
  <2>2. QED
    BY <1>1, <2>1, LeastNumber
<1>3. CASE m = 0
  <2>1. Roots \subseteq States
    BY ReachableClosed DEF Roots
  <2>2. QED
    BY <1>2, <1>3, <2>1, ReachedUnfolds
<1>4. CASE m # 0
  <2>1. m - 1 \in Nat /\ m - 1 < m /\ (m - 1) + 1 = m
    BY <1>2, <1>4
  <2>2. ReachedIn(m - 1) \subseteq States
    BY <1>2, <2>1
  <2>3. ReachedIn(m) = Onward(ReachedIn(m - 1))
    BY <2>1, ReachedUnfolds
  <2>4. \A s \in States : Successors(s) \subseteq States
    BY GrammarTypes DEF Successors
  <2>5. ReachedIn(m) \subseteq States
    BY <2>2, <2>3, <2>4 DEF Onward
  <2>6. QED
    BY <1>2, <2>5
<1>5. QED
  BY <1>3, <1>4

LEMMA WithinFixed ==
  ASSUME g' = g
  PROVE  \A n : WithinActions(n)' = WithinActions(n)
BY DEF WithinActions, Successors, Apply

-----------------------------------------------------------------------------
\* The state s has a record that is at most n actions deep.
Near(tab, s, n) == HasState(tab, s) /\ tab[Canon(g, s)].dmin <= n

\* As many actions as depth_minimum says do reach a record.
DepthsReached(tab) == \A id \in Ids : tab[id] # Nil => id \in WithinActions(tab[id].dmin)

\* The roots have depth 0, once they were added.
NearRoots ==
  phase \in {"expanding", "loop", "result", "stopped"} =>
    \A i \in DOMAIN InitialStates(g) :
      \/ Near(table, InitialStates(g)[i].st, 0)
      \/ /\ phase = "expanding" /\ cur = Nil
         /\ \E j \in DOMAIN pending : pending[j].st = InitialStates(g)[i].st

\* Until then there is nothing else.
Seeded ==
  phase \in {"idle", "crashed"} \/ (phase = "expanding" /\ cur = Nil) =>
    \A id \in Ids : table[id] # Nil => table[id].dmin = 0 /\ table[id].status = "queued"

\* What is pending comes from the record in hand, or is a root.
PendingSteps ==
  phase = "expanding" =>
    \A child \in Elements(pending) :
      IF cur = Nil THEN \E i \in DOMAIN InitialStates(g) : child.st = InitialStates(g)[i].st
      ELSE \E a \in Actions : child.st = Apply(table[cur.id].rep, a)

\* The order of the deque in depth, but for w actions
At(i) == table[queue[i].id].dmin

BreadthFirst(w) ==
  /\ \A i, j \in DOMAIN queue : At(i) <= At(j) + 1 + w /\ (i < j => At(i) <= At(j) + w)
  /\ \A u \in Grown, i \in DOMAIN queue : table[u].dmin <= At(i) + w
  /\ cur # Nil => /\ \A i \in DOMAIN queue : At(i) <= table[cur.id].dmin + 1 + w
                  /\ \A u \in Expanded(table) : table[u].dmin <= table[cur.id].dmin + w

Slack == IF disk = Nil THEN 0 ELSE 1

\* Each successor of an expanded record is at most one action deeper, or is left to
\* the other order.
NearCovered(tab, P) ==
  \A u \in Expanded(tab), a \in Actions :
    Apply(tab[u].rep, a) # Nil =>
      Near(tab, Apply(tab[u].rep, a), tab[u].dmin + 1) \/ Postponed(P[u], a)

CurNear(P) ==
  cur # Nil =>
    \A a \in Actions : Apply(table[cur.id].rep, a) # Nil =>
      \/ Near(table, Apply(table[cur.id].rep, a), table[cur.id].dmin + 1)
      \/ \E j \in DOMAIN pending : pending[j].st = Apply(table[cur.id].rep, a)
      \/ Postponed(cur.path, a)

\* While POR may leave something out, depths are the lengths of the paths.
Lengths(P) ==
  Reduces(g) => /\ \A u \in Grown : Len(P[u]) = table[u].dmin + 1
                /\ \A work \in InHand : Len(work.path) = table[work.id].dmin + 1

MemoryDeep(P) ==
  /\ DepthsReached(table) /\ NearRoots /\ Seeded /\ PendingSteps /\ BreadthFirst(Slack)
  /\ MemoryReduced(P) /\ NearCovered(table, P) /\ CurNear(P) /\ Lengths(P)

\* What a checkpoint says of depths: its frontier is one action wide at most.
DiskDeep ==
  /\ DepthsReached(disk.table)
  /\ \E P \in [Ids -> Paths] : NearCovered(disk.table, P)
  /\ \A i \in DOMAIN InitialStates(g) : Near(disk.table, InitialStates(g)[i].st, 0)
  /\ \A u \in Unexplored(disk.table) \cup Expanded(disk.table), x \in Unexplored(disk.table) :
       disk.table[u].dmin <= disk.table[x].dmin + 1

Distances ==
  \A id \in Known :
    /\ id \in WithinActions(table[id].dmin)
    /\ table[id].dmin > 0 => id \notin WithinActions(table[id].dmin - 1)

\* The searches that were stopped at most once, by a limit and with POR off, if a
\* budget may still let them end.
Orderly ==
  /\ stops = 0 \/ (stops = 1 /\ ~Reduces(g))
  /\ ~(disk # Nil /\ Spent(disk))

DepthInv ==
  Orderly =>
    /\ phase # "done" => \E P \in [Ids -> Paths] : MemoryDeep(P)
    /\ phase # "done" /\ disk # Nil => stops = 1 /\ DiskDeep
    /\ ~complete => /\ phase \in {"result", "stopped"}
                    /\ phase = "result" /\ (stops = 0 \/ disk # Nil) =>
                         BudgetExhausted /\ queue # <<>>
    /\ phase = "done" => Distances

-----------------------------------------------------------------------------
\* The depth of the child that add_state is given
ChildDepth == IF cur = Nil THEN 0 ELSE table[cur.id].dmin + 1

\* add_state changes the depth of the child's record only, and never makes one
\* greater.
LEMMA AddedDepth ==
  ASSUME FrontierInv, AddState, NEW id, id = Canon(g, Head(pending).st)
  PROVE  /\ ChildDepth \in Nat
         /\ table'[id].dmin \in Nat /\ table'[id].dmin <= ChildDepth
         /\ table[id] = Nil => table'[id].dmin = ChildDepth
         /\ table[id] # Nil => \/ table'[id].dmin = table[id].dmin
                              \/ (table'[id].dmin = ChildDepth /\ ChildDepth < table[id].dmin)
<1> DEFINE child == Head(pending)
           path  == ChildPath(child.act)
<1>1. table \in Tables /\ TypeOK /\ id \in Ids
  BY AddedRecord DEF FrontierInv, TypeOK
<1>2. ChildDepth \in Nat
  <2>1. cur # Nil => table[cur.id] \in Records
    BY QueuedItemsKnown
  <2>2. QED
    BY <2>1 DEF Records, ChildDepth
<1>3. CASE table[id] # Nil
  <2> DEFINE new == Rediscovered(table[id], path, ChildDepth)
  <2>1. table' = [table EXCEPT ![id] = new]
    BY <1>3 DEF AddState, Interned, ChildDepth
  <2>2. new.dmin = Least(table[id].dmin, ChildDepth)
    BY DEF Rediscovered
  <2>3. table[id].dmin \in Nat
    BY <1>1, <1>3 DEF Tables, Records
  <2> HIDE DEF new
  <2>4. table'[id].dmin = Least(table[id].dmin, ChildDepth)
    BY <1>1, <2>1, <2>2 DEF Tables
  <2>5. \A m, n \in Nat : /\ Least(m, n) \in Nat /\ Least(m, n) <= n
                          /\ Least(m, n) = m \/ (Least(m, n) = n /\ n < m)
    BY DEF Least
  <2>6. QED
    BY <1>2, <1>3, <2>3, <2>4, <2>5
<1>4. CASE table[id] = Nil
  <2> DEFINE new == NewRecord(child.st, path, ChildDepth)
  <2>1. table' = [table EXCEPT ![id] = new]
    BY <1>4 DEF AddState, Interned, ChildDepth
  <2>2. new.dmin = ChildDepth
    BY DEF NewRecord
  <2> HIDE DEF new
  <2>3. table'[id].dmin = ChildDepth
    BY <1>1, <2>1, <2>2 DEF Tables
  <2>4. QED
    BY <1>2, <1>4, <2>3
<1>5. QED
  BY <1>3, <1>4

\* What is near stays near while depths do not grow.
LEMMA NearStays ==
  ASSUME TypeOK, TypeOK', g' = g,
         \A x \in Ids : table[x] # Nil => table'[x] # Nil /\ table'[x].dmin <= table[x].dmin,
         NEW s \in States, NEW n \in Nat, Near(table, s, n)
  PROVE  Near(table, s, n)'
<1>1. PICK x \in Ids : x = Canon(g, s)
  BY GrammarTypes DEF IsGrammar
<1>2. table[x] # Nil /\ table'[x] # Nil /\ table[x].dmin <= n /\ table'[x].dmin <= table[x].dmin
  BY <1>1 DEF Near, HasState
<1>3. table[x].dmin \in Nat /\ table'[x].dmin \in Nat
  BY <1>2 DEF TypeOK, Tables, Records
<1>4. QED
  BY <1>1, <1>2, <1>3 DEF Near, HasState

\* A successor of a record is reached by one action more, or a state with the same
\* identity is.
LEMMA OneMoreAction ==
  ASSUME TypeOK, Equivariant(g), NEW s \in States, NEW n \in Nat, Canon(g, s) \in WithinActions(n),
         NEW a \in Actions, Apply(s, a) # Nil
  PROVE  Canon(g, Apply(s, a)) \in WithinActions(n + 1)
<1>1. PICK t \in ReachedIn(n) : Canon(g, t) = Canon(g, s)
  BY ReachedUnfolds
<1>2. t \in States
  BY ReachedStates
<1>3. ApplyAction(g, s, a) # Nil /\ Apply(s, a) = ApplyAction(g, s, a)
  BY NilAssumption DEF Apply
<1>4. PICK b \in Actions : /\ ApplyAction(g, t, b) # Nil
                           /\ Canon(g, ApplyAction(g, t, b)) = Canon(g, ApplyAction(g, s, a))
  BY <1>1, <1>2, <1>3 DEF Equivariant
<1>5. Apply(t, b) = ApplyAction(g, t, b)
  BY <1>2, NilAssumption DEF Apply
<1>6. Apply(t, b) \in Successors(t)
  BY <1>4, <1>5 DEF Successors
<1>7. Apply(t, b) \in ReachedIn(n + 1)
  <2>1. ReachedIn(n + 1) = Onward(ReachedIn(n))
    BY ReachedUnfolds
  <2>2. QED
    BY <1>6, <2>1 DEF Onward
<1>8. n + 1 \in Nat
  OBVIOUS
<1>9. WithinActions(n + 1) = {Canon(g, q) : q \in ReachedIn(n + 1)}
  BY <1>8, ReachedUnfolds
<1>10. QED
  BY <1>3, <1>4, <1>5, <1>7, <1>9

\* What add_state does to the depths of all records
LEMMA AddedDepths ==
  ASSUME FrontierInv, AddState
  PROVE  /\ \A x \in Ids : table[x] # Nil =>
              /\ table'[x] # Nil
              /\ table[x].dmin \in Nat /\ table'[x].dmin \in Nat /\ table'[x].dmin <= table[x].dmin
              /\ \/ table'[x].dmin = table[x].dmin
                 \/ (table'[x].dmin = ChildDepth /\ ChildDepth < table[x].dmin)
         /\ \A x \in Ids : table[x] = Nil /\ table'[x] # Nil =>
              x = Canon(g, Head(pending).st) /\ table'[x].dmin = ChildDepth
         /\ ChildDepth \in Nat
<1>1. PICK id : id = Canon(g, Head(pending).st)
  OBVIOUS
<1>2. /\ id \in Ids
      /\ \A x \in Ids \ {id} : table'[x] = table[x]
      /\ table'[id] # Nil
  BY <1>1, AddedRecord
<1>3. /\ ChildDepth \in Nat
      /\ table'[id].dmin \in Nat /\ table'[id].dmin <= ChildDepth
      /\ table[id] = Nil => table'[id].dmin = ChildDepth
      /\ table[id] # Nil => \/ table'[id].dmin = table[id].dmin
                           \/ (table'[id].dmin = ChildDepth /\ ChildDepth < table[id].dmin)
  BY <1>1, AddedDepth
<1>4. \A x \in Ids : table[x] # Nil => table[x].dmin \in Nat
  BY DEF FrontierInv, TypeOK, Tables, Records
<1>5. ASSUME NEW x \in Ids, table[x] # Nil
      PROVE  /\ table'[x] # Nil
             /\ table[x].dmin \in Nat /\ table'[x].dmin \in Nat /\ table'[x].dmin <= table[x].dmin
             /\ \/ table'[x].dmin = table[x].dmin
                \/ (table'[x].dmin = ChildDepth /\ ChildDepth < table[x].dmin)
  <2>1. table[x].dmin \in Nat
    BY <1>4, <1>5
  <2>2. CASE x # id
    BY <1>2, <1>5, <2>1, <2>2
  <2>3. CASE x = id
    BY <1>2, <1>3, <1>5, <2>1, <2>3
  <2>4. QED
    BY <2>2, <2>3
<1>6. ASSUME NEW x \in Ids, table[x] = Nil, table'[x] # Nil
      PROVE  x = id /\ table'[x].dmin = ChildDepth
  BY <1>2, <1>3, <1>6
<1>7. QED
  BY <1>1, <1>3, <1>5, <1>6

\* How add_state changes the depths of the deque: the items keep theirs or get the
\* smaller one of the child, which the last one has if it is new.
LEMMA AddedAt ==
  ASSUME FrontierInv, AddState
  PROVE  /\ \A i \in DOMAIN queue : At(i) \in Nat
         /\ \A i \in DOMAIN queue' :
              \/ i \in DOMAIN queue /\ At(i)' = At(i)
              \/ i \in DOMAIN queue /\ At(i)' = ChildDepth /\ ChildDepth < At(i)
              \/ (\A j \in DOMAIN queue : j < i) /\ At(i)' = ChildDepth
<1> DEFINE child == Head(pending)
           id == Canon(g, child.st)
           item == [id |-> id, path |-> ChildPath(child.act),
                    prev |-> IF cur = Nil THEN Nil ELSE table[cur.id].rep]
<1>1. queue \in Seq(WorkItems) /\ item.id = id
  BY DEF FrontierInv, TypeOK
<1>2. queue' = queue \/ (queue' = Append(queue, item) /\ table[id] = Nil)
  BY DEF AddState, Interned
<1>3. id \in Ids /\ table'[id] # Nil
  BY AddedRecord
<1> HIDE DEF item, id
<1>4. \A i \in DOMAIN queue : queue[i].id \in Ids /\ table[queue[i].id] # Nil
  BY QueuedItemsKnown, NilAssumption DEF WorkItems
<1>5. \A i \in DOMAIN queue : At(i) \in Nat
  BY <1>4, AddedDepths DEF At
<1>6. ASSUME NEW i \in DOMAIN queue, queue'[i] = queue[i]
      PROVE  \/ At(i)' = At(i)
             \/ (At(i)' = ChildDepth /\ ChildDepth < At(i))
  <2>1. PICK x \in Ids : x = queue[i].id /\ table[x] # Nil
    BY <1>4
  <2>2. At(i) = table[x].dmin /\ At(i)' = table'[x].dmin
    BY <1>6, <2>1 DEF At
  <2>3. QED
    BY <2>1, <2>2, AddedDepths
<1>7. CASE queue' = queue
  BY <1>5, <1>6, <1>7
<1>8. CASE queue' = Append(queue, item) /\ table[id] = Nil
  <2>1. PICK n : n = Len(queue)
    OBVIOUS
  <2>2. /\ n \in Nat /\ DOMAIN queue = 1..n /\ DOMAIN queue' = 1..(n + 1)
        /\ \A i \in 1..n : queue'[i] = queue[i]
        /\ queue'[n + 1] = item
    BY <1>1, <1>8, <2>1
  <2>3. At(n + 1)' = ChildDepth
    <3>1. At(n + 1)' = table'[id].dmin
      BY <1>1, <2>2 DEF At
    <3>2. QED
      BY <1>3, <1>8, <3>1, AddedDepths
  <2>4. ASSUME NEW i \in DOMAIN queue'
        PROVE  i \in DOMAIN queue \/ (i = n + 1 /\ \A j \in DOMAIN queue : j < i)
    BY <2>2
  <2>5. QED
    BY <1>5, <1>6, <2>2, <2>3, <2>4
<1>9. QED
  BY <1>2, <1>7, <1>8

\* Numbers in order but for w stay so when some get smaller and one is added, as long
\* as both happen with the same number, which is no smaller than what is allowed.
LEMMA OrderStays ==
  ASSUME NEW w \in {0, 1}, NEW e \in Nat, NEW S \in SUBSET Nat, NEW T \in SUBSET Nat,
         NEW D \in [S -> Nat], NEW E \in [T -> Nat],
         \A i, j \in S : D[i] <= D[j] + 1 + w /\ (i < j => D[i] <= D[j] + w),
         \A i \in S : e <= D[i] + w /\ D[i] <= e + 1 + w,
         \A i \in T : \/ i \in S /\ E[i] = D[i]
                      \/ i \in S /\ E[i] = e + 1 /\ e + 1 < D[i]
                      \/ (\A j \in S : j < i) /\ E[i] = e + 1
  PROVE  /\ \A i, j \in T : E[i] <= E[j] + 1 + w /\ (i < j => E[i] <= E[j] + w)
         /\ \A i \in T : e <= E[i] + w /\ E[i] <= e + 1 + w
<1>1. ASSUME NEW i \in T PROVE E[i] \in Nat /\ e <= E[i] + w /\ E[i] <= e + 1 + w
  BY <1>1
<1>2. ASSUME NEW i \in T, NEW j \in T PROVE E[i] <= E[j] + 1 + w
  <2>1. CASE i \in S /\ E[i] = D[i] /\ j \in S /\ E[j] = D[j]
    BY <2>1
  <2>2. CASE E[i] = e + 1
    BY <1>1, <2>2
  <2>3. CASE E[j] = e + 1
    BY <1>1, <2>3
  <2>4. QED
    BY <2>1, <2>2, <2>3
<1>3. ASSUME NEW i \in T, NEW j \in T, i < j PROVE E[i] <= E[j] + w
  <2>1. CASE i \in S /\ E[i] = D[i] /\ j \in S /\ E[j] = D[j]
    BY <1>3, <2>1
  <2>2. CASE E[j] = e + 1
    BY <1>1, <2>2
  <2>3. CASE E[i] = e + 1 /\ j \in S /\ E[j] = D[j]
    <3>1. i \in S /\ e + 1 <= D[i]
      <4>1. ~(\A k \in S : k < i)
        BY <1>3, <2>3
      <4>2. i \in S /\ (E[i] = D[i] \/ e + 1 < D[i])
        BY <4>1
      <4>3. QED
        BY <2>3, <4>2
    <3>2. D[i] <= D[j] + w
      BY <1>3, <2>3, <3>1
    <3>3. D[i] \in Nat /\ D[j] \in Nat
      BY <2>3, <3>1
    <3>4. QED
      BY <2>3, <3>1, <3>2, <3>3
  <2>4. QED
    BY <2>1, <2>2, <2>3
<1>4. QED
  BY <1>1, <1>2, <1>3

\* A child leaves the deque in order, and nothing that was expanded gets less deep.
LEMMA AddStateBreadth ==
  ASSUME FrontierInv, AddState, Seeded, NEW w \in {0, 1}, BreadthFirst(w)
  PROVE  /\ BreadthFirst(w)'
         /\ Grown' = Grown /\ Expanded(table)' = Expanded(table)
         /\ \A u \in Grown : table'[u].dmin = table[u].dmin
         /\ w = 0 => \A work \in InHand : table'[work.id].dmin = table[work.id].dmin
<1>1. phase = "expanding" /\ cur' = cur
  BY DEF AddState
<1>2. \A id \in Ids :
        /\ table[id] # Nil => table'[id] # Nil /\ table'[id].status = table[id].status
        /\ table[id] = Nil /\ table'[id] # Nil => table'[id].status = "queued"
  BY AddedRecord
<1>3. Expanded(table)' = Expanded(table) /\ Grown' = Grown
  BY <1>1, <1>2 DEF Expanded, Grown
<1>4. \A x \in Ids : table[x] # Nil =>
        /\ table[x].dmin \in Nat /\ table'[x].dmin \in Nat
        /\ \/ table'[x].dmin = table[x].dmin
           \/ (table'[x].dmin = ChildDepth /\ ChildDepth < table[x].dmin)
  BY AddedDepths
<1>5. /\ \A i \in DOMAIN queue : At(i) \in Nat
      /\ \A i \in DOMAIN queue' :
           \/ i \in DOMAIN queue /\ At(i)' = At(i)
           \/ i \in DOMAIN queue /\ At(i)' = ChildDepth /\ ChildDepth < At(i)
           \/ (\A j \in DOMAIN queue : j < i) /\ At(i)' = ChildDepth
  BY AddedAt
<1>6. /\ \A i \in DOMAIN queue : queue[i].id \in Ids /\ table[queue[i].id] # Nil
      /\ \A u \in Grown : u \in Ids /\ table[u] # Nil
      /\ \A work \in InHand : work.id \in Ids /\ table[work.id] # Nil
  BY QueuedItemsKnown, InHandKnown, NilAssumption DEF WorkItems, Grown, Expanded
<1>7. CASE cur = Nil
  <2>1. /\ \A id \in Ids : table[id] # Nil => table[id].dmin = 0 /\ table[id].status = "queued"
        /\ ChildDepth = 0
    BY <1>1, <1>7 DEF Seeded, ChildDepth
  <2>2. Grown = {} /\ Grown' = {} /\ cur' = Nil
    BY <1>1, <1>3, <1>7, <2>1 DEF Grown, Expanded
  <2>3. \A i \in DOMAIN queue : At(i) = 0
    BY <1>6, <2>1 DEF At
  <2>4. \A i \in DOMAIN queue' : At(i)' = 0
    BY <1>5, <2>1, <2>3
  <2>5. \A x \in Ids : table[x] # Nil => table'[x].dmin = table[x].dmin
    BY <1>4, <2>1
  <2>6. BreadthFirst(w)'
    BY <2>2, <2>4 DEF BreadthFirst
  <2>7. QED
    BY <1>3, <1>6, <2>2, <2>5, <2>6
<1>8. CASE cur # Nil
  <2>1. PICK c \in Ids : c = cur.id /\ table[c] # Nil /\ table[c].dmin \in Nat
    BY <1>4, <1>6, <1>8 DEF Grown
  <2>2. PICK e \in Nat : e = table[c].dmin
    BY <2>1
  <2>3. ChildDepth = e + 1
    BY <1>8, <2>1, <2>2 DEF ChildDepth
  <2>4. c \in Grown /\ \A u \in Grown : u = c \/ u \in Expanded(table)
    BY <1>8, <2>1 DEF Grown
  <2>5. \A u \in Grown : table[u].dmin \in Nat /\ table[u].dmin <= e + w
    <3>1. \A u \in Expanded(table) : table[u].dmin <= e + w
      BY <1>8, <2>1, <2>2 DEF BreadthFirst
    <3>2. e <= e + w
      BY <2>2
    <3>3. QED
      BY <1>4, <1>6, <2>2, <2>4, <3>1, <3>2
  <2>6. \A u \in Grown : table'[u].dmin = table[u].dmin
    <3>1. e + w <= e + 1
      BY <2>2
    <3>2. ASSUME NEW u \in Grown PROVE ~(ChildDepth < table[u].dmin)
      BY <2>3, <2>5, <3>1
    <3>3. QED
      BY <1>4, <1>6, <3>2
  <2>7. PICK S : S = DOMAIN queue
    OBVIOUS
  <2>8. PICK T : T = DOMAIN queue'
    OBVIOUS
  <2>9. PICK D : D = [i \in S |-> At(i)]
    OBVIOUS
  <2>10. PICK E : E = [i \in T |-> At(i)']
    OBVIOUS
  <2>11. S \in SUBSET Nat /\ T \in SUBSET Nat /\ D \in [S -> Nat] /\ E \in [T -> Nat]
    <3>1. queue \in Seq(WorkItems)
      BY DEF FrontierInv, TypeOK
    <3>2. queue' \in Seq(WorkItems)
      BY AddStateFrontier DEF FrontierInv, TypeOK
    <3>3. S \in SUBSET Nat /\ T \in SUBSET Nat
      BY <2>7, <2>8, <3>1, <3>2
    <3>4. \A i \in T : At(i)' \in Nat
      BY <1>5, <2>3, <2>8
    <3>5. QED
      BY <1>5, <2>7, <2>9, <2>10, <3>3, <3>4
  <2>12. \A i, j \in S : D[i] <= D[j] + 1 + w /\ (i < j => D[i] <= D[j] + w)
    BY <2>7, <2>9 DEF BreadthFirst
  <2>13. \A i \in S : e <= D[i] + w /\ D[i] <= e + 1 + w
    BY <1>8, <2>1, <2>2, <2>4, <2>7, <2>9 DEF BreadthFirst
  <2>14. \A i \in T : \/ i \in S /\ E[i] = D[i]
                      \/ i \in S /\ E[i] = e + 1 /\ e + 1 < D[i]
                      \/ (\A j \in S : j < i) /\ E[i] = e + 1
    BY <1>5, <2>3, <2>7, <2>8, <2>9, <2>10
  <2>15. /\ \A i, j \in T : E[i] <= E[j] + 1 + w /\ (i < j => E[i] <= E[j] + w)
         /\ \A i \in T : e <= E[i] + w /\ E[i] <= e + 1 + w
    BY <2>11, <2>12, <2>13, <2>14, OrderStays
  <2>16. \A u \in Grown, i \in T : table[u].dmin <= E[i] + w
    <3> TAKE u \in Grown, i \in T
    <3>1. CASE i \in S /\ E[i] = D[i]
      BY <2>7, <2>9, <3>1 DEF BreadthFirst
    <3>2. CASE E[i] = e + 1
      BY <2>5, <3>2
    <3>3. QED
      BY <2>14, <3>1, <3>2
  <2>17. BreadthFirst(w)'
    <3>1. \A i \in DOMAIN queue' : At(i)' = E[i]
      BY <2>8, <2>10
    <3>2. \A i, j \in DOMAIN queue' :
            At(i)' <= At(j)' + 1 + w /\ (i < j => At(i)' <= At(j)' + w)
      BY <2>8, <2>15, <3>1
    <3>3. \A u \in Grown', i \in DOMAIN queue' : table'[u].dmin <= At(i)' + w
      BY <1>3, <2>6, <2>8, <2>16, <3>1
    <3>4. table'[cur'.id].dmin = e
      BY <1>1, <2>1, <2>2, <2>4, <2>6
    <3>5. \A i \in DOMAIN queue' : At(i)' <= table'[cur'.id].dmin + 1 + w
      BY <2>8, <2>15, <3>1, <3>4
    <3>6. \A u \in Expanded(table)' : table'[u].dmin <= table'[cur'.id].dmin + w
      BY <1>3, <2>5, <2>6, <3>4 DEF Grown
    <3>7. QED
      BY <3>2, <3>3, <3>5, <3>6 DEF BreadthFirst
  <2>18. ASSUME w = 0, NEW work \in InHand
         PROVE  table'[work.id].dmin = table[work.id].dmin
    <3>1. CASE work = cur
      BY <2>1, <2>4, <2>6, <3>1
    <3>2. CASE work \in Elements(queue)
      <4>1. PICK i \in DOMAIN queue : work = queue[i]
        BY <3>2 DEF Elements
      <4>2. At(i) <= e + 1 + w
        BY <2>7, <2>9, <2>13, <4>1
      <4>3. ~(ChildDepth < table[work.id].dmin)
        BY <1>5, <2>3, <2>18, <4>1, <4>2 DEF At
      <4>4. QED
        BY <1>4, <1>6, <4>3
    <3>3. QED
      BY <3>1, <3>2 DEF InHand
  <2>19. QED
    BY <1>3, <2>6, <2>17, <2>18
<1>9. QED
  BY <1>7, <1>8

\* A child is reached with as many actions as its depth says.
LEMMA ChildReached ==
  ASSUME FrontierInv, CoverInv, Equivariant(g), phase = "expanding", pending # <<>>,
         DepthsReached(table), PendingSteps
  PROVE  Canon(g, Head(pending).st) \in WithinActions(ChildDepth)
<1> DEFINE child == Head(pending)
<1>1. TypeOK /\ child \in Elements(pending) /\ child.st \in States
  BY HeadPending DEF FrontierInv
<1>2. CASE cur = Nil
  <2>1. \E i \in DOMAIN InitialStates(g) : child.st = InitialStates(g)[i].st
    BY <1>1, <1>2 DEF PendingSteps
  <2>2. child.st \in Roots
    BY <2>1 DEF Roots
  <2>3. 0 \in Nat
    OBVIOUS
  <2>4. ReachedIn(0) = Roots /\ WithinActions(0) = {Canon(g, s) : s \in ReachedIn(0)}
    BY <2>3, ReachedUnfolds
  <2>5. ChildDepth = 0
    BY <1>2 DEF ChildDepth
  <2>6. QED
    BY <2>2, <2>4, <2>5
<1>3. CASE cur # Nil
  <2>1. PICK c \in Ids : c = cur.id /\ table[c] # Nil
    BY <1>3, QueuedItemsKnown, NilAssumption DEF WorkItems
  <2>2. table[c].rep \in States /\ table[c].dmin \in Nat
    BY <1>1, <2>1 DEF TypeOK, Tables, Records
  <2>3. PICK a \in Actions : child.st = Apply(table[c].rep, a)
    BY <1>1, <1>3, <2>1 DEF PendingSteps
  <2>4. child.st # Nil
    BY <1>1, NilAssumption
  <2>5. Canon(g, table[c].rep) \in WithinActions(table[c].dmin)
    BY <2>1 DEF CoverInv, TableSound, DepthsReached
  <2>6. Canon(g, child.st) \in WithinActions(table[c].dmin + 1)
    BY <1>1, <2>2, <2>3, <2>4, <2>5, OneMoreAction
  <2>7. ChildDepth = table[c].dmin + 1
    BY <1>3, <2>1 DEF ChildDepth
  <2>8. QED
    BY <2>6, <2>7
<1>4. QED
  BY <1>2, <1>3

\* What was near the record in hand, or pending, still is.
LEMMA PendingNear ==
  ASSUME FrontierInv, AddState
  PROVE  \A s \in States :
           Near(table, s, ChildDepth) \/ (\E j \in DOMAIN pending : pending[j].st = s)
             => Near(table', s, ChildDepth) \/ (\E j \in DOMAIN pending' : pending'[j].st = s)
<1>1. pending # <<>> /\ pending' = Tail(pending) /\ pending \in Seq([act : Actions, st : States])
      /\ TypeOK
  BY DEF AddState, FrontierInv, TypeOK
<1>2. /\ Head(pending) = pending[1]
      /\ Len(pending) \in Nat \ {0}
      /\ DOMAIN pending = 1..Len(pending)
      /\ DOMAIN Tail(pending) = 1..(Len(pending) - 1)
      /\ \A i \in 1..(Len(pending) - 1) : Tail(pending)[i] = pending[i + 1]
  BY <1>1, HeadTailTypes
<1>3. Near(table', Head(pending).st, ChildDepth)
  <2>1. PICK id : id = Canon(g, Head(pending).st)
    OBVIOUS
  <2>2. table'[id] # Nil /\ table'[id].dmin <= ChildDepth
    BY <2>1, AddedRecord, AddedDepth
  <2>3. QED
    BY <2>1, <2>2 DEF Near, HasState
<1>4. ASSUME NEW s \in States, Near(table, s, ChildDepth)
      PROVE  Near(table', s, ChildDepth)
  <2>1. PICK x \in Ids : x = Canon(g, s)
    BY <1>1, GrammarTypes DEF IsGrammar
  <2>2. table[x] # Nil /\ table[x].dmin <= ChildDepth
    BY <1>4, <2>1 DEF Near, HasState
  <2>3. /\ table'[x] # Nil /\ ChildDepth \in Nat /\ table[x].dmin \in Nat /\ table'[x].dmin \in Nat
        /\ table'[x].dmin <= table[x].dmin
    BY <2>2, AddedDepths
  <2>4. table'[x].dmin <= ChildDepth
    BY <2>2, <2>3
  <2>5. QED
    BY <2>1, <2>3, <2>4 DEF Near, HasState
<1>5. ASSUME NEW s \in States, NEW j \in DOMAIN pending, pending[j].st = s,
             ~Near(table', s, ChildDepth)
      PROVE  \E k \in DOMAIN pending' : pending'[k].st = s
  <2>1. j # 1
    BY <1>2, <1>3, <1>5
  <2>2. j - 1 \in DOMAIN pending' /\ pending'[j - 1] = pending[j]
    BY <1>1, <1>2, <1>5, <2>1
  <2>3. QED
    BY <1>5, <2>2
<1>6. QED
  BY <1>4, <1>5

\* What a record keeps that is covered: its state and its depth
LEMMA NearCoveredStays ==
  ASSUME TypeOK, TypeOK', g' = g, NEW P, NEW Q, NearCovered(table, P),
         \A x \in Ids : table[x] # Nil => /\ table'[x] # Nil /\ table'[x].rep = table[x].rep
                                         /\ table'[x].dmin <= table[x].dmin,
         Expanded(table)' \subseteq Expanded(table),
         \A u \in Expanded(table) : Q[u] = P[u] /\ table'[u].dmin = table[u].dmin
  PROVE  NearCovered(table, Q)'
<1> SUFFICES ASSUME NEW u \in Expanded(table)', NEW a \in Actions, Apply(table[u].rep, a)' # Nil
             PROVE  \/ Near(table, Apply(table[u].rep, a), table[u].dmin + 1)'
                    \/ Postponed(Q[u], a)'
  BY DEF NearCovered
<1>1. /\ u \in Expanded(table) /\ u \in Ids /\ table[u] # Nil /\ table'[u].rep = table[u].rep
      /\ table'[u].dmin = table[u].dmin
  BY DEF Expanded
<1>2. Apply(table[u].rep, a)' = Apply(table[u].rep, a)
  BY <1>1 DEF Apply
<1>3. PICK s \in States : s = Apply(table[u].rep, a)
  BY <1>1, <1>2, SuccessorType
<1>4. PICK n \in Nat : n = table[u].dmin + 1
  BY <1>1 DEF TypeOK, Tables, Records
<1>5. Near(table, s, n) \/ Postponed(P[u], a)
  BY <1>1, <1>2, <1>3, <1>4 DEF NearCovered
<1>6. CASE Near(table, s, n)
  <2>1. Near(table, s, n)'
    BY <1>6, NearStays
  <2>2. QED
    BY <1>1, <1>2, <1>3, <1>4, <2>1 DEF Near
<1>7. CASE Postponed(P[u], a)
  BY <1>1, <1>7, PostponedFixed
<1>8. QED
  BY <1>5, <1>6, <1>7

\* The path of a child is one action longer than the one in hand.
LEMMA ChildLength ==
  ASSUME FrontierInv, NEW act \in Actions,
         \A work \in InHand : Len(work.path) = table[work.id].dmin + 1
  PROVE  Len(ChildPath(act)) = ChildDepth + 1
<1>1. CASE cur = Nil
  BY <1>1 DEF ChildPath, ChildDepth
<1>2. CASE cur # Nil
  <2>1. cur \in InHand /\ cur.path \in Paths
    BY <1>2, InHandKnown DEF InHand
  <2>2. Len(Append(cur.path, act)) = Len(cur.path) + 1
    BY <2>1 DEF Paths
  <2>3. QED
    BY <1>2, <2>1, <2>2 DEF ChildPath, ChildDepth
<1>3. QED
  BY <1>1, <1>2

LEMMA AddStateLengths ==
  ASSUME FrontierInv, AddState, NEW P \in [Ids -> Paths], Lengths(P), Grown' = Grown,
         \A u \in Grown : table'[u].dmin = table[u].dmin,
         Reduces(g) => \A work \in InHand : table'[work.id].dmin = table[work.id].dmin
  PROVE  Lengths(P)'
<1> DEFINE child == Head(pending)
           id == Canon(g, child.st)
           path == ChildPath(child.act)
           item == [id |-> id, path |-> path, prev |-> IF cur = Nil THEN Nil ELSE table[cur.id].rep]
<1>1. /\ UNCHANGED <<g, cur>> /\ pending # <<>> /\ TypeOK
      /\ queue' = queue \/ (queue' = Append(queue, item) /\ table[id] = Nil)
  BY DEF AddState, Interned, FrontierInv
<1> SUFFICES ASSUME Reduces(g)
             PROVE  /\ \A u \in Grown' : Len(P[u]) = table'[u].dmin + 1
                    /\ \A work \in InHand' : Len(work.path) = table'[work.id].dmin + 1
  BY <1>1 DEF Lengths, Reduces
<1>2. /\ \A u \in Grown : Len(P[u]) = table[u].dmin + 1
      /\ \A work \in InHand : Len(work.path) = table[work.id].dmin + 1
  BY DEF Lengths
<1>3. child.act \in Actions
  BY <1>1, HeadPending
<1>4. Len(path) = ChildDepth + 1
  BY <1>2, <1>3, ChildLength
<1>5. item.path = path /\ item.id = id
  OBVIOUS
<1>6. table[id] = Nil => table'[id].dmin = ChildDepth
  BY AddedDepth
<1> HIDE DEF item, path, id
<1>7. \A work \in InHand' : work \in InHand \/ (work = item /\ table[id] = Nil)
  <2>1. queue \in Seq(WorkItems)
    BY <1>1 DEF TypeOK
  <2>2. \A work \in Elements(queue') : work \in Elements(queue) \/ (work = item /\ table[id] = Nil)
    BY <1>1, <2>1 DEF Elements
  <2>3. QED
    BY <1>1, <2>2 DEF InHand
<1>8. ASSUME NEW work \in InHand' PROVE Len(work.path) = table'[work.id].dmin + 1
  <2>1. CASE work \in InHand
    BY <1>2, <2>1
  <2>2. CASE work = item /\ table[id] = Nil
    BY <1>4, <1>5, <1>6, <2>2
  <2>3. QED
    BY <1>7, <2>1, <2>2
<1>9. QED
  BY <1>2, <1>8

LEMMA AddStateDeep ==
  ASSUME FrontierInv, CoverInv, Equivariant(g), AddState, disk = Nil \/ ~Reduces(g),
         NEW P \in [Ids -> Paths], MemoryDeep(P)
  PROVE  MemoryDeep(P)'
<1>1. /\ phase = "expanding" /\ pending # <<>> /\ pending' = Tail(pending)
      /\ UNCHANGED <<g, cur, disk, phase>> /\ TypeOK /\ TypeOK'
  BY AddStateFrontier DEF AddState, FrontierInv
<1>2. PICK w \in {0, 1} : w = Slack
  BY DEF Slack
<1>3. /\ BreadthFirst(w)'
      /\ Grown' = Grown /\ Expanded(table)' = Expanded(table)
      /\ \A u \in Grown : table'[u].dmin = table[u].dmin
      /\ w = 0 => \A work \in InHand : table'[work.id].dmin = table[work.id].dmin
  <2>1. BreadthFirst(w) /\ Seeded
    BY <1>2 DEF MemoryDeep
  <2>2. QED
    BY <2>1, AddStateBreadth
<1>4. BreadthFirst(Slack)'
  <2>1. Slack' = w
    BY <1>1, <1>2 DEF Slack
  <2>2. QED
    BY <1>3, <2>1 DEF BreadthFirst
<1>5. /\ \A x \in Ids : table[x] # Nil =>
           /\ table'[x] # Nil /\ table'[x].rep = table[x].rep /\ table'[x].status = table[x].status
           /\ table[x].dmin \in Nat /\ table'[x].dmin \in Nat /\ table'[x].dmin <= table[x].dmin
           /\ \/ table'[x].dmin = table[x].dmin
              \/ (table'[x].dmin = ChildDepth /\ ChildDepth < table[x].dmin)
      /\ \A x \in Ids : table[x] = Nil /\ table'[x] # Nil =>
           x = Canon(g, Head(pending).st) /\ table'[x].dmin = ChildDepth
           /\ table'[x].status = "queued"
      /\ ChildDepth \in Nat
  BY AddedDepths, AddedRecord
<1>6. DepthsReached(table)'
  <2>1. Canon(g, Head(pending).st) \in WithinActions(ChildDepth)
    BY <1>1, ChildReached DEF MemoryDeep
  <2>2. ASSUME NEW x \in Ids, table'[x] # Nil PROVE x \in WithinActions(table'[x].dmin)
    <3>1. CASE table[x] # Nil /\ table'[x].dmin = table[x].dmin
      BY <3>1 DEF MemoryDeep, DepthsReached
    <3>2. CASE x = Canon(g, Head(pending).st) /\ table'[x].dmin = ChildDepth
      BY <2>1, <3>2
    <3>3. CASE table[x] # Nil /\ table'[x].dmin = ChildDepth /\ ChildDepth < table[x].dmin
      <4>1. x = Canon(g, Head(pending).st)
        <5>1. PICK id : id = Canon(g, Head(pending).st)
          OBVIOUS
        <5>2. \A y \in Ids \ {id} : table'[y] = table[y]
          BY <5>1, AddedRecord
        <5>3. table'[x] # table[x]
          BY <1>5, <3>3
        <5>4. QED
          BY <5>1, <5>2, <5>3
      <4>2. QED
        BY <2>1, <3>3, <4>1
    <3>4. QED
      BY <1>5, <2>2, <3>1, <3>2, <3>3
  <2>3. QED
    BY <1>1, <2>2, WithinFixed DEF DepthsReached
<1>7. \A s \in States :
        Near(table, s, ChildDepth) \/ (\E j \in DOMAIN pending : pending[j].st = s)
          => Near(table', s, ChildDepth) \/ (\E j \in DOMAIN pending' : pending'[j].st = s)
  BY PendingNear
<1>8. \A s \in States, n \in Nat : Near(table, s, n) => Near(table', s, n)
  <2>1. ASSUME NEW s \in States, NEW n \in Nat, Near(table, s, n) PROVE Near(table, s, n)'
    BY <1>1, <1>5, <2>1, NearStays
  <2>2. QED
    BY <1>1, <2>1 DEF Near, HasState
<1>9. NearRoots'
  <2>1. ASSUME NEW i \in DOMAIN InitialStates(g)
        PROVE  \/ Near(table', InitialStates(g)[i].st, 0)
               \/ cur = Nil /\ \E j \in DOMAIN pending' : pending'[j].st = InitialStates(g)[i].st
    <3>1. PICK s \in States : s = InitialStates(g)[i].st
      BY <1>1, ReachableClosed
    <3>2. Near(table, s, 0) \/ (cur = Nil /\ \E j \in DOMAIN pending : pending[j].st = s)
      BY <1>1, <3>1 DEF MemoryDeep, NearRoots
    <3>3. cur = Nil => ChildDepth = 0
      BY DEF ChildDepth
    <3>4. QED
      BY <1>7, <1>8, <3>1, <3>2, <3>3
  <2>2. QED
    BY <1>1, <2>1 DEF NearRoots, Near, HasState
<1>10. Seeded'
  <2> SUFFICES ASSUME cur = Nil, NEW x \in Ids, table'[x] # Nil
               PROVE  table'[x].dmin = 0 /\ table'[x].status = "queued"
    BY <1>1 DEF Seeded
  <2>1. ChildDepth = 0
    BY DEF ChildDepth
  <2>2. table[x] # Nil => table[x].dmin = 0 /\ table[x].status = "queued"
    BY <1>1 DEF MemoryDeep, Seeded
  <2>3. QED
    BY <1>5, <2>1, <2>2
<1>11. PendingSteps'
  <2>1. cur # Nil => table'[cur.id].rep = table[cur.id].rep
    BY <1>5, QueuedItemsKnown, NilAssumption DEF WorkItems
  <2>2. \A child \in Elements(pending') : child \in Elements(pending)
    BY <1>1, HeadPending
  <2>3. \A child \in Elements(pending) :
          IF cur = Nil THEN \E i \in DOMAIN InitialStates(g) : child.st = InitialStates(g)[i].st
          ELSE \E a \in Actions : child.st = Apply(table[cur.id].rep, a)
    BY <1>1 DEF MemoryDeep, PendingSteps
  <2>4. QED
    BY <1>1, <2>1, <2>2, <2>3 DEF PendingSteps, Apply, Elements
<1>12. MemoryReduced(P)'
  BY AddStateReduces DEF MemoryDeep
<1>13. NearCovered(table, P)'
  <2>1. \A u \in Expanded(table) : table'[u].dmin = table[u].dmin
    BY <1>3 DEF Grown
  <2>2. QED
    BY <1>1, <1>3, <1>5, <2>1, NearCoveredStays DEF MemoryDeep
<1>14. CurNear(P)'
  <2> SUFFICES ASSUME cur # Nil PROVE CurNear(P)'
    BY <1>1 DEF CurNear
  <2>1. PICK c \in Ids : c = cur.id /\ table[c] # Nil /\ c \in Grown
    BY QueuedItemsKnown, NilAssumption DEF WorkItems, Grown
  <2>2. table'[c].dmin = table[c].dmin /\ table'[c].rep = table[c].rep /\ ChildDepth = table[c].dmin + 1
    BY <1>3, <1>5, <2>1 DEF ChildDepth
  <2>3. PICK path : path = cur.path /\ path = cur'.path
    BY <1>1
  <2>4. \A a : Postponed(path, a)' <=> Postponed(path, a)
    BY <1>1, PostponedFixed
  <2>5. ASSUME NEW a \in Actions, Apply(table[c].rep, a) # Nil
        PROVE  \/ Near(table', Apply(table[c].rep, a), ChildDepth)
               \/ \E j \in DOMAIN pending' : pending'[j].st = Apply(table[c].rep, a)
               \/ Postponed(path, a)
    <3>1. Apply(table[c].rep, a) \in States
      BY <1>1, <2>1, <2>5, SuccessorType
    <3>2. \/ Near(table, Apply(table[c].rep, a), ChildDepth)
          \/ \E j \in DOMAIN pending : pending[j].st = Apply(table[c].rep, a)
          \/ Postponed(path, a)
      BY <2>1, <2>2, <2>3, <2>5 DEF MemoryDeep, CurNear
    <3>3. QED
      BY <1>7, <3>1, <3>2
  <2>6. \A a \in Actions : Apply(table[c].rep, a)' = Apply(table[c].rep, a)
    BY <1>1, <2>2 DEF Apply
  <2>7. PICK n : n = ChildDepth
    OBVIOUS
  <2>8. n = table'[c].dmin + 1 /\ cur'.id = c
    BY <1>1, <2>1, <2>2, <2>7
  <2>9. \A a \in Actions : Apply(table[c].rep, a)' # Nil =>
          \/ Near(table', Apply(table[c].rep, a)', n)
          \/ \E j \in DOMAIN pending' : pending'[j].st = Apply(table[c].rep, a)'
          \/ Postponed(path, a)'
    BY <2>4, <2>5, <2>6, <2>7
  <2>10. QED
    BY <1>1, <2>3, <2>8, <2>9 DEF CurNear, Near, HasState
<1>15. Lengths(P)'
  <2>1. Reduces(g) => w = 0
    BY <1>2 DEF Slack
  <2>2. QED
    BY <1>3, <2>1, AddStateLengths DEF MemoryDeep
<1>16. QED
  BY <1>4, <1>6, <1>9, <1>10, <1>11, <1>12, <1>13, <1>14, <1>15 DEF MemoryDeep

\* A change of status changes neither state nor depth.
LEMMA StatusKeepsDepths ==
  ASSUME TypeOK, NEW id \in Ids, table[id] \in Records, NEW status \in Statuses,
         table' = [table EXCEPT ![id] = WithStatus(@, status)]
  PROVE  \A x \in Ids : /\ table[x] # Nil <=> table'[x] # Nil
                        /\ table'[x].rep = table[x].rep /\ table'[x].dmin = table[x].dmin
                        /\ table'[x].status = IF x = id THEN status ELSE table[x].status
<1> DEFINE new == WithStatus(table[id], status)
<1>1. new \in Records /\ new.rep = table[id].rep /\ new.dmin = table[id].dmin /\ new.status = status
  BY DEF WithStatus, Records
<1>2. table \in Tables /\ table' = [table EXCEPT ![id] = new]
  BY DEF TypeOK
<1> HIDE DEF new
<1>3. table'[id] = new /\ \A x \in Ids \ {id} : table'[x] = table[x]
  BY <1>2 DEF Tables
<1>4. QED
  BY <1>1, <1>3, NilAssumption

\* The deque stays in order when its head is taken in hand or done with.
LEMMA PopBreadth ==
  ASSUME FrontierInv, queue # <<>>, queue' = Tail(queue), cur = Nil, cur' \in {Nil, Head(queue)},
         \A x \in Ids : table'[x].dmin = table[x].dmin, Expanded(table)' = Expanded(table),
         NEW w \in {0, 1}, BreadthFirst(w)
  PROVE  BreadthFirst(w)'
<1>1. queue \in Seq(WorkItems)
  BY DEF FrontierInv, TypeOK
<1>2. /\ Len(queue) \in Nat \ {0} /\ DOMAIN queue = 1..Len(queue) /\ Head(queue) = queue[1]
      /\ DOMAIN Tail(queue) = 1..(Len(queue) - 1)
      /\ \A i \in 1..(Len(queue) - 1) : Tail(queue)[i] = queue[i + 1]
  BY <1>1, HeadTailTypes
<1>3. \A i \in DOMAIN queue : queue[i].id \in Ids
  BY QueuedItemsKnown DEF WorkItems
<1>4. \A i \in DOMAIN queue' : /\ i \in Nat /\ i + 1 \in DOMAIN queue /\ 1 < i + 1
                               /\ queue'[i] = queue[i + 1]
  BY <1>2
<1>5. \A i \in DOMAIN queue' : At(i)' = At(i + 1)
  BY <1>3, <1>4 DEF At
<1>6. \A i, j \in DOMAIN queue : At(i) <= At(j) + 1 + w /\ (i < j => At(i) <= At(j) + w)
  BY DEF BreadthFirst
<1>7. \A i, j \in DOMAIN queue' : At(i)' <= At(j)' + 1 + w /\ (i < j => At(i)' <= At(j)' + w)
  <2> TAKE i, j \in DOMAIN queue'
  <2>1. i + 1 \in DOMAIN queue /\ j + 1 \in DOMAIN queue /\ (i < j => i + 1 < j + 1)
    BY <1>4
  <2>2. QED
    BY <1>5, <1>6, <2>1
<1>8. Grown = Expanded(table)
  BY DEF Grown
<1>9. \A u \in Expanded(table), i \in DOMAIN queue : table[u].dmin <= At(i) + w
  BY <1>8 DEF BreadthFirst
<1>10. \A u \in Expanded(table) : u \in Ids
  BY DEF Expanded
<1>11. CASE cur' = Nil
  <2>1. Grown' = Expanded(table)
    BY <1>11 DEF Grown
  <2>2. \A u \in Grown', i \in DOMAIN queue' : table'[u].dmin <= At(i)' + w
    BY <1>4, <1>5, <1>9, <1>10, <2>1
  <2>3. QED
    BY <1>7, <1>11, <2>2 DEF BreadthFirst
<1>12. CASE cur' = Head(queue) /\ cur' # Nil
  <2>1. PICK c \in Ids : c = cur'.id /\ 1 \in DOMAIN queue /\ At(1) = table[c].dmin
    BY <1>2, <1>3, <1>12 DEF At
  <2>2. Grown' = Expanded(table) \cup {c} /\ table'[c].dmin = At(1)
    BY <1>12, <2>1 DEF Grown
  <2>3. \A i \in DOMAIN queue' : At(1) <= At(i + 1) + w /\ At(i + 1) <= At(1) + 1 + w
    BY <1>4, <1>6, <2>1
  <2>4. \A u \in Grown', i \in DOMAIN queue' : table'[u].dmin <= At(i)' + w
    BY <1>4, <1>5, <1>9, <1>10, <2>2, <2>3
  <2>5. \A u \in Expanded(table) : table'[u].dmin <= At(1) + w
    BY <1>9, <1>10, <2>1
  <2>6. QED
    BY <1>5, <1>7, <2>1, <2>2, <2>3, <2>4, <2>5 DEF BreadthFirst
<1>13. QED
  BY <1>11, <1>12

LEMMA PopDeep ==
  ASSUME FrontierInv, Reduces(g) => PathInv, Unconstrained(g), Pop,
         NEW P \in [Ids -> Paths], MemoryDeep(P)
  PROVE  \E Q \in [Ids -> Paths] : MemoryDeep(Q)'
<1> DEFINE work == Head(queue)
           record == table[work.id]
<1>1. /\ cur = Nil /\ queue # <<>> /\ queue' = Tail(queue) /\ phase = "loop" /\ TypeOK
      /\ UNCHANGED <<g, disk>>
  BY DEF FrontierInv, CurWhileExpanding, Pop
<1>2. /\ work \in WorkItems /\ work.id \in Ids /\ record \in Records /\ record.status = "queued"
      /\ work # Nil
  BY <1>1, HeadIsUnique, NilAssumption DEF WorkItems
<1>3. work \in InHand /\ Elements(queue)' \subseteq InHand
  BY <1>1, TailInHand
<1>4. TypeOK'
  BY PopFrontier DEF FrontierInv
<1>5. MemoryReduced(P)
  BY DEF MemoryDeep
<1>6. PICK Q \in [Ids -> Paths] : MemoryReduced(Q)' /\ \A u \in Grown : Q[u] = P[u]
  BY <1>5, PopReduces
<1>7. /\ \A x \in Ids : /\ table[x] # Nil <=> table'[x] # Nil
                        /\ table'[x].rep = table[x].rep /\ table'[x].dmin = table[x].dmin
      /\ Expanded(table)' = Expanded(table)
      /\ cur' \in {Nil, work}
      /\ phase' = IF cur' = Nil THEN "loop" ELSE "expanding"
  <2> HIDE DEF work
  <2>1. CASE /\ table' = [table EXCEPT ![work.id] = WithStatus(@, "terminal")]
             /\ UNCHANGED <<phase, cur>>
    <3>1. "terminal" \in Statuses
      BY DEF Statuses
    <3>2. \A x \in Ids : /\ table[x] # Nil <=> table'[x] # Nil
                         /\ table'[x].rep = table[x].rep /\ table'[x].dmin = table[x].dmin
                         /\ table'[x].status = IF x = work.id THEN "terminal" ELSE table[x].status
      BY <1>1, <1>2, <2>1, <3>1, StatusKeepsDepths
    <3>3. Expanded(table)' = Expanded(table)
      BY <1>2, <3>2 DEF Expanded
    <3>4. QED
      BY <1>1, <2>1, <3>2, <3>3
  <2>2. CASE cur' = work /\ phase' = "expanding" /\ UNCHANGED table
    BY <1>2, <2>2 DEF Expanded
  <2>3. QED
    BY <1>2, <2>1, <2>2 DEF Pop, work
<1>8. PICK W \in WorkItems : W = work
  BY <1>2
<1>9. cur' # Nil =>
        /\ table' = table
        /\ \A a \in Actions : Apply(table[W.id].rep, a) # Nil =>
             \/ \E j \in DOMAIN pending' : pending'[j].st = Apply(table[W.id].rep, a)
             \/ Postponed(W.path, a)
        /\ \A j \in DOMAIN pending' : \E a \in Actions : pending'[j].st = Apply(table[W.id].rep, a)
  <2> SUFFICES ASSUME cur' # Nil
               PROVE  /\ table' = table
                      /\ \E por \in PorChoices(EnabledActions(g, table[W.id].rep)) :
                         \E order \in Ranked(ViableActions(W, por)) :
                           pending' = [i \in DOMAIN order |->
                                         [act |-> order[i], st |-> Apply(table[W.id].rep, order[i])]]
    BY <1>1, <1>2, <1>3, <1>5, <1>8, PopOffers
  <2>1. cur' # cur
    BY <1>1
  <2>2. QED
    BY <1>8, <2>1 DEF Pop
<1> HIDE DEF work
<1>10. DepthsReached(table)'
  BY <1>1, <1>7, WithinFixed DEF MemoryDeep, DepthsReached
<1>11. \A s \in States, n \in Nat : Near(table, s, n) => Near(table, s, n)'
  <2>1. \A x \in Ids : table[x] # Nil => table[x].dmin \in Nat
    BY <1>1 DEF TypeOK, Tables, Records
  <2>2. \A x \in Ids : table[x] # Nil => table'[x] # Nil /\ table'[x].dmin <= table[x].dmin
    BY <1>7, <2>1
  <2>3. QED
    BY <1>1, <1>4, <2>2, NearStays
<1>12. NearRoots'
  <2>1. \A i \in DOMAIN InitialStates(g) : Near(table, InitialStates(g)[i].st, 0)
    BY <1>1 DEF MemoryDeep, NearRoots
  <2>2. \A i \in DOMAIN InitialStates(g) : InitialStates(g)[i].st \in States
    BY <1>1, ReachableClosed
  <2>3. \A i \in DOMAIN InitialStates(g) : Near(table, InitialStates(g)[i].st, 0)'
    BY <1>1, <1>11, <2>1, <2>2 DEF Near, HasState
  <2>4. QED
    BY <1>1, <2>3 DEF NearRoots, Near, HasState
<1>13. Seeded'
  BY <1>2, <1>7 DEF Seeded
<1>14. PendingSteps'
  BY <1>1, <1>7, <1>8, <1>9 DEF PendingSteps, Elements, Apply
<1>15. BreadthFirst(Slack)'
  <2>1. PICK w \in {0, 1} : w = Slack
    BY DEF Slack
  <2>2. Slack' = w /\ BreadthFirst(w)
    BY <1>1, <2>1 DEF Slack, MemoryDeep
  <2>3. BreadthFirst(w)'
    BY <1>1, <1>7, <2>2, PopBreadth DEF work
  <2>4. QED
    BY <2>2, <2>3 DEF BreadthFirst
<1>16. NearCovered(table, Q)'
  <2>1. \A x \in Ids : table[x] # Nil => /\ table'[x] # Nil /\ table'[x].rep = table[x].rep
                                         /\ table'[x].dmin <= table[x].dmin
    BY <1>1, <1>7 DEF TypeOK, Tables, Records
  <2>2. \A u \in Expanded(table) : Q[u] = P[u] /\ table'[u].dmin = table[u].dmin
    BY <1>6, <1>7 DEF Grown, Expanded
  <2>3. QED
    BY <1>1, <1>4, <1>7, <2>1, <2>2, NearCoveredStays DEF MemoryDeep
<1>17. CurNear(Q)'
  <2>1. \A a : Postponed(W.path, a)' <=> Postponed(W.path, a)
    BY <1>1, PostponedFixed
  <2>2. cur' # Nil => cur' = W
    BY <1>7, <1>8
  <2>3. \A a \in Actions : cur' # Nil => Apply(table[W.id].rep, a)' = Apply(table[W.id].rep, a)
    BY <1>1, <1>9 DEF Apply
  <2>4. QED
    BY <1>9, <2>1, <2>2, <2>3 DEF CurNear
<1>18. Lengths(Q)'
  <2> SUFFICES ASSUME Reduces(g)
               PROVE  /\ \A u \in Grown' : Len(Q[u]) = table'[u].dmin + 1
                      /\ \A item \in InHand' : Len(item.path) = table'[item.id].dmin + 1
    BY <1>1 DEF Lengths, Reduces
  <2>1. /\ \A u \in Grown : Len(P[u]) = table[u].dmin + 1
        /\ \A item \in InHand : Len(item.path) = table[item.id].dmin + 1
    BY DEF MemoryDeep, Lengths
  <2>2. \A item \in InHand' : item \in InHand /\ item.id \in Ids
    BY <1>3, <1>7, InHandKnown DEF InHand
  <2>3. \A u \in Grown' : u \in Ids /\ (u \in Grown \/ (cur' = W /\ u = W.id))
    BY <1>7, <1>8 DEF Grown, Expanded, WorkItems
  <2>4. cur' = W => Q[W.id] = W.path
    BY <1>2, <1>6, <1>8 DEF MemoryReduced, CurCovered
  <2>5. QED
    BY <1>3, <1>6, <1>7, <1>8, <2>1, <2>2, <2>3, <2>4
<1>19. MemoryDeep(Q)'
  BY <1>6, <1>10, <1>12, <1>13, <1>14, <1>15, <1>16, <1>17, <1>18 DEF MemoryDeep
<1>20. QED
  BY <1>19

LEMMA EndExpansionDeep ==
  ASSUME FrontierInv, EndExpansion, NEW P \in [Ids -> Paths], MemoryDeep(P)
  PROVE  MemoryDeep(P)'
<1>1. /\ phase = "expanding" /\ phase' = "loop" /\ pending = <<>> /\ cur' = Nil
      /\ UNCHANGED <<g, queue, disk>> /\ TypeOK /\ TypeOK'
      /\ table' = IF cur = Nil THEN table ELSE [table EXCEPT ![cur.id] = WithStatus(@, "expanded")]
  BY EndExpansionFrontier DEF EndExpansion, FrontierInv
<1>2. PICK E \in SUBSET Ids : E = Grown
  BY QueuedItemsKnown DEF Grown, Expanded, WorkItems
<1>3. /\ \A x \in Ids : /\ table[x] # Nil <=> table'[x] # Nil
                        /\ table'[x].rep = table[x].rep /\ table'[x].dmin = table[x].dmin
      /\ Expanded(table)' = E
      /\ E \subseteq {x \in Ids : table[x] # Nil}
  <2>1. CASE cur = Nil
    BY <1>1, <1>2, <2>1 DEF Grown, Expanded
  <2>2. CASE cur # Nil
    <3>1. PICK c \in Ids : c = cur.id /\ table[c] \in Records /\ table[c] # Nil
      BY <2>2, QueuedItemsKnown, NilAssumption DEF WorkItems
    <3>2. "expanded" \in Statuses /\ table' = [table EXCEPT ![c] = WithStatus(@, "expanded")]
      BY <1>1, <2>2, <3>1 DEF Statuses
    <3>3. \A x \in Ids : /\ table[x] # Nil <=> table'[x] # Nil
                         /\ table'[x].rep = table[x].rep /\ table'[x].dmin = table[x].dmin
                         /\ table'[x].status = IF x = c THEN "expanded" ELSE table[x].status
      BY <1>1, <3>1, <3>2, StatusKeepsDepths
    <3>4. E = Expanded(table) \cup {c}
      BY <1>2, <2>2, <3>1 DEF Grown
    <3>5. Expanded(table)' = E
      BY <3>1, <3>3, <3>4 DEF Expanded
    <3>6. QED
      BY <3>1, <3>3, <3>4, <3>5 DEF Expanded
  <2>3. QED
    BY <2>1, <2>2
<1>4. Grown' = E
  BY <1>1, <1>3 DEF Grown
<1>5. DepthsReached(table)'
  BY <1>1, <1>3, WithinFixed DEF MemoryDeep, DepthsReached
<1>6. \A s \in States, n \in Nat : Near(table, s, n) => Near(table, s, n)'
  <2>1. \A x \in Ids : table[x] # Nil => table'[x] # Nil /\ table'[x].dmin <= table[x].dmin
    BY <1>1, <1>3 DEF TypeOK, Tables, Records
  <2>2. QED
    BY <1>1, <2>1, NearStays
<1>7. NearRoots'
  <2>1. \A i \in DOMAIN InitialStates(g) :
          Near(table, InitialStates(g)[i].st, 0) /\ InitialStates(g)[i].st \in States
    BY <1>1, ReachableClosed DEF MemoryDeep, NearRoots
  <2>2. \A i \in DOMAIN InitialStates(g) : Near(table, InitialStates(g)[i].st, 0)'
    BY <1>1, <1>6, <2>1 DEF Near, HasState
  <2>3. QED
    BY <1>1, <2>2 DEF NearRoots, Near, HasState
<1>8. Seeded' /\ PendingSteps' /\ CurNear(P)'
  BY <1>1 DEF Seeded, PendingSteps, CurNear
<1>9. BreadthFirst(Slack)'
  <2>1. PICK w \in {0, 1} : w = Slack
    BY DEF Slack
  <2>2. Slack' = w /\ BreadthFirst(w)
    BY <1>1, <2>1 DEF Slack, MemoryDeep
  <2>3. \A i \in DOMAIN queue : At(i)' = At(i)
    <3>1. \A i \in DOMAIN queue : queue[i].id \in Ids
      BY QueuedItemsKnown DEF WorkItems
    <3>2. QED
      BY <1>1, <1>3, <3>1 DEF At
  <2>4. \A u \in E, i \in DOMAIN queue : table'[u].dmin <= At(i) + w
    BY <1>2, <1>3, <2>2 DEF BreadthFirst
  <2>5. QED
    BY <1>1, <1>4, <2>2, <2>3, <2>4 DEF BreadthFirst
<1>10. MemoryReduced(P)'
  BY EndExpansionReduces DEF MemoryDeep
<1>11. NearCovered(table, P)'
  <2> SUFFICES ASSUME NEW u \in E, NEW a \in Actions, Apply(table[u].rep, a)' # Nil
               PROVE  \/ Near(table, Apply(table[u].rep, a), table[u].dmin + 1)'
                      \/ Postponed(P[u], a)'
    BY <1>3 DEF NearCovered
  <2>1. u \in Ids /\ table[u] # Nil /\ table'[u].rep = table[u].rep /\ table'[u].dmin = table[u].dmin
    BY <1>3
  <2>2. Apply(table[u].rep, a)' = Apply(table[u].rep, a)
    BY <1>1, <2>1 DEF Apply
  <2>3. PICK s \in States : s = Apply(table[u].rep, a)
    BY <1>1, <2>1, <2>2, SuccessorType
  <2>4. PICK n \in Nat : n = table[u].dmin + 1
    BY <1>1, <2>1 DEF TypeOK, Tables, Records
  <2>5. Near(table, s, n) \/ Postponed(P[u], a)
    <3>1. CASE u \in Expanded(table)
      BY <2>2, <2>3, <2>4, <3>1 DEF MemoryDeep, NearCovered
    <3>2. CASE cur # Nil /\ u = cur.id
      <4>1. P[u] = cur.path
        BY <3>2 DEF MemoryDeep, MemoryReduced, CurCovered
      <4>2. QED
        BY <1>1, <2>2, <2>3, <2>4, <3>2, <4>1 DEF MemoryDeep, CurNear
    <3>3. QED
      BY <1>2, <3>1, <3>2 DEF Grown
  <2>6. CASE Near(table, s, n)
    <3>1. Near(table, s, n)'
      BY <1>6, <2>6
    <3>2. QED
      BY <2>1, <2>2, <2>3, <2>4, <3>1 DEF Near
  <2>7. CASE Postponed(P[u], a)
    BY <1>1, <2>7, PostponedFixed
  <2>8. QED
    BY <2>5, <2>6, <2>7
<1>12. Lengths(P)'
  <2>1. InHand' \subseteq InHand /\ \A work \in InHand' : work.id \in Ids
    <3>1. InHand' \subseteq InHand
      BY <1>1 DEF InHand, Elements
    <3>2. QED
      BY <3>1, InHandKnown
  <2>2. QED
    BY <1>1, <1>2, <1>3, <1>4, <2>1 DEF MemoryDeep, Lengths, Reduces
<1>13. QED
  BY <1>5, <1>7, <1>8, <1>9, <1>10, <1>11, <1>12 DEF MemoryDeep

\* A step that leaves the records and the deque alone.
LEMMA MemoryDeepStays ==
  ASSUME FrontierInv, UNCHANGED <<g, table, queue, cur, pending>>,
         \/ phase' = phase
         \/ phase \in {"loop", "result"} /\ phase' \in {"loop", "result", "stopped"},
         Slack <= Slack', NEW P, MemoryDeep(P)
  PROVE  MemoryDeep(P)'
<1>1. TypeOK
  BY DEF FrontierInv
<1>2. DepthsReached(table)'
  BY WithinFixed DEF MemoryDeep, DepthsReached
<1>3. NearRoots' /\ Seeded' /\ PendingSteps'
  BY DEF MemoryDeep, NearRoots, Seeded, PendingSteps, Near, HasState, Apply
<1>4. BreadthFirst(Slack)'
  <2>1. PICK w \in {0, 1} : w = Slack
    BY DEF Slack
  <2>2. PICK v \in {0, 1} : v = Slack'
    BY DEF Slack
  <2>3. BreadthFirst(w) /\ w <= v
    BY <2>1, <2>2 DEF MemoryDeep
  <2>4. \A i \in DOMAIN queue : At(i) \in Nat
    BY QueuedItemsKnown DEF At, Records
  <2>5. \A u \in Grown : table[u].dmin \in Nat
    BY <1>1, QueuedItemsKnown DEF Grown, Expanded, TypeOK, Tables, Records
  <2>6. /\ \A i, j \in DOMAIN queue : At(i) <= At(j) + 1 + v /\ (i < j => At(i) <= At(j) + v)
        /\ \A u \in Grown, i \in DOMAIN queue : table[u].dmin <= At(i) + v
    BY <2>3, <2>4, <2>5 DEF BreadthFirst
  <2>7. cur # Nil => /\ \A i \in DOMAIN queue : At(i) <= table[cur.id].dmin + 1 + v
                     /\ \A u \in Expanded(table) : table[u].dmin <= table[cur.id].dmin + v
    <3> SUFFICES ASSUME cur # Nil
                 PROVE  /\ \A i \in DOMAIN queue : At(i) <= table[cur.id].dmin + 1 + v
                        /\ \A u \in Expanded(table) : table[u].dmin <= table[cur.id].dmin + v
      OBVIOUS
    <3>1. PICK n \in Nat : n = table[cur.id].dmin
      BY QueuedItemsKnown DEF Records
    <3>2. \A u \in Expanded(table) : table[u].dmin \in Nat
      BY <2>5 DEF Grown
    <3>3. QED
      BY <2>3, <2>4, <3>1, <3>2 DEF BreadthFirst
  <2>8. BreadthFirst(v)
    BY <2>6, <2>7 DEF BreadthFirst
  <2>9. BreadthFirst(v)'
    BY <2>8 DEF BreadthFirst, At, Grown, Expanded
  <2>10. QED
    BY <2>2, <2>9 DEF BreadthFirst
<1>5. MemoryReduced(P)'
  BY MemoryReducedStays DEF MemoryDeep
<1>6. \A path, a : Postponed(path, a)' <=> Postponed(path, a)
  BY PostponedFixed
<1>7. NearCovered(table, P)'
  BY <1>6 DEF MemoryDeep, NearCovered, Near, HasState, Apply, Expanded
<1>8. CurNear(P)'
  <2>1. PICK path : path = cur.path /\ path = cur'.path
    OBVIOUS
  <2>2. CASE cur # Nil
    <3>1. \A a \in Actions : Apply(table[cur.id].rep, a) # Nil =>
            \/ Near(table, Apply(table[cur.id].rep, a), table[cur.id].dmin + 1)
            \/ \E j \in DOMAIN pending : pending[j].st = Apply(table[cur.id].rep, a)
            \/ Postponed(path, a)
      BY <2>1, <2>2 DEF MemoryDeep, CurNear
    <3>2. QED
      BY <1>6, <2>1, <3>1 DEF CurNear, Near, HasState, Apply
  <2>3. QED
    BY <2>2 DEF CurNear
<1>9. Lengths(P)'
  BY DEF MemoryDeep, Lengths, Reduces, Grown, Expanded, InHand, Elements
<1>10. QED
  BY <1>2, <1>3, <1>4, <1>5, <1>7, <1>8, <1>9 DEF MemoryDeep

\* The roots are offered first.
LEMMA StartDeep ==
  ASSUME FrontierInv, Start, NEW P, MemoryDeep(P)
  PROVE  MemoryDeep(P)'
<1>1. /\ phase \in {"idle", "crashed"} /\ phase' = "expanding" /\ cur = Nil
      /\ pending' = InitialStates(g) /\ UNCHANGED <<g, table, queue, cur, disk>>
  BY DEF Start, FrontierInv, CurWhileExpanding
<1>2. DepthsReached(table)'
  BY <1>1, WithinFixed DEF MemoryDeep, DepthsReached
<1>3. NearRoots' /\ PendingSteps'
  BY <1>1 DEF NearRoots, PendingSteps, Elements
<1>4. Seeded'
  BY <1>1 DEF MemoryDeep, Seeded
<1>5. BreadthFirst(Slack)'
  <2>1. PICK w : w = Slack
    OBVIOUS
  <2>2. Slack' = w /\ BreadthFirst(w)
    BY <1>1, <2>1 DEF Slack, MemoryDeep
  <2>3. BreadthFirst(w)'
    BY <1>1, <2>2 DEF BreadthFirst, At, Grown, Expanded
  <2>4. QED
    BY <2>2, <2>3 DEF BreadthFirst
<1>6. MemoryReduced(P)'
  BY <1>1, MemoryReducedStays DEF MemoryDeep
<1>7. \A path, a : Postponed(path, a)' <=> Postponed(path, a)
  BY <1>1, PostponedFixed
<1>8. NearCovered(table, P)'
  BY <1>1, <1>7 DEF MemoryDeep, NearCovered, Near, HasState, Apply, Expanded
<1>9. CurNear(P)'
  BY <1>1 DEF CurNear
<1>10. Lengths(P)'
  BY <1>1 DEF MemoryDeep, Lengths, Reduces, Grown, Expanded, InHand, Elements
<1>11. QED
  BY <1>2, <1>3, <1>4, <1>5, <1>6, <1>8, <1>9, <1>10 DEF MemoryDeep

LEMMA ClearedDeep ==
  ASSUME ClearMemory, g' = g, phase' \in {"crashed", "failed"}
  PROVE  \E P \in [Ids -> Paths] : MemoryDeep(P)'
<1> DEFINE P == [id \in Ids |-> <<>>]
<1>1. P \in [Ids -> Paths]
  BY DEF Paths
<1>2. /\ InHand' = {} /\ cur' = Nil /\ Grown' = {} /\ Expanded(table)' = {}
      /\ queue' = <<>> /\ \A id \in Ids : table'[id] = Nil
  BY DEF ClearMemory, InHand, Elements, Grown, Expanded, EmptyTable
<1> HIDE DEF P
<1>3. MemoryReduced(P)'
  BY <1>2 DEF MemoryReduced, Covered, CurCovered, Descended, Tree
<1>4. DepthsReached(table)' /\ NearRoots' /\ Seeded' /\ PendingSteps'
  BY <1>2 DEF DepthsReached, NearRoots, Seeded, PendingSteps
<1>5. BreadthFirst(Slack)'
  <2>1. PICK w : w = Slack'
    OBVIOUS
  <2>2. BreadthFirst(w)'
    BY <1>2 DEF BreadthFirst
  <2>3. QED
    BY <2>1, <2>2 DEF BreadthFirst
<1>6. NearCovered(table, P)' /\ CurNear(P)' /\ Lengths(P)'
  BY <1>2 DEF NearCovered, CurNear, Lengths
<1>7. MemoryDeep(P)'
  BY <1>3, <1>4, <1>5, <1>6 DEF MemoryDeep
<1>8. QED
  BY <1>1, <1>7

\* What a search writes when a limit stops it the first time.
LEMMA SaveDeep ==
  ASSUME FrontierInv, phase = "result", disk = Nil, disk' = Checkpoint,
         UNCHANGED <<g, table>>, NEW P \in [Ids -> Paths], MemoryDeep(P)
  PROVE  DiskDeep'
<1>1. cur = Nil /\ TypeOK /\ Slack = 0
  BY DEF FrontierInv, CurWhileExpanding, Slack
<1>2. /\ disk'.table = table
      /\ Unexplored(disk.table)' = {queue[i].id : i \in DOMAIN queue}
      /\ Expanded(disk.table)' = Expanded(table) /\ Grown = Expanded(table)
  <2>1. disk'.table = table
    BY DEF Checkpoint
  <2>2. QueuedIds = {queue[i].id : i \in DOMAIN queue}
    BY <1>1 DEF FrontierInv, FrontierOwned
  <2>3. QED
    BY <1>1, <2>1, <2>2 DEF Unexplored, QueuedIds, Known, Expanded, Grown
<1>3. \A path, a : Postponed(path, a)' <=> Postponed(path, a)
  BY PostponedFixed
<1>4. DepthsReached(disk.table)'
  BY <1>2, WithinFixed DEF MemoryDeep, DepthsReached
<1>5. NearCovered(disk.table, P)'
  BY <1>2, <1>3 DEF MemoryDeep, NearCovered, Near, HasState, Apply
<1>6. \A i \in DOMAIN InitialStates(g) : Near(disk'.table, InitialStates(g)[i].st, 0)
  BY <1>2 DEF MemoryDeep, NearRoots
<1>7. \A u \in Unexplored(disk.table)' \cup Expanded(disk.table)', x \in Unexplored(disk.table)' :
        disk'.table[u].dmin <= disk'.table[x].dmin + 1
  <2>1. \A i \in DOMAIN queue : At(i) = table[queue[i].id].dmin /\ At(i) \in Nat
    BY QueuedItemsKnown DEF At, Records
  <2>2. \A u \in Expanded(table) : table[u].dmin \in Nat
    BY <1>1 DEF Expanded, TypeOK, Tables, Records
  <2>3. PICK w : w = Slack /\ w = 0
    BY <1>1
  <2>4. BreadthFirst(w)
    BY <2>3 DEF MemoryDeep
  <2>5. /\ \A i, j \in DOMAIN queue : At(i) <= At(j) + 1
        /\ \A u \in Expanded(table), i \in DOMAIN queue : table[u].dmin <= At(i) + 1
    BY <1>2, <2>1, <2>2, <2>3, <2>4 DEF BreadthFirst
  <2>6. QED
    BY <1>2, <2>1, <2>5
<1>8. QED
  BY <1>4, <1>5, <1>6, <1>7 DEF DiskDeep, Near, HasState

LEMMA DiskDeepStays ==
  ASSUME UNCHANGED <<g, disk>>, DiskDeep
  PROVE  DiskDeep'
<1>1. \A path, a : Postponed(path, a)' <=> Postponed(path, a)
  BY PostponedFixed
<1>2. \A P : NearCovered(disk.table, P) => NearCovered(disk.table, P)'
  BY <1>1 DEF NearCovered, Near, HasState, Apply, Expanded
<1>3. DepthsReached(disk.table)'
  BY WithinFixed DEF DiskDeep, DepthsReached
<1>4. QED
  BY <1>2, <1>3 DEF DiskDeep, Near, HasState, Expanded

\* A resume sorts by digest what is one action wide.
LEMMA ResumeDeep ==
  ASSUME FrontierInv, Resume, phase' = "loop", ~Reduces(g), DiskDeep,
         NEW Q \in [Ids -> Paths], MemoryReduced(Q)'
  PROVE  MemoryDeep(Q)'
<1>1. /\ disk # Nil /\ cur = Nil /\ cur' = Nil /\ UNCHANGED <<g, disk>> /\ table' = disk.table
      /\ disk.table \in Tables
  BY DEF Resume, FrontierInv, CurWhileExpanding, TypeOK, Checkpoints
<1>2. PICK order \in Orderings(Unexplored(disk.table)) :
        queue' = [i \in DOMAIN order |-> RestoredItem(order[i], disk.table[order[i]].path)]
  BY DEF Resume
<1>3. Expanded(table)' = Expanded(disk.table) /\ Grown' = Expanded(disk.table)
  BY <1>1 DEF Grown, Expanded
<1>4. \A i \in DOMAIN queue' : /\ queue'[i].id \in Unexplored(disk.table)
                               /\ At(i)' = disk.table[queue'[i].id].dmin
  <2>1. \A i \in DOMAIN order : order[i] \in Unexplored(disk.table)
    BY DEF Orderings
  <2>2. \A i \in DOMAIN queue' : queue'[i].id = order[i] /\ i \in DOMAIN order
    BY <1>2 DEF RestoredItem
  <2>3. \A i : At(i)' = table'[queue'[i].id].dmin
    BY DEF At
  <2>4. QED
    BY <1>1, <2>1, <2>2, <2>3
<1>5. \A x \in Unexplored(disk.table) \cup Expanded(disk.table) : disk.table[x].dmin \in Nat
  BY <1>1 DEF Unexplored, Expanded, Tables, Records
<1>6. \A path, a : ~Postponed(path, a) /\ ~Postponed(path, a)'
  BY <1>1 DEF Postponed, Reduces
<1>7. DepthsReached(table)'
  BY <1>1, WithinFixed DEF DiskDeep, DepthsReached
<1>8. NearRoots'
  BY <1>1 DEF DiskDeep, NearRoots, Near, HasState
<1>9. Seeded' /\ PendingSteps' /\ CurNear(Q)' /\ Lengths(Q)'
  BY <1>1 DEF Seeded, PendingSteps, CurNear, Lengths, Reduces
<1>10. BreadthFirst(Slack)'
  <2>1. PICK w : w = 1
    OBVIOUS
  <2>2. Slack' = w
    BY <1>1, <2>1 DEF Slack
  <2>3. \A i, j \in DOMAIN queue' : At(i)' <= At(j)' + 1
    BY <1>4 DEF DiskDeep
  <2>4. \A u \in Expanded(disk.table), i \in DOMAIN queue' : table'[u].dmin <= At(i)' + 1
    BY <1>1, <1>4 DEF DiskDeep
  <2>5. \A i \in DOMAIN queue' : At(i)' \in Nat
    BY <1>4, <1>5
  <2>6. BreadthFirst(w)'
    BY <1>1, <1>3, <2>1, <2>3, <2>4, <2>5 DEF BreadthFirst
  <2>7. QED
    BY <2>2, <2>6 DEF BreadthFirst
<1>11. NearCovered(table, Q)'
  BY <1>1, <1>6 DEF DiskDeep, NearCovered, Near, HasState, Apply, Expanded
<1>12. QED
  BY <1>7, <1>8, <1>9, <1>10, <1>11 DEF MemoryDeep

\* In a drained search every successor of an expanded record is at most one action
\* deeper, what POR left out included.
LEMMA NothingFarther ==
  ASSUME FrontierInv, CoverInv, Reduces(g) => Faithful(g), cur = Nil, queue = <<>>,
         NEW P \in [Ids -> Paths], MemoryDeep(P)
  PROVE  \A u \in Expanded(table), a \in Actions :
           Apply(table[u].rep, a) # Nil => Near(table, Apply(table[u].rep, a), table[u].dmin + 1)
<1> DEFINE Far(u, a) == /\ Apply(table[u].rep, a) # Nil
                        /\ ~Near(table, Apply(table[u].rep, a), table[u].dmin + 1)
           S == {a \in Actions : \E u \in Expanded(table) : Far(u, a)}
<1>1. SUFFICES ASSUME S # {} PROVE FALSE
  OBVIOUS
<1>2. PICK a \in S : \A b \in S : ~(Key(g, a) < Key(g, b))
  <2> HIDE DEF S
  <2>1. S \subseteq Actions /\ TypeOK
    BY DEF S, FrontierInv
  <2>2. QED
    BY <1>1, <2>1, GreatestKey
<1>3. PICK u \in Expanded(table) :
        Far(u, a) /\ \A v \in Expanded(table) : Far(v, a) => ~(Len(P[v]) < Len(P[u]))
  <2> HIDE DEF Far
  <2>1. \E u \in {v \in Expanded(table) : Far(v, a)} :
          \A v \in {v \in Expanded(table) : Far(v, a)} : ~(Len(P[v]) < Len(P[u]))
    BY <1>2, ShortestPath DEF Expanded
  <2>2. QED
    BY <2>1
<1>4. Postponed(P[u], a)
  BY <1>2, <1>3 DEF MemoryDeep, NearCovered
<1>5. Reduces(g) /\ Tree(table, Expanded(table), P) /\ Grown = Expanded(table)
  BY <1>4 DEF Postponed, MemoryDeep, MemoryReduced, Descended, Grown
<1>6. PICK v \in Expanded(table), last \in Actions, y \in States, w \in Ids :
        /\ Len(P[u]) = Len(P[v]) + 1
        /\ Key(g, a) < Key(g, last)
        /\ y = Apply(table[v].rep, a) /\ w = Canon(g, y)
        /\ HasState(table, y) => /\ w \in Expanded(table) /\ table[w].rep = y
                                 /\ Apply(y, last) # Nil
                                 /\ Canon(g, Apply(y, last)) = Canon(g, Apply(table[u].rep, a))
  BY <1>2, <1>4, <1>5, OtherOrder
<1>7. /\ table[u].dmin \in Nat /\ table[v].dmin \in Nat
      /\ Len(P[u]) = table[u].dmin + 1 /\ Len(P[v]) = table[v].dmin + 1
  <2>1. /\ \A x \in Expanded(table) : table[x].dmin \in Nat
        /\ \A x \in Expanded(table) : Len(P[x]) = table[x].dmin + 1
    BY <1>5 DEF MemoryDeep, Lengths, FrontierInv, TypeOK, Expanded, Tables, Records
  <2>2. QED
    BY <2>1
<1>8. Near(table, y, table[v].dmin + 1)
  <2>1. Len(P[v]) < Len(P[u])
    BY <1>6, <1>7
  <2>2. ~Far(v, a)
    BY <1>3, <2>1
  <2>3. QED
    BY <1>6, <2>2, NilAssumption
<1>9. w \in Expanded(table) /\ table[w].rep = y /\ Apply(y, last) # Nil
      /\ Canon(g, Apply(y, last)) = Canon(g, Apply(table[u].rep, a))
      /\ table[w].dmin <= table[v].dmin + 1
  BY <1>6, <1>8 DEF Near
<1>10. Near(table, Apply(y, last), table[w].dmin + 1)
  <2>1. ~Far(w, last)
    BY <1>2, <1>6, <1>9
  <2>2. QED
    BY <1>9, <2>1
<1>11. PICK x \in Ids : x = Canon(g, Apply(table[u].rep, a)) /\ table[x] # Nil
                        /\ table[x].dmin <= table[w].dmin + 1
  <2>1. Apply(table[u].rep, a) \in States
    BY <1>2, <1>3, SuccessorType DEF FrontierInv, Expanded
  <2>2. Canon(g, Apply(table[u].rep, a)) \in Ids
    BY <2>1, GrammarTypes DEF FrontierInv, IsGrammar
  <2>3. QED
    BY <1>9, <1>10, <2>2 DEF Near, HasState
<1>12. table[x].dmin \in Nat /\ table[w].dmin \in Nat
  BY <1>9, <1>11 DEF FrontierInv, TypeOK, Expanded, Tables, Records
<1>13. table[x].dmin <= table[u].dmin + 1
  BY <1>6, <1>7, <1>9, <1>11, <1>12
<1>14. Near(table, Apply(table[u].rep, a), table[u].dmin + 1)
  BY <1>11, <1>13 DEF Near, HasState
<1>15. QED
  BY <1>3, <1>14

\* So a record is no deeper than any sequence of actions that reaches it.
LEMMA DrainedDistances ==
  ASSUME FrontierInv, CoverInv, Equivariant(g), Reduces(g) => Faithful(g),
         phase = "result", complete, NEW P \in [Ids -> Paths], MemoryDeep(P)
  PROVE  Distances
<1>1. queue = <<>> /\ cur = Nil /\ TypeOK /\ IsGrammar(g)
  BY GrammarTypes DEF CoverInv, CompleteMeansDrained, FrontierInv, CurWhileExpanding
<1>2. \A x \in Ids : table[x] # Nil => /\ table[x].rep \in States /\ table[x].dmin \in Nat
                                       /\ table[x].status \in {"expanded", "terminal"}
  <2>1. {queue[i].id : i \in DOMAIN queue} = {}
    BY <1>1
  <2>2. QueuedIds = {}
    BY <1>1, <2>1 DEF FrontierInv, FrontierOwned
  <2>3. QED
    BY <1>1, <2>2 DEF TypeOK, Tables, Records, Statuses, QueuedIds, Known
<1>3. \A u \in Expanded(table), a \in Actions :
        Apply(table[u].rep, a) # Nil => Near(table, Apply(table[u].rep, a), table[u].dmin + 1)
  BY <1>1, NothingFarther
<1> DEFINE T == {n \in Nat : \E s \in ReachedIn(n) : ~Near(table, s, n)}
<1>4. T = {}
  <2> SUFFICES ASSUME T # {} PROVE FALSE
    OBVIOUS
  <2>1. PICK n \in T : \A m \in T : ~(m < n)
    <3>1. T \in SUBSET Nat
      OBVIOUS
    <3> HIDE DEF T
    <3>2. QED
      BY <3>1, LeastNumber
  <2>2. PICK s \in ReachedIn(n) : ~Near(table, s, n)
    OBVIOUS
  <2>3. CASE n = 0
    <3>1. \A i \in DOMAIN InitialStates(g) : Near(table, InitialStates(g)[i].st, 0)
      BY DEF MemoryDeep, NearRoots
    <3>2. s \in Roots
      BY <2>3, ReachedUnfolds
    <3>3. QED
      BY <2>2, <2>3, <3>1, <3>2 DEF Roots
  <2>4. CASE n # 0
    <3>1. PICK m \in Nat : n = m + 1 /\ m < n
      <4>1. n - 1 \in Nat /\ n = (n - 1) + 1 /\ n - 1 < n
        BY <2>4
      <4>2. QED
        BY <4>1
    <3>2. ReachedIn(m) \subseteq States /\ ReachedIn(n) = Onward(ReachedIn(m))
      BY <1>1, <3>1, ReachedStates, ReachedUnfolds
    <3>3. \A t \in ReachedIn(m) : Near(table, t, m)
      BY <2>1, <3>1
    <3>4. CASE s \in ReachedIn(m)
      <4>1. PICK x \in Ids : x = Canon(g, s)
        BY <1>1, <3>2, <3>4 DEF IsGrammar
      <4>2. table[x] # Nil /\ table[x].dmin <= m
        BY <3>3, <3>4, <4>1 DEF Near, HasState
      <4>3. table[x].dmin <= n
        BY <1>2, <3>1, <4>2
      <4>4. QED
        BY <2>2, <4>1, <4>2, <4>3 DEF Near, HasState
    <3>5. CASE s \notin ReachedIn(m)
      <4>1. PICK t \in ReachedIn(m), a \in Actions : s = Apply(t, a) /\ s # Nil
        BY <3>2, <3>5 DEF Onward, Successors
      <4>2. PICK x \in Ids : x = Canon(g, t)
        BY <1>1, <3>2 DEF IsGrammar
      <4>3. table[x] # Nil /\ table[x].dmin <= m
        BY <3>3, <4>2 DEF Near, HasState
      <4>4. PICK r \in States : r = table[x].rep /\ Canon(g, r) = Canon(g, t)
        BY <1>2, <4>2, <4>3 DEF CoverInv, TableSound
      <4>5. t \in States /\ ApplyAction(g, t, a) # Nil /\ s = ApplyAction(g, t, a)
        BY <3>2, <4>1, NilAssumption DEF Apply
      <4>6. PICK b \in Actions : /\ ApplyAction(g, r, b) # Nil
                                 /\ Canon(g, ApplyAction(g, r, b)) = Canon(g, s)
        BY <4>4, <4>5 DEF Equivariant
      <4>7. Apply(r, b) = ApplyAction(g, r, b)
        BY NilAssumption DEF Apply
      <4>8. r \notin TerminalStates(g)
        BY <1>1, <4>6 DEF IsGrammar
      <4>9. x \in Expanded(table)
        BY <1>2, <4>3, <4>4, <4>8 DEF CoverInv, TableSound, Expanded
      <4>10. Near(table, Apply(r, b), table[x].dmin + 1)
        BY <1>3, <4>4, <4>6, <4>7, <4>9
      <4>11. PICK z \in Ids : z = Canon(g, s)
        <5>1. s \in States
          BY <1>1, <4>1, <4>5, GrammarTypes
        <5>2. QED
          BY <1>1, <5>1 DEF IsGrammar
      <4>12. table[z] # Nil /\ table[z].dmin <= table[x].dmin + 1
        BY <4>6, <4>7, <4>10, <4>11 DEF Near, HasState
      <4>13. table[z].dmin <= n
        BY <1>2, <3>1, <4>3, <4>12
      <4>14. QED
        BY <2>2, <4>11, <4>12, <4>13 DEF Near, HasState
    <3>6. QED
      BY <3>4, <3>5
  <2>5. QED
    BY <2>3, <2>4
<1>5. ASSUME NEW id \in Known
      PROVE  /\ id \in WithinActions(table[id].dmin)
             /\ table[id].dmin > 0 => id \notin WithinActions(table[id].dmin - 1)
  <2>1. id \in Ids /\ table[id] # Nil
    BY DEF Known
  <2>2. id \in WithinActions(table[id].dmin)
    BY <2>1 DEF MemoryDeep, DepthsReached
  <2>3. ASSUME table[id].dmin > 0, id \in WithinActions(table[id].dmin - 1) PROVE FALSE
    <3>1. PICK n \in Nat : n = table[id].dmin - 1 /\ n < table[id].dmin
      <4>1. table[id].dmin - 1 \in Nat /\ table[id].dmin - 1 < table[id].dmin
        BY <1>2, <2>1, <2>3
      <4>2. QED
        BY <4>1
    <3>2. WithinActions(n) = {Canon(g, s) : s \in ReachedIn(n)}
      BY ReachedUnfolds
    <3>3. PICK s \in ReachedIn(n) : id = Canon(g, s)
      BY <2>3, <3>1, <3>2
    <3>4. Near(table, s, n)
      BY <1>4
    <3>5. table[id].dmin <= n
      BY <3>3, <3>4 DEF Near
    <3>6. QED
      BY <1>2, <2>1, <3>1, <3>5
  <2>4. QED
    BY <2>2, <2>3
<1>6. QED
  BY <1>5 DEF Distances

\* A search that a budget stops leaves a spent checkpoint.
LEMMA ExhaustedIsSpent ==
  ASSUME FrontierInv, BudgetExhausted, queue # <<>>
  PROVE  Spent(Checkpoint)
<1>1. 1 \in DOMAIN queue
  BY DEF FrontierInv, TypeOK
<1>2. PICK id \in Ids : id \in QueuedIds
  BY <1>1 DEF FrontierInv, FrontierOwned, QueuedIds, Known
<1>3. QED
  BY <1>2 DEF Spent, Checkpoint, BudgetExhausted, Known, QueuedIds

\* The searches that count have been orderly from the start.
LEMMA OrderlyBefore ==
  ASSUME FrontierInv, SpentInv, [Next]_vars, Orderly'
  PROVE  Orderly /\ (StopAtLimit => stops = 0)
<1>1. g' = g /\ stops \in Nat /\ stops' \in Nat
  <2>1. FrontierInv'
    BY NextFrontier
  <2>2. QED
    BY <2>1, GrammarFixed DEF FrontierInv, TypeOK
<1>2. stops' = IF StopAtLimit THEN stops + 1 ELSE stops
  BY DEF Next, Engine, Start, AddState, EndExpansion, Pop, StopAtBudget, Finish, Save,
         StopAtLimit, Crash, Resume, Ended, vars
<1>3. Reduces(g)' <=> Reduces(g)
  BY <1>1 DEF Reduces
<1>4. stops = 0 \/ (stops = 1 /\ ~Reduces(g))
  BY <1>1, <1>2, <1>3 DEF Orderly
<1>5. StopAtLimit => stops = 0
  BY <1>1, <1>2 DEF Orderly
<1>6. ~(disk # Nil /\ Spent(disk))
  <2>1. CASE disk' = disk
    BY <1>1, <2>1 DEF Orderly, Spent
  <2>2. CASE Save
    <3>1. phase = "result" /\ (disk' = disk \/ disk' = Checkpoint)
      BY <2>2 DEF Save
    <3> SUFFICES ASSUME disk' = Checkpoint, disk # Nil, Spent(disk) PROVE FALSE
      BY <2>1, <3>1
    <3>2. Spent(Checkpoint)
      BY <3>1, ExhaustedIsSpent DEF SpentInv, SpentStaysSpent
    <3>3. Spent(disk)'
      BY <1>1, <3>2 DEF Spent
    <3>4. disk' # Nil
      <4>1. Checkpoint \in Checkpoints
        BY DEF FrontierInv, TypeOK, Checkpoint, Checkpoints
      <4>2. QED
        BY <4>1, NilAssumption
    <3>5. QED
      BY <3>3, <3>4 DEF Orderly
  <2>3. disk' = disk \/ Save
    BY DEF Next, Engine, Start, AddState, EndExpansion, Pop, StopAtBudget, Finish, Save,
           StopAtLimit, Crash, Resume, Ended, vars
  <2>4. QED
    BY <2>1, <2>2, <2>3
<1>7. QED
  BY <1>4, <1>5, <1>6 DEF Orderly

LEMMA SaveDepths ==
  ASSUME FrontierInv, CoverInv, Equivariant(g), Reduces(g) => Faithful(g), Save,
         Orderly, Orderly', DepthInv
  PROVE  DepthInv'
<1>1. /\ phase = "result" /\ UNCHANGED <<g, table, queue, cur, pending, complete, stops>>
      /\ phase' = IF complete THEN "done" ELSE "stopped"
      /\ disk' = IF SaveOnCompletion \/ ~complete THEN Checkpoint ELSE disk
      /\ complete \in BOOLEAN
  BY DEF Save, FrontierInv, TypeOK
<1>2. PICK P \in [Ids -> Paths] : MemoryDeep(P)
  BY <1>1 DEF DepthInv
<1>3. CASE complete
  <2>1. Distances
    BY <1>1, <1>2, <1>3, DrainedDistances
  <2>2. Distances'
    BY <1>1, <2>1, WithinFixed DEF Distances, Known
  <2>3. phase' = "done" /\ complete'
    BY <1>1, <1>3
  <2>4. QED
    BY <2>2, <2>3 DEF DepthInv
<1>4. CASE ~complete
  <2>1. disk' = Checkpoint /\ phase' = "stopped"
    BY <1>1, <1>4
  <2>2. Checkpoint # Nil
    <3>1. Checkpoint \in Checkpoints
      BY DEF FrontierInv, TypeOK, Checkpoint, Checkpoints
    <3>2. QED
      BY <3>1, NilAssumption
  <2>3. ~Spent(Checkpoint)
    BY <1>1, <2>1, <2>2 DEF Orderly, Spent
  <2>4. ~(BudgetExhausted /\ queue # <<>>)
    BY <2>3, ExhaustedIsSpent
  <2>5. ~(stops = 0 \/ disk # Nil)
    BY <1>1, <1>4, <2>4 DEF DepthInv
  <2>6. disk = Nil /\ stops = 1
    BY <2>5 DEF Orderly
  <2>7. DiskDeep'
    BY <1>1, <1>2, <2>1, <2>6, SaveDeep
  <2>8. MemoryDeep(P)'
    <3>1. Slack = 0 /\ Slack' = 1
      BY <2>1, <2>2, <2>6 DEF Slack
    <3>2. Slack <= Slack'
      BY <3>1
    <3>3. QED
      BY <1>1, <1>2, <2>1, <3>2, MemoryDeepStays
  <2>9. stops' = 1
    BY <1>1, <2>6
  <2>10. QED
    BY <2>1, <2>7, <2>8, <2>9 DEF DepthInv
<1>5. QED
  BY <1>3, <1>4

LEMMA ResumeDepths ==
  ASSUME FrontierInv, ReduceInv', Resume, Orderly, DepthInv
  PROVE  DepthInv'
<1>1. /\ disk # Nil /\ phase \in {"stopped", "crashed"} /\ UNCHANGED <<g, disk, stops>>
      /\ phase' \in {"loop", "failed"} /\ complete'
  BY DEF Resume, ClearMemory
<1>2. stops = 1 /\ DiskDeep /\ ~Reduces(g)
  BY <1>1 DEF DepthInv, Orderly
<1>3. DiskDeep'
  BY <1>1, <1>2, DiskDeepStays
<1>4. \E P \in [Ids -> Paths] : MemoryDeep(P)'
  <2>1. CASE phase' = "loop"
    <3>1. PICK Q \in [Ids -> Paths] : MemoryReduced(Q)'
      BY DEF ReduceInv
    <3>2. MemoryDeep(Q)'
      BY <1>2, <2>1, <3>1, ResumeDeep
    <3>3. QED
      BY <3>2
  <2>2. CASE phase' = "failed"
    <3>1. ClearMemory
      BY <2>2 DEF Resume
    <3>2. QED
      BY <1>1, <2>2, <3>1, ClearedDeep
  <2>3. QED
    BY <1>1, <2>1, <2>2
<1>5. phase' # "done" /\ stops' = 1
  BY <1>1, <1>2
<1>6. QED
  BY <1>1, <1>3, <1>4, <1>5 DEF DepthInv

\* Nothing but stops, saves and resumes touches what the deque's order hangs on.
LEMMA LoopDepths ==
  ASSUME FrontierInv, CoverInv, Reduces(g) => PathInv, Unconstrained(g), Equivariant(g),
         Start \/ AddState \/ EndExpansion \/ Pop \/ StopAtBudget \/ StopAtLimit \/ Finish,
         StopAtLimit => stops = 0, Orderly, DepthInv
  PROVE  DepthInv'
<1>1. /\ phase \notin {"done", "result", "stopped"} /\ UNCHANGED <<g, disk>>
      /\ phase' \in {"expanding", "loop", "result"}
  BY DEF Start, AddState, EndExpansion, Pop, StopAtBudget, StopAtLimit, Finish
<1>2. PICK P \in [Ids -> Paths] : MemoryDeep(P)
  BY <1>1 DEF DepthInv
<1>3. complete /\ (disk # Nil => stops = 1 /\ DiskDeep /\ ~Reduces(g))
  BY <1>1 DEF DepthInv, Orderly
<1>4. \E Q \in [Ids -> Paths] : MemoryDeep(Q)'
  <2>1. CASE Start
    BY <1>2, <2>1, StartDeep
  <2>2. CASE AddState
    BY <1>2, <1>3, <2>2, AddStateDeep
  <2>3. CASE EndExpansion
    BY <1>2, <2>3, EndExpansionDeep
  <2>4. CASE Pop
    BY <1>2, <2>4, PopDeep
  <2>5. CASE StopAtBudget \/ StopAtLimit \/ Finish
    <3>1. UNCHANGED <<g, table, queue, cur, pending>> /\ phase = "loop" /\ phase' = "result"
      BY <2>5 DEF StopAtBudget, StopAtLimit, Finish
    <3>2. Slack <= Slack'
      BY <1>1 DEF Slack
    <3>3. QED
      BY <1>2, <3>1, <3>2, MemoryDeepStays
  <2>6. QED
    BY <2>1, <2>2, <2>3, <2>4, <2>5
<1>5. disk' # Nil => stops' = 1 /\ DiskDeep'
  <2>1. disk # Nil => stops' = stops
    <3>1. stops' = stops \/ (StopAtLimit /\ stops = 0)
      BY DEF Start, AddState, EndExpansion, Pop, StopAtBudget, StopAtLimit, Finish
    <3>2. QED
      BY <1>3, <3>1
  <2>2. QED
    BY <1>1, <1>3, <2>1, DiskDeepStays
<1>6. ~complete' => phase' = "result" /\ ((stops' = 0 \/ disk' # Nil) => (BudgetExhausted /\ queue # <<>>)')
  <2>1. CASE StopAtBudget
    BY <2>1 DEF StopAtBudget, BudgetExhausted, Known
  <2>2. CASE StopAtLimit
    <3>1. stops' = 1 /\ disk' = Nil /\ phase' = "result"
      BY <1>3, <2>2 DEF StopAtLimit
    <3>2. QED
      BY <3>1
  <2>3. CASE Start \/ AddState \/ EndExpansion \/ Pop \/ Finish
    BY <1>3, <2>3 DEF Start, AddState, EndExpansion, Pop, Finish
  <2>4. QED
    BY <2>1, <2>2, <2>3
<1>7. QED
  BY <1>1, <1>4, <1>5, <1>6 DEF DepthInv

LEMMA NextDepths ==
  ASSUME FrontierInv, CoverInv, SpentInv, ReduceInv', Reduces(g) => PathInv /\ Faithful(g),
         Unconstrained(g), Equivariant(g), DepthInv, [Next]_vars
  PROVE  DepthInv'
<1> SUFFICES ASSUME Orderly' PROVE DepthInv'
  BY DEF DepthInv
<1>1. Orderly /\ (StopAtLimit => stops = 0)
  BY OrderlyBefore
<1>2. CASE Start \/ AddState \/ EndExpansion \/ Pop \/ StopAtBudget \/ StopAtLimit \/ Finish
  BY <1>1, <1>2, LoopDepths
<1>3. CASE Save
  BY <1>1, <1>3, SaveDepths
<1>4. CASE Resume
  BY <1>1, <1>4, ResumeDepths
<1>5. CASE Crash
  <2>1. /\ ClearMemory /\ UNCHANGED <<g, disk, stops>> /\ phase' = "crashed" /\ phase # "done"
        /\ complete'
    BY <1>5 DEF Crash, ClearMemory
  <2>2. \E P \in [Ids -> Paths] : MemoryDeep(P)'
    BY <2>1, ClearedDeep
  <2>3. disk # Nil => stops = 1 /\ DiskDeep
    BY <1>1, <2>1 DEF DepthInv
  <2>4. disk' # Nil => stops' = 1 /\ DiskDeep'
    BY <2>1, <2>3, DiskDeepStays
  <2>5. QED
    BY <2>1, <2>2, <2>4 DEF DepthInv
<1>6. CASE Ended \/ UNCHANGED vars
  <2>1. UNCHANGED <<g, phase, table, queue, cur, pending, complete, built, disk, stops>>
    BY <1>6 DEF Ended, vars
  <2>2. phase # "done" => \E P \in [Ids -> Paths] : MemoryDeep(P)'
    <3>1. Slack <= Slack'
      BY <2>1 DEF Slack
    <3>2. \A P \in [Ids -> Paths] : MemoryDeep(P) => MemoryDeep(P)'
      BY <2>1, <3>1, MemoryDeepStays
    <3>3. QED
      BY <1>1, <3>2 DEF DepthInv
  <2>3. phase # "done" /\ disk # Nil => stops = 1 /\ DiskDeep'
    BY <1>1, <2>1, DiskDeepStays DEF DepthInv
  <2>4. phase = "done" => Distances'
    <3>1. Distances => Distances'
      BY <2>1, WithinFixed DEF Distances, Known
    <3>2. QED
      BY <1>1, <3>1 DEF DepthInv
  <2>5. (BudgetExhausted /\ queue # <<>>)' <=> BudgetExhausted /\ queue # <<>>
    BY <2>1 DEF BudgetExhausted, Known
  <2>6. ~complete => /\ phase \in {"result", "stopped"}
                     /\ phase = "result" /\ (stops = 0 \/ disk # Nil) =>
                          BudgetExhausted /\ queue # <<>>
    BY <1>1 DEF DepthInv
  <2>7. QED
    BY <2>1, <2>2, <2>3, <2>4, <2>5, <2>6 DEF DepthInv
<1>7. QED
  BY <1>2, <1>3, <1>4, <1>5, <1>6 DEF Next, Engine

LEMMA DepthInvariant == Spec => [](Unconstrained(g) /\ Lossless(g) => DepthInv)
<1>1. Init => DepthInv
  <2> SUFFICES ASSUME Init PROVE DepthInv
    OBVIOUS
  <2> DEFINE P == [id \in Ids |-> <<>>]
  <2>1. P \in [Ids -> Paths]
    BY DEF Paths
  <2>2. /\ InHand = {} /\ cur = Nil /\ disk = Nil /\ Grown = {} /\ Expanded(table) = {}
        /\ queue = <<>> /\ phase = "idle" /\ complete /\ \A id \in Ids : table[id] = Nil
    BY DEF Init, InHand, Elements, Grown, Expanded, EmptyTable
  <2> HIDE DEF P
  <2>3. MemoryReduced(P)
    BY <2>2 DEF MemoryReduced, Covered, CurCovered, Descended, Tree
  <2>4. MemoryDeep(P)
    BY <2>2, <2>3 DEF MemoryDeep, DepthsReached, NearRoots, Seeded, PendingSteps, BreadthFirst,
                      NearCovered, CurNear, Lengths
  <2>5. QED
    BY <2>1, <2>2, <2>4 DEF DepthInv
<1>2. ASSUME FrontierInv, CoverInv, SpentInv, Distinct(g) => PathInv,
             (Unconstrained(g) /\ Lossless(g) => ReduceInv)',
             Unconstrained(g) /\ Lossless(g) => DepthInv,
             [Next]_vars, (Unconstrained(g) /\ Lossless(g))'
      PROVE  DepthInv'
  <2>1. g' = g
    BY <1>2, GrammarFixed
  <2>2. Unconstrained(g) /\ Lossless(g)
    BY <1>2, <2>1
  <2>3. Reduces(g) => PathInv /\ Faithful(g)
    BY <1>2, <2>2 DEF Lossless, Distinct
  <2>4. Equivariant(g)
    BY <2>2 DEF Lossless, Faithful, Equivariant
  <2>5. ReduceInv'
    BY <1>2
  <2>6. QED
    BY <1>2, <2>2, <2>3, <2>4, <2>5, NextDepths
<1>3. FrontierInv /\ CoverInv /\ SpentInv /\ (Distinct(g) => PathInv)
      /\ (Unconstrained(g) /\ Lossless(g) => ReduceInv)'
      /\ (Unconstrained(g) /\ Lossless(g) => DepthInv)
      /\ [Next]_vars => (Unconstrained(g) /\ Lossless(g) => DepthInv)'
  BY <1>2
<1>4. QED
  BY <1>1, <1>3, FrontierInvariant, CoverInvariant, SpentInvariant, PathInvariant,
     ReduceInvariant, PTL DEF Spec

\* In a complete search depth_minimum is the least number of actions that reaches
\* the record: without stops, and after one stop by a limit with POR off, for every
\* grammar, sibling order, choice of the cost gate and number of crashes.
THEOREM DepthsAreDistances ==
  ASSUME \A gr \in Grammars : Lossless(gr)
  PROVE  Spec => []DepthIsDistance
<1>1. ASSUME FrontierInv, SpentInv, Unconstrained(g) /\ Lossless(g) => DepthInv
      PROVE  DepthIsDistance
  <2> SUFFICES ASSUME phase = "done", complete, Unconstrained(g),
                      stops = 0 \/ (stops = 1 /\ ~Reduces(g))
               PROVE  Distances
    BY DEF DepthIsDistance, Distances
  <2>1. Lossless(g)
    BY <1>1 DEF FrontierInv, TypeOK
  <2>2. Orderly
    BY <1>1 DEF Orderly, SpentInv, SpentStaysSpent
  <2>3. QED
    BY <1>1, <2>1, <2>2 DEF DepthInv
<1>2. FrontierInv /\ SpentInv /\ (Unconstrained(g) /\ Lossless(g) => DepthInv) => DepthIsDistance
  BY <1>1
<1>3. QED
  BY <1>2, FrontierInvariant, SpentInvariant, DepthInvariant, PTL

-----------------------------------------------------------------------------
(***************************************************************************)
(* A run is finite: every step of a running search that is not its death   *)
(* lowers a natural number.  That is what RunEnds rests on.                *)
(***************************************************************************)
Running == {"loop", "expanding", "result"}

\* The identities a run may still take off the deque: those that have no record
\* and those whose record is queued and not in hand.
Unvisited ==
  {id \in Ids : table[id] = Nil} \cup (QueuedIds \ (IF cur = Nil THEN {} ELSE {cur.id}))

\* Taking one off costs no more steps than this: Pop, its children and EndExpansion.
StepsPerState == Cardinality(Actions) + 2

\* The steps to the end once no identity is left to take off
Remainder ==
  CASE phase = "expanding" -> Len(pending) + 3
    [] phase = "loop" -> 2
    [] phase = "result" -> 1
    [] OTHER -> 0

StepsLeft == Cardinality(Unvisited) * StepsPerState + Remainder

\* Every step of a running search lowers StepsLeft, or kills the process.
CountsDown == phase \in Running => StepsLeft' < StepsLeft \/ phase' = "crashed"

\* Fewer of a thing that costs k leaves at least one k over.
LEMMA CostOfOneLess ==
  ASSUME NEW m \in Nat, NEW n \in Nat, NEW k \in Nat, m < n
  PROVE  m * k \in Nat /\ n * k \in Nat /\ m * k + k <= n * k
<1>1. PICK d \in Nat : n = m + 1 + d
  <2>1. n - m - 1 \in Nat /\ n = m + 1 + (n - m - 1)
    OBVIOUS
  <2>2. QED
    BY <2>1
<1>2. n * k = m * k + k + d * k
  BY <1>1, SMT
<1>3. m * k \in Nat /\ d * k \in Nat /\ n * k \in Nat
  BY SMT
<1>4. QED
  BY <1>2, <1>3

\* Both parts of the measure are natural numbers.
LEMMA MeasureIsNatural ==
  ASSUME TypeOK
  PROVE  /\ IsFiniteSet(Unvisited)
         /\ Cardinality(Unvisited) \in Nat
         /\ Cardinality(Actions) \in Nat
         /\ StepsPerState \in Nat
         /\ Remainder \in Nat
         /\ StepsLeft \in Nat
<1>1. Unvisited \subseteq Ids
  BY DEF Unvisited, QueuedIds, Known
<1>2. IsFiniteSet(Unvisited) /\ Cardinality(Unvisited) \in Nat /\ Cardinality(Actions) \in Nat
  BY <1>1, GrammarAssumption, FS_Subset, FS_CardinalityType
<1>3. StepsPerState \in Nat
  BY <1>2 DEF StepsPerState
<1>4. Len(pending) \in Nat
  BY DEF TypeOK
<1>5. Remainder \in Nat
  BY <1>4 DEF Remainder
<1>6. Cardinality(Unvisited) * StepsPerState \in Nat
  <2>1. \A m, n \in Nat : m * n \in Nat
    BY SMT
  <2>2. QED
    BY <1>2, <1>3, <2>1
<1>7. QED
  BY <1>2, <1>3, <1>5, <1>6 DEF StepsLeft

\* add_state leaves the identities to visit as they are: a new record is queued,
\* a rediscovered one keeps its status.
LEMMA AddStateUnvisited ==
  ASSUME FrontierInv, AddState
  PROVE  Unvisited' = Unvisited
<1>1. PICK id : id = Canon(g, Head(pending).st)
  OBVIOUS
<1>2. /\ id \in Ids
      /\ DOMAIN table' = Ids
      /\ \A x \in Ids \ {id} : table'[x] = table[x]
      /\ table'[id] # Nil
      /\ table[id] = Nil => table'[id].status = "queued"
      /\ table[id] # Nil => table'[id].status = table[id].status
  BY <1>1, AddedRecord
<1>3. cur' = cur
  BY DEF AddState
<1>4. cur # Nil => table[cur.id] # Nil
  BY QueuedItemsKnown, NilAssumption
<1>5. ASSUME NEW x \in Ids
      PROVE  x \in Unvisited' <=> x \in Unvisited
  <2>1. CASE x # id
    <3>1. table'[x] = table[x]
      BY <1>2, <2>1
    <3>2. QED
      BY <1>3, <3>1 DEF Unvisited, QueuedIds, Known
  <2>2. CASE x = id
    BY <1>2, <1>3, <1>4, <2>2 DEF Unvisited, QueuedIds, Known
  <2>3. QED
    BY <2>1, <2>2
<1>6. Unvisited' \subseteq Ids /\ Unvisited \subseteq Ids
  BY DEF Unvisited, QueuedIds, Known
<1>7. QED
  BY <1>5, <1>6

LEMMA AddStateCounts ==
  ASSUME FrontierInv, FrontierInv', AddState
  PROVE  StepsLeft' < StepsLeft
<1>1. Unvisited' = Unvisited
  BY AddStateUnvisited
<1>2. pending \in Seq([act : Actions, st : States]) /\ pending # <<>> /\ pending' = Tail(pending)
      /\ phase = "expanding" /\ phase' = "expanding"
  BY DEF AddState, FrontierInv, TypeOK
<1>3. Len(pending') = Len(pending) - 1 /\ Len(pending) \in Nat
  BY <1>2
<1>4. Remainder' = Remainder - 1 /\ Remainder \in Nat
  BY <1>2, <1>3 DEF Remainder
<1>5. Cardinality(Unvisited) \in Nat /\ StepsPerState \in Nat
      /\ Cardinality(Unvisited) * StepsPerState \in Nat
  BY MeasureIsNatural, CostOfOneLess, SMT DEF FrontierInv
<1>6. StepsLeft' = Cardinality(Unvisited) * StepsPerState + (Remainder - 1)
  BY <1>1, <1>4 DEF StepsLeft, StepsPerState
<1>7. StepsLeft = Cardinality(Unvisited) * StepsPerState + Remainder
  BY DEF StepsLeft
<1>8. QED
  BY <1>4, <1>5, <1>6, <1>7

\* The record in hand was not to be visited any more, and becomes expanded.
LEMMA EndExpansionCounts ==
  ASSUME FrontierInv, FrontierInv', EndExpansion
  PROVE  StepsLeft' < StepsLeft
<1>1. phase = "expanding" /\ phase' = "loop" /\ cur' = Nil /\ pending = <<>>
  BY DEF EndExpansion
<1>2. Unvisited' = Unvisited
  <2>1. CASE cur = Nil
    BY <1>1, <2>1 DEF EndExpansion, Unvisited, QueuedIds, Known
  <2>2. CASE cur # Nil
    <3>1. cur \in WorkItems /\ cur.id \in Ids /\ table[cur.id] \in Records /\ TypeOK
          /\ "expanded" \in Statuses \ {"queued"}
      BY <2>2, QueuedItemsKnown DEF WorkItems, FrontierInv, Statuses
    <3>2. table' = [table EXCEPT ![cur.id] = WithStatus(@, "expanded")]
      BY <2>2 DEF EndExpansion
    <3>3. QueuedIds' = QueuedIds \ {cur.id}
      BY <3>1, <3>2, StatusChange
    <3>4. {id \in Ids : table'[id] = Nil} = {id \in Ids : table[id] = Nil}
      <4>1. WithStatus(table[cur.id], "expanded") # Nil /\ table[cur.id] # Nil
        BY <3>1, NilAssumption DEF WithStatus, Records, Statuses
      <4>2. table \in Tables
        BY <3>1 DEF TypeOK
      <4>3. QED
        BY <3>1, <3>2, <4>1, <4>2 DEF Tables
    <3>5. QED
      BY <1>1, <2>2, <3>3, <3>4 DEF Unvisited
  <2>3. QED
    BY <2>1, <2>2
<1>3. Remainder = 3 /\ Remainder' = 2
  BY <1>1 DEF Remainder
<1>4. Cardinality(Unvisited) \in Nat /\ StepsPerState \in Nat
      /\ Cardinality(Unvisited) * StepsPerState \in Nat
  BY MeasureIsNatural, CostOfOneLess, SMT DEF FrontierInv
<1>5. StepsLeft' = Cardinality(Unvisited) * StepsPerState + 2
      /\ StepsLeft = Cardinality(Unvisited) * StepsPerState + 3
  BY <1>2, <1>3 DEF StepsLeft, StepsPerState
<1>6. QED
  BY <1>4, <1>5

\* A ranking names no action twice, so there are at most as many children as
\* actions.
LEMMA ChildrenBounded ==
  ASSUME TypeOK, NEW work \in WorkItems, table[work.id] \in Records,
         NEW por, NEW order \in Ranked(ViableActions(work, por))
  PROVE  /\ Len([i \in DOMAIN order |->
                   [act |-> order[i], st |-> Apply(table[work.id].rep, order[i])]]) \in Nat
         /\ Len([i \in DOMAIN order |->
                   [act |-> order[i], st |-> Apply(table[work.id].rep, order[i])]])
              <= Cardinality(Actions)
<1> DEFINE S == ViableActions(work, por)
           kids == [i \in DOMAIN order |->
                      [act |-> order[i], st |-> Apply(table[work.id].rep, order[i])]]
<1>1. S \subseteq Actions
  <2>1. table[work.id].rep \in States
    BY DEF Records
  <2>2. QED
    BY <2>1, GrammarTypes DEF ViableActions, IsGrammar
<1>2. IsFiniteSet(S) /\ Cardinality(S) \in Nat /\ Cardinality(S) <= Cardinality(Actions)
  BY <1>1, GrammarAssumption, FS_Subset, FS_CardinalityType
<1>3. DOMAIN order = 1..Cardinality(S)
  BY DEF Ranked, Orderings
<1>4. DOMAIN kids = 1..Cardinality(S)
  BY <1>3
<1>5. kids \in Seq([act : Actions, st : States])
  BY RankedChildren
<1> HIDE DEF kids, S
<1>6. Len(kids) = Cardinality(S)
  BY <1>2, <1>4, <1>5
<1>7. Len(kids) \in Nat /\ Len(kids) <= Cardinality(Actions)
  BY <1>2, <1>6
<1>8. QED
  BY <1>7 DEF kids

\* An identity taken off the deque is never put on it again.
LEMMA PopUnvisited ==
  ASSUME FrontierInv, Pop
  PROVE  Head(queue).id \in Unvisited /\ Unvisited' = Unvisited \ {Head(queue).id}
<1> DEFINE id == Head(queue).id
<1>1. cur = Nil /\ queue # <<>> /\ TypeOK
  BY DEF FrontierInv, CurWhileExpanding, Pop
<1>2. Head(queue) \in WorkItems /\ id \in Ids /\ table[id] \in Records
      /\ table[id].status = "queued" /\ table[id] # Nil
  BY <1>1, HeadIsUnique, NilAssumption DEF WorkItems
<1>3. id \in QueuedIds
  BY <1>2 DEF QueuedIds, Known
<1>4. CASE table' = [table EXCEPT ![id] = WithStatus(@, "terminal")] /\ cur' = cur
  <2>1. QueuedIds' = QueuedIds \ {id}
    <3>1. "terminal" \in Statuses \ {"queued"}
      BY DEF Statuses
    <3>2. QED
      BY <1>1, <1>2, <1>4, <3>1, StatusChange
  <2>2. {x \in Ids : table'[x] = Nil} = {x \in Ids : table[x] = Nil}
    <3>1. WithStatus(table[id], "terminal") # Nil
      BY <1>2, NilAssumption DEF WithStatus, Records, Statuses
    <3>2. table \in Tables
      BY <1>1 DEF TypeOK
    <3>3. QED
      BY <1>2, <1>4, <3>1, <3>2 DEF Tables
  <2>3. id \notin {x \in Ids : table[x] = Nil}
    BY <1>2
  <2> HIDE DEF id
  <2>4. QED
    BY <1>1, <1>3, <1>4, <2>1, <2>2, <2>3 DEF Unvisited, id
<1>5. CASE UNCHANGED table /\ cur' = Head(queue)
  <2>1. cur' # Nil
    BY <1>2, <1>5, NilAssumption
  <2>2. QueuedIds' = QueuedIds /\ {x \in Ids : table'[x] = Nil} = {x \in Ids : table[x] = Nil}
    BY <1>5 DEF QueuedIds, Known
  <2>3. id \notin {x \in Ids : table[x] = Nil}
    BY <1>2
  <2>4. QED
    BY <1>1, <1>3, <1>5, <2>1, <2>2, <2>3 DEF Unvisited
<1>6. QED
  BY <1>2, <1>4, <1>5 DEF Pop

\* What the pop adds to the remainder is less than what the identity was counted for.
LEMMA PopCounts ==
  ASSUME FrontierInv, FrontierInv', Pop
  PROVE  StepsLeft' < StepsLeft
<1> DEFINE work == Head(queue)
<1>1. cur = Nil /\ queue # <<>> /\ phase = "loop" /\ TypeOK
  BY DEF FrontierInv, CurWhileExpanding, Pop
<1>2. work \in WorkItems /\ table[work.id] \in Records /\ table[work.id].status = "queued"
  BY <1>1, HeadIsUnique
<1>3. IsFiniteSet(Unvisited) /\ Cardinality(Unvisited) \in Nat /\ Cardinality(Actions) \in Nat
      /\ StepsPerState \in Nat /\ Remainder' \in Nat
  <2>1. TypeOK'
    BY DEF FrontierInv
  <2>2. Len(pending') \in Nat
    BY <2>1 DEF TypeOK
  <2>3. Remainder' \in Nat
    BY <2>2 DEF Remainder
  <2>4. QED
    BY <1>1, <2>3, MeasureIsNatural
<1>4. Cardinality(Unvisited') = Cardinality(Unvisited) - 1
  BY <1>3, PopUnvisited, FS_RemoveElement
<1>5. Remainder = 2
  BY <1>1 DEF Remainder
<1>6. Remainder' <= Cardinality(Actions) + 3
  <2>1. CASE phase' = phase
    BY <1>1, <1>3, <2>1 DEF Remainder
  <2>2. CASE phase' # phase
    <3>1. /\ phase' = "expanding"
          /\ \E por \in PorChoices(EnabledActions(g, table[work.id].rep)) :
             \E order \in Ranked(ViableActions(work, por)) :
               pending' = [i \in DOMAIN order |->
                             [act |-> order[i], st |-> Apply(table[work.id].rep, order[i])]]
      BY <2>2 DEF Pop
    <3>2. Len(pending') \in Nat /\ Len(pending') <= Cardinality(Actions)
      BY <1>1, <1>2, <3>1, ChildrenBounded
    <3>3. QED
      BY <1>3, <3>1, <3>2 DEF Remainder
  <2>3. QED
    BY <2>1, <2>2
<1>7. /\ Cardinality(Unvisited') * StepsPerState \in Nat
      /\ Cardinality(Unvisited) * StepsPerState \in Nat
      /\ Cardinality(Unvisited') * StepsPerState + StepsPerState
           <= Cardinality(Unvisited) * StepsPerState
  <2>1. Cardinality(Unvisited') \in Nat /\ Cardinality(Unvisited') < Cardinality(Unvisited)
    <3>1. IsFiniteSet(Unvisited')
      BY <1>3, PopUnvisited, FS_RemoveElement
    <3>2. Cardinality(Unvisited') \in Nat
      BY <3>1, FS_CardinalityType
    <3>3. QED
      BY <1>3, <1>4, <3>2
  <2>2. QED
    BY <1>3, <2>1, CostOfOneLess
<1>8. StepsPerState = Cardinality(Actions) + 2
  BY DEF StepsPerState
<1>9. StepsLeft = Cardinality(Unvisited) * StepsPerState + Remainder
      /\ StepsLeft' = Cardinality(Unvisited') * StepsPerState + Remainder'
  BY DEF StepsLeft, StepsPerState
<1>10. QED
  BY <1>3, <1>5, <1>6, <1>7, <1>8, <1>9

\* Leaving the loop and the save after it touch no record.
LEMMA LeaveCounts ==
  ASSUME FrontierInv, StopAtBudget \/ StopAtLimit \/ Finish \/ Save
  PROVE  StepsLeft' < StepsLeft
<1>1. UNCHANGED <<table, cur>>
  BY DEF StopAtBudget, StopAtLimit, Finish, Save
<1>2. Unvisited' = Unvisited
  BY <1>1 DEF Unvisited, QueuedIds, Known
<1>3. \/ Remainder = 2 /\ Remainder' = 1
      \/ Remainder = 1 /\ Remainder' = 0
  BY DEF Remainder, StopAtBudget, StopAtLimit, Finish, Save
<1>4. Cardinality(Unvisited) \in Nat /\ StepsPerState \in Nat
      /\ Cardinality(Unvisited) * StepsPerState \in Nat
  BY MeasureIsNatural, CostOfOneLess, SMT DEF FrontierInv
<1>5. StepsLeft' = Cardinality(Unvisited) * StepsPerState + Remainder'
      /\ StepsLeft = Cardinality(Unvisited) * StepsPerState + Remainder
  BY <1>2 DEF StepsLeft, StepsPerState
<1>6. QED
  BY <1>3, <1>4, <1>5

\* From any point of a run at most StepsLeft of its steps are left, whatever the
\* grammar, the orders, the cost gate and the limits do: no cycle of a grammar
\* and no chain of reductions keeps the loop going.  With the deadlock check of
\* the run this is why RunEnds holds.
THEOREM RunsAreFinite == Spec => [](StepsLeft \in Nat) /\ [][CountsDown]_vars
<1>1. ASSUME FrontierInv, FrontierInv', Next
      PROVE  CountsDown
  <2> SUFFICES ASSUME phase \in Running, phase' # "crashed"
               PROVE  StepsLeft' < StepsLeft
    BY DEF CountsDown
  <2>1. \/ AddState \/ EndExpansion \/ Pop
        \/ StopAtBudget \/ StopAtLimit \/ Finish \/ Save
    BY <1>1 DEF Next, Engine, Running, Start, Resume, Crash, Ended
  <2>2. QED
    BY <1>1, <2>1, AddStateCounts, EndExpansionCounts, PopCounts, LeaveCounts
<1>2. FrontierInv /\ FrontierInv' /\ [Next]_vars => [CountsDown]_vars
  BY <1>1
<1>3. FrontierInv => StepsLeft \in Nat
  BY MeasureIsNatural DEF FrontierInv
<1>4. QED
  BY <1>2, <1>3, FrontierInvariant, PTL DEF Spec

=============================================================================
